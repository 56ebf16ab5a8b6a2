------------------------------- MODULE Locks --------------------------------
(***************************************************************************)
(* The edit locks of one pack (routes/locks.ts, models/atelierLock.ts, and *)
(* releaseLocksFor and sweepExpiredLocks of ws/collab.ts).  A lock is a    *)
(* document per entity; a request stamps the time, then talks to the       *)
(* database and to the pack's room in separate steps, so requests, a       *)
(* device leaving the room, the expiry sweep and the TTL index interleave. *)
(*                                                                         *)
(* Users who may edit are assumed authorised.  A device is in the room as  *)
(* long as one of its sockets is; leaving is its last socket leaving.      *)
(***************************************************************************)
EXTENDS Naturals, FiniteSets

CONSTANTS
    Entries,    \* entity ids
    Devices,    \* devices that send requests
    UserOf,     \* the user of each device
    Requests,   \* requests that may be in flight at once
    Ops,        \* the kinds of requests that are sent
    LockTTL,    \* life of a lock after its last extension (LOCK_TTL_MS)
    None,       \* no lock
    MaxTime,    \* bound of the clock
    MaxServed,  \* bound of the requests that are sent
    MaxLeaves,  \* bound of the devices' departures
    MaxSeats    \* bound of the devices in the room at once

Users == {UserOf[d] : d \in Devices}
Expiry == 0 .. MaxTime + LockTTL

(* acquiredAt and the name are only shown to clients.                      *)
Lock == [user : Users, device : Devices, expires : Expiry]

ASSUME LocksAssumption ==
    /\ Devices = DOMAIN UserOf /\ None \notin Lock
    /\ Ops \subseteq {"acquire", "heartbeat", "delete", "force"}
    /\ LockTTL \in Nat \ {0} /\ MaxTime \in Nat /\ MaxServed \in Nat /\ MaxLeaves \in Nat
    /\ MaxSeats \in Nat

VARIABLES
    clock,      \* the server's time
    locks,      \* atelierLocks: entity -> document or None
    seats,      \* devices with a socket in the pack's room
    req,        \* the requests in flight
    leaver,     \* releaseLocksFor, per device
    sweep,      \* sweepExpiredLocks
    said,       \* the last lock message the room was sent, per entity and user
    served, departures,   \* requests and departures so far
    hold,       \* history: expiry of the last grant a device has not given up
    shaky,      \* history: grants made while the device's departure is handled
    crossed     \* history: (entity, user) whose last messages may be out of order

vars == <<clock, locks, seats, req, leaver, sweep, said, served, departures, hold, shaky, crossed>>
server == <<clock, served, departures>>
history == <<hold, shaky>>

NoRequest == [pc |-> "idle"]

Active(l, t) == l # None /\ l.expires > t

(***************************************************************************)
(* Messages to the room.  A message is sent after its write has been       *)
(* answered; "owed" are the writes whose message is still to come.         *)
(***************************************************************************)
AcquiredOwed(r, e, u) == req[r].pc = "acquired" /\ req[r].e = e /\ req[r].lock.user = u

GoneOwed(e, u) ==
    \/ \E r \in Requests : req[r].pc = "released" /\ req[r].e = e /\ req[r].lock.user = u
    \/ \E d \in Devices : leaver[d].pc = "tell" /\ e \in leaver[d].held /\ UserOf[d] = u
    \/ sweep.pc = "tell" /\ sweep.e = e /\ sweep.lock.user = u

Owed(e, u) == GoneOwed(e, u) \/ \E r \in Requests : AcquiredOwed(r, e, u)

Crossing(touched, silent) ==
    crossed' = (crossed \ {t \in touched : ~Owed(t[1], t[2])})
                    \cup {t \in touched : Owed(t[1], t[2])} \cup silent

(* The expiry matters to the listeners of "acquired" only.                 *)
Gone(event) == [event |-> event, expires |-> 0]

Say(e, l, event) ==
    said' = [said EXCEPT ![e][l.user] =
                IF event = "acquired" THEN [event |-> event, expires |-> l.expires] ELSE Gone(event)]

Init ==
    /\ clock = 0
    /\ locks = [e \in Entries |-> None]
    /\ seats = {}
    /\ req = [r \in Requests |-> NoRequest]
    /\ leaver = [d \in Devices |-> [pc |-> "idle", held |-> {}]]
    /\ sweep = [pc |-> "idle"]
    /\ said = [e \in Entries |-> [u \in Users |-> Gone("none")]]
    /\ served = 0 /\ departures = 0
    /\ hold = [e \in Entries |-> [d \in Devices |-> 0]]
    /\ shaky = {}
    /\ crossed = {}

-----------------------------------------------------------------------------
(***************************************************************************)
(* Requests.                                                               *)
(***************************************************************************)
GiveUp(ds, es) ==
    hold' = [e \in Entries |-> [d \in Devices |-> IF d \in ds /\ e \in es THEN 0 ELSE hold[e][d]]]

Request(op, d, e) ==
    IF op \in {"acquire", "heartbeat"}
    THEN [pc |-> op, d |-> d, e |-> e, at |-> clock, attempt |-> 1]
    ELSE [pc |-> op, d |-> d, e |-> e]

(* A request arrives and reads the clock before its first database call.   *)
Arrive(r, op, d, e) ==
    /\ req[r].pc = "idle"
    /\ served < MaxServed /\ served' = served + 1
    /\ req' = [req EXCEPT ![r] = Request(op, d, e)]
    /\ UNCHANGED <<clock, locks, seats, leaver, sweep, said, departures, history, crossed>>

(* The request goes on to pc with the lock it was granted or has read.     *)
GoOn(r, pc, l) == req' = [req EXCEPT ![r] = [pc |-> pc, d |-> req[r].d, e |-> req[r].e, lock |-> l]]

Answered(r) == req' = [req EXCEPT ![r] = NoRequest]

(* Some DELETE is about to remove exactly this version of the lock: the    *)
(* entity was locked again with the same expiry, in the same millisecond.  *)
SameVersionDoomed(e, l) ==
    \E r \in Requests : /\ req[r].pc = "remove" /\ req[r].e = e
                        /\ req[r].lock.user = l.user /\ req[r].lock.expires = l.expires

(* The grant of lock l on e; the user's other devices lose theirs.         *)
Grant(e, l) ==
    /\ locks' = [locks EXCEPT ![e] = l]
    /\ hold' = [hold EXCEPT ![e] = [d \in Devices |->
                    IF d = l.device THEN (IF SameVersionDoomed(e, l) THEN 0 ELSE l.expires)
                    ELSE IF UserOf[d] = l.user THEN 0 ELSE hold[e][d]]]
    /\ shaky' = IF leaver[l.device].pc # "idle" THEN shaky \cup {<<e, l.device>>}
                                                ELSE shaky \ {<<e, l.device>>}

\* Mutant: taking a lock over leaves the device of the former holder.
TakenKeepsDevice(r) ==
    [user |-> UserOf[req[r].d], expires |-> req[r].at + LockTTL,
     device |-> IF locks[req[r].e] = None THEN req[r].d ELSE locks[req[r].e].device]

Taken(r) == [user |-> UserOf[req[r].d], device |-> req[r].d, expires |-> req[r].at + LockTTL]

Acquirable(l, u, at) == l # None /\ (l.user = u \/ l.expires <= at)

(* findOneAndUpdate: the document is updated when the filter matches it ... *)
Acquire(r) ==
    /\ req[r].pc = "acquire"
    /\ LET e == req[r].e  new == Taken(r) IN
       \/ /\ Acquirable(locks[e], new.user, req[r].at)
          /\ Grant(e, new)
          /\ GoOn(r, "acquired", new)
          /\ Crossing({<<e, new.user>>}, {})
       \/ /\ ~Acquirable(locks[e], new.user, req[r].at)
          /\ req' = [req EXCEPT ![r].pc = "insert"]
          /\ UNCHANGED <<locks, history, crossed>>
    /\ UNCHANGED <<server, seats, leaver, sweep, said>>

(* ... and inserted otherwise, unless there is one (duplicate key).        *)
Insert(r) ==
    /\ req[r].pc = "insert"
    /\ LET e == req[r].e  new == Taken(r) IN
       \/ /\ locks[e] = None
          /\ Grant(e, new)
          /\ GoOn(r, "acquired", new)
          /\ Crossing({<<e, new.user>>}, {})
       \/ /\ locks[e] # None
          /\ req' = [req EXCEPT ![r].pc = "holder"]
          /\ UNCHANGED <<locks, history, crossed>>
    /\ UNCHANGED <<server, seats, leaver, sweep, said>>

(* The loser reads the holder: answer "locked", or one more attempt.       *)
Holder(r) ==
    /\ req[r].pc = "holder"
    /\ LET l == locks[req[r].e] IN
       IF \/ Active(l, clock) /\ l.user # UserOf[req[r].d]
          \/ req[r].attempt = 2
       THEN Answered(r)
       ELSE req' = [req EXCEPT ![r].pc = "acquire", ![r].attempt = 2, ![r].at = clock]
    /\ UNCHANGED <<server, locks, seats, leaver, sweep, said, history, crossed>>

(* The answer to a grant: broadcast "acquired".                            *)
Acquired(r) ==
    /\ req[r].pc = "acquired"
    /\ Say(req[r].e, req[r].lock, "acquired")
    /\ Answered(r)
    /\ UNCHANGED <<server, locks, seats, leaver, sweep, history, crossed>>

Extendable(l, d, at) == l # None /\ l.user = UserOf[d] /\ l.device = d /\ l.expires > at

(* Only the holding device extends a live lock; nothing is broadcast.  A   *)
(* heartbeat stamped before a later acquire shortens what that one got.    *)
Heartbeat(r) ==
    /\ req[r].pc = "heartbeat"
    /\ LET e == req[r].e  l == locks[req[r].e]  until == req[r].at + LockTTL IN
       IF Extendable(l, req[r].d, req[r].at)
       THEN /\ Grant(e, [l EXCEPT !.expires = until])
            /\ crossed' = crossed \cup {t \in {<<e, l.user>>} : until < l.expires}
       ELSE UNCHANGED <<locks, history, crossed>>
    /\ Answered(r)
    /\ UNCHANGED <<server, seats, leaver, sweep, said>>

(* DELETE looks the lock up: nothing to do, someone else's lock (409       *)
(* without force), an expired leftover, or a lock to remove, whose grant   *)
(* ends here.                                                              *)
LookUp(r) ==
    /\ req[r].pc \in {"delete", "force"}
    /\ LET l == locks[req[r].e] IN
       \/ /\ l = None \/ (Active(l, clock) /\ l.user # UserOf[req[r].d] /\ req[r].pc # "force")
          /\ Answered(r)
          /\ UNCHANGED hold
       \/ /\ l # None /\ ~Active(l, clock)
          /\ GoOn(r, "clean", l)
          /\ UNCHANGED hold
       \/ /\ Active(l, clock) /\ (l.user = UserOf[req[r].d] \/ req[r].pc = "force")
          /\ GoOn(r, "remove", l)
          /\ GiveUp({d \in Devices : UserOf[d] = l.user}, {req[r].e})
    /\ UNCHANGED <<server, locks, seats, leaver, sweep, said, shaky, crossed>>

(* The guards of the two deleteOne calls of DELETE.                        *)
StillExpired(r) == locks[req[r].e] # None /\ locks[req[r].e].expires = req[r].lock.expires

\* Mutant: the expiry is not compared.
StillHolder(r) == locks[req[r].e] # None /\ locks[req[r].e].user = req[r].lock.user

StillTheSame(r) == StillExpired(r) /\ locks[req[r].e].user = req[r].lock.user

CleanUp(r) ==
    /\ req[r].pc = "clean"
    /\ IF StillExpired(r) THEN locks' = [locks EXCEPT ![req[r].e] = None] ELSE UNCHANGED locks
    /\ Answered(r)
    /\ UNCHANGED <<server, seats, leaver, sweep, said, history, crossed>>

Remove(r) ==
    /\ req[r].pc = "remove"
    /\ StillTheSame(r)
    /\ locks' = [locks EXCEPT ![req[r].e] = None]
    /\ req' = [req EXCEPT ![r].pc = "released"]
    /\ Crossing({<<req[r].e, req[r].lock.user>>}, {})
    /\ UNCHANGED <<server, seats, leaver, sweep, said, history>>

(* deletedCount is 0: "raced away", answered ok.                           *)
RemoveMissed(r) ==
    /\ req[r].pc = "remove"
    /\ ~StillTheSame(r)
    /\ Answered(r)
    /\ UNCHANGED <<server, locks, seats, leaver, sweep, said, history, crossed>>

Released(r) ==
    /\ req[r].pc = "released"
    /\ Say(req[r].e, req[r].lock, IF req[r].lock.user = UserOf[req[r].d] THEN "released" ELSE "broken")
    /\ Answered(r)
    /\ UNCHANGED <<server, locks, seats, leaver, sweep, history, crossed>>

-----------------------------------------------------------------------------
(***************************************************************************)
(* The room: a device's last socket leaves, and its locks are released.    *)
(***************************************************************************)
Join(d) ==
    /\ d \notin seats /\ Cardinality(seats) < MaxSeats
    /\ seats' = seats \cup {d}
    /\ UNCHANGED <<server, locks, req, leaver, sweep, said, history, crossed>>

Leave(d) ==
    /\ d \in seats /\ leaver[d].pc = "idle"
    /\ departures < MaxLeaves /\ departures' = departures + 1
    /\ seats' = seats \ {d}
    /\ leaver' = [leaver EXCEPT ![d].pc = "find"]
    /\ GiveUp({d}, Entries)
    /\ UNCHANGED <<clock, served, locks, req, sweep, said, shaky, crossed>>

Standing(e, u) == locks[e] # None /\ locks[e].user = u

LocksOf(d) == {e \in Entries : Standing(e, UserOf[d]) /\ locks[e].device = d}

FindHeld(d) ==
    /\ leaver[d].pc = "find"
    /\ leaver' = [leaver EXCEPT ![d] =
                    IF LocksOf(d) = {} THEN [pc |-> "idle", held |-> {}]
                    ELSE [pc |-> "delete", held |-> LocksOf(d)]]
    /\ UNCHANGED <<server, locks, seats, req, sweep, said, history, crossed>>

(* deleteMany takes what the device holds now; the room is told what was   *)
(* found before, also of a lock the user took with another device since.   *)
DeleteMany(d) ==
    /\ leaver[d].pc = "delete"
    /\ locks' = [e \in Entries |-> IF e \in LocksOf(d) THEN None ELSE locks[e]]
    /\ leaver' = [leaver EXCEPT ![d].pc = "tell"]
    /\ LET u == UserOf[d]
           held == leaver[d].held
           moved == {e \in held \ LocksOf(d) : Standing(e, u)} IN
       Crossing({<<e, u>> : e \in held}, {<<e, u>> : e \in (LocksOf(d) \ held) \cup moved})
    /\ UNCHANGED <<server, seats, req, sweep, said, history>>

TellReleased(d) ==
    /\ leaver[d].pc = "tell"
    /\ said' = [e \in Entries |-> IF e \in leaver[d].held THEN [said[e] EXCEPT ![UserOf[d]] = Gone("released")]
                                               ELSE said[e]]
    /\ leaver' = [leaver EXCEPT ![d] = [pc |-> "idle", held |-> {}]]
    /\ UNCHANGED <<server, locks, seats, req, sweep, history, crossed>>

-----------------------------------------------------------------------------
(***************************************************************************)
(* Time, the expiry sweep of rooms with sockets, and the TTL index.        *)
(***************************************************************************)
Tick ==
    /\ clock < MaxTime
    /\ clock' = clock + 1
    /\ UNCHANGED <<locks, seats, req, leaver, sweep, said, served, departures, history, crossed>>

SweepFind ==
    /\ sweep.pc = "idle" /\ seats # {}
    /\ LET expired == {e \in Entries : locks[e] # None /\ locks[e].expires <= clock} IN
       /\ expired # {}
       /\ sweep' = [pc |-> "delete", at |-> clock,
                    todo |-> {[e |-> e, lock |-> locks[e]] : e \in expired}]
    /\ UNCHANGED <<server, locks, seats, req, leaver, said, history, crossed>>

SweepEntry(rest) == IF rest = {} THEN [pc |-> "idle"]
                                 ELSE [pc |-> "delete", at |-> sweep.at, todo |-> rest]

\* Mutant: the guard is missing.
StillThere(e, at) == locks[e] # None /\ at \in Expiry

(* The guard of the sweep's deleteOne: whoever holds it, it has expired.   *)
Lapsed(e, at) == locks[e] # None /\ locks[e].expires <= at

SweepDelete ==
    /\ sweep.pc = "delete"
    /\ \E x \in sweep.todo :
         \/ /\ Lapsed(x.e, sweep.at)
            /\ locks' = [locks EXCEPT ![x.e] = None]
            /\ sweep' = [pc |-> "tell", at |-> sweep.at, todo |-> sweep.todo \ {x},
                         e |-> x.e, lock |-> x.lock]
            /\ Crossing({<<x.e, x.lock.user>>}, {})
         \/ /\ ~Lapsed(x.e, sweep.at)
            /\ sweep' = SweepEntry(sweep.todo \ {x})
            /\ UNCHANGED <<locks, crossed>>
    /\ UNCHANGED <<server, seats, req, leaver, said, history>>

SweepTell ==
    /\ sweep.pc = "tell"
    /\ Say(sweep.e, sweep.lock, "expired")
    /\ sweep' = SweepEntry(sweep.todo)
    /\ UNCHANGED <<server, locks, seats, req, leaver, history, crossed>>

Ttl(e) ==
    /\ locks[e] # None /\ locks[e].expires <= clock
    /\ locks' = [locks EXCEPT ![e] = None]
    /\ UNCHANGED <<server, seats, req, leaver, sweep, said, history, crossed>>

RequestStep(r) ==
    \/ Acquire(r) \/ Insert(r) \/ Holder(r) \/ Acquired(r)
    \/ Heartbeat(r)
    \/ LookUp(r) \/ CleanUp(r) \/ Remove(r) \/ RemoveMissed(r) \/ Released(r)

RoomStep(d) == FindHeld(d) \/ DeleteMany(d) \/ TellReleased(d)

Sweep == SweepFind \/ SweepDelete \/ SweepTell

Next ==
    \/ \E r \in Requests, op \in Ops, d \in Devices, e \in Entries : Arrive(r, op, d, e)
    \/ \E r \in Requests : RequestStep(r)
    \/ \E d \in Devices : Join(d) \/ Leave(d) \/ RoomStep(d)
    \/ Sweep
    \/ Tick
    \/ \E e \in Entries : Ttl(e)

Spec == Init /\ [][Next]_vars

-----------------------------------------------------------------------------
(***************************************************************************)
(* Properties.                                                             *)
(***************************************************************************)

Working == [pc : {"acquire", "insert", "holder", "heartbeat"}, d : Devices, e : Entries,
            at : 0 .. MaxTime, attempt : 1 .. 2]
Deleting == [pc : {"delete", "force"}, d : Devices, e : Entries]
Having == [pc : {"clean", "remove", "acquired", "released"}, d : Devices, e : Entries, lock : Lock]

Found == [e : Entries, lock : Lock]
Sweeping == [pc : {"delete"}, at : 0 .. MaxTime, todo : SUBSET Found]
Telling == [pc : {"tell"}, at : 0 .. MaxTime, todo : SUBSET Found, e : Entries, lock : Lock]

Message == [event : {"none", "acquired", "released", "broken", "expired"}, expires : Expiry]

(* The variables have their types, and a lock names its device's user.     *)
TypeOK ==
    /\ clock \in 0 .. MaxTime
    /\ locks \in [Entries -> Lock \cup {None}]
    /\ \A e \in Entries : locks[e] # None => locks[e].user = UserOf[locks[e].device]
    /\ seats \subseteq Devices
    /\ req \in [Requests -> {NoRequest} \cup Working \cup Deleting \cup Having]
    /\ leaver \in [Devices -> [pc : {"idle", "find", "delete", "tell"}, held : SUBSET Entries]]
    /\ sweep \in {[pc |-> "idle"]} \cup Sweeping \cup Telling
    /\ said \in [Entries -> [Users -> Message]]
    /\ served \in 0 .. MaxServed /\ departures \in 0 .. MaxLeaves
    /\ hold \in [Entries -> [Devices -> Expiry]]
    /\ shaky \subseteq Entries \X Devices /\ crossed \subseteq Entries \X Users

Kept(e, d) == locks[e] # None /\ locks[e].device = d /\ locks[e].expires >= hold[e][d]

(* A granted lock stays with its device until it expires, unless a DELETE  *)
(* of the user or a forced one has found that grant, the user takes it     *)
(* with another device, or the device leaves the room -- whatever          *)
(* acquirers, heartbeats, DELETEs of an older grant, the sweep and TTL do  *)
(* (locks.ts 62-116, 157-175; collab.ts 329-334).  Hence two devices are   *)
(* never granted one entity at a time.  Excepted are the grants made while *)
(* the same device's departure is still being handled.                     *)
GrantsKept ==
    \A e \in Entries, d \in Devices :
        hold[e][d] > clock /\ <<e, d>> \notin shaky => Kept(e, d)

(* Once no message is owed, the last message about an entity and a user is *)
(* right: an active lock was announced, and a lock that was announced and  *)
(* would not have expired yet is there.  Excepted are messages that        *)
(* crossed: two writes about one entity and user before either was         *)
(* announced, a lock deleted by a departure that had not found it, one     *)
(* found by a departure that the user took with another device before the  *)
(* deletion, or one shortened by a heartbeat that was stamped earlier.     *)
LastWord ==
    \A e \in Entries, u \in Users :
        \/ Owed(e, u) \/ <<e, u>> \in crossed
        \/ LET held == Standing(e, u) /\ locks[e].expires > clock
               shown == said[e][u].event = "acquired"
           IN /\ held => shown
              /\ shown /\ said[e][u].expires > clock => held

-----------------------------------------------------------------------------
(***************************************************************************)
(* The inductive invariant.                                                *)
(***************************************************************************)

(* Time is stamped before it passes; what is cleaned up has expired.       *)
Stamped ==
    /\ \A r \in Requests :
          /\ req[r].pc \in {"acquire", "insert", "holder", "heartbeat"} => req[r].at <= clock
          /\ req[r].pc = "clean" => req[r].lock.expires <= clock
    /\ sweep.pc # "idle" => sweep.at <= clock

(* A DELETE that has found a lock removes no grant that was not given up.  *)
DoomedGivenUp ==
    \A r \in Requests :
        req[r].pc = "remove" /\ StillTheSame(r) =>
            \A d \in Devices : UserOf[d] = req[r].lock.user => hold[req[r].e][d] = 0

(* A device whose departure may still delete has no steady grant.          *)
DepartingGivenUp ==
    \A d \in Devices, e \in Entries :
        leaver[d].pc \in {"find", "delete"} => hold[e][d] = 0 \/ <<e, d>> \in shaky

(* The message "acquired" until x is right when it comes.                  *)
Backed(e, u, x) == x > clock => Standing(e, u) /\ locks[e].expires >= x

(* Unless messages crossed, every one that is owed is right when it comes, *)
(* and so is the last one once none is owed.                               *)
SaidRight(e, u) ==
    /\ Standing(e, u) => said[e][u].event = "acquired"
    /\ said[e][u].event = "acquired" => Backed(e, u, said[e][u].expires)

Right(e, u) ==
    /\ \A r \in Requests : AcquiredOwed(r, e, u) => Backed(e, u, req[r].lock.expires)
    /\ GoneOwed(e, u) => ~Standing(e, u)
    /\ Owed(e, u) \/ SaidRight(e, u)

MessagesRight == \A e \in Entries, u \in Users : <<e, u>> \in crossed \/ Right(e, u)

(* The inductive invariant, checked by TLC and proved in LocksProofs.      *)
IInv ==
    /\ TypeOK /\ Stamped
    /\ DoomedGivenUp /\ DepartingGivenUp /\ GrantsKept
    /\ MessagesRight
=============================================================================
