------------------------------- MODULE Rooms --------------------------------
(***************************************************************************)
(* The collaboration rooms of one server process (ws/collab.ts): sockets   *)
(* join, leave and close, users are locked and members removed by requests *)
(* that kick their sockets, and a periodic sweep revalidates the rooms.    *)
(* Every message of a socket starts a handler that nobody waits for, so    *)
(* several joins of one socket, its close, kicks and the sweep interleave  *)
(* at each await.  Workspace commits are there to say what a room hears.   *)
(*                                                                         *)
(* Every socket has a device of its own, hence leaving a room always waits *)
(* for the release of the device's locks, which module Locks models.       *)
(***************************************************************************)
EXTENDS Naturals, FiniteSets

CONSTANTS
    Packs, Users, Sockets,
    UserOf,      \* the user a socket authenticated as
    Handlers,    \* join messages being handled at once
    None,        \* no room
    MaxJoins,    \* bound of the join messages
    Edited,      \* packs whose workspace is edited
    MaxRevocations, \* bound of the locks, removals and archivings
    MaxVersion   \* bound of the workspace versions

ASSUME RoomsAssumption ==
    /\ UserOf \in [Sockets -> Users]
    /\ None \notin Packs \cup Sockets \cup 0 .. MaxVersion /\ Edited \subseteq Packs
    /\ MaxJoins \in Nat /\ MaxRevocations \in Nat /\ MaxVersion \in Nat

VARIABLES
    room,       \* rooms: pack -> sockets
    seat,       \* ws.data.packId
    stale,      \* packs whose Set of sockets was emptied, and dropped, during the sweep
    open,       \* connected sockets
    approved,   \* users with status "approved"
    live,       \* packs that are not archived
    join,       \* the handlers of join messages
    kicker,     \* the request that locks a user or removes a member
    sweep,      \* revalidateRoomMembers
    version,    \* workspace version of a pack
    owed,       \* versions committed and not broadcast yet
    told,       \* the version in the last "joined" message about the socket's room
    heard,      \* versions of its seat's pack broadcast to a socket since it took it
    joins, revocations,
    slipped,    \* history: sockets with a join in flight when they closed or sent another one
    late,       \* history: sockets whose join was past the user check when their user was locked
    revoked     \* history: locked users whose lock request has been answered

doors == <<room, seat, stale, told, heard>>
people == <<approved, live>>
news == <<version, owed>>
history == <<slipped, late, revoked>>
vars == <<doors, open, people, join, kicker, sweep, news, joins, revocations, history>>

Idle == [pc |-> "idle"]
Kick(pc, u, packs) == [pc |-> pc, user |-> u, todo |-> packs, here |-> {}, closing |-> None]
NoKick == Kick("idle", None, {})
NoSweep == [pc |-> "idle", todo |-> {}, here |-> {}, packLive |-> TRUE,
            read |-> {}, ok |-> {}, closing |-> None,
            locked |-> {},   \* history: sockets whose user has been locked since it started
            dead |-> {}]     \* history: sockets in rooms of packs archived when it started

Init ==
    /\ room = [p \in Packs |-> {}]
    /\ seat = [s \in Sockets |-> None] /\ stale = {}
    /\ open = Sockets
    /\ approved = Users /\ live = Packs
    /\ join = [h \in Handlers |-> Idle]
    /\ kicker = NoKick /\ sweep = NoSweep
    /\ version = [p \in Packs |-> 0] /\ owed = [p \in Packs |-> {}]
    /\ told = [s \in Sockets |-> None] /\ heard = [s \in Sockets |-> {}]
    /\ joins = 0 /\ revocations = 0
    /\ slipped = {} /\ late = {} /\ revoked = {}

(* leaveRoom up to its await: the socket is taken out of the room of its   *)
(* seat, if it has one.  An emptied Set is dropped from the map; a sweep   *)
(* that has it on its list looks at the dropped one.                       *)
TakeOut(s) ==
    /\ room' = [p \in Packs |-> IF p = seat[s] THEN room[p] \ {s} ELSE room[p]]
    /\ stale' = IF sweep.pc = "idle" THEN {} ELSE stale \cup {p \in Packs : p = seat[s] /\ room[p] \subseteq {s}}

\* Mutant: ws.data.packId keeps its value.
LeaveKeepsSeat(s) == TakeOut(s) /\ UNCHANGED <<seat, told, heard>>

LeaveRoom(s) ==
    /\ TakeOut(s)
    /\ seat' = [seat EXCEPT ![s] = None]
    /\ told' = [told EXCEPT ![s] = None] /\ heard' = [heard EXCEPT ![s] = {}]

Joining(s) == {h \in Handlers : join[h].pc # "idle" /\ join[h].s = s}

(* close(): the client or the server closes the socket.                    *)
CloseSocket(s) ==
    /\ open' = open \ {s}
    /\ LeaveRoom(s)
    /\ slipped' = slipped \cup {x \in {s} : Joining(x) # {}}

-----------------------------------------------------------------------------
(***************************************************************************)
(* Messages of a socket.                                                   *)
(***************************************************************************)
Join(h, s, p) ==
    /\ join[h].pc = "idle" /\ s \in open
    /\ joins < MaxJoins /\ joins' = joins + 1
    /\ join' = [join EXCEPT ![h] = [pc |-> "user", s |-> s, p |-> p]]
    /\ slipped' = slipped \cup {x \in {s} : Joining(x) # {}}
    /\ UNCHANGED <<doors, open, people, kicker, sweep, news, revocations, late, revoked>>

Goto(h, pc) == join' = [join EXCEPT ![h].pc = pc]
Done(h) == join' = [join EXCEPT ![h] = Idle]

\* Mutant: the approval of the connection is taken for granted.
CheckUserNever(h) ==
    /\ join[h].pc = "user"
    /\ Goto(h, "pack")
    /\ UNCHANGED <<doors, open, people, kicker, sweep, news, joins, revocations, history>>

(* The fresh user is read; anyone not approved is refused.                 *)
CheckUser(h) ==
    /\ join[h].pc = "user"
    /\ IF UserOf[join[h].s] \in approved THEN Goto(h, "pack") ELSE Done(h)
    /\ UNCHANGED <<doors, open, people, kicker, sweep, news, joins, revocations, history>>

(* room.add and the seat, in one go.                                       *)
Enter(s, p) ==
    /\ room' = [room EXCEPT ![p] = @ \cup {s}]
    /\ seat' = [seat EXCEPT ![s] = p] /\ UNCHANGED stale
    /\ heard' = [heard EXCEPT ![s] = {}]
    /\ told' = [told EXCEPT ![s] = None]

(* The pack is read and must not be archived.  A socket that sits there    *)
(* already gets the roster again; one with another seat leaves it first;   *)
(* one without enters at once.                                             *)
CheckPack(h) ==
    /\ join[h].pc = "pack"
    /\ LET s == join[h].s  p == join[h].p IN
       \/ p \notin live /\ Done(h) /\ UNCHANGED doors
       \/ p \in live /\ seat[s] = p /\ Goto(h, "read") /\ UNCHANGED doors
       \/ p \in live /\ seat[s] \notin {p, None} /\ LeaveRoom(s) /\ Goto(h, "enter")
       \/ p \in live /\ seat[s] = None /\ Enter(s, p) /\ Goto(h, "read")
    /\ UNCHANGED <<open, people, kicker, sweep, news, joins, revocations, history>>

EnterAfterLeave(h) ==
    /\ join[h].pc = "enter"
    /\ Enter(join[h].s, join[h].p)
    /\ Goto(h, "read")
    /\ UNCHANGED <<open, people, kicker, sweep, news, joins, revocations, history>>

(* The workspace's version is read and sent with the roster ("joined");    *)
(* about another room than the socket's present one it is no news.         *)
ReadVersion(h) ==
    /\ join[h].pc = "read"
    /\ LET s == join[h].s  p == join[h].p IN
       told' = IF seat[s] = p THEN [told EXCEPT ![s] = version[p]] ELSE told
    /\ Done(h)
    /\ UNCHANGED <<room, seat, stale, heard, open, people, kicker, sweep, news, joins, revocations, history>>

(* A database call of the handler fails: "internal_error".                 *)
JoinFails(h) ==
    /\ join[h].pc \in {"user", "pack", "read"}
    /\ Done(h)
    /\ UNCHANGED <<doors, open, people, kicker, sweep, news, joins, revocations, history>>

Leave(s) ==
    /\ s \in open /\ seat[s] # None
    /\ LeaveRoom(s)
    /\ UNCHANGED <<open, people, join, kicker, sweep, news, joins, revocations, history>>

Close(s) ==
    /\ s \in open
    /\ CloseSocket(s)
    /\ UNCHANGED <<people, join, kicker, sweep, news, joins, revocations, late, revoked>>

-----------------------------------------------------------------------------
(***************************************************************************)
(* Locking a user, and removing a member: the state is changed, then the   *)
(* sockets are kicked one by one.                                          *)
(***************************************************************************)
PastUserCheck(u) ==
    {s \in Sockets : UserOf[s] = u /\ \E h \in Joining(s) : join[h].pc \in {"pack", "enter"}}

LockUser(u) ==
    /\ kicker.pc = "idle" /\ revocations < MaxRevocations /\ revocations' = revocations + 1
    /\ u \in approved
    /\ approved' = approved \ {u}
    /\ kicker' = Kick("revoke", u, {})
    /\ late' = late \cup PastUserCheck(u)
    /\ UNCHANGED <<doors, open, live, join, sweep, news, joins, slipped, revoked>>

(* The devices are revoked; then the rooms there are now are gone through. *)
Revoke ==
    /\ kicker.pc = "revoke"
    /\ kicker' = Kick("lock", kicker.user, {p \in Packs : room[p] # {}})
    /\ UNCHANGED <<doors, open, people, join, sweep, news, joins, revocations, history>>

RemoveMember(p, u) ==
    /\ kicker.pc = "idle" /\ revocations < MaxRevocations /\ revocations' = revocations + 1
    /\ p \in live
    /\ kicker' = Kick("remove", u, {p})
    /\ UNCHANGED <<doors, open, people, join, sweep, news, joins, history>>

(* kickFromPack copies the sockets of the user in the room ...             *)
KickRoom(p) ==
    /\ kicker.pc \in {"lock", "remove"} /\ kicker.here = {}
    /\ p \in kicker.todo
    /\ kicker' = [kicker EXCEPT !.todo = @ \ {p},
                                !.here = {s \in room[p] : UserOf[s] = kicker.user}]
    /\ UNCHANGED <<doors, open, people, join, sweep, news, joins, revocations, history>>

(* ... and kicks them one by one: leaveRoom, await, close.                 *)
KickSocket(s) ==
    /\ kicker.pc \in {"lock", "remove"} /\ s \in kicker.here /\ kicker.closing = None
    /\ kicker' = [kicker EXCEPT !.closing = s]
    /\ LeaveRoom(s)
    /\ UNCHANGED <<open, people, join, sweep, news, joins, revocations, history>>

KickClose ==
    /\ kicker.pc \in {"lock", "remove"} /\ kicker.closing # None
    /\ kicker' = [kicker EXCEPT !.closing = None, !.here = @ \ {kicker.closing}]
    /\ CloseSocket(kicker.closing)
    /\ UNCHANGED <<people, join, sweep, news, joins, revocations, late, revoked>>

(* The request is answered.                                                *)
KickDone ==
    /\ kicker.pc \in {"lock", "remove"} /\ kicker.todo = {} /\ kicker.here = {}
    /\ revoked' = revoked \cup {u \in {kicker.user} \ approved : kicker.pc = "lock"}
    /\ kicker' = NoKick
    /\ UNCHANGED <<doors, open, people, join, sweep, news, joins, revocations, slipped, late>>

(* The devices could not be revoked: the user is locked, but nobody kicked. *)
LockFails ==
    /\ kicker.pc = "revoke"
    /\ kicker' = NoKick
    /\ UNCHANGED <<doors, open, people, join, sweep, news, joins, revocations, history>>

Approve(u) ==
    /\ u \notin approved
    /\ approved' = approved \cup {u} /\ revoked' = revoked \ {u}
    /\ sweep' = [sweep EXCEPT !.locked = {s \in @ : UserOf[s] # u}]
    /\ UNCHANGED <<doors, open, live, join, kicker, news, joins, revocations, slipped, late>>

(* Archiving a pack kicks nobody: the sweep does.                          *)
Archive(p) ==
    /\ p \in live
    /\ revocations < MaxRevocations /\ revocations' = revocations + 1
    /\ live' = live \ {p}
    /\ UNCHANGED <<doors, open, approved, join, kicker, sweep, news, joins, history>>

-----------------------------------------------------------------------------
(***************************************************************************)
(* The membership sweep: rooms one by one, their sockets one by one, with  *)
(* one read of each user per sweep.                                        *)
(***************************************************************************)
SweepStart ==
    /\ sweep.pc = "idle"
    /\ LET rooms == {p \in Packs : room[p] # {}}
           settled == {s \in Sockets : Joining(s) = {}} IN
       /\ rooms # {}
       /\ sweep' = [NoSweep EXCEPT !.pc = "sweep", !.todo = rooms,
                       !.locked = {s \in settled : UserOf[s] \notin approved},
                       !.dead = {t \in settled \X (Packs \ live) : t[1] \in room[t[2]]}]
    /\ stale' = {}
    /\ UNCHANGED <<room, seat, told, heard, open, people, join, kicker, news, joins, revocations, history>>

SweepRoom(p) ==
    /\ sweep.pc = "sweep" /\ sweep.here = {} /\ p \in sweep.todo
    /\ sweep' = [sweep EXCEPT !.todo = @ \ {p}, !.here = IF p \in stale THEN {} ELSE room[p],
                              !.packLive = p \in live]
    /\ UNCHANGED <<doors, open, people, join, kicker, news, joins, revocations, history>>

\* Mutant: archived packs are not looked at.
StillApproved(s) == UserOf[s] \in approved

StillAllowed(s) ==
    sweep.packLive /\ IF UserOf[s] \in sweep.read THEN UserOf[s] \in sweep.ok
                                                  ELSE UserOf[s] \in approved

SweepSocket(s) ==
    /\ sweep.pc = "sweep" /\ s \in sweep.here /\ sweep.closing = None
    /\ LET u == UserOf[s]
           known == [sweep EXCEPT !.read = @ \cup {u},
                                  !.ok = IF u \in approved \ sweep.read THEN @ \cup {u} ELSE @] IN
       \/ /\ StillAllowed(s)
          /\ sweep' = [known EXCEPT !.here = @ \ {s}]
          /\ UNCHANGED doors
       \/ /\ ~StillAllowed(s)
          /\ sweep' = [known EXCEPT !.closing = s]
          /\ LeaveRoom(s)
    /\ UNCHANGED <<open, people, join, kicker, news, joins, revocations, history>>

SweepClose ==
    /\ sweep.pc = "sweep" /\ sweep.closing # None
    /\ sweep' = [sweep EXCEPT !.closing = None, !.here = @ \ {sweep.closing}]
    /\ CloseSocket(sweep.closing)
    /\ UNCHANGED <<people, join, kicker, news, joins, revocations, late, revoked>>

(* The last socket is done, or a database call failed.                     *)
SweepEnd ==
    /\ sweep.pc = "sweep" /\ sweep.todo = {} /\ sweep.here = {}
    /\ sweep' = NoSweep /\ stale' = {}
    /\ UNCHANGED <<room, seat, told, heard, open, people, join, kicker, news, joins, revocations, history>>

SweepFails ==
    /\ sweep.pc = "sweep" /\ sweep.closing = None /\ sweep.todo \cup sweep.here # {}
    /\ sweep' = NoSweep /\ stale' = {}
    /\ UNCHANGED <<room, seat, told, heard, open, people, join, kicker, news, joins, revocations, history>>

-----------------------------------------------------------------------------
(***************************************************************************)
(* A workspace commit, and its broadcast to the room (workspaces.ts).      *)
(***************************************************************************)
Commit(p) ==
    /\ p \in Edited
    /\ version[p] < MaxVersion
    /\ version' = [version EXCEPT ![p] = @ + 1]
    /\ owed' = [owed EXCEPT ![p] = @ \cup {version[p] + 1}]
    /\ UNCHANGED <<doors, open, people, join, kicker, sweep, told, heard, joins, revocations, history>>

\* Mutant: a dead socket ends the loop.
BroadcastUnlessDead(p, v) ==
    /\ v \in owed[p]
    /\ owed' = [owed EXCEPT ![p] = @ \ {v}]
    /\ heard' = [s \in Sockets |-> IF s \in room[p] /\ room[p] \subseteq open THEN heard[s] \cup {v} ELSE heard[s]]
    /\ UNCHANGED <<room, seat, stale, told, open, people, join, kicker, sweep, version, joins, revocations, history>>

Broadcast(p, v) ==
    /\ v \in owed[p]
    /\ owed' = [owed EXCEPT ![p] = @ \ {v}]
    /\ heard' = [s \in Sockets |-> IF s \in room[p] /\ seat[s] = p THEN heard[s] \cup {v} ELSE heard[s]]
    /\ UNCHANGED <<room, seat, stale, told, open, people, join, kicker, sweep, version, joins, revocations, history>>

JoinStep(h) == CheckUser(h) \/ CheckPack(h) \/ EnterAfterLeave(h) \/ ReadVersion(h)

KickStep ==
    \/ Revoke \/ LockFails \/ KickClose \/ KickDone
    \/ \E p \in Packs : KickRoom(p)
    \/ \E s \in Sockets : KickSocket(s)

SweepStep ==
    \/ SweepStart \/ SweepClose \/ SweepEnd
    \/ \E p \in Packs : SweepRoom(p)
    \/ \E s \in Sockets : SweepSocket(s)

Next ==
    \/ \E h \in Handlers : JoinStep(h) \/ JoinFails(h) \/ \E s \in Sockets, p \in Packs : Join(h, s, p)
    \/ \E s \in Sockets : Leave(s) \/ Close(s)
    \/ \E u \in Users : LockUser(u) \/ Approve(u) \/ \E p \in Packs : RemoveMember(p, u)
    \/ \E p \in Packs : Archive(p) \/ Commit(p) \/ \E v \in owed[p] : Broadcast(p, v)
    \/ KickStep \/ SweepStep \/ SweepFails

Spec == Init /\ [][Next]_vars

-----------------------------------------------------------------------------
(***************************************************************************)
(* Properties.                                                             *)
(***************************************************************************)

Handling == [pc : {"user", "pack", "enter", "read"}, s : Sockets, p : Packs]
Kicking == [pc : {"idle", "revoke", "lock", "remove"}, user : Users \cup {None}, todo : SUBSET Packs,
            here : SUBSET Sockets, closing : Sockets \cup {None}]
Sweeping == [pc : {"idle", "sweep"}, todo : SUBSET Packs, here : SUBSET Sockets, packLive : BOOLEAN,
             read : SUBSET Users, ok : SUBSET Users, closing : Sockets \cup {None},
             locked : SUBSET Sockets, dead : SUBSET (Sockets \X Packs)]

(* The variables have their types, and no socket was told a version that   *)
(* its pack has not reached.                                               *)
TypeOK ==
    /\ room \in [Packs -> SUBSET Sockets]
    /\ seat \in [Sockets -> Packs \cup {None}]
    /\ stale \subseteq Packs /\ open \subseteq Sockets
    /\ approved \subseteq Users /\ live \subseteq Packs
    /\ join \in [Handlers -> {Idle} \cup Handling]
    /\ kicker \in Kicking /\ kicker.closing \in kicker.here \cup {None}
    /\ kicker.pc # "idle" => kicker.user \in Users
    /\ sweep \in Sweeping /\ sweep.closing \in sweep.here \cup {None}
    /\ version \in [Packs -> 0 .. MaxVersion]
    /\ owed \in [Packs -> SUBSET (1 .. MaxVersion)] /\ heard \in [Sockets -> SUBSET (1 .. MaxVersion)]
    /\ told \in [Sockets -> (0 .. MaxVersion) \cup {None}]
    /\ \A s \in Sockets : told[s] # None => seat[s] # None /\ told[s] <= version[seat[s]]
    /\ joins \in 0 .. MaxJoins /\ revocations \in 0 .. MaxRevocations
    /\ slipped \subseteq Sockets /\ late \subseteq Sockets /\ revoked \subseteq Users

(* A socket that was told the version of its pack misses no commit after   *)
(* it: each later version was broadcast to it or is about to be, although  *)
(* the join reads the version in a step of its own (collab.ts 189-206).    *)
NoMissedCommit ==
    \A s \in open :
        told[s] # None =>
            \A v \in told[s] + 1 .. version[seat[s]] :
                v \in heard[s] \cup owed[seat[s]]

(* "a socket is in at most one room" (collab.ts 7): the room of its seat,  *)
(* and none once it is closed -- except the sockets that had a join in     *)
(* flight when they closed or sent another one.                            *)
InRoomOfSeat ==
    \A s \in Sockets \ slipped :
        /\ \A p \in Packs : s \in room[p] <=> seat[s] = p
        /\ seat[s] # None => s \in open

Out(s) == \A p \in Packs : s \notin room[p]

(* Once the lock of a user is answered ("Lock revokes everything includes  *)
(* open collab sockets", admin.ts 91) none of the user's sockets is in a   *)
(* room until the user is approved again, except those whose join had      *)
(* passed the user check when the user was locked, and those that slipped. *)
RevokedOutUnlessLate ==
    \A u \in revoked, s \in Sockets \ (slipped \cup late) : UserOf[s] = u => Out(s)

(* A sweep that ends without a failure has caught what the kicks missed    *)
(* ("backstop", collab.ts 286-287): a socket with no join in flight when   *)
(* it started is in no room if its user has been locked all along, and not *)
(* where it sat if that pack was archived.                                 *)
SweepCatches ==
    [][SweepEnd => /\ \A s \in sweep.locked \ slipped : Out(s)
                   /\ \A t \in sweep.dead : t[1] \in slipped \/ t[1] \notin room[t[2]]]_vars

-----------------------------------------------------------------------------
(***************************************************************************)
(* The inductive invariant.                                                *)
(***************************************************************************)

(* Every socket is in the room of its seat, slipped or not.                *)
SeatedInRoom == \A s \in Sockets : seat[s] # None => s \in room[seat[s]]

(* A socket that has not slipped is open while its join is handled, has no *)
(* other one, and no seat when it is about to enter.                       *)
JoinsAlone ==
    \A h \in Handlers :
        join[h].pc # "idle" /\ join[h].s \notin slipped =>
            /\ join[h].s \in open
            /\ Joining(join[h].s) = {h}
            /\ join[h].pc = "enter" => seat[join[h].s] = None

(* No join of the socket can get it into a room without asking again.      *)
Barred(s) == \A h \in Joining(s) : join[h].pc \notin {"pack", "enter"}

LockedBarred ==
    \A s \in Sockets \ late : UserOf[s] \notin approved => Barred(s)

(* A locked user's sockets are out, or still to be kicked.                 *)
KickReaches ==
    /\ revoked \cap approved = {}
    /\ kicker.pc = "lock" /\ kicker.user \notin approved =>
        \A s \in Sockets \ (slipped \cup late), p \in Packs :
            UserOf[s] = kicker.user /\ s \in room[p] =>
                p \in kicker.todo \/ (s \in kicker.here /\ s # kicker.closing)

(* So are, for a sweep, the sockets it has to find.                        *)
ToBeSwept(s, p) == p \in sweep.todo \ stale \/ (s \in sweep.here /\ s # sweep.closing)

SweepReaches ==
    sweep.pc = "sweep" =>
        /\ \A s \in sweep.locked \ slipped :
              /\ UserOf[s] \notin approved \cup sweep.ok
              /\ Barred(s)
              /\ \A p \in Packs : s \in room[p] => ToBeSwept(s, p)
        /\ \A s \in Sockets \ slipped, p \in Packs :
              <<s, p>> \in sweep.dead =>
                /\ p \notin live
                /\ \A h \in Joining(s) : ~(join[h].pc = "enter" /\ join[h].p = p)
                /\ s \in room[p] => ToBeSwept(s, p) /\ (s \in sweep.here => ~sweep.packLive)

(* The inductive invariant, checked by TLC and proved in RoomsProofs.      *)
IInv ==
    /\ TypeOK
    /\ SeatedInRoom /\ InRoomOfSeat /\ JoinsAlone
    /\ NoMissedCommit
    /\ LockedBarred /\ KickReaches /\ RevokedOutUnlessLate
    /\ SweepReaches
=============================================================================
