---------------------------- MODULE LocksProofs -----------------------------
(***************************************************************************)
(* Proofs about Locks, for any entities, devices, users and requests.      *)
(*                                                                         *)
(* Two arguments share one invariant.  A grant is kept because whoever     *)
(* deletes has either seen the lock lapse, or has seen the very grant it   *)
(* deletes, which the device gave up at that moment.  The last message is  *)
(* right because every message that is owed would be right now, unless     *)
(* another write has come between (crossed).                               *)
(***************************************************************************)
EXTENDS Locks, TLAPS

-----------------------------------------------------------------------------
(* Types.                                                                  *)

(* What a request is at tells what it remembers.                           *)
LEMMA RequestTypes ==
  ASSUME TypeOK, NEW r \in Requests
  PROVE  /\ req[r].pc \in {"idle", "acquire", "insert", "holder", "heartbeat", "delete", "force",
                           "clean", "remove", "acquired", "released"}
         /\ req[r].pc \in {"acquire", "insert", "holder", "heartbeat"} => req[r] \in Working
         /\ req[r].pc \in {"delete", "force"} => req[r] \in Deleting
         /\ req[r].pc \in {"clean", "remove", "acquired", "released"} => req[r] \in Having
<1>1. req[r] \in {NoRequest} \cup Working \cup Deleting \cup Having
  BY DEF TypeOK
<1>2. CASE req[r] = NoRequest
  BY <1>2 DEF NoRequest
<1>3. CASE req[r] \in Working
  BY <1>3 DEF Working
<1>4. CASE req[r] \in Deleting
  BY <1>4 DEF Deleting
<1>5. CASE req[r] \in Having
  BY <1>5 DEF Having
<1> QED BY <1>1, <1>2, <1>3, <1>4, <1>5

LEMMA ConstantTypes ==
  /\ clock \in 0 .. MaxTime => clock \in Nat /\ clock + LockTTL \in Expiry
  /\ \A t \in 0 .. MaxTime : t \in Nat /\ t + LockTTL \in Expiry
  /\ Expiry \subseteq Nat /\ 0 \in Expiry
BY LocksAssumption DEF Expiry

-----------------------------------------------------------------------------
(* What keeps grants.                                                      *)

Grants == DoomedGivenUp /\ DepartingGivenUp /\ GrantsKept

(* A lock may go when nobody has a steady grant of it.                     *)
LEMMA NothingGranted ==
  ASSUME TypeOK, Grants, UNCHANGED <<hold, shaky>>, clock' \in Nat, clock' >= clock,
         \A e \in Entries : \/ locks'[e] = locks[e]
                            \/ locks'[e] = None /\ \A d \in Devices : hold[e][d] <= clock \/ <<e, d>> \in shaky,
         \A r \in Requests : req'[r].pc = "remove" => req'[r] = req[r],
         \A d \in Devices : leaver'[d].pc \in {"find", "delete"} => leaver[d].pc \in {"find", "delete"}
  PROVE  Grants'
<1>1. DoomedGivenUp'
  <2> SUFFICES ASSUME NEW r \in Requests, req'[r].pc = "remove", StillTheSame(r)',
                      NEW d \in Devices, UserOf[d] = req'[r].lock.user
               PROVE  hold'[req'[r].e][d] = 0
    BY DEF DoomedGivenUp
  <2>1. req'[r] = req[r] /\ req[r].pc = "remove"
    OBVIOUS
  <2>2. req[r].e \in Entries
    BY <2>1, RequestTypes DEF Having
  <2>3. locks'[req[r].e] = locks[req[r].e]
    BY <2>1, <2>2 DEF StillTheSame, StillExpired
  <2>4. StillTheSame(r)
    BY <2>1, <2>3 DEF StillTheSame, StillExpired
  <2> QED BY <2>1, <2>4 DEF Grants, DoomedGivenUp
<1>2. DepartingGivenUp'
  BY DEF Grants, DepartingGivenUp
<1>3. GrantsKept'
  <2> SUFFICES ASSUME NEW e \in Entries, NEW d \in Devices, hold[e][d] > clock', <<e, d>> \notin shaky
               PROVE  Kept(e, d)'
    BY DEF GrantsKept
  <2>1. hold[e][d] \in Nat /\ clock \in Nat /\ hold[e][d] > clock
    <3>1. hold[e][d] \in Expiry /\ clock \in 0 .. MaxTime
      BY DEF TypeOK
    <3>2. hold[e][d] \in Nat /\ clock \in Nat
      BY <3>1, ConstantTypes
    <3> QED BY <3>2
  <2>2. locks'[e] = locks[e]
    BY <2>1
  <2>3. Kept(e, d)
    BY <2>1 DEF Grants, GrantsKept
  <2> QED BY <2>2, <2>3 DEF Kept
<1> QED BY <1>1, <1>2, <1>3 DEF Grants

(* A lapsed lock carries no steady grant.                                  *)
LEMMA LapsedNotGranted ==
  ASSUME TypeOK, GrantsKept, NEW e \in Entries, locks[e] = None \/ locks[e].expires <= clock, NEW d \in Devices
  PROVE  hold[e][d] <= clock \/ <<e, d>> \in shaky
<1>1. hold[e][d] \in Nat /\ clock \in Nat /\ (locks[e] # None => locks[e].expires \in Nat)
  BY ConstantTypes DEF TypeOK, Lock
<1> QED BY <1>1 DEF GrantsKept, Kept

(* Who is granted a lock that is free, lapsed or the user's own takes it from
   nobody.                                                                 *)
LEMMA GrantKeeps ==
  ASSUME TypeOK, Grants, NEW e \in Entries, NEW l \in Lock, l.user = UserOf[l.device], Grant(e, l),
         locks[e] = None \/ locks[e].user = l.user \/ locks[e].expires <= clock,
         UNCHANGED <<clock, leaver>>,
         \A r \in Requests : req'[r].pc = "remove" <=> req[r].pc = "remove",
         \A r \in Requests : req[r].pc = "remove" => req'[r] = req[r]
  PROVE  Grants'
<1>1. /\ locks' = [locks EXCEPT ![e] = l]
      /\ \A d \in Devices : hold'[e][d] = IF d = l.device
                              THEN (IF SameVersionDoomed(e, l) THEN 0 ELSE l.expires)
                              ELSE IF UserOf[d] = l.user THEN 0 ELSE hold[e][d]
      /\ \A f \in Entries \ {e} : hold'[f] = hold[f]
  BY DEF Grant, TypeOK
<1>2. locks'[e] = l /\ \A f \in Entries \ {e} : locks'[f] = locks[f]
  BY <1>1 DEF TypeOK
<1>3. /\ leaver[l.device].pc # "idle" => shaky' = shaky \cup {<<e, l.device>>}
      /\ leaver[l.device].pc = "idle" => shaky' = shaky \ {<<e, l.device>>}
  BY DEF Grant
<1>4. l.device \in Devices /\ l.expires \in Nat /\ l # None /\ clock \in Nat
  BY ConstantTypes, LocksAssumption DEF Lock, TypeOK
<1>5. DoomedGivenUp'
  <2> SUFFICES ASSUME NEW r \in Requests, req'[r].pc = "remove", StillTheSame(r)',
                      NEW d \in Devices, UserOf[d] = req'[r].lock.user
               PROVE  hold'[req'[r].e][d] = 0
    BY DEF DoomedGivenUp
  <2>1. req'[r] = req[r] /\ req[r].pc = "remove"
    OBVIOUS
  <2>2. req[r].e \in Entries
    BY <2>1, RequestTypes DEF Having
  <2>3. CASE req[r].e = e
    <3>1. l.expires = req[r].lock.expires /\ l.user = req[r].lock.user
      BY <1>2, <2>1, <2>3 DEF StillTheSame, StillExpired
    <3>2. SameVersionDoomed(e, l)
      BY <2>1, <2>3, <3>1 DEF SameVersionDoomed
    <3> QED BY <1>1, <2>1, <2>3, <3>1, <3>2
  <2>4. CASE req[r].e # e
    <3>1. StillTheSame(r)
      BY <1>2, <2>1, <2>2, <2>4 DEF StillTheSame, StillExpired
    <3> QED BY <1>1, <2>1, <2>2, <2>4, <3>1 DEF Grants, DoomedGivenUp
  <2> QED BY <2>3, <2>4
<1>6. DepartingGivenUp'
  <2> SUFFICES ASSUME NEW d \in Devices, NEW f \in Entries, leaver[d].pc \in {"find", "delete"}
               PROVE  hold'[f][d] = 0 \/ <<f, d>> \in shaky'
    BY DEF DepartingGivenUp
  <2>1. hold[f][d] = 0 \/ <<f, d>> \in shaky
    BY DEF Grants, DepartingGivenUp
  <2>2. CASE f = e /\ d = l.device
    BY <1>3, <2>2
  <2>3. CASE f = e /\ d # l.device
    BY <1>1, <1>3, <2>1, <2>3
  <2>4. CASE f # e
    BY <1>1, <1>3, <2>1, <2>4
  <2> QED BY <2>2, <2>3, <2>4
<1>7. GrantsKept'
  <2> SUFFICES ASSUME NEW f \in Entries, NEW d \in Devices, hold'[f][d] > clock, <<f, d>> \notin shaky'
               PROVE  Kept(f, d)'
    BY DEF GrantsKept
  <2>1. CASE f # e
    <3>1. <<f, d>> \notin shaky
      BY <1>3, <2>1
    <3> QED BY <1>1, <1>2, <2>1, <3>1 DEF Grants, GrantsKept, Kept
  <2>2. CASE f = e /\ d = l.device
    BY <1>1, <1>2, <1>4, <2>2 DEF Kept
  <2>3. CASE f = e /\ d # l.device
    <3>1. hold'[f][d] = hold[e][d] /\ UserOf[d] # l.user /\ <<e, d>> \notin shaky
      BY <1>1, <1>3, <1>4, <2>3
    <3>2. Kept(e, d)
      BY <2>3, <3>1 DEF Grants, GrantsKept
    <3>3. locks[e] # None /\ locks[e].user = UserOf[d] /\ locks[e].expires \in Nat /\ hold[e][d] \in Nat
      <4>1. locks[e] # None /\ locks[e].device = d
        BY <3>2 DEF Kept
      <4>2. locks[e] \in Lock /\ locks[e].user = UserOf[d] /\ hold[e][d] \in Expiry
        BY <4>1 DEF TypeOK
      <4> QED BY <4>1, <4>2, ConstantTypes DEF Lock
    <3> QED BY <1>4, <2>3, <3>1, <3>2, <3>3 DEF Kept
  <2> QED BY <2>1, <2>2, <2>3
<1> QED BY <1>5, <1>6, <1>7 DEF Grants

-----------------------------------------------------------------------------
(* What keeps messages right.                                              *)

(* A pair of entity and user about which nothing is written stays right,
   also when one of its messages is sent.                                  *)
LEMMA PairStays ==
  ASSUME NEW e \in Entries, NEW u \in Users, Right(e, u),
         clock \in Nat, clock' \in Nat, clock' >= clock,
         locks[e] # None => locks[e].expires \in Nat,
         locks'[e] # None => locks'[e].expires \in Nat,
         said[e][u].expires \in Nat,
         \A r \in Requests : AcquiredOwed(r, e, u)' => AcquiredOwed(r, e, u) /\ req'[r].lock = req[r].lock,
         \A r \in Requests : AcquiredOwed(r, e, u) => req[r].lock.expires \in Nat,
         GoneOwed(e, u)' => GoneOwed(e, u),
         Standing(e, u)' => Standing(e, u),
         Standing(e, u) /\ locks[e].expires > clock' => Standing(e, u)' /\ locks'[e].expires >= locks[e].expires,
         \/ SaidRight(e, u)'
         \/ said'[e][u] = said[e][u] /\ (Owed(e, u) => Owed(e, u)')
  PROVE  Right(e, u)'
<1>1. ASSUME NEW x \in Nat, Backed(e, u, x) PROVE Backed(e, u, x)'
  <2> SUFFICES ASSUME x > clock' PROVE Standing(e, u)' /\ locks'[e].expires >= x
    BY DEF Backed
  <2>1. Standing(e, u) /\ locks[e].expires >= x /\ locks[e].expires \in Nat
    BY <1>1 DEF Backed, Standing
  <2>2. Standing(e, u)' /\ locks'[e].expires >= locks[e].expires
    BY <2>1
  <2>3. locks'[e].expires \in Nat
    BY <2>2 DEF Standing
  <2> QED BY <2>1, <2>2, <2>3
<1>2. ASSUME NEW r \in Requests, AcquiredOwed(r, e, u)' PROVE (Backed(e, u, req[r].lock.expires))'
  <2>1. AcquiredOwed(r, e, u) /\ req'[r].lock = req[r].lock
    BY <1>2
  <2>2. PICK x : x = req[r].lock.expires
    OBVIOUS
  <2>3. x \in Nat /\ Backed(e, u, x)
    BY <2>1, <2>2 DEF Right
  <2>4. Backed(e, u, x)'
    BY <1>1, <2>3
  <2> QED BY <2>1, <2>2, <2>4 DEF Backed
<1>3. GoneOwed(e, u)' => ~Standing(e, u)'
  BY DEF Right
<1>4. Owed(e, u)' \/ SaidRight(e, u)'
  <2> SUFFICES ASSUME said'[e][u] = said[e][u], SaidRight(e, u) PROVE SaidRight(e, u)'
    BY DEF Right
  <2>1. PICK x : x = said[e][u].expires
    OBVIOUS
  <2>2. Backed(e, u, x) => Backed(e, u, x)'
    BY <1>1, <2>1
  <2> QED BY <2>1, <2>2 DEF SaidRight, Backed
<1> QED BY <1>2, <1>3, <1>4 DEF Right

(* The types PairStays asks for.                                           *)
LEMMA PairTypes ==
  ASSUME TypeOK, NEW e \in Entries, NEW u \in Users
  PROVE  /\ clock \in Nat /\ (locks[e] # None => locks[e].expires \in Nat)
         /\ said[e][u].expires \in Nat
         /\ \A r \in Requests : AcquiredOwed(r, e, u) => req[r].lock.expires \in Nat
<1>1. clock \in Nat
  BY ConstantTypes DEF TypeOK
<1>2. locks[e] # None => locks[e].expires \in Nat
  BY ConstantTypes DEF TypeOK, Lock
<1>3. said[e][u].expires \in Nat
  <2>1. said[e][u] \in Message
    BY DEF TypeOK
  <2> QED BY <2>1, ConstantTypes DEF Message
<1>4. ASSUME NEW r \in Requests, AcquiredOwed(r, e, u) PROVE req[r].lock.expires \in Nat
  <2>1. req[r].lock \in Lock
    BY <1>4, RequestTypes DEF AcquiredOwed, Having
  <2> QED BY <2>1, ConstantTypes DEF Lock
<1> QED BY <1>1, <1>2, <1>3, <1>4

(* A step that owes and sends no message, adds no lock and drops only lapsed
   ones keeps all of them right.                                           *)
LEMMA SilentStep ==
  ASSUME TypeOK, TypeOK', MessagesRight, crossed \subseteq crossed', UNCHANGED said, clock' >= clock,
         \A r \in Requests : \/ req'[r] = req[r]
                             \/ req[r].pc \notin {"acquired", "released"} /\ req'[r].pc \notin {"acquired", "released"},
         \A d \in Devices : leaver'[d] = leaver[d] \/ (leaver[d].pc # "tell" /\ leaver'[d].pc # "tell"),
         sweep' = sweep \/ (sweep.pc # "tell" /\ sweep'.pc # "tell"),
         \A e \in Entries :
            \/ locks'[e] = locks[e]
            \/ locks[e] # None /\ locks[e].expires <= clock' /\ locks'[e] = None
            \/ /\ locks[e] # None /\ locks'[e] # None /\ locks'[e].user = locks[e].user
               /\ locks'[e].expires >= locks[e].expires \/ <<e, locks[e].user>> \in crossed'
  PROVE  MessagesRight'
<1> SUFFICES ASSUME NEW e \in Entries, NEW u \in Users, <<e, u>> \notin crossed'
             PROVE  Right(e, u)'
  BY DEF MessagesRight
<1>1. Right(e, u)
  BY DEF MessagesRight
<1>2. \A r \in Requests : AcquiredOwed(r, e, u)' => AcquiredOwed(r, e, u) /\ req'[r].lock = req[r].lock
  BY DEF AcquiredOwed
<1>3. GoneOwed(e, u)' <=> GoneOwed(e, u)
  BY DEF GoneOwed
<1>4. Owed(e, u) => Owed(e, u)'
  BY <1>3 DEF Owed, AcquiredOwed
<1>5. /\ clock \in Nat /\ clock' \in Nat
      /\ locks[e] # None => locks[e].expires \in Nat
      /\ locks'[e] # None => locks'[e].expires \in Nat
      /\ said[e][u].expires \in Nat
      /\ \A r \in Requests : AcquiredOwed(r, e, u) => req[r].lock.expires \in Nat
  <2>1. (clock \in Nat /\ (locks[e] # None => locks[e].expires \in Nat))'
    BY ConstantTypes DEF TypeOK, Lock
  <2> QED BY <2>1, PairTypes
<1>6. Standing(e, u)' => Standing(e, u)
  BY DEF Standing
<1>7. Standing(e, u) /\ locks[e].expires > clock' => Standing(e, u)' /\ locks'[e].expires >= locks[e].expires
  BY <1>5 DEF Standing
<1> QED BY <1>1, <1>2, <1>3, <1>4, <1>5, <1>6, <1>7, PairStays

(* What Crossing does to a pair.                                           *)
LEMMA CrossingFacts ==
  ASSUME NEW touched, NEW silent, Crossing(touched, silent), NEW e, NEW u
  PROVE  /\ <<e, u>> \in touched \cup silent /\ <<e, u>> \notin crossed' => ~Owed(e, u)
         /\ <<e, u>> \in silent => <<e, u>> \in crossed'
         /\ <<e, u>> \notin touched \cup silent => (<<e, u>> \in crossed <=> <<e, u>> \in crossed')
<1>1. <<e, u>>[1] = e /\ <<e, u>>[2] = u
  OBVIOUS
<1> QED BY <1>1 DEF Crossing

-----------------------------------------------------------------------------
(* The steps that grant, delete and announce nothing.                      *)

Owing == {"acquired", "released"}
Timed == {"acquire", "insert", "holder", "heartbeat"}

(* A step that grants and announces nothing and drops only lapsed locks.   *)
LEMMA QuietStep ==
  ASSUME IInv, TypeOK', Stamped', UNCHANGED <<hold, shaky, crossed, said>>, clock' >= clock,
         \A r \in Requests : \/ req'[r] = req[r]
                             \/ req[r].pc \notin Owing /\ req'[r].pc \notin Owing \cup {"remove"},
         \A d \in Devices : \/ leaver'[d] = leaver[d]
                            \/ /\ leaver[d].pc # "tell" /\ leaver'[d].pc # "tell"
                               /\ leaver'[d].pc \in {"find", "delete"} => leaver[d].pc \in {"find", "delete"},
         sweep' = sweep \/ (sweep.pc # "tell" /\ sweep'.pc # "tell"),
         \A e \in Entries : \/ locks'[e] = locks[e]
                            \/ locks[e] # None /\ locks[e].expires <= clock /\ locks'[e] = None
  PROVE  IInv'
<1>1. clock' \in Nat /\ clock \in Nat
  BY ConstantTypes DEF IInv, TypeOK
<1>2. Grants'
  <2>1. TypeOK /\ Grants
    BY DEF IInv, Grants
  <2>2. \A e \in Entries :
           \/ locks'[e] = locks[e]
           \/ locks'[e] = None /\ \A d \in Devices : hold[e][d] <= clock \/ <<e, d>> \in shaky
    BY <2>1, LapsedNotGranted DEF Grants
  <2>3. \A r \in Requests : req'[r].pc = "remove" => req'[r] = req[r]
    OBVIOUS
  <2>4. \A d \in Devices : leaver'[d].pc \in {"find", "delete"} => leaver[d].pc \in {"find", "delete"}
    OBVIOUS
  <2> QED BY <1>1, <2>1, <2>2, <2>3, <2>4, NothingGranted
<1>3. MessagesRight'
  <2>1. \A e \in Entries :
            \/ locks'[e] = locks[e]
            \/ locks[e] # None /\ locks[e].expires <= clock' /\ locks'[e] = None
    <3> SUFFICES ASSUME NEW e \in Entries, locks[e] # None, locks[e].expires <= clock
                 PROVE  locks[e].expires <= clock'
      OBVIOUS
    <3>1. locks[e].expires \in Nat
      BY ConstantTypes DEF IInv, TypeOK, Lock
    <3> QED BY <1>1, <3>1
  <2>2. \A r \in Requests : \/ req'[r] = req[r]
                            \/ /\ req[r].pc \notin {"acquired", "released"}
                               /\ req'[r].pc \notin {"acquired", "released"}
    BY DEF Owing
  <2> QED BY <2>1, <2>2, SilentStep DEF IInv
<1> QED BY <1>2, <1>3 DEF IInv, Grants

(* A request goes on without a message, and may drop lapsed locks.         *)
LEMMA OnlyRequest ==
  ASSUME IInv, NEW r \in Requests, NEW row \in {NoRequest} \cup Working \cup Deleting \cup Having,
         req' = [req EXCEPT ![r] = row],
         req[r].pc \notin Owing, row.pc \notin Owing \cup {"remove"},
         row.pc \in Timed => row.at <= clock,
         row.pc = "clean" => row.lock.expires <= clock,
         served' \in 0 .. MaxServed, locks' \in [Entries -> Lock \cup {None}],
         \A e \in Entries : \/ locks'[e] = locks[e]
                            \/ locks[e] # None /\ locks[e].expires <= clock /\ locks'[e] = None,
         UNCHANGED <<clock, departures, seats, leaver, sweep, said, hold, shaky, crossed>>
  PROVE  IInv'
<1>1. req'[r] = row /\ \A q \in Requests \ {r} : req'[q] = req[q]
  BY DEF IInv, TypeOK
<1>2. TypeOK'
  BY DEF IInv, TypeOK
<1>3. Stamped'
  BY <1>1 DEF IInv, Stamped, Timed
<1>4. clock' >= clock
  BY ConstantTypes DEF IInv, TypeOK
<1> QED BY <1>1, <1>2, <1>3, <1>4, QuietStep

LEMMA ArriveStep ==
  ASSUME IInv, NEW r \in Requests, NEW op \in Ops, NEW d \in Devices, NEW e \in Entries, Arrive(r, op, d, e)
  PROVE  IInv'
<1>1. PICK row : row = Request(op, d, e)
  OBVIOUS
<1>2. clock \in 0 .. MaxTime /\ clock <= clock /\ served' \in 0 .. MaxServed
  BY LocksAssumption DEF IInv, TypeOK, Arrive
<1>3. /\ row \in Working \cup Deleting /\ row.pc \in Timed \cup {"delete", "force"}
      /\ row.pc \in Timed => row.at = clock
  BY <1>1, <1>2, LocksAssumption DEF Request, Working, Deleting, Timed
<1>4. req[r].pc \notin Owing /\ row.pc \notin Owing \cup {"remove"} /\ row.pc # "clean"
  BY <1>3 DEF Arrive, Owing, Timed
<1> QED BY <1>1, <1>2, <1>3, <1>4, OnlyRequest DEF Arrive, IInv, TypeOK, history

LEMMA AnsweredOnly ==
  ASSUME IInv, NEW r \in Requests, Answered(r), req[r].pc \notin Owing,
         locks' \in [Entries -> Lock \cup {None}],
         \A e \in Entries : \/ locks'[e] = locks[e]
                            \/ locks[e] # None /\ locks[e].expires <= clock /\ locks'[e] = None,
         UNCHANGED <<server, seats, leaver, sweep, said, hold, shaky, crossed>>
  PROVE  IInv'
<1>1. NoRequest.pc = "idle"
  BY DEF NoRequest
<1>2. NoRequest.pc \notin Owing \cup {"remove"} \cup Timed \cup {"clean"}
  BY <1>1 DEF Owing, Timed
<1>3. served' \in 0 .. MaxServed
  BY DEF IInv, TypeOK, server
<1> QED BY <1>2, <1>3, OnlyRequest DEF Answered, server

(* A waiting request goes on to another database call.                     *)
LEMMA WaitsOn ==
  ASSUME IInv, NEW r \in Requests, req[r].pc \in Timed, NEW row \in Working, row.at <= clock,
         req' = [req EXCEPT ![r] = row],
         UNCHANGED <<server, locks, seats, leaver, sweep, said, hold, shaky, crossed>>
  PROVE  IInv'
<1>1. row.pc \in Timed
  BY DEF Working, Timed
<1>2. row.pc \notin Owing \cup {"remove", "clean"} /\ req[r].pc \notin Owing
  BY <1>1 DEF Owing, Timed
<1>3. served' \in 0 .. MaxServed /\ locks' \in [Entries -> Lock \cup {None}]
  BY DEF IInv, TypeOK, server
<1> QED BY <1>2, <1>3, OnlyRequest DEF server

LEMMA HolderStep ==
  ASSUME IInv, NEW r \in Requests, Holder(r)
  PROVE  IInv'
<1>1. PICK row : row = req[r]
  OBVIOUS
<1>2. /\ row.pc = "holder" /\ row \in Working /\ clock \in 0 .. MaxTime /\ clock <= clock
      /\ UNCHANGED <<server, locks, seats, leaver, sweep, said, hold, shaky, crossed>>
  BY <1>1, RequestTypes, LocksAssumption DEF Holder, IInv, TypeOK, history
<1>3. CASE Answered(r)
  <2>1. req[r].pc \notin Owing /\ locks' \in [Entries -> Lock \cup {None}]
    BY <1>1, <1>2 DEF Owing, IInv, TypeOK
  <2> QED BY <1>2, <1>3, <2>1, AnsweredOnly
<1>4. CASE req' = [req EXCEPT ![r].pc = "acquire", ![r].attempt = 2, ![r].at = clock]
  <2>1. PICK new : new = [row EXCEPT !.pc = "acquire", !.attempt = 2, !.at = clock]
    OBVIOUS
  <2>2. new \in Working /\ new.at = clock
    <3>1. /\ new.pc = "acquire" /\ new.attempt = 2 /\ new.at = clock /\ new.d = row.d /\ new.e = row.e
          /\ new = [pc |-> "acquire", d |-> row.d, e |-> row.e, at |-> clock, attempt |-> 2]
      BY <1>2, <2>1 DEF Working
    <3>2. row.d \in Devices /\ row.e \in Entries
      BY <1>2 DEF Working
    <3>3. 2 \in 1 .. 2 /\ "acquire" \in {"acquire", "insert", "holder", "heartbeat"}
      OBVIOUS
    <3> QED BY <1>2, <3>1, <3>2, <3>3 DEF Working
  <2>3. req' = [req EXCEPT ![r] = new]
    BY <1>1, <1>4, <2>1 DEF IInv, TypeOK
  <2> QED BY <1>1, <1>2, <2>2, <2>3, WaitsOn DEF Timed
<1> QED BY <1>3, <1>4 DEF Holder

LEMMA CleanUpStep ==
  ASSUME IInv, NEW r \in Requests, CleanUp(r)
  PROVE  IInv'
<1>1. PICK e, l : e = req[r].e /\ l = req[r].lock
  OBVIOUS
<1>2. /\ req[r].pc = "clean" /\ e \in Entries /\ l.expires <= clock /\ req[r].pc \notin Owing /\ Answered(r)
      /\ UNCHANGED <<server, seats, leaver, sweep, said, hold, shaky, crossed>>
  BY <1>1, RequestTypes DEF CleanUp, IInv, Stamped, Having, Owing, history
<1>3. CASE StillExpired(r) /\ locks' = [locks EXCEPT ![e] = None]
  <2>1. locks[e] # None /\ locks[e].expires <= clock
    BY <1>1, <1>2, <1>3 DEF StillExpired
  <2>2. locks' \in [Entries -> Lock \cup {None}] /\ locks'[e] = None /\ \A f \in Entries \ {e} : locks'[f] = locks[f]
    BY <1>2, <1>3 DEF IInv, TypeOK
  <2> QED BY <1>2, <2>1, <2>2, AnsweredOnly
<1>4. CASE UNCHANGED locks
  BY <1>2, <1>4, AnsweredOnly DEF IInv, TypeOK
<1> QED BY <1>1, <1>3, <1>4 DEF CleanUp

LEMMA RemoveMissedStep ==
  ASSUME IInv, NEW r \in Requests, RemoveMissed(r)
  PROVE  IInv'
<1>1. /\ req[r].pc \notin Owing /\ Answered(r) /\ locks' \in [Entries -> Lock \cup {None}]
      /\ UNCHANGED <<server, locks, seats, leaver, sweep, said, hold, shaky, crossed>>
  BY DEF RemoveMissed, Owing, history, IInv, TypeOK
<1> QED BY <1>1, AnsweredOnly

(* A step of the room, of time or of the sweep that nobody hears of.       *)
LEMMA JoinStep ==
  ASSUME IInv, NEW d \in Devices, Join(d)
  PROVE  IInv'
<1>1. TypeOK' /\ Stamped'
  BY DEF IInv, TypeOK, Stamped, Join, server, history
<1>2. clock' >= clock
  BY ConstantTypes DEF IInv, TypeOK, Join, server
<1> QED BY <1>1, <1>2, QuietStep DEF Join, server, history

LEMMA FindHeldStep ==
  ASSUME IInv, NEW d \in Devices, FindHeld(d)
  PROVE  IInv'
<1>1. LocksOf(d) \subseteq Entries /\ leaver[d].pc = "find"
  BY DEF LocksOf, FindHeld
<1>2. /\ leaver' \in [Devices -> [pc : {"idle", "find", "delete", "tell"}, held : SUBSET Entries]]
      /\ leaver'[d].pc \in {"idle", "delete"} /\ \A c \in Devices \ {d} : leaver'[c] = leaver[c]
  BY <1>1 DEF FindHeld, IInv, TypeOK
<1>3. TypeOK' /\ Stamped'
  BY <1>2 DEF IInv, TypeOK, Stamped, FindHeld, server, history
<1>4. clock' >= clock
  BY ConstantTypes DEF IInv, TypeOK, FindHeld, server
<1> QED BY <1>1, <1>2, <1>3, <1>4, QuietStep DEF FindHeld, server, history

LEMMA TickStep ==
  ASSUME IInv, Tick
  PROVE  IInv'
<1>1. clock \in Nat /\ clock' = clock + 1 /\ clock' \in 0 .. MaxTime
  BY LocksAssumption DEF IInv, TypeOK, Tick
<1>2. TypeOK'
  BY <1>1 DEF IInv, TypeOK, Tick, history
<1>3. Stamped'
  <2>1. ASSUME NEW r \in Requests
        PROVE  /\ req[r].pc \in {"acquire", "insert", "holder", "heartbeat"} => req[r].at <= clock'
               /\ req[r].pc = "clean" => req[r].lock.expires <= clock'
    <3>1. req[r].pc \in {"acquire", "insert", "holder", "heartbeat"} => req[r].at \in Nat
      BY RequestTypes, ConstantTypes DEF IInv, Working
    <3>2. req[r].pc = "clean" => req[r].lock.expires \in Nat
      BY RequestTypes, ConstantTypes DEF IInv, Having, Lock
    <3> QED BY <1>1, <3>1, <3>2 DEF IInv, Stamped
  <2>2. sweep.pc # "idle" => sweep.at <= clock'
    <3>1. sweep.pc # "idle" => sweep.at \in Nat
      BY ConstantTypes DEF IInv, TypeOK, Sweeping, Telling
    <3> QED BY <1>1, <3>1 DEF IInv, Stamped
  <2> QED BY <2>1, <2>2 DEF Tick, Stamped
<1> QED BY <1>1, <1>2, <1>3, QuietStep DEF Tick, history

LEMMA SweepFindStep ==
  ASSUME IInv, SweepFind
  PROVE  IInv'
<1>1. PICK todo : todo = {[e |-> e, lock |-> locks[e]] :
                            e \in {f \in Entries : locks[f] # None /\ locks[f].expires <= clock}}
  OBVIOUS
<1>2. todo \subseteq Found
  <2>1. \A e \in Entries : locks[e] # None => locks[e] \in Lock
    BY DEF IInv, TypeOK
  <2> QED BY <1>1, <2>1 DEF Found
<1>3. sweep.pc = "idle" /\ sweep' = [pc |-> "delete", at |-> clock, todo |-> todo]
  BY <1>1 DEF SweepFind
<1>4. sweep' \in Sweeping /\ sweep'.pc = "delete" /\ sweep'.at = clock
  BY <1>2, <1>3 DEF Sweeping, IInv, TypeOK
<1>5. TypeOK'
  BY <1>4 DEF IInv, TypeOK, SweepFind, server, history
<1>6. clock' = clock /\ clock' >= clock
  BY ConstantTypes DEF IInv, TypeOK, SweepFind, server
<1>7. Stamped'
  BY <1>4, <1>6 DEF IInv, Stamped, SweepFind
<1> QED BY <1>3, <1>4, <1>5, <1>6, <1>7, QuietStep DEF SweepFind, server, history

LEMMA TtlStep ==
  ASSUME IInv, NEW e \in Entries, Ttl(e)
  PROVE  IInv'
<1>1. /\ locks' \in [Entries -> Lock \cup {None}] /\ locks'[e] = None
      /\ \A f \in Entries \ {e} : locks'[f] = locks[f]
  BY DEF Ttl, IInv, TypeOK
<1>2. TypeOK' /\ Stamped'
  BY <1>1 DEF IInv, TypeOK, Stamped, Ttl, server, history
<1>3. clock' >= clock
  BY ConstantTypes DEF IInv, TypeOK, Ttl, server
<1> QED BY <1>1, <1>2, <1>3, QuietStep DEF Ttl, server, history

-----------------------------------------------------------------------------
(* The steps of requests that grant a lock.                                *)

LEMMA GrantTypes ==
  ASSUME TypeOK, NEW e \in Entries, NEW l \in Lock, l.user = UserOf[l.device], Grant(e, l)
  PROVE  /\ locks' \in [Entries -> Lock \cup {None}] /\ locks'[e] = l
         /\ \A f \in Entries \ {e} : locks'[f] = locks[f]
         /\ \A f \in Entries : locks'[f] # None => locks'[f].user = UserOf[locks'[f].device]
         /\ hold' \in [Entries -> [Devices -> Expiry]]
         /\ shaky' \subseteq Entries \X Devices
<1>1. locks' \in [Entries -> Lock \cup {None}] /\ locks'[e] = l /\ \A f \in Entries \ {e} : locks'[f] = locks[f]
  BY DEF Grant, TypeOK
<1>2. \A f \in Entries : locks'[f] # None => locks'[f].user = UserOf[locks'[f].device]
  BY <1>1 DEF TypeOK
<1>3. hold' \in [Entries -> [Devices -> Expiry]]
  <2>1. PICK row : row = [d \in Devices |-> IF d = l.device THEN (IF SameVersionDoomed(e, l) THEN 0 ELSE l.expires)
                                            ELSE IF UserOf[d] = l.user THEN 0 ELSE hold[e][d]]
    OBVIOUS
  <2>2. l.expires \in Expiry /\ 0 \in Expiry /\ hold[e] \in [Devices -> Expiry]
    BY ConstantTypes DEF Lock, TypeOK
  <2>3. row \in [Devices -> Expiry]
    BY <2>1, <2>2
  <2>4. hold' = [hold EXCEPT ![e] = row]
    BY <2>1 DEF Grant
  <2> QED BY <2>3, <2>4 DEF TypeOK
<1>4. shaky' \subseteq Entries \X Devices
  BY DEF Grant, TypeOK, Lock
<1> QED BY <1>1, <1>2, <1>3, <1>4

(* A grant that is to be announced.                                        *)
LEMMA GrantedStep ==
  ASSUME IInv, NEW r \in Requests, req[r].pc \in Timed, NEW e \in Entries, NEW l \in Lock,
         l.user = UserOf[l.device], NEW row \in Having, row.pc = "acquired", row.e = e, row.lock = l,
         req' = [req EXCEPT ![r] = row], Grant(e, l), Crossing({<<e, l.user>>}, {}),
         locks[e] = None \/ locks[e].user = l.user \/ locks[e].expires <= clock,
         UNCHANGED <<server, seats, leaver, sweep, said>>
  PROVE  IInv'
<1>1. req'[r] = row /\ \A q \in Requests \ {r} : req'[q] = req[q]
  BY DEF IInv, TypeOK
<1>2. /\ locks' \in [Entries -> Lock \cup {None}] /\ locks'[e] = l
      /\ \A f \in Entries \ {e} : locks'[f] = locks[f]
      /\ \A f \in Entries : locks'[f] # None => locks'[f].user = UserOf[locks'[f].device]
      /\ hold' \in [Entries -> [Devices -> Expiry]] /\ shaky' \subseteq Entries \X Devices
  BY GrantTypes DEF IInv
<1>3. l.user \in Users /\ l # None
  BY LocksAssumption DEF Lock
<1>4. TypeOK'
  <2>1. crossed' \subseteq Entries \X Users
    BY <1>3 DEF Crossing, IInv, TypeOK
  <2>2. req' \in [Requests -> {NoRequest} \cup Working \cup Deleting \cup Having]
    BY DEF IInv, TypeOK
  <2> QED BY <1>2, <2>1, <2>2 DEF IInv, TypeOK, server
<1>5. Stamped'
  BY <1>1 DEF IInv, Stamped, server
<1>6. Grants'
  <2>1. \A q \in Requests : (req'[q].pc = "remove" <=> req[q].pc = "remove") /\ (req[q].pc = "remove" => req'[q] = req[q])
    BY <1>1 DEF Timed
  <2>2. UNCHANGED <<clock, leaver>> /\ TypeOK /\ Grants
    BY DEF server, IInv, Grants
  <2> QED BY <2>1, <2>2, GrantKeeps
<1>7. MessagesRight'
  <2> SUFFICES ASSUME NEW f \in Entries, NEW u \in Users, <<f, u>> \notin crossed'
               PROVE  Right(f, u)'
    BY DEF MessagesRight
  <2>1. \A q \in Requests \ {r} : AcquiredOwed(q, f, u)' <=> AcquiredOwed(q, f, u)
    BY <1>1 DEF AcquiredOwed
  <2>2. AcquiredOwed(r, f, u)' <=> f = e /\ u = l.user
    BY <1>1 DEF AcquiredOwed
  <2>3. ~AcquiredOwed(r, f, u)
    BY DEF AcquiredOwed, Timed
  <2>4. GoneOwed(f, u)' <=> GoneOwed(f, u)
    BY <1>1 DEF GoneOwed, Timed
  <2>5. CASE f = e /\ u = l.user
    <3>1. ~Owed(e, u)
      BY <2>5, CrossingFacts
    <3>2. Standing(e, u)'
      BY <1>2, <1>3, <2>5 DEF Standing
    <3>3. l.expires \in Nat
      BY ConstantTypes DEF Lock
    <3>4. ASSUME NEW q \in Requests, AcquiredOwed(q, f, u)' PROVE (Backed(f, u, req[q].lock.expires))'
      <4>1. q = r
        BY <2>1, <2>5, <3>1, <3>4 DEF Owed
      <4> QED BY <1>1, <1>2, <2>5, <3>2, <3>3, <4>1 DEF Backed
    <3>5. ~GoneOwed(f, u)' /\ Owed(f, u)'
      BY <2>2, <2>4, <2>5, <3>1 DEF Owed
    <3> QED BY <3>4, <3>5 DEF Right
  <2>6. CASE ~(f = e /\ u = l.user)
    <3>1. <<f, u>> \notin crossed
      BY <2>6, CrossingFacts
    <3>2. Right(f, u)
      BY <3>1 DEF IInv, MessagesRight
    <3>3. \A q \in Requests : AcquiredOwed(q, f, u)' => AcquiredOwed(q, f, u) /\ req'[q].lock = req[q].lock
      BY <1>1, <2>1, <2>2, <2>6
    <3>4. Standing(f, u)' => Standing(f, u)
      BY <1>2, <2>6 DEF Standing
    <3>5. /\ clock \in Nat /\ clock' = clock /\ clock' >= clock
          /\ locks[f] # None => locks[f].expires \in Nat
          /\ locks'[f] # None => locks'[f].expires \in Nat
          /\ said[f][u].expires \in Nat
          /\ \A q \in Requests : AcquiredOwed(q, f, u) => req[q].lock.expires \in Nat
      <4>1. (locks[f] # None => locks[f].expires \in Nat)'
        BY <1>4, ConstantTypes DEF TypeOK, Lock
      <4>2. clock' = clock
        BY DEF server
      <4> QED BY <4>1, <4>2, PairTypes DEF IInv
    <3>6. Standing(f, u) /\ locks[f].expires > clock' => Standing(f, u)' /\ locks'[f].expires >= locks[f].expires
      BY <1>2, <2>6, <3>5 DEF Standing
    <3>7. said'[f][u] = said[f][u] /\ (Owed(f, u) => Owed(f, u)')
      BY <2>1, <2>3, <2>4 DEF Owed
    <3> QED BY <2>4, <3>2, <3>3, <3>4, <3>5, <3>6, <3>7, PairStays
  <2> QED BY <2>5, <2>6
<1> QED BY <1>4, <1>5, <1>6, <1>7 DEF IInv, Grants

(* What a waiting request would be granted.                                *)
LEMMA TakenLock ==
  ASSUME IInv, NEW r \in Requests, req[r].pc \in {"acquire", "insert"}
  PROVE  /\ Taken(r) \in Lock /\ Taken(r).user = UserOf[Taken(r).device]
         /\ req[r] \in Working /\ req[r].pc \in Timed
<1>1. req[r] \in Working
  BY RequestTypes DEF IInv
<1>2. req[r].at + LockTTL \in Expiry /\ req[r].d \in Devices /\ UserOf[req[r].d] \in Users
  BY <1>1, ConstantTypes DEF Working, Users
<1> QED BY <1>1, <1>2 DEF Taken, Lock, Timed

(* The update or the insertion goes through ...                            *)
LEMMA TakenStep ==
  ASSUME IInv, NEW r \in Requests, req[r].pc \in {"acquire", "insert"},
         NEW e, e = req[r].e, NEW new, new = Taken(r),
         Grant(e, new), GoOn(r, "acquired", new), Crossing({<<e, new.user>>}, {}),
         locks[e] = None \/ locks[e].user = new.user \/ locks[e].expires <= clock,
         UNCHANGED <<server, seats, leaver, sweep, said>>
  PROVE  IInv'
<1>1. new \in Lock /\ new.user = UserOf[new.device] /\ req[r] \in Working /\ req[r].pc \in Timed
  BY TakenLock
<1>2. PICK row : row = [pc |-> "acquired", d |-> req[r].d, e |-> e, lock |-> new]
  OBVIOUS
<1>3. /\ row \in Having /\ row.pc = "acquired" /\ row.e = e /\ row.lock = new /\ e \in Entries
      /\ req' = [req EXCEPT ![r] = row]
  BY <1>1, <1>2 DEF GoOn, Having, Working
<1> QED BY <1>1, <1>3, GrantedStep

(* ... or the request makes its next call.                                 *)
LEMMA NextCall ==
  ASSUME IInv, NEW r \in Requests, req[r].pc \in {"acquire", "insert"}, NEW pc \in {"insert", "holder"},
         req' = [req EXCEPT ![r].pc = pc],
         UNCHANGED <<server, locks, seats, leaver, sweep, said, hold, shaky, crossed>>
  PROVE  IInv'
<1>1. PICK row : row = [req[r] EXCEPT !.pc = pc]
  OBVIOUS
<1>2. req[r] \in Working /\ req[r].pc \in Timed
  BY TakenLock
<1>3. row \in Working /\ row.at = req[r].at
  BY <1>1, <1>2 DEF Working
<1>4. row.at <= clock
  BY <1>3 DEF IInv, Stamped
<1>5. req' = [req EXCEPT ![r] = row]
  BY <1>1 DEF IInv, TypeOK
<1> QED BY <1>2, <1>3, <1>4, <1>5, WaitsOn

LEMMA AcquireStep ==
  ASSUME IInv, NEW r \in Requests, Acquire(r)
  PROVE  IInv'
<1>1. PICK e, new : e = req[r].e /\ new = Taken(r)
  OBVIOUS
<1>2. req[r].pc = "acquire" /\ UNCHANGED <<server, seats, leaver, sweep, said>>
  BY DEF Acquire
<1>3. CASE Acquirable(locks[e], new.user, req[r].at) /\ Grant(e, new) /\ GoOn(r, "acquired", new)
           /\ Crossing({<<e, new.user>>}, {})
  <2>1. ASSUME locks[e].user # new.user PROVE locks[e].expires <= clock
    <3>1. locks[e] # None /\ locks[e].expires <= req[r].at
      BY <1>3, <2>1 DEF Acquirable
    <3>2. req[r] \in Working /\ req[r].at <= clock
      BY <1>2, RequestTypes DEF IInv, Stamped
    <3>3. locks[e] \in Lock /\ req[r].at \in 0 .. MaxTime /\ clock \in 0 .. MaxTime
      BY <1>1, <3>1, <3>2 DEF Working, IInv, TypeOK
    <3>4. locks[e].expires \in Nat /\ req[r].at \in Nat /\ clock \in Nat
      BY <3>3, ConstantTypes DEF Lock
    <3> QED BY <3>1, <3>2, <3>4
  <2>2. req[r].pc \in {"acquire", "insert"}
    BY <1>2
  <2> QED BY <1>1, <1>2, <1>3, <2>1, <2>2, TakenStep
<1>4. CASE req' = [req EXCEPT ![r].pc = "insert"] /\ UNCHANGED <<locks, history, crossed>>
  <2>1. UNCHANGED <<locks, hold, shaky, crossed>>
    BY <1>4 DEF history
  <2> QED BY <1>2, <1>4, <2>1, NextCall
<1> QED BY <1>1, <1>3, <1>4 DEF Acquire

LEMMA InsertStep ==
  ASSUME IInv, NEW r \in Requests, Insert(r)
  PROVE  IInv'
<1>1. PICK e, new : e = req[r].e /\ new = Taken(r)
  OBVIOUS
<1>2. req[r].pc = "insert" /\ UNCHANGED <<server, seats, leaver, sweep, said>>
  BY DEF Insert
<1>3. CASE locks[e] = None /\ Grant(e, new) /\ GoOn(r, "acquired", new) /\ Crossing({<<e, new.user>>}, {})
  BY <1>1, <1>2, <1>3, TakenStep
<1>4. CASE req' = [req EXCEPT ![r].pc = "holder"] /\ UNCHANGED <<locks, history, crossed>>
  <2>1. UNCHANGED <<locks, hold, shaky, crossed>>
    BY <1>4 DEF history
  <2> QED BY <1>2, <1>4, <2>1, NextCall
<1> QED BY <1>1, <1>3, <1>4 DEF Insert

(* A heartbeat extends the grant, or has nothing to extend.                *)
LEMMA HeartbeatStep ==
  ASSUME IInv, NEW r \in Requests, Heartbeat(r)
  PROVE  IInv'
<1>1. PICK e, l, until : e = req[r].e /\ l = locks[e] /\ until = req[r].at + LockTTL
  OBVIOUS
<1>2. /\ req[r].pc = "heartbeat" /\ Answered(r) /\ UNCHANGED <<server, seats, leaver, sweep, said>>
      /\ req[r].pc \notin Owing
  BY DEF Heartbeat, Owing
<1>3. req[r] \in Working /\ e \in Entries /\ until \in Expiry
  BY <1>1, <1>2, RequestTypes, ConstantTypes DEF IInv, Working
<1>4. CASE UNCHANGED <<locks, history, crossed>>
  <2>1. UNCHANGED <<locks, hold, shaky, crossed>> /\ locks' \in [Entries -> Lock \cup {None}]
    BY <1>4 DEF history, IInv, TypeOK
  <2> QED BY <1>2, <2>1, AnsweredOnly
<1>5. CASE l # None /\ Grant(e, [l EXCEPT !.expires = until])
           /\ crossed' = crossed \cup {t \in {<<e, l.user>>} : until < l.expires}
  <2>1. PICK new : new = [l EXCEPT !.expires = until]
    OBVIOUS
  <2>2. l \in Lock /\ l.user = UserOf[l.device]
    BY <1>1, <1>3, <1>5 DEF IInv, TypeOK
  <2>3. new \in Lock /\ new.user = l.user /\ new.device = l.device /\ new.expires = until /\ new # None
    BY <1>3, <2>1, <2>2, LocksAssumption DEF Lock
  <2>4. Grant(e, new)
    BY <1>5, <2>1
  <2>5. /\ locks' \in [Entries -> Lock \cup {None}] /\ locks'[e] = new
        /\ \A f \in Entries \ {e} : locks'[f] = locks[f]
        /\ \A f \in Entries : locks'[f] # None => locks'[f].user = UserOf[locks'[f].device]
        /\ hold' \in [Entries -> [Devices -> Expiry]] /\ shaky' \subseteq Entries \X Devices
    BY <1>3, <2>2, <2>3, <2>4, GrantTypes DEF IInv
  <2>6. req'[r] = NoRequest /\ NoRequest.pc = "idle" /\ \A q \in Requests \ {r} : req'[q] = req[q]
    BY <1>2 DEF Answered, NoRequest, IInv, TypeOK
  <2>7. TypeOK'
    <3>1. crossed' \subseteq Entries \X Users
      BY <1>3, <1>5, <2>2 DEF Lock, IInv, TypeOK
    <3>2. req' \in [Requests -> {NoRequest} \cup Working \cup Deleting \cup Having]
      BY <1>2 DEF Answered, IInv, TypeOK
    <3> QED BY <1>2, <2>5, <3>1, <3>2 DEF IInv, TypeOK, server
  <2>8. Stamped'
    BY <1>2, <2>6 DEF IInv, Stamped, server
  <2>9. Grants'
    <3>1. \A q \in Requests : (req'[q].pc = "remove" <=> req[q].pc = "remove") /\ (req[q].pc = "remove" => req'[q] = req[q])
      BY <1>2, <2>6
    <3>2. UNCHANGED <<clock, leaver>> /\ TypeOK /\ Grants
      BY <1>2 DEF server, IInv, Grants
    <3> QED BY <1>1, <1>3, <2>2, <2>3, <2>4, <3>1, <3>2, GrantKeeps
  <2>10. MessagesRight'
    <3>1. \/ locks'[e].expires >= locks[e].expires
          \/ <<e, locks[e].user>> \in crossed'
      <4>1. until \in Nat /\ l.expires \in Nat
        BY <1>3, <2>2, ConstantTypes DEF Lock
      <4> QED BY <1>1, <1>5, <2>3, <2>5, <4>1
    <3>2. \A q \in Requests : \/ req'[q] = req[q]
                              \/ /\ req[q].pc \notin {"acquired", "released"}
                                 /\ req'[q].pc \notin {"acquired", "released"}
      BY <1>2, <2>6
    <3>3. clock' = clock /\ clock' >= clock /\ UNCHANGED <<said, leaver, sweep>> /\ crossed \subseteq crossed'
      BY <1>2, <1>5, ConstantTypes DEF server, IInv, TypeOK
    <3>4. \A f \in Entries :
            \/ locks'[f] = locks[f]
            \/ /\ locks[f] # None /\ locks'[f] # None /\ locks'[f].user = locks[f].user
               /\ locks'[f].expires >= locks[f].expires \/ <<f, locks[f].user>> \in crossed'
      BY <1>1, <1>5, <2>3, <2>5, <3>1
    <3> QED BY <2>7, <3>2, <3>3, <3>4, SilentStep DEF IInv
  <2> QED BY <2>7, <2>8, <2>9, <2>10 DEF IInv, Grants
<1> QED BY <1>1, <1>4, <1>5 DEF Heartbeat, Extendable

-----------------------------------------------------------------------------
(* The steps in which grants are given up.                                 *)

LEMMA GiveUpFacts ==
  ASSUME TypeOK, NEW ds, NEW es, GiveUp(ds, es)
  PROVE  /\ hold' \in [Entries -> [Devices -> Expiry]]
         /\ \A e \in Entries, d \in Devices : /\ hold'[e][d] \in {0, hold[e][d]}
                                              /\ e \in es /\ d \in ds => hold'[e][d] = 0
<1>1. /\ 0 \in Expiry /\ hold \in [Entries -> [Devices -> Expiry]]
      /\ hold' = [e \in Entries |-> [d \in Devices |-> IF d \in ds /\ e \in es THEN 0 ELSE hold[e][d]]]
  BY ConstantTypes DEF GiveUp, TypeOK
<1>2. \A e \in Entries, d \in Devices :
        hold'[e][d] = (IF d \in ds /\ e \in es THEN 0 ELSE hold[e][d]) /\ hold[e][d] \in Expiry
  BY <1>1
<1>3. hold' \in [Entries -> [Devices -> Expiry]]
  BY <1>1
<1>4. ASSUME NEW e \in Entries, NEW d \in Devices
      PROVE  hold'[e][d] \in {0, hold[e][d]} /\ (e \in es /\ d \in ds => hold'[e][d] = 0)
  <2>1. CASE e \in es /\ d \in ds
    BY <1>2, <2>1
  <2>2. CASE ~(e \in es /\ d \in ds)
    BY <1>2, <2>2
  <2> QED BY <2>1, <2>2
<1> QED BY <1>3, <1>4

(* Grants may be given up at any time.                                     *)
LEMMA GivenUpKeeps ==
  ASSUME TypeOK, Grants, NEW ds, NEW es, GiveUp(ds, es), UNCHANGED <<clock, locks, shaky>>,
         \A r \in Requests : req'[r].pc = "remove" =>
            \/ req'[r] = req[r]
            \/ req'[r].e \in es /\ \A d \in Devices : UserOf[d] = req'[r].lock.user => d \in ds,
         \A r \in Requests : req'[r].pc = "remove" => req'[r].e \in Entries,
         \A d \in Devices : leaver'[d].pc \in {"find", "delete"} =>
            leaver'[d] = leaver[d] \/ (d \in ds /\ es = Entries)
  PROVE  Grants'
<1>1. \A e \in Entries, d \in Devices : /\ hold'[e][d] \in {0, hold[e][d]}
                                        /\ e \in es /\ d \in ds => hold'[e][d] = 0
  BY GiveUpFacts
<1>2. DoomedGivenUp'
  <2> SUFFICES ASSUME NEW r \in Requests, req'[r].pc = "remove", StillTheSame(r)',
                      NEW d \in Devices, UserOf[d] = req'[r].lock.user
               PROVE  hold'[req'[r].e][d] = 0
    BY DEF DoomedGivenUp
  <2>1. CASE req'[r] = req[r]
    <3>1. StillTheSame(r) /\ req[r].pc = "remove"
      BY <2>1 DEF StillTheSame, StillExpired
    <3> QED BY <1>1, <2>1, <3>1 DEF Grants, DoomedGivenUp
  <2>2. CASE req'[r].e \in es /\ d \in ds
    BY <1>1, <2>2
  <2> QED BY <2>1, <2>2
<1>3. DepartingGivenUp'
  BY <1>1 DEF Grants, DepartingGivenUp
<1>4. GrantsKept'
  <2> SUFFICES ASSUME NEW e \in Entries, NEW d \in Devices, hold'[e][d] > clock, <<e, d>> \notin shaky
               PROVE  Kept(e, d)'
    BY DEF GrantsKept
  <2>1. hold'[e][d] = hold[e][d]
    <3>1. clock \in Nat
      BY ConstantTypes DEF TypeOK
    <3>2. hold'[e][d] # 0
      BY <3>1
    <3> QED BY <1>1, <3>2
  <2> QED BY <2>1 DEF Grants, GrantsKept, Kept
<1> QED BY <1>2, <1>3, <1>4 DEF Grants

LEMMA LookUpStep ==
  ASSUME IInv, NEW r \in Requests, LookUp(r)
  PROVE  IInv'
<1>1. PICK e, l, d : e = req[r].e /\ l = locks[e] /\ d = req[r].d
  OBVIOUS
<1>2. /\ req[r].pc \in {"delete", "force"} /\ req[r].pc \notin Owing /\ req[r] \in Deleting
      /\ UNCHANGED <<server, locks, seats, leaver, sweep, said, shaky, crossed>>
      /\ e \in Entries /\ d \in Devices /\ locks' \in [Entries -> Lock \cup {None}]
  <2>1. req[r].pc \in {"delete", "force"} /\ UNCHANGED <<server, locks, seats, leaver, sweep, said, shaky, crossed>>
    BY DEF LookUp
  <2>2. req[r] \in Deleting
    BY <2>1, RequestTypes DEF IInv
  <2> QED BY <1>1, <2>1, <2>2 DEF Deleting, Owing, IInv, TypeOK
<1>3. CASE Answered(r) /\ UNCHANGED hold
  BY <1>2, <1>3, AnsweredOnly
<1>4. CASE l # None /\ ~Active(l, clock) /\ GoOn(r, "clean", l) /\ UNCHANGED hold
  <2>1. PICK row : row = [pc |-> "clean", d |-> d, e |-> e, lock |-> l]
    OBVIOUS
  <2>2. l \in Lock
    BY <1>1, <1>2, <1>4 DEF IInv, TypeOK
  <2>3. row \in Having /\ row.pc = "clean" /\ row.lock = l /\ req' = [req EXCEPT ![r] = row]
    BY <1>1, <1>2, <1>4, <2>1, <2>2 DEF GoOn, Having
  <2>4. l.expires <= clock
    <3>1. l.expires \in Nat /\ clock \in Nat
      BY <2>2, ConstantTypes DEF Lock, IInv, TypeOK
    <3> QED BY <1>4, <3>1 DEF Active
  <2>5. row.pc \notin Owing \cup {"remove"} \cup Timed
    BY <2>3 DEF Owing, Timed
  <2>6. UNCHANGED <<clock, departures, seats, leaver, sweep, said, hold, shaky, crossed>> /\ served' \in 0 .. MaxServed
    BY <1>2, <1>4 DEF server, IInv, TypeOK
  <2> QED BY <1>2, <2>3, <2>4, <2>5, <2>6, OnlyRequest
<1>5. CASE l # None /\ GoOn(r, "remove", l) /\ GiveUp({c \in Devices : UserOf[c] = l.user}, {e})
  <2>1. PICK row : row = [pc |-> "remove", d |-> d, e |-> e, lock |-> l]
    OBVIOUS
  <2>2. PICK ds : ds = {c \in Devices : UserOf[c] = l.user}
    OBVIOUS
  <2>3. l \in Lock
    BY <1>1, <1>2, <1>5 DEF IInv, TypeOK
  <2>4. row \in Having /\ row.pc = "remove" /\ row.lock = l /\ row.e = e /\ req' = [req EXCEPT ![r] = row]
    BY <1>1, <1>2, <1>5, <2>1, <2>3 DEF GoOn, Having
  <2>5. req'[r] = row /\ \A q \in Requests \ {r} : req'[q] = req[q]
    BY <2>4 DEF IInv, TypeOK
  <2>6. GiveUp(ds, {e})
    BY <1>5, <2>2
  <2>7. TypeOK'
    <3>1. hold' \in [Entries -> [Devices -> Expiry]]
      BY <2>6, GiveUpFacts DEF IInv
    <3>2. req' \in [Requests -> {NoRequest} \cup Working \cup Deleting \cup Having]
      BY <2>4 DEF IInv, TypeOK
    <3> QED BY <1>2, <3>1, <3>2 DEF IInv, TypeOK, server
  <2>8. Stamped'
    BY <1>2, <2>4, <2>5 DEF IInv, Stamped, server
  <2>9. Grants'
    <3>1. \A q \in Requests : req'[q].pc = "remove" =>
            \/ req'[q] = req[q]
            \/ req'[q].e \in {e} /\ \A c \in Devices : UserOf[c] = req'[q].lock.user => c \in ds
      BY <2>2, <2>4, <2>5
    <3>2. \A q \in Requests : req'[q].pc = "remove" => req'[q].e \in Entries
      <4> SUFFICES ASSUME NEW q \in Requests, req'[q].pc = "remove" PROVE req'[q].e \in Entries
        OBVIOUS
      <4>1. CASE q = r
        BY <1>2, <2>4, <2>5, <4>1
      <4>2. CASE q # r
        BY <2>5, <4>2, RequestTypes DEF IInv, Having
      <4> QED BY <4>1, <4>2
    <3>3. UNCHANGED <<clock, locks, shaky, leaver>> /\ TypeOK /\ Grants
      BY <1>2 DEF server, IInv, Grants
    <3> QED BY <2>6, <3>1, <3>2, <3>3, GivenUpKeeps
  <2>10. MessagesRight'
    <3>1. \A q \in Requests : \/ req'[q] = req[q]
                              \/ /\ req[q].pc \notin {"acquired", "released"}
                                 /\ req'[q].pc \notin {"acquired", "released"}
      BY <1>2, <2>4, <2>5
    <3>2. clock' = clock /\ clock' >= clock /\ UNCHANGED <<said, leaver, sweep, locks>> /\ crossed \subseteq crossed'
      BY <1>2, ConstantTypes DEF server, IInv, TypeOK
    <3> QED BY <2>7, <3>1, <3>2, SilentStep DEF IInv
  <2> QED BY <2>7, <2>8, <2>9, <2>10 DEF IInv, Grants
<1> QED BY <1>1, <1>3, <1>4, <1>5 DEF LookUp, Active

LEMMA LeaveStep ==
  ASSUME IInv, NEW d \in Devices, Leave(d)
  PROVE  IInv'
<1>1. /\ UNCHANGED <<clock, served, locks, req, sweep, said, shaky, crossed>>
      /\ leaver[d].pc = "idle" /\ GiveUp({d}, Entries) /\ seats' \subseteq Devices
      /\ departures' \in 0 .. MaxLeaves
  BY LocksAssumption DEF Leave, IInv, TypeOK
<1>2. /\ leaver' \in [Devices -> [pc : {"idle", "find", "delete", "tell"}, held : SUBSET Entries]]
      /\ leaver'[d].pc = "find" /\ \A c \in Devices \ {d} : leaver'[c] = leaver[c]
  <2>1. PICK row : row = [leaver[d] EXCEPT !.pc = "find"]
    OBVIOUS
  <2>2. row \in [pc : {"idle", "find", "delete", "tell"}, held : SUBSET Entries] /\ row.pc = "find"
    BY <2>1 DEF IInv, TypeOK
  <2>3. leaver' = [leaver EXCEPT ![d] = row]
    BY <2>1 DEF Leave, IInv, TypeOK
  <2> QED BY <2>2, <2>3 DEF IInv, TypeOK
<1>3. TypeOK'
  <2>1. hold' \in [Entries -> [Devices -> Expiry]]
    BY <1>1, GiveUpFacts DEF IInv
  <2> QED BY <1>1, <1>2, <2>1 DEF IInv, TypeOK
<1>4. Stamped'
  BY <1>1 DEF IInv, Stamped
<1>5. Grants'
  <2>1. \A r \in Requests : req'[r].pc = "remove" => req'[r] = req[r] /\ req'[r].e \in Entries
    BY <1>1, RequestTypes DEF IInv, Having
  <2>2. \A c \in Devices : leaver'[c].pc \in {"find", "delete"} => leaver'[c] = leaver[c] \/ c \in {d}
    BY <1>2
  <2>3. UNCHANGED <<clock, locks, shaky>> /\ TypeOK /\ Grants
    BY <1>1 DEF IInv, Grants
  <2> QED BY <1>1, <2>1, <2>2, <2>3, GivenUpKeeps
<1>6. MessagesRight'
  <2>1. clock' >= clock
    BY <1>1, ConstantTypes DEF IInv, TypeOK
  <2>2. \A c \in Devices : leaver'[c] = leaver[c] \/ (leaver[c].pc # "tell" /\ leaver'[c].pc # "tell")
    BY <1>1, <1>2
  <2> QED BY <1>1, <1>3, <2>1, <2>2, SilentStep DEF IInv
<1> QED BY <1>3, <1>4, <1>5, <1>6 DEF IInv, Grants

-----------------------------------------------------------------------------
(* The steps that tell the room.                                           *)

(* A message that is sent, and was right while it was owed, leaves all
   the others right.                                                       *)
LEMMA ToldStep ==
  ASSUME TypeOK, TypeOK', MessagesRight, UNCHANGED <<clock, locks, crossed>>,
         \A q \in Requests, e \in Entries, u \in Users :
            AcquiredOwed(q, e, u)' => AcquiredOwed(q, e, u) /\ req'[q].lock = req[q].lock,
         \A e \in Entries, u \in Users : GoneOwed(e, u)' => GoneOwed(e, u),
         \A e \in Entries, u \in Users :
            Right(e, u) => \/ SaidRight(e, u)'
                           \/ said'[e][u] = said[e][u] /\ (Owed(e, u) => Owed(e, u)')
  PROVE  MessagesRight'
<1> SUFFICES ASSUME NEW e \in Entries, NEW u \in Users, <<e, u>> \notin crossed'
             PROVE  Right(e, u)'
  BY DEF MessagesRight
<1>1. Right(e, u)
  BY DEF MessagesRight
<1>2. /\ clock \in Nat /\ clock' \in Nat /\ clock' >= clock
      /\ locks[e] # None => locks[e].expires \in Nat
      /\ locks'[e] # None => locks'[e].expires \in Nat
      /\ said[e][u].expires \in Nat
      /\ \A r \in Requests : AcquiredOwed(r, e, u) => req[r].lock.expires \in Nat
  BY PairTypes
<1>3. Standing(e, u)' <=> Standing(e, u)
  BY DEF Standing
<1>4. Standing(e, u) /\ locks[e].expires > clock' => Standing(e, u)' /\ locks'[e].expires >= locks[e].expires
  BY <1>2, <1>3 DEF Standing
<1> QED BY <1>1, <1>2, <1>3, <1>4, PairStays

(* No grant is touched by it.                                              *)
LEMMA GrantsAside ==
  ASSUME TypeOK, DoomedGivenUp, DepartingGivenUp, GrantsKept, UNCHANGED <<server, locks, hold, shaky>>,
         \A q \in Requests : req'[q] = req[q] \/ req'[q].pc # "remove",
         \A d \in Devices : leaver'[d] = leaver[d] \/ leaver'[d].pc \notin {"find", "delete"}
  PROVE  Grants'
<1>1. clock' \in Nat /\ clock' >= clock
  BY ConstantTypes DEF TypeOK, server
<1>2. Grants
  BY DEF Grants
<1> QED BY <1>1, <1>2, NothingGranted

LEMMA AcquiredStep ==
  ASSUME IInv, NEW r \in Requests, Acquired(r)
  PROVE  IInv'
<1>1. PICK f, l : f = req[r].e /\ l = req[r].lock
  OBVIOUS
<1>2. /\ req[r].pc = "acquired" /\ UNCHANGED <<server, locks, seats, leaver, sweep, hold, shaky, crossed>>
      /\ Answered(r) /\ said' = [said EXCEPT ![f][l.user] = [event |-> "acquired", expires |-> l.expires]]
  BY <1>1 DEF Acquired, Say, history
<1>3. f \in Entries /\ l \in Lock /\ l.user \in Users /\ l.expires \in Expiry
  BY <1>1, <1>2, RequestTypes DEF IInv, Having, Lock
<1>4. req'[r] = NoRequest /\ NoRequest.pc = "idle" /\ \A q \in Requests \ {r} : req'[q] = req[q]
  BY <1>2 DEF Answered, NoRequest, IInv, TypeOK
<1>5. /\ said' \in [Entries -> [Users -> Message]]
      /\ said'[f][l.user] = [event |-> "acquired", expires |-> l.expires]
      /\ \A e \in Entries, u \in Users : ~(e = f /\ u = l.user) => said'[e][u] = said[e][u]
  BY <1>2, <1>3 DEF Message, IInv, TypeOK
<1>6. TypeOK'
  <2>1. req' \in [Requests -> {NoRequest} \cup Working \cup Deleting \cup Having]
    BY <1>2 DEF Answered, IInv, TypeOK
  <2> QED BY <1>2, <1>5, <2>1 DEF IInv, TypeOK, server
<1>7. Stamped'
  BY <1>2, <1>4 DEF IInv, Stamped, server
<1>8. Grants'
  BY <1>2, <1>4, GrantsAside DEF IInv
<1>9. MessagesRight'
  <2>1. \A q \in Requests, e \in Entries, u \in Users :
          AcquiredOwed(q, e, u)' => AcquiredOwed(q, e, u) /\ req'[q].lock = req[q].lock
    BY <1>4 DEF AcquiredOwed
  <2>2. \A e \in Entries, u \in Users : GoneOwed(e, u)' <=> GoneOwed(e, u)
    BY <1>2, <1>4 DEF GoneOwed
  <2>3. ASSUME NEW e \in Entries, NEW u \in Users, Right(e, u)
        PROVE  \/ SaidRight(e, u)'
               \/ said'[e][u] = said[e][u] /\ (Owed(e, u) => Owed(e, u)')
    <3>1. CASE e = f /\ u = l.user
      <4>1. Backed(e, u, l.expires)
        BY <1>1, <1>2, <2>3, <3>1 DEF Right, AcquiredOwed
      <4> QED BY <1>2, <1>5, <3>1, <4>1 DEF SaidRight, Backed, Standing, server
    <3>2. CASE ~(e = f /\ u = l.user)
      <4>1. \A q \in Requests : AcquiredOwed(q, e, u) => AcquiredOwed(q, e, u)'
        BY <1>1, <1>4, <3>2 DEF AcquiredOwed
      <4> QED BY <1>5, <2>2, <3>2, <4>1 DEF Owed
    <3> QED BY <3>1, <3>2
  <2> QED BY <1>2, <1>6, <2>1, <2>2, <2>3, ToldStep DEF IInv, server
<1> QED BY <1>6, <1>7, <1>8, <1>9 DEF IInv, Grants

(* A message that somebody's lock is gone.                                 *)
LEMMA GoneStep ==
  ASSUME IInv, TypeOK', Stamped', NEW gone \in SUBSET (Entries \X Users),
         UNCHANGED <<server, locks, hold, shaky, crossed>>,
         \A q \in Requests : \/ req'[q] = req[q]
                             \/ req[q].pc # "acquired" /\ req'[q].pc = "idle",
         \A d \in Devices : leaver'[d] = leaver[d] \/ (leaver[d].pc = "tell" /\ leaver'[d].pc = "idle"),
         \A e \in Entries, u \in Users : GoneOwed(e, u)' => GoneOwed(e, u),
         \A e \in Entries, u \in Users :
            IF <<e, u>> \in gone THEN GoneOwed(e, u) /\ said'[e][u].event # "acquired"
            ELSE (GoneOwed(e, u) => GoneOwed(e, u)') /\ said'[e][u] = said[e][u]
  PROVE  IInv'
<1>1. Grants'
  BY GrantsAside DEF IInv
<1>2. MessagesRight'
  <2>1. \A q \in Requests, e \in Entries, u \in Users :
          AcquiredOwed(q, e, u)' <=> AcquiredOwed(q, e, u)
    BY DEF AcquiredOwed
  <2>2. \A q \in Requests, e \in Entries, u \in Users : AcquiredOwed(q, e, u)' => req'[q].lock = req[q].lock
    BY DEF AcquiredOwed
  <2>3. ASSUME NEW e \in Entries, NEW u \in Users, Right(e, u)
        PROVE  \/ SaidRight(e, u)'
               \/ said'[e][u] = said[e][u] /\ (Owed(e, u) => Owed(e, u)')
    <3>1. CASE <<e, u>> \in gone
      <4>1. ~Standing(e, u)'
        BY <2>3, <3>1 DEF Right, Standing
      <4> QED BY <3>1, <4>1 DEF SaidRight
    <3>2. CASE <<e, u>> \notin gone
      BY <2>1, <3>2 DEF Owed
    <3> QED BY <3>1, <3>2
  <2> QED BY <2>1, <2>2, <2>3, ToldStep DEF IInv, server
<1> QED BY <1>1, <1>2 DEF IInv, Grants

LEMMA ReleasedStep ==
  ASSUME IInv, NEW r \in Requests, Released(r)
  PROVE  IInv'
<1>1. PICK f, l, event : /\ f = req[r].e /\ l = req[r].lock
                         /\ event = IF l.user = UserOf[req[r].d] THEN "released" ELSE "broken"
  OBVIOUS
<1>2. /\ req[r].pc = "released" /\ UNCHANGED <<server, locks, seats, leaver, sweep, hold, shaky, crossed>>
      /\ event \in {"released", "broken"}
      /\ Answered(r) /\ said' = [said EXCEPT ![f][l.user] = Gone(event)]
  BY <1>1 DEF Released, Say, history
<1>3. f \in Entries /\ l \in Lock /\ l.user \in Users
  BY <1>1, <1>2, RequestTypes DEF IInv, Having, Lock
<1>4. req'[r] = NoRequest /\ NoRequest.pc = "idle" /\ \A q \in Requests \ {r} : req'[q] = req[q]
  BY <1>2 DEF Answered, NoRequest, IInv, TypeOK
<1>5. Gone(event) \in Message /\ Gone(event).event # "acquired"
  BY <1>2, ConstantTypes DEF Gone, Message
<1>6. /\ said' \in [Entries -> [Users -> Message]] /\ said'[f][l.user] = Gone(event)
      /\ \A e \in Entries, u \in Users : ~(e = f /\ u = l.user) => said'[e][u] = said[e][u]
  BY <1>2, <1>3, <1>5 DEF IInv, TypeOK
<1>7. TypeOK'
  <2>1. req' \in [Requests -> {NoRequest} \cup Working \cup Deleting \cup Having]
    BY <1>2 DEF Answered, IInv, TypeOK
  <2> QED BY <1>2, <1>6, <2>1 DEF IInv, TypeOK, server
<1>8. Stamped'
  BY <1>2, <1>4 DEF IInv, Stamped, server
<1>9. PICK gone : gone = {<<f, l.user>>}
  OBVIOUS
<1>10. \A e \in Entries, u \in Users : GoneOwed(e, u)' => GoneOwed(e, u)
  BY <1>2, <1>4 DEF GoneOwed
<1>11. ASSUME NEW e \in Entries, NEW u \in Users
       PROVE  IF <<e, u>> \in gone THEN GoneOwed(e, u) /\ said'[e][u].event # "acquired"
              ELSE (GoneOwed(e, u) => GoneOwed(e, u)') /\ said'[e][u] = said[e][u]
  <2>1. CASE e = f /\ u = l.user
    BY <1>1, <1>2, <1>5, <1>6, <1>9, <2>1 DEF GoneOwed
  <2>2. CASE ~(e = f /\ u = l.user)
    <3>1. GoneOwed(e, u) => GoneOwed(e, u)'
      BY <1>1, <1>2, <1>4, <2>2 DEF GoneOwed
    <3> QED BY <1>6, <1>9, <2>2, <3>1
  <2> QED BY <2>1, <2>2
<1>12. gone \in SUBSET (Entries \X Users)
  BY <1>3, <1>9
<1>13. \A q \in Requests : req'[q] = req[q] \/ (req[q].pc # "acquired" /\ req'[q].pc = "idle")
  BY <1>2, <1>4
<1> QED BY <1>2, <1>7, <1>8, <1>10, <1>11, <1>12, <1>13, GoneStep

LEMMA TellReleasedStep ==
  ASSUME IInv, NEW d \in Devices, TellReleased(d)
  PROVE  IInv'
<1>1. PICK held, u : held = leaver[d].held /\ u = UserOf[d]
  OBVIOUS
<1>2. /\ leaver[d].pc = "tell" /\ UNCHANGED <<server, locks, seats, req, sweep, hold, shaky, crossed>>
      /\ said' = [e \in Entries |-> IF e \in held THEN [said[e] EXCEPT ![u] = Gone("released")] ELSE said[e]]
      /\ leaver' = [leaver EXCEPT ![d] = [pc |-> "idle", held |-> {}]]
  BY <1>1 DEF TellReleased, history
<1>3. u \in Users /\ held \subseteq Entries
  BY <1>1 DEF Users, IInv, TypeOK
<1>4. Gone("released") \in Message /\ Gone("released").event # "acquired"
  BY ConstantTypes DEF Gone, Message
<1>5. /\ leaver' \in [Devices -> [pc : {"idle", "find", "delete", "tell"}, held : SUBSET Entries]]
      /\ leaver'[d].pc = "idle" /\ \A c \in Devices \ {d} : leaver'[c] = leaver[c]
  BY <1>2 DEF IInv, TypeOK
<1>6. /\ \A e \in Entries, v \in Users :
           said'[e][v] = IF e \in held /\ v = u THEN Gone("released") ELSE said[e][v]
      /\ said' \in [Entries -> [Users -> Message]]
  BY <1>2, <1>3, <1>4 DEF IInv, TypeOK
<1>7. TypeOK' /\ Stamped'
  BY <1>2, <1>5, <1>6 DEF IInv, TypeOK, Stamped, server
<1>8. PICK gone : gone = {<<e, u>> : e \in held}
  OBVIOUS
<1>9. \A e \in Entries, v \in Users : GoneOwed(e, v)' => GoneOwed(e, v)
  BY <1>2, <1>5 DEF GoneOwed
<1>10. ASSUME NEW e \in Entries, NEW v \in Users
       PROVE  IF <<e, v>> \in gone THEN GoneOwed(e, v) /\ said'[e][v].event # "acquired"
              ELSE (GoneOwed(e, v) => GoneOwed(e, v)') /\ said'[e][v] = said[e][v]
  <2>1. CASE e \in held /\ v = u
    BY <1>1, <1>2, <1>4, <1>6, <1>8, <2>1 DEF GoneOwed
  <2>2. CASE ~(e \in held /\ v = u)
    <3>1. GoneOwed(e, v) => GoneOwed(e, v)'
      BY <1>1, <1>2, <1>5, <2>2 DEF GoneOwed
    <3> QED BY <1>6, <1>8, <2>2, <3>1
  <2> QED BY <2>1, <2>2
<1>11. gone \in SUBSET (Entries \X Users)
  BY <1>3, <1>8
<1>12. /\ \A c \in Devices : leaver'[c] = leaver[c] \/ (leaver[c].pc = "tell" /\ leaver'[c].pc = "idle")
       /\ \A q \in Requests : req'[q] = req[q]
  BY <1>2, <1>5
<1> QED BY <1>2, <1>7, <1>9, <1>10, <1>11, <1>12, GoneStep

LEMMA SweepTypes ==
  ASSUME TypeOK
  PROVE  /\ sweep.pc = "delete" => sweep \in Sweeping
         /\ sweep.pc = "tell" => sweep \in Telling
         /\ sweep.pc \in {"idle", "delete", "tell"}
BY DEF TypeOK, Sweeping, Telling

(* What is left of a sweep.                                                *)
LEMMA RestOfSweep ==
  ASSUME TypeOK, sweep.pc # "idle", NEW rest \in SUBSET sweep.todo
  PROVE  /\ SweepEntry(rest) \in {[pc |-> "idle"]} \cup Sweeping
         /\ SweepEntry(rest).pc \in {"idle", "delete"}
         /\ SweepEntry(rest).pc # "idle" => SweepEntry(rest).at = sweep.at
<1>1. sweep.at \in 0 .. MaxTime /\ rest \subseteq Found
  BY SweepTypes DEF Sweeping, Telling
<1>2. CASE rest = {}
  BY <1>2 DEF SweepEntry
<1>3. CASE rest # {}
  BY <1>1, <1>3 DEF SweepEntry, Sweeping
<1> QED BY <1>2, <1>3

LEMMA SweepTellStep ==
  ASSUME IInv, SweepTell
  PROVE  IInv'
<1>1. PICK f, l : f = sweep.e /\ l = sweep.lock
  OBVIOUS
<1>2. /\ sweep.pc = "tell" /\ UNCHANGED <<server, locks, seats, req, leaver, hold, shaky, crossed>>
      /\ sweep' = SweepEntry(sweep.todo) /\ said' = [said EXCEPT ![f][l.user] = Gone("expired")]
  BY <1>1 DEF SweepTell, Say, history
<1>3. f \in Entries /\ l \in Lock /\ l.user \in Users
  BY <1>1, <1>2, SweepTypes DEF IInv, Telling, Lock
<1>4. /\ sweep' \in {[pc |-> "idle"]} \cup Sweeping /\ sweep'.pc \in {"idle", "delete"}
      /\ sweep'.pc # "idle" => sweep'.at = sweep.at
  BY <1>2, RestOfSweep DEF IInv
<1>5. Gone("expired") \in Message /\ Gone("expired").event # "acquired"
  BY ConstantTypes DEF Gone, Message
<1>6. /\ said' \in [Entries -> [Users -> Message]] /\ said'[f][l.user] = Gone("expired")
      /\ \A e \in Entries, u \in Users : ~(e = f /\ u = l.user) => said'[e][u] = said[e][u]
  BY <1>2, <1>3, <1>5 DEF IInv, TypeOK
<1>7. TypeOK'
  BY <1>2, <1>4, <1>6 DEF IInv, TypeOK, server
<1>8. Stamped'
  BY <1>2, <1>4 DEF IInv, Stamped, server
<1>9. PICK gone : gone = {<<f, l.user>>}
  OBVIOUS
<1>10. \A e \in Entries, u \in Users : GoneOwed(e, u)' => GoneOwed(e, u)
  BY <1>2, <1>4 DEF GoneOwed
<1>11. ASSUME NEW e \in Entries, NEW u \in Users
       PROVE  IF <<e, u>> \in gone THEN GoneOwed(e, u) /\ said'[e][u].event # "acquired"
              ELSE (GoneOwed(e, u) => GoneOwed(e, u)') /\ said'[e][u] = said[e][u]
  <2>1. CASE e = f /\ u = l.user
    BY <1>1, <1>2, <1>5, <1>6, <1>9, <2>1 DEF GoneOwed
  <2>2. CASE ~(e = f /\ u = l.user)
    <3>1. GoneOwed(e, u) => GoneOwed(e, u)'
      BY <1>1, <1>2, <2>2 DEF GoneOwed
    <3> QED BY <1>6, <1>9, <2>2, <3>1
  <2> QED BY <2>1, <2>2
<1>12. gone \in SUBSET (Entries \X Users)
  BY <1>3, <1>9
<1>13. (\A q \in Requests : req'[q] = req[q]) /\ \A c \in Devices : leaver'[c] = leaver[c]
  BY <1>2
<1> QED BY <1>2, <1>7, <1>8, <1>10, <1>11, <1>12, <1>13, GoneStep

-----------------------------------------------------------------------------
(* The steps that delete locks and owe the message.                        *)

LEMMA OwedStep ==
  ASSUME TypeOK, TypeOK', MessagesRight, NEW touched, NEW silent, Crossing(touched, silent),
         UNCHANGED <<clock, said>>,
         \A q \in Requests, e \in Entries, u \in Users :
            /\ AcquiredOwed(q, e, u)' <=> AcquiredOwed(q, e, u)
            /\ AcquiredOwed(q, e, u)' => req'[q].lock = req[q].lock,
         \A e \in Entries : locks'[e] \in {locks[e], None},
         \A e \in Entries, u \in Users :
            IF <<e, u>> \in touched THEN GoneOwed(e, u)' /\ (<<e, u>> \in silent \/ ~Standing(e, u)')
            ELSE /\ GoneOwed(e, u)' <=> GoneOwed(e, u)
                 /\ \/ <<e, u>> \in silent
                    \/ locks'[e] = locks[e]
                    \/ Standing(e, u) => locks[e].expires <= clock
  PROVE  MessagesRight'
<1> SUFFICES ASSUME NEW e \in Entries, NEW u \in Users, <<e, u>> \notin crossed'
             PROVE  Right(e, u)'
  BY DEF MessagesRight
<1>1. <<e, u>> \notin silent
  BY CrossingFacts
<1>2. CASE <<e, u>> \in touched
  <2>1. ~Owed(e, u)
    BY <1>2, CrossingFacts
  <2>2. \A q \in Requests : ~AcquiredOwed(q, e, u)'
    BY <2>1 DEF Owed
  <2>3. GoneOwed(e, u)' /\ ~Standing(e, u)'
    BY <1>1, <1>2
  <2> QED BY <2>2, <2>3 DEF Right, Owed
<1>3. CASE <<e, u>> \notin touched
  <2>1. Right(e, u)
    BY <1>1, <1>3, CrossingFacts DEF MessagesRight
  <2>2. GoneOwed(e, u)' <=> GoneOwed(e, u)
    BY <1>3
  <2>3. Owed(e, u) => Owed(e, u)'
    BY <2>2 DEF Owed
  <2>4. /\ clock \in Nat /\ clock' \in Nat /\ clock' >= clock
        /\ locks[e] # None => locks[e].expires \in Nat
        /\ locks'[e] # None => locks'[e].expires \in Nat
        /\ said[e][u].expires \in Nat
        /\ \A r \in Requests : AcquiredOwed(r, e, u) => req[r].lock.expires \in Nat
    BY PairTypes
  <2>5. Standing(e, u)' => Standing(e, u)
    BY DEF Standing
  <2>6. Standing(e, u) /\ locks[e].expires > clock' => Standing(e, u)' /\ locks'[e].expires >= locks[e].expires
    BY <1>1, <1>3, <2>4 DEF Standing
  <2> QED BY <2>1, <2>2, <2>3, <2>4, <2>5, <2>6, PairStays
<1> QED BY <1>2, <1>3

(* DELETE removes the grant it has found: it was given up then.            *)
LEMMA RemoveStep ==
  ASSUME IInv, NEW r \in Requests, Remove(r)
  PROVE  IInv'
<1>1. PICK f, l : f = req[r].e /\ l = req[r].lock
  OBVIOUS
<1>2. /\ req[r].pc = "remove" /\ UNCHANGED <<server, seats, leaver, sweep, said, hold, shaky>>
      /\ locks' = [locks EXCEPT ![f] = None] /\ req' = [req EXCEPT ![r].pc = "released"]
      /\ Crossing({<<f, l.user>>}, {}) /\ StillTheSame(r)
      /\ locks[f] # None /\ locks[f].user = l.user
  BY <1>1 DEF Remove, StillTheSame, StillExpired, history
<1>3. f \in Entries /\ l \in Lock /\ l.user \in Users /\ req[r] \in Having
  BY <1>1, <1>2, RequestTypes DEF IInv, Having, Lock
<1>4. PICK row : row = [req[r] EXCEPT !.pc = "released"]
  OBVIOUS
<1>5. row \in Having /\ row.pc = "released" /\ row.e = f /\ row.lock = l
  BY <1>1, <1>3, <1>4 DEF Having
<1>6. req' = [req EXCEPT ![r] = row] /\ req'[r] = row /\ \A q \in Requests \ {r} : req'[q] = req[q]
  BY <1>2, <1>4 DEF IInv, TypeOK
<1>7. locks' \in [Entries -> Lock \cup {None}] /\ locks'[f] = None /\ \A e \in Entries \ {f} : locks'[e] = locks[e]
  BY <1>2, <1>3 DEF IInv, TypeOK
<1>8. TypeOK'
  <2>1. crossed' \subseteq Entries \X Users
    BY <1>2, <1>3 DEF Crossing, IInv, TypeOK
  <2>2. req' \in [Requests -> {NoRequest} \cup Working \cup Deleting \cup Having]
    BY <1>5, <1>6 DEF IInv, TypeOK
  <2> QED BY <1>2, <1>7, <2>1, <2>2 DEF IInv, TypeOK, server
<1>9. Stamped'
  BY <1>2, <1>5, <1>6 DEF IInv, Stamped, server
<1>10. Grants'
  <2>1. ASSUME NEW d \in Devices PROVE hold[f][d] <= clock \/ <<f, d>> \in shaky
    <3>1. hold[f][d] \in Nat /\ clock \in Nat
      BY <1>3, ConstantTypes DEF IInv, TypeOK
    <3>2. CASE UserOf[d] = l.user
      <4>1. hold[f][d] = 0
        BY <1>1, <1>2, <3>2 DEF IInv, DoomedGivenUp
      <4> QED BY <3>1, <4>1
    <3>3. CASE UserOf[d] # l.user
      <4>1. locks[f].device # d
        BY <1>2, <1>3, <3>3 DEF IInv, TypeOK
      <4> QED BY <1>3, <3>1, <4>1 DEF IInv, GrantsKept, Kept
    <3> QED BY <3>2, <3>3
  <2>2. clock' \in Nat /\ clock' >= clock /\ UNCHANGED leaver
    BY <1>2, ConstantTypes DEF IInv, TypeOK, server
  <2>3. \A q \in Requests : req'[q].pc = "remove" => req'[q] = req[q]
    BY <1>5, <1>6
  <2> QED BY <1>2, <1>7, <2>1, <2>2, <2>3, NothingGranted DEF IInv, Grants
<1>11. MessagesRight'
  <2>1. PICK touched : touched = {<<f, l.user>>}
    OBVIOUS
  <2>2. \A q \in Requests, e \in Entries, u \in Users :
            /\ AcquiredOwed(q, e, u)' <=> AcquiredOwed(q, e, u)
            /\ AcquiredOwed(q, e, u)' => req'[q].lock = req[q].lock
    BY <1>2, <1>5, <1>6 DEF AcquiredOwed
  <2>3. ASSUME NEW e \in Entries, NEW u \in Users
        PROVE  IF <<e, u>> \in touched THEN GoneOwed(e, u)' /\ (<<e, u>> \in {} \/ ~Standing(e, u)')
               ELSE /\ GoneOwed(e, u)' <=> GoneOwed(e, u)
                    /\ \/ <<e, u>> \in {}
                       \/ locks'[e] = locks[e]
                       \/ Standing(e, u) => locks[e].expires <= clock
    <3>1. CASE e = f /\ u = l.user
      BY <1>5, <1>6, <1>7, <2>1, <3>1 DEF GoneOwed, Standing
    <3>2. CASE ~(e = f /\ u = l.user)
      <4>1. GoneOwed(e, u)' <=> GoneOwed(e, u)
        BY <1>2, <1>5, <1>6, <3>2 DEF GoneOwed
      <4>2. locks'[e] = locks[e] \/ ~Standing(e, u)
        BY <1>2, <1>7, <3>2 DEF Standing
      <4> QED BY <2>1, <3>2, <4>1, <4>2
    <3> QED BY <3>1, <3>2
  <2>4. \A e \in Entries : locks'[e] \in {locks[e], None}
    BY <1>7
  <2>5. Crossing(touched, {}) /\ UNCHANGED <<clock, said>>
    BY <1>2, <2>1 DEF server
  <2> QED BY <1>8, <2>2, <2>3, <2>4, <2>5, OwedStep DEF IInv
<1> QED BY <1>8, <1>9, <1>10, <1>11 DEF IInv, Grants

(* A departure deletes what its device holds: no steady grant.             *)
LEMMA DeleteManyStep ==
  ASSUME IInv, NEW d \in Devices, DeleteMany(d)
  PROVE  IInv'
<1>1. PICK held, mine, u : held = leaver[d].held /\ mine = LocksOf(d) /\ u = UserOf[d]
  OBVIOUS
<1>2. PICK moved : moved = {e \in held \ mine : Standing(e, u)}
  OBVIOUS
<1>3. PICK touched, silent : touched = {<<e, u>> : e \in held} /\ silent = {<<e, u>> : e \in (mine \ held) \cup moved}
  OBVIOUS
<1>4. /\ leaver[d].pc = "delete" /\ UNCHANGED <<server, seats, req, sweep, said, hold, shaky>>
      /\ locks' = [e \in Entries |-> IF e \in mine THEN None ELSE locks[e]]
      /\ leaver' = [leaver EXCEPT ![d].pc = "tell"] /\ Crossing(touched, silent)
  BY <1>1, <1>2, <1>3 DEF DeleteMany, history
<1>5. u \in Users /\ held \subseteq Entries /\ mine \subseteq Entries /\ moved \subseteq Entries
  BY <1>1, <1>2 DEF Users, LocksOf, IInv, TypeOK
<1>6. \A e \in Entries : e \in mine <=> Standing(e, u) /\ locks[e].device = d
  BY <1>1 DEF LocksOf
<1>7. /\ leaver' \in [Devices -> [pc : {"idle", "find", "delete", "tell"}, held : SUBSET Entries]]
      /\ leaver'[d].pc = "tell" /\ leaver'[d].held = held /\ \A c \in Devices \ {d} : leaver'[c] = leaver[c]
  <2>1. PICK row : row = [leaver[d] EXCEPT !.pc = "tell"]
    OBVIOUS
  <2>2. /\ row \in [pc : {"idle", "find", "delete", "tell"}, held : SUBSET Entries]
        /\ row.pc = "tell" /\ row.held = held
    BY <1>1, <2>1 DEF IInv, TypeOK
  <2>3. leaver' = [leaver EXCEPT ![d] = row]
    BY <1>4, <2>1 DEF IInv, TypeOK
  <2> QED BY <2>2, <2>3 DEF IInv, TypeOK
<1>8. /\ locks' \in [Entries -> Lock \cup {None}]
      /\ \A e \in Entries : locks'[e] = IF e \in mine THEN None ELSE locks[e]
  BY <1>4 DEF IInv, TypeOK
<1>9. TypeOK'
  <2>1. silent \subseteq Entries \X Users /\ touched \subseteq Entries \X Users
    BY <1>3, <1>5
  <2>2. crossed' \subseteq Entries \X Users
    BY <1>4, <2>1 DEF Crossing, IInv, TypeOK
  <2> QED BY <1>4, <1>7, <1>8, <2>2 DEF IInv, TypeOK, server
<1>10. Stamped'
  BY <1>4 DEF IInv, Stamped, server
<1>11. Grants'
  <2>1. ASSUME NEW e \in Entries, e \in mine, NEW c \in Devices PROVE hold[e][c] <= clock \/ <<e, c>> \in shaky
    <3>1. hold[e][c] \in Nat /\ clock \in Nat
      BY ConstantTypes DEF IInv, TypeOK
    <3>2. CASE c = d
      BY <1>4, <3>1, <3>2 DEF IInv, DepartingGivenUp
    <3>3. CASE c # d
      <4>1. locks[e].device # c
        BY <1>6, <2>1, <3>3
      <4> QED BY <3>1, <4>1 DEF IInv, GrantsKept, Kept
    <3> QED BY <3>2, <3>3
  <2>2. clock' \in Nat /\ clock' >= clock
    BY <1>4, ConstantTypes DEF IInv, TypeOK, server
  <2>3. \A q \in Requests : req'[q].pc = "remove" => req'[q] = req[q]
    BY <1>4
  <2>4. \A c \in Devices : leaver'[c].pc \in {"find", "delete"} => leaver[c].pc \in {"find", "delete"}
    BY <1>7
  <2> QED BY <1>4, <1>8, <2>1, <2>2, <2>3, <2>4, NothingGranted DEF IInv, Grants
<1>12. MessagesRight'
  <2>1. \A q \in Requests, e \in Entries, v \in Users :
            /\ AcquiredOwed(q, e, v)' <=> AcquiredOwed(q, e, v)
            /\ AcquiredOwed(q, e, v)' => req'[q].lock = req[q].lock
    BY <1>4 DEF AcquiredOwed
  <2>2. ASSUME NEW e \in Entries, NEW v \in Users
        PROVE  IF <<e, v>> \in touched THEN GoneOwed(e, v)' /\ (<<e, v>> \in silent \/ ~Standing(e, v)')
               ELSE /\ GoneOwed(e, v)' <=> GoneOwed(e, v)
                    /\ \/ <<e, v>> \in silent
                       \/ locks'[e] = locks[e]
                       \/ Standing(e, v) => locks[e].expires <= clock
    <3>1. CASE e \in held /\ v = u
      <4>1. <<e, v>> \in touched
        BY <1>3, <3>1
      <4>2. GoneOwed(e, v)'
        BY <1>1, <1>7, <3>1 DEF GoneOwed
      <4>3. CASE e \in mine
        BY <1>8, <4>1, <4>2, <4>3 DEF Standing
      <4>4. CASE e \notin mine /\ Standing(e, u)
        <5>1. e \in moved
          BY <1>2, <3>1, <4>4
        <5>2. <<e, v>> \in silent
          BY <1>3, <3>1, <5>1
        <5> QED BY <4>1, <4>2, <5>2
      <4>5. CASE e \notin mine /\ ~Standing(e, u)
        <5>1. locks'[e] = locks[e]
          BY <1>8, <4>5
        <5> QED BY <3>1, <4>1, <4>2, <4>5, <5>1 DEF Standing
      <4> QED BY <4>3, <4>4, <4>5
    <3>2. CASE ~(e \in held /\ v = u)
      <4>1. <<e, v>> \notin touched
        BY <1>3, <3>2
      <4>2. GoneOwed(e, v)' <=> GoneOwed(e, v)
        BY <1>1, <1>4, <1>7, <3>2 DEF GoneOwed
      <4>3. CASE e \notin mine
        BY <1>8, <4>1, <4>2, <4>3
      <4>4. CASE e \in mine /\ v = u
        <5>1. <<e, v>> \in silent
          BY <1>3, <3>2, <4>4
        <5> QED BY <4>1, <4>2, <5>1
      <4>5. CASE e \in mine /\ v # u
        <5>1. ~Standing(e, v)
          BY <1>6, <4>5 DEF Standing
        <5> QED BY <4>1, <4>2, <5>1
      <4> QED BY <4>3, <4>4, <4>5
    <3> QED BY <3>1, <3>2
  <2>3. \A e \in Entries : locks'[e] \in {locks[e], None}
    BY <1>8
  <2>4. Crossing(touched, silent) /\ UNCHANGED <<clock, said>>
    BY <1>4 DEF server
  <2> QED BY <1>9, <2>1, <2>2, <2>3, <2>4, OwedStep DEF IInv
<1> QED BY <1>9, <1>10, <1>11, <1>12 DEF IInv, Grants

(* The sweep deletes what has lapsed, whoever holds it now.                *)
LEMMA SweepDeleteStep ==
  ASSUME IInv, SweepDelete
  PROVE  IInv'
<1>1. /\ sweep.pc = "delete" /\ UNCHANGED <<server, seats, req, leaver, said, hold, shaky>>
      /\ sweep \in Sweeping /\ sweep.todo \subseteq Found /\ sweep.at \in 0 .. MaxTime /\ sweep.at <= clock
      /\ clock \in Nat /\ clock' = clock /\ clock' >= clock
  <2>1. sweep.pc = "delete" /\ UNCHANGED <<server, seats, req, leaver, said, hold, shaky>>
    BY DEF SweepDelete, history
  <2>2. clock \in Nat /\ clock' = clock /\ clock' >= clock
    BY <2>1, ConstantTypes DEF server, IInv, TypeOK
  <2>3. sweep \in Sweeping /\ sweep.at <= clock
    BY <2>1, SweepTypes DEF IInv, Stamped
  <2> QED BY <2>1, <2>2, <2>3 DEF Sweeping
<1>2. PICK x \in sweep.todo :
         \/ /\ Lapsed(x.e, sweep.at)
            /\ locks' = [locks EXCEPT ![x.e] = None]
            /\ sweep' = [pc |-> "tell", at |-> sweep.at, todo |-> sweep.todo \ {x}, e |-> x.e, lock |-> x.lock]
            /\ Crossing({<<x.e, x.lock.user>>}, {})
         \/ /\ ~Lapsed(x.e, sweep.at)
            /\ sweep' = SweepEntry(sweep.todo \ {x})
            /\ UNCHANGED <<locks, crossed>>
  BY DEF SweepDelete
<1>3. PICK f, l, rest : f = x.e /\ l = x.lock /\ rest = sweep.todo \ {x}
  OBVIOUS
<1>4. f \in Entries /\ l \in Lock /\ l.user \in Users /\ rest \subseteq sweep.todo /\ rest \subseteq Found
  BY <1>1, <1>3 DEF Found, Lock
<1>5. CASE sweep' = SweepEntry(rest) /\ UNCHANGED <<locks, crossed>>
  <2>1. /\ sweep' \in {[pc |-> "idle"]} \cup Sweeping /\ sweep'.pc \in {"idle", "delete"}
        /\ sweep'.pc # "idle" => sweep'.at = sweep.at
    BY <1>1, <1>4, <1>5, RestOfSweep DEF IInv
  <2>2. TypeOK' /\ Stamped'
    BY <1>1, <1>5, <2>1 DEF IInv, TypeOK, Stamped, server
  <2> QED BY <1>1, <1>5, <2>1, <2>2, QuietStep
<1>6. CASE /\ locks[f] # None /\ locks[f].expires <= sweep.at /\ locks' = [locks EXCEPT ![f] = None]
           /\ sweep' = [pc |-> "tell", at |-> sweep.at, todo |-> rest, e |-> f, lock |-> l]
           /\ Crossing({<<f, l.user>>}, {})
  <2>1. locks[f].expires <= clock
    <3>1. locks[f] \in Lock
      BY <1>4, <1>6 DEF IInv, TypeOK
    <3>2. locks[f].expires \in Nat /\ sweep.at \in Nat
      BY <1>1, <3>1, ConstantTypes DEF Lock
    <3> QED BY <1>1, <1>6, <3>2
  <2>2. /\ locks' \in [Entries -> Lock \cup {None}] /\ locks'[f] = None
        /\ \A e \in Entries \ {f} : locks'[e] = locks[e]
    BY <1>4, <1>6 DEF IInv, TypeOK
  <2>3. /\ sweep' \in Telling /\ sweep'.pc = "tell" /\ sweep'.at = sweep.at
        /\ sweep'.e = f /\ sweep'.lock = l
    BY <1>1, <1>4, <1>6 DEF Telling
  <2>4. TypeOK'
    <3>1. crossed' \subseteq Entries \X Users
      BY <1>4, <1>6 DEF Crossing, IInv, TypeOK
    <3> QED BY <1>1, <2>2, <2>3, <3>1 DEF IInv, TypeOK, server
  <2>5. Stamped'
    BY <1>1, <2>3 DEF IInv, Stamped
  <2>6. Grants'
    <3>1. \A d \in Devices : hold[f][d] <= clock \/ <<f, d>> \in shaky
      BY <1>4, <2>1, LapsedNotGranted DEF IInv
    <3>2. clock' \in Nat /\ TypeOK /\ Grants /\ UNCHANGED <<hold, shaky>>
      BY <1>1 DEF IInv, Grants
    <3> QED BY <1>1, <2>2, <3>1, <3>2, NothingGranted
  <2>7. MessagesRight'
    <3>1. PICK touched : touched = {<<f, l.user>>}
      OBVIOUS
    <3>2. \A q \in Requests, e \in Entries, u \in Users :
              /\ AcquiredOwed(q, e, u)' <=> AcquiredOwed(q, e, u)
              /\ AcquiredOwed(q, e, u)' => req'[q].lock = req[q].lock
      BY <1>1 DEF AcquiredOwed
    <3>3. ASSUME NEW e \in Entries, NEW u \in Users
          PROVE  IF <<e, u>> \in touched THEN GoneOwed(e, u)' /\ (<<e, u>> \in {} \/ ~Standing(e, u)')
                 ELSE /\ GoneOwed(e, u)' <=> GoneOwed(e, u)
                      /\ \/ <<e, u>> \in {}
                         \/ locks'[e] = locks[e]
                         \/ Standing(e, u) => locks[e].expires <= clock
      <4>1. CASE e = f /\ u = l.user
        BY <2>2, <2>3, <3>1, <4>1 DEF GoneOwed, Standing
      <4>2. CASE ~(e = f /\ u = l.user)
        <5>1. GoneOwed(e, u)' <=> GoneOwed(e, u)
          BY <1>1, <2>3, <4>2 DEF GoneOwed
        <5>2. locks'[e] = locks[e] \/ locks[e].expires <= clock
          BY <2>1, <2>2
        <5> QED BY <3>1, <4>2, <5>1, <5>2
      <4> QED BY <4>1, <4>2
    <3>4. \A e \in Entries : locks'[e] \in {locks[e], None}
      BY <2>2
    <3>5. Crossing(touched, {}) /\ UNCHANGED <<clock, said>>
      BY <1>1, <1>6, <3>1
    <3> QED BY <2>4, <3>2, <3>3, <3>4, <3>5, OwedStep DEF IInv
  <2> QED BY <2>4, <2>5, <2>6, <2>7 DEF IInv, Grants
<1> QED BY <1>2, <1>3, <1>5, <1>6 DEF Lapsed

-----------------------------------------------------------------------------
(* The invariant.                                                          *)

LEMMA InitHolds ==
  ASSUME Init
  PROVE  IInv
<1>1. 0 \in Expiry /\ 0 \in 0 .. MaxTime /\ 0 \in 0 .. MaxServed /\ 0 \in 0 .. MaxLeaves
  BY ConstantTypes, LocksAssumption
<1>2. NoRequest.pc = "idle"
  BY DEF NoRequest
<1>3. TypeOK
  <2>1. Gone("none") \in Message
    BY <1>1 DEF Gone, Message
  <2>2. said \in [Entries -> [Users -> Message]]
    BY <2>1 DEF Init
  <2> QED BY <1>1, <2>2 DEF Init, TypeOK
<1>4. Stamped /\ DoomedGivenUp /\ DepartingGivenUp
  BY <1>2 DEF Init, Stamped, DoomedGivenUp, DepartingGivenUp
<1>5. GrantsKept
  BY <1>1 DEF Init, GrantsKept
<1>6. MessagesRight
  <2> SUFFICES ASSUME NEW e \in Entries, NEW u \in Users PROVE Right(e, u)
    BY DEF MessagesRight
  <2>1. ~Standing(e, u) /\ said[e][u].event = "none"
    BY DEF Init, Standing, Gone
  <2>2. (\A r \in Requests : ~AcquiredOwed(r, e, u)) /\ ~GoneOwed(e, u)
    BY <1>2 DEF Init, AcquiredOwed, GoneOwed
  <2> QED BY <2>1, <2>2 DEF Right, SaidRight
<1> QED BY <1>3, <1>4, <1>5, <1>6 DEF IInv

LEMMA Stutter ==
  ASSUME IInv, UNCHANGED vars
  PROVE  IInv'
<1>1. TypeOK' /\ Stamped'
  BY DEF vars, IInv, TypeOK, Stamped
<1>2. clock' >= clock
  BY ConstantTypes DEF vars, IInv, TypeOK
<1> QED BY <1>1, <1>2, QuietStep DEF vars

LEMMA NextKeeps ==
  ASSUME IInv, [Next]_vars
  PROVE  IInv'
<1>1. CASE \E r \in Requests, op \in Ops, d \in Devices, e \in Entries : Arrive(r, op, d, e)
  BY <1>1, ArriveStep
<1>2. ASSUME NEW r \in Requests, RequestStep(r) PROVE IInv'
  <2>1. CASE Acquire(r) \/ Insert(r) \/ Holder(r) \/ Acquired(r) \/ Heartbeat(r)
    BY <2>1, AcquireStep, InsertStep, HolderStep, AcquiredStep, HeartbeatStep
  <2>2. CASE LookUp(r) \/ CleanUp(r) \/ Remove(r) \/ RemoveMissed(r) \/ Released(r)
    BY <2>2, LookUpStep, CleanUpStep, RemoveStep, RemoveMissedStep, ReleasedStep
  <2> QED BY <1>2, <2>1, <2>2 DEF RequestStep
<1>3. ASSUME NEW d \in Devices, Join(d) \/ Leave(d) \/ RoomStep(d) PROVE IInv'
  BY <1>3, JoinStep, LeaveStep, FindHeldStep, DeleteManyStep, TellReleasedStep DEF RoomStep
<1>4. CASE Sweep
  BY <1>4, SweepFindStep, SweepDeleteStep, SweepTellStep DEF Sweep
<1>5. CASE Tick
  BY <1>5, TickStep
<1>6. ASSUME NEW e \in Entries, Ttl(e) PROVE IInv'
  BY <1>6, TtlStep
<1>7. CASE UNCHANGED vars
  BY <1>7, Stutter
<1> QED BY <1>1, <1>2, <1>3, <1>4, <1>5, <1>6, <1>7 DEF Next

(* Types, stamps, grants and messages: the inductive invariant holds in
   every behaviour of the lock routes, the room, the sweep and TTL
   (locks.ts, collab.ts 78-105 and 309-348).                               *)
THEOREM Invariance == Spec => []IInv
BY InitHolds, NextKeeps, PTL DEF Spec

(* A granted lock stays with its device until it expires, whatever the
   sweep, TTL, other users' acquirers, late heartbeats and DELETEs of older
   grants do (locks.ts 62-116, 157-175; collab.ts 329-334).                *)
THEOREM GrantsStay == Spec => []GrantsKept
<1>1. IInv => GrantsKept
  BY DEF IInv
<1> QED BY <1>1, Invariance, PTL

(* Once no message is owed and none crossed, what the room was told last
   of an entity and a user is what the database says (locks.ts 119-128,
   177-191; collab.ts 87-104, 335-344).                                    *)
THEOREM LastWordTrue == Spec => []LastWord
<1>1. ASSUME IInv PROVE LastWord
  <2> SUFFICES ASSUME NEW e \in Entries, NEW u \in Users, ~Owed(e, u), <<e, u>> \notin crossed
               PROVE  LET held == Standing(e, u) /\ locks[e].expires > clock
                          shown == said[e][u].event = "acquired"
                      IN  (held => shown) /\ (shown /\ said[e][u].expires > clock => held)
    BY DEF LastWord
  <2>1. SaidRight(e, u)
    BY <1>1 DEF IInv, MessagesRight, Right
  <2>2. clock \in Nat /\ said[e][u].expires \in Nat /\ (locks[e] # None => locks[e].expires \in Nat)
    BY <1>1, PairTypes DEF IInv
  <2> QED BY <2>1, <2>2 DEF SaidRight, Backed, Standing
<1> QED BY <1>1, Invariance, PTL

Granted(e, d) == hold[e][d] > clock /\ <<e, d>> \notin shaky

(* One device at a time: a device that was granted an entity and has not
   given the grant up excludes every other one (409 "locked",
   locks.ts 70-116).                                                       *)
THEOREM OneHolder ==
  Spec => [](\A e \in Entries, c, d \in Devices : Granted(e, c) /\ Granted(e, d) => c = d)
<1>1. ASSUME GrantsKept
      PROVE  \A e \in Entries, c, d \in Devices : Granted(e, c) /\ Granted(e, d) => c = d
  BY <1>1 DEF Granted, GrantsKept, Kept
<1> QED BY <1>1, GrantsStay, PTL

=============================================================================
