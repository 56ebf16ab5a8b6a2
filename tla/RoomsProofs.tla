----------------------------- MODULE RoomsProofs ------------------------------
(***************************************************************************)
(* Proofs about Rooms, for any packs, users, sockets and handlers.         *)
(*                                                                         *)
(* Whoever is not allowed in a room is out because nobody enters without   *)
(* having asked (Barred), and who was in is on somebody's list: the        *)
(* kicker's (KickReaches) or the sweep's (SweepReaches).                   *)
(***************************************************************************)
EXTENDS Rooms, TLAPS

-----------------------------------------------------------------------------
(* Sockets that take and leave places.                                     *)

LEMMA HandlerTypes ==
  ASSUME TypeOK, NEW h \in Handlers
  PROVE  /\ join[h].pc \in {"idle", "user", "pack", "enter", "read"}
         /\ join[h].pc # "idle" => /\ join[h] \in Handling
                                   /\ join[h].s \in Sockets /\ join[h].p \in Packs
                                   /\ h \in Joining(join[h].s)
<1>1. join[h] \in {Idle} \cup Handling
  BY DEF TypeOK
<1>2. CASE join[h] = Idle
  BY <1>2 DEF Idle
<1>3. CASE join[h] \in Handling
  BY <1>3 DEF Handling, Joining
<1> QED BY <1>1, <1>2, <1>3

LEMMA NoneIsNothing == None \notin Packs /\ None \notin Sockets /\ None \notin 0 .. MaxVersion
BY RoomsAssumption

Places == SeatedInRoom /\ InRoomOfSeat /\ NoMissedCommit

LEMMA PlacesStay ==
  ASSUME Places, UNCHANGED <<doors, version, owed>>, open' \subseteq open, open' = open, slipped \subseteq slipped'
  PROVE  Places'
BY DEF Places, SeatedInRoom, InRoomOfSeat, NoMissedCommit, doors

LEMMA LeaveFacts ==
  ASSUME TypeOK, NEW s \in Sockets, LeaveRoom(s)
  PROVE  /\ room' \in [Packs -> SUBSET Sockets] /\ seat' \in [Sockets -> Packs \cup {None}]
         /\ stale' \subseteq Packs /\ heard' \in [Sockets -> SUBSET (1 .. MaxVersion)]
         /\ told' \in [Sockets -> (0 .. MaxVersion) \cup {None}]
         /\ \A p \in Packs : room'[p] = IF p = seat[s] THEN room[p] \ {s} ELSE room[p]
         /\ seat'[s] = None /\ told'[s] = None
         /\ \A x \in Sockets \ {s} : seat'[x] = seat[x] /\ told'[x] = told[x] /\ heard'[x] = heard[x]
         /\ \A p \in stale' : p \in stale \/ room'[p] = {}
BY DEF TypeOK, LeaveRoom, TakeOut

LEMMA PlacesLeft ==
  ASSUME TypeOK, Places, NEW s \in Sockets, LeaveRoom(s), UNCHANGED <<version, owed>>,
         open' = open \/ open' = open \ {s}, slipped \subseteq slipped'
  PROVE  Places'
<1>1. /\ \A p \in Packs : room'[p] = IF p = seat[s] THEN room[p] \ {s} ELSE room[p]
      /\ seat'[s] = None /\ told'[s] = None
      /\ \A x \in Sockets \ {s} : seat'[x] = seat[x] /\ told'[x] = told[x] /\ heard'[x] = heard[x]
  BY LeaveFacts
<1>2. seat \in [Sockets -> Packs \cup {None}]
  BY DEF TypeOK
<1>3. SeatedInRoom'
  <2> SUFFICES ASSUME NEW x \in Sockets, seat'[x] # None PROVE x \in room'[seat'[x]]
    BY DEF SeatedInRoom
  <2>1. x # s /\ seat'[x] = seat[x] /\ seat[x] \in Packs
    BY <1>1, <1>2
  <2>2. x \in room[seat[x]]
    BY <2>1, NoneIsNothing DEF Places, SeatedInRoom
  <2> QED BY <1>1, <2>1, <2>2
<1>4. InRoomOfSeat'
  <2> SUFFICES ASSUME NEW x \in Sockets \ slipped
               PROVE  (\A p \in Packs : x \in room'[p] <=> seat'[x] = p) /\ (seat'[x] # None => x \in open')
    BY DEF InRoomOfSeat
  <2>1. (\A p \in Packs : x \in room[p] <=> seat[x] = p) /\ (seat[x] # None => x \in open)
    BY DEF Places, InRoomOfSeat
  <2>2. CASE x = s
    <3>1. \A p \in Packs : s \notin room'[p]
      BY <1>1, <2>1, <2>2
    <3> QED BY <1>1, <2>2, <3>1, NoneIsNothing
  <2>3. CASE x # s
    <3>1. \A p \in Packs : x \in room'[p] <=> x \in room[p]
      BY <1>1, <2>3
    <3>2. seat'[x] = seat[x] /\ (x \in open => x \in open')
      BY <1>1, <2>3
    <3> QED BY <2>1, <3>1, <3>2
  <2> QED BY <2>2, <2>3
<1>5. NoMissedCommit'
  BY <1>1 DEF Places, NoMissedCommit, TypeOK
<1> QED BY <1>3, <1>4, <1>5 DEF Places

LEMMA EnterFacts ==
  ASSUME TypeOK, NEW s \in Sockets, NEW p \in Packs, Enter(s, p)
  PROVE  /\ room' \in [Packs -> SUBSET Sockets] /\ seat' \in [Sockets -> Packs \cup {None}]
         /\ stale' = stale /\ heard' \in [Sockets -> SUBSET (1 .. MaxVersion)]
         /\ told' \in [Sockets -> (0 .. MaxVersion) \cup {None}]
         /\ room'[p] = room[p] \cup {s} /\ \A q \in Packs \ {p} : room'[q] = room[q]
         /\ seat'[s] = p /\ told'[s] = None
         /\ \A x \in Sockets \ {s} : seat'[x] = seat[x] /\ told'[x] = told[x] /\ heard'[x] = heard[x]
BY DEF TypeOK, Enter

(* A socket that has not slipped enters from outside.                      *)
LEMMA PlacesTaken ==
  ASSUME TypeOK, Places, NEW s \in Sockets, NEW p \in Packs, Enter(s, p), UNCHANGED <<version, owed, open, slipped>>,
         s \notin slipped => s \in open /\ seat[s] = None
  PROVE  Places'
<1>1. /\ room'[p] = room[p] \cup {s} /\ \A q \in Packs \ {p} : room'[q] = room[q]
      /\ seat'[s] = p /\ told'[s] = None
      /\ \A x \in Sockets \ {s} : seat'[x] = seat[x] /\ told'[x] = told[x] /\ heard'[x] = heard[x]
  BY EnterFacts
<1>2. seat \in [Sockets -> Packs \cup {None}]
  BY DEF TypeOK
<1>3. SeatedInRoom'
  BY <1>1, <1>2 DEF Places, SeatedInRoom
<1>4. InRoomOfSeat'
  BY <1>1, <1>2, NoneIsNothing DEF Places, InRoomOfSeat
<1>5. NoMissedCommit'
  BY <1>1 DEF Places, NoMissedCommit, TypeOK
<1> QED BY <1>3, <1>4, <1>5 DEF Places

-----------------------------------------------------------------------------
(* Steps that leave the lists of the kicker and the sweep alone.           *)

(* A join goes on: nobody passes a check that refuses.                     *)
Onward ==
  \A h \in Handlers :
    \/ join'[h] = join[h]
    \/ join'[h].pc \notin {"pack", "enter"}
    \/ /\ join[h].pc # "idle" /\ join'[h].s = join[h].s /\ join'[h].p = join[h].p
       /\ \/ join'[h].pc = "pack" /\ UserOf[join[h].s] \in approved
          \/ join'[h].pc = "enter" /\ join[h].pc = "pack" /\ join[h].p \in live

(* Who is new in a room has asked.                                         *)
Entering(s, p) ==
  \E h \in Joining(s) : join[h].p = p /\ (join[h].pc = "enter" \/ (join[h].pc = "pack" /\ p \in live))

OnlyEntering == \A p \in Packs : \A s \in room'[p] : s \in room[p] \/ Entering(s, p)

LEMMA BarredOnward ==
  ASSUME Onward, NEW s \in Sockets, UserOf[s] \notin approved, Barred(s)
  PROVE  Barred(s)'
<1> SUFFICES ASSUME NEW h \in Handlers, join'[h].pc # "idle", join'[h].s = s
             PROVE  join'[h].pc \notin {"pack", "enter"}
  BY DEF Barred, Joining
<1> QED BY DEF Onward, Barred, Joining

LEMMA BarredStays ==
  ASSUME LockedBarred, Onward, late \subseteq late', approved \subseteq approved'
  PROVE  LockedBarred'
BY BarredOnward DEF LockedBarred

LEMMA KickStays ==
  ASSUME LockedBarred, KickReaches, RevokedOutUnlessLate, OnlyEntering,
         kicker' = kicker, approved \subseteq approved', revoked' \subseteq revoked \ (approved' \ approved),
         slipped \subseteq slipped', late \subseteq late'
  PROVE  KickReaches' /\ RevokedOutUnlessLate'
<1>1. ASSUME NEW s \in Sockets \ (slipped \cup late), NEW p \in Packs, UserOf[s] \notin approved, s \in room'[p]
      PROVE  s \in room[p]
  BY <1>1 DEF OnlyEntering, Entering, LockedBarred, Barred
<1>2. revoked' \cap approved' = {}
  BY DEF KickReaches
<1>3. KickReaches'
  BY <1>1, <1>2 DEF KickReaches
<1>4. RevokedOutUnlessLate'
  BY <1>1 DEF KickReaches, RevokedOutUnlessLate, Out
<1> QED BY <1>3, <1>4

LEMMA SweepStays ==
  ASSUME TypeOK, SweepReaches, Onward, OnlyEntering, sweep' = sweep, approved' \subseteq approved, live' \subseteq live,
         slipped \subseteq slipped', \A p \in stale' : p \in stale \/ room'[p] = {}
  PROVE  SweepReaches'
<1> SUFFICES ASSUME sweep.pc = "sweep" PROVE SweepReaches'
  BY DEF SweepReaches
<1>1. \A s \in Sockets, p \in Packs : s \in room'[p] /\ ToBeSwept(s, p) => ToBeSwept(s, p)'
  BY DEF ToBeSwept
<1>2. ASSUME NEW s \in sweep.locked \ slipped, s \in Sockets
      PROVE  /\ UserOf[s] \notin approved' \cup sweep.ok
             /\ Barred(s)'
             /\ \A p \in Packs : s \in room'[p] => ToBeSwept(s, p)'
  <2>1. UserOf[s] \notin approved \cup sweep.ok /\ Barred(s) /\ \A p \in Packs : s \in room[p] => ToBeSwept(s, p)
    BY <1>2 DEF SweepReaches
  <2>2. Barred(s)'
    BY <1>2, <2>1, BarredOnward
  <2>3. \A p \in Packs : s \in room'[p] => s \in room[p]
    BY <2>1 DEF OnlyEntering, Entering, Barred
  <2> QED BY <1>1, <1>2, <2>1, <2>2, <2>3
<1>3. ASSUME NEW s \in Sockets \ slipped, NEW p \in Packs, <<s, p>> \in sweep.dead
      PROVE  /\ p \notin live'
             /\ \A h \in Joining(s)' : ~(join'[h].pc = "enter" /\ join'[h].p = p)
             /\ s \in room'[p] => ToBeSwept(s, p)' /\ (s \in sweep.here => ~sweep.packLive)
  <2>1. /\ p \notin live
        /\ \A h \in Joining(s) : ~(join[h].pc = "enter" /\ join[h].p = p)
        /\ s \in room[p] => ToBeSwept(s, p) /\ (s \in sweep.here => ~sweep.packLive)
    BY <1>3 DEF SweepReaches
  <2>2. \A h \in Joining(s)' : ~(join'[h].pc = "enter" /\ join'[h].p = p)
    BY <2>1 DEF Onward, Joining
  <2>3. s \in room'[p] => s \in room[p]
    BY <2>1 DEF OnlyEntering, Entering
  <2> QED BY <1>1, <2>1, <2>2, <2>3
<1>4. sweep.locked \subseteq Sockets
  BY DEF TypeOK, Sweeping
<1> QED BY <1>2, <1>3, <1>4 DEF SweepReaches

-----------------------------------------------------------------------------
(* The handlers of joins.                                                  *)

(* Only handler h goes on, or ends.                                        *)
Steps(h, row) == join' = [join EXCEPT ![h] = row]

LEMMA JoinsAloneStays ==
  ASSUME JoinsAlone, UNCHANGED join, slipped \subseteq slipped',
         \A s \in Sockets : seat[s] = None => seat'[s] = None,
         \A h \in Handlers : join[h].pc # "idle" => join[h].s \in Sockets,
         \A s \in open \ open' : s \in slipped' \/ Joining(s) = {}
  PROVE  JoinsAlone'
<1> SUFFICES ASSUME NEW h \in Handlers, join[h].pc # "idle", join[h].s \notin slipped'
             PROVE  /\ join[h].s \in open'
                    /\ Joining(join[h].s)' = {h}
                    /\ join[h].pc = "enter" => seat'[join[h].s] = None
  BY DEF JoinsAlone
<1>1. PICK s : s = join[h].s
  OBVIOUS
<1>2. s \in Sockets /\ s \in open /\ Joining(s) = {h} /\ (join[h].pc = "enter" => seat[s] = None)
  BY <1>1 DEF JoinsAlone
<1>3. Joining(s)' = Joining(s)
  BY DEF Joining
<1> QED BY <1>1, <1>2, <1>3

LEMMA JoinsAloneStep ==
  ASSUME TypeOK, JoinsAlone, NEW h \in Handlers, NEW row, Steps(h, row), UNCHANGED <<open, slipped>>,
         join[h].pc # "idle",
         row = Idle \/ (row.s = join[h].s /\ row.pc # "idle"),
         row.pc = "enter" => seat'[join[h].s] = None,
         \A x \in Sockets \ {join[h].s} : seat'[x] = seat[x]
  PROVE  JoinsAlone'
<1>1. join'[h] = row /\ (\A k \in Handlers \ {h} : join'[k] = join[k]) /\ Idle.pc = "idle"
  BY DEF Steps, TypeOK, Idle
<1> SUFFICES ASSUME NEW k \in Handlers, join'[k].pc # "idle", join'[k].s \notin slipped
             PROVE  /\ join'[k].s \in open
                    /\ Joining(join[k].s)' = {k}
                    /\ join'[k].pc = "enter" => seat'[join'[k].s] = None
  BY DEF JoinsAlone
<1>2. join[k].pc # "idle" /\ join'[k].s = join[k].s
  BY <1>1
<1>3. PICK s : s = join[k].s
  OBVIOUS
<1>4. s \in open /\ s \in Sockets /\ Joining(s) = {k} /\ (join[k].pc = "enter" => seat[s] = None)
  BY <1>2, <1>3, HandlerTypes DEF JoinsAlone
<1>5. Joining(s)' = {k}
  BY <1>1, <1>2, <1>3, <1>4 DEF Joining
<1>6. join'[k].pc = "enter" => seat'[s] = None
  <2>1. CASE k = h
    BY <1>1, <1>3, <2>1
  <2>2. CASE k # h
    <3>1. join[h].s # s
      BY <1>4, <2>2 DEF Joining
    <3> QED BY <1>1, <1>4, <2>2, <3>1
  <2> QED BY <2>1, <2>2
<1> QED BY <1>2, <1>3, <1>4, <1>5, <1>6

(* What a step of a handler that takes no place leaves true.               *)
LEMMA HandlerStep ==
  ASSUME IInv, TypeOK', Places', NEW h \in Handlers, NEW row, Steps(h, row), UNCHANGED <<open, slipped>>,
         join[h].pc # "idle",
         row = Idle \/ (row.s = join[h].s /\ row.p = join[h].p /\ row.pc # "idle"),
         row.pc = "enter" => seat'[join[h].s] = None,
         row.pc = "pack" => UserOf[join[h].s] \in approved,
         row.pc = "enter" => join[h].pc = "pack" /\ join[h].p \in live,
         \A x \in Sockets \ {join[h].s} : seat'[x] = seat[x],
         OnlyEntering, \A p \in stale' : p \in stale \/ room'[p] = {},
         UNCHANGED <<people, kicker, sweep, late, revoked>>
  PROVE  IInv'
<1>1. TypeOK /\ JoinsAlone /\ LockedBarred /\ KickReaches /\ RevokedOutUnlessLate /\ SweepReaches
  BY DEF IInv
<1>2. JoinsAlone'
  BY <1>1, JoinsAloneStep
<1>3. Onward
  BY <1>1 DEF Onward, Steps, TypeOK, Idle
<1>4. approved' = approved /\ live' = live /\ revoked' = revoked /\ late' = late /\ sweep' = sweep /\ kicker' = kicker
  BY DEF people
<1>5. LockedBarred'
  BY <1>1, <1>3, <1>4, BarredStays
<1>6. KickReaches' /\ RevokedOutUnlessLate'
  BY <1>1, <1>4, KickStays
<1>7. SweepReaches'
  BY <1>1, <1>3, <1>4, SweepStays
<1> QED BY <1>2, <1>5, <1>6, <1>7 DEF IInv, Places

(* The row a handler goes on with.                                         *)
LEMMA GotoRow ==
  ASSUME TypeOK, NEW h \in Handlers, join[h].pc # "idle", NEW pc \in {"user", "pack", "enter", "read"}, Goto(h, pc)
  PROVE  \E row \in Handling : Steps(h, row) /\ row.pc = pc /\ row.s = join[h].s /\ row.p = join[h].p
<1>1. PICK row : row = [join[h] EXCEPT !.pc = pc]
  OBVIOUS
<1>2. row \in Handling /\ row.pc = pc /\ row.s = join[h].s /\ row.p = join[h].p
  BY <1>1, HandlerTypes DEF Handling
<1>3. Steps(h, row)
  BY <1>1 DEF Goto, Steps, TypeOK
<1> QED BY <1>2, <1>3

LEMMA StepTypes ==
  ASSUME TypeOK, NEW h \in Handlers, NEW row \in {Idle} \cup Handling, Steps(h, row)
  PROVE  join' \in [Handlers -> {Idle} \cup Handling]
BY DEF TypeOK, Steps

(* A handler goes on or ends, and that is all.                             *)
LEMMA QuietHandler ==
  ASSUME IInv, NEW h \in Handlers, NEW row \in {Idle} \cup Handling, Steps(h, row), join[h].pc # "idle",
         row = Idle \/ (row.s = join[h].s /\ row.p = join[h].p /\ row.pc # "idle"),
         row.pc # "enter", row.pc = "pack" => UserOf[join[h].s] \in approved,
         UNCHANGED <<doors, open, people, kicker, sweep, news, joins, revocations, history>>
  PROVE  IInv'
<1>1. TypeOK'
  <2>1. join' \in [Handlers -> {Idle} \cup Handling]
    BY StepTypes DEF IInv
  <2> QED BY <2>1 DEF IInv, TypeOK, doors, people, news, history
<1>2. Places'
  BY PlacesStay DEF IInv, Places, news, history
<1>3. OnlyEntering /\ (\A p \in stale' : p \in stale \/ room'[p] = {}) /\ \A x \in Sockets \ {join[h].s} : seat'[x] = seat[x]
  BY DEF OnlyEntering, doors
<1>4. UNCHANGED <<open, slipped, people, kicker, sweep, late, revoked>>
  BY DEF history
<1> QED BY <1>1, <1>2, <1>3, <1>4, HandlerStep

LEMMA CheckUserStep ==
  ASSUME IInv, NEW h \in Handlers, CheckUser(h)
  PROVE  IInv'
<1>1. /\ join[h].pc # "idle" /\ TypeOK /\ Idle.pc = "idle"
      /\ UNCHANGED <<doors, open, people, kicker, sweep, news, joins, revocations, history>>
  BY DEF CheckUser, IInv, Idle
<1>2. CASE UserOf[join[h].s] \in approved /\ Goto(h, "pack")
  <2>1. PICK row \in Handling : Steps(h, row) /\ row.pc = "pack" /\ row.s = join[h].s /\ row.p = join[h].p
    BY <1>1, <1>2, GotoRow
  <2> QED BY <1>1, <1>2, <2>1, QuietHandler
<1>3. CASE Done(h)
  <2>1. Steps(h, Idle)
    BY <1>3 DEF Done, Steps
  <2> QED BY <1>1, <2>1, QuietHandler
<1> QED BY <1>2, <1>3 DEF CheckUser

LEMMA JoinFailsStep ==
  ASSUME IInv, NEW h \in Handlers, JoinFails(h)
  PROVE  IInv'
<1>1. /\ join[h].pc # "idle" /\ Idle.pc = "idle" /\ Steps(h, Idle)
      /\ UNCHANGED <<doors, open, people, kicker, sweep, news, joins, revocations, history>>
  BY DEF JoinFails, Idle, Done, Steps
<1> QED BY <1>1, QuietHandler

PlaceTypes ==
  /\ room' \in [Packs -> SUBSET Sockets] /\ seat' \in [Sockets -> Packs \cup {None}]
  /\ stale' \subseteq Packs /\ heard' \in [Sockets -> SUBSET (1 .. MaxVersion)]
  /\ told' \in [Sockets -> (0 .. MaxVersion) \cup {None}]
  /\ \A x \in Sockets : told'[x] # None => seat'[x] # None /\ told'[x] <= version[seat'[x]]

LEMMA LeaveTypes ==
  ASSUME TypeOK, NEW s \in Sockets, LeaveRoom(s)
  PROVE  PlaceTypes
<1>1. \A x \in Sockets : told'[x] # None => seat'[x] # None /\ told'[x] <= version[seat'[x]]
  BY LeaveFacts DEF TypeOK
<1> QED BY <1>1, LeaveFacts DEF PlaceTypes

LEMMA EnterTypes ==
  ASSUME TypeOK, NEW s \in Sockets, NEW p \in Packs, Enter(s, p)
  PROVE  PlaceTypes
<1>1. \A x \in Sockets : told'[x] # None => seat'[x] # None /\ told'[x] <= version[seat'[x]]
  BY EnterFacts DEF TypeOK
<1> QED BY <1>1, EnterFacts DEF PlaceTypes, TypeOK

(* The socket takes its place, and the version is read next.               *)
LEMMA EnterStep ==
  ASSUME IInv, NEW h \in Handlers, NEW s, s = join[h].s, NEW p, p = join[h].p, Enter(s, p), Goto(h, "read"),
         join[h].pc = "enter" \/ (join[h].pc = "pack" /\ p \in live /\ seat[s] = None),
         UNCHANGED <<open, people, kicker, sweep, news, joins, revocations, history>>
  PROVE  IInv'
<1>1. join[h].pc # "idle" /\ TypeOK /\ s \in Sockets /\ p \in Packs /\ h \in Joining(s)
  BY HandlerTypes DEF IInv
<1>2. PICK row \in Handling : Steps(h, row) /\ row.pc = "read" /\ row.s = join[h].s /\ row.p = join[h].p
  BY <1>1, GotoRow
<1>3. TypeOK'
  <2>1. join' \in [Handlers -> {Idle} \cup Handling]
    BY <1>1, <1>2, StepTypes
  <2>2. PlaceTypes
    BY <1>1, EnterTypes
  <2> QED BY <1>1, <2>1, <2>2 DEF PlaceTypes, TypeOK, people, news, history
<1>4. Places'
  <2>1. s \notin slipped => s \in open /\ seat[s] = None
    BY <1>1 DEF IInv, JoinsAlone
  <2> QED BY <1>1, <2>1, PlacesTaken DEF IInv, Places, news, history
<1>5. OnlyEntering /\ (\A q \in stale' : q \in stale \/ room'[q] = {}) /\ \A x \in Sockets \ {s} : seat'[x] = seat[x]
  <2>1. Entering(s, p)
    BY <1>1 DEF Entering
  <2> QED BY <1>1, <2>1, EnterFacts DEF OnlyEntering
<1>6. UNCHANGED <<open, slipped, people, kicker, sweep, late, revoked>>
  BY DEF history
<1> QED BY <1>1, <1>2, <1>3, <1>4, <1>5, <1>6, HandlerStep

(* The four ways a join goes on from the pack.                             *)
LEMMA CheckPackStep ==
  ASSUME IInv, NEW h \in Handlers, CheckPack(h)
  PROVE  IInv'
<1>1. PICK s, p : s = join[h].s /\ p = join[h].p
  OBVIOUS
<1>2. /\ join[h].pc = "pack" /\ join[h].pc # "idle" /\ TypeOK /\ Idle.pc = "idle" /\ s \in Sockets /\ p \in Packs
      /\ h \in Joining(s)
      /\ UNCHANGED <<open, people, kicker, sweep, news, joins, revocations, history>>
  BY <1>1, HandlerTypes DEF CheckPack, IInv, Idle
<1>3. CASE Done(h) /\ UNCHANGED doors
  <2>1. Steps(h, Idle)
    BY <1>3 DEF Done, Steps
  <2> QED BY <1>2, <1>3, <2>1, QuietHandler
<1>4. CASE Goto(h, "read") /\ UNCHANGED doors
  <2>1. PICK row \in Handling : Steps(h, row) /\ row.pc = "read" /\ row.s = join[h].s /\ row.p = join[h].p
    BY <1>2, <1>4, GotoRow
  <2> QED BY <1>2, <1>4, <2>1, QuietHandler
<1>5. CASE p \in live /\ LeaveRoom(s) /\ Goto(h, "enter")
  <2>1. PICK row \in Handling : Steps(h, row) /\ row.pc = "enter" /\ row.s = join[h].s /\ row.p = join[h].p
    BY <1>2, <1>5, GotoRow
  <2>2. TypeOK' /\ OnlyEntering /\ (\A q \in stale' : q \in stale \/ room'[q] = {})
    <3>1. join' \in [Handlers -> {Idle} \cup Handling]
      BY <1>2, <2>1, StepTypes
    <3>2. PlaceTypes
      BY <1>2, <1>5, LeaveTypes
    <3> QED BY <1>2, <1>5, <3>1, <3>2, LeaveFacts DEF PlaceTypes, TypeOK, OnlyEntering, people, news, history
  <2>3. Places'
    BY <1>2, <1>5, PlacesLeft DEF IInv, Places, news, history
  <2>4. seat'[s] = None /\ \A x \in Sockets \ {s} : seat'[x] = seat[x]
    BY <1>2, <1>5, LeaveFacts
  <2>5. UNCHANGED <<open, slipped, people, kicker, sweep, late, revoked>>
    BY <1>2 DEF history
  <2> QED BY <1>1, <1>2, <1>5, <2>1, <2>2, <2>3, <2>4, <2>5, HandlerStep
<1>6. CASE p \in live /\ seat[s] = None /\ Enter(s, p) /\ Goto(h, "read")
  BY <1>1, <1>2, <1>6, EnterStep
<1> QED BY <1>1, <1>3, <1>4, <1>5, <1>6 DEF CheckPack

LEMMA EnterAfterLeaveStep ==
  ASSUME IInv, NEW h \in Handlers, EnterAfterLeave(h)
  PROVE  IInv'
<1>1. PICK s, p : s = join[h].s /\ p = join[h].p
  OBVIOUS
<1>2. /\ join[h].pc = "enter" /\ Enter(s, p) /\ Goto(h, "read")
      /\ UNCHANGED <<open, people, kicker, sweep, news, joins, revocations, history>>
  BY <1>1 DEF EnterAfterLeave
<1> QED BY <1>1, <1>2, EnterStep

(* The version is read while the socket sits in the room: all later ones
   are owed or heard.                                                      *)
LEMMA ReadVersionStep ==
  ASSUME IInv, NEW h \in Handlers, ReadVersion(h)
  PROVE  IInv'
<1>1. PICK s, p : s = join[h].s /\ p = join[h].p
  OBVIOUS
<1>2. /\ join[h].pc = "read" /\ join[h].pc # "idle" /\ TypeOK /\ Idle.pc = "idle" /\ s \in Sockets /\ p \in Packs
      /\ told' = (IF seat[s] = p THEN [told EXCEPT ![s] = version[p]] ELSE told)
      /\ UNCHANGED <<room, seat, stale, heard, open, people, kicker, sweep, news, joins, revocations, history>>
      /\ Steps(h, Idle)
  BY <1>1, HandlerTypes DEF ReadVersion, IInv, Idle, Done, Steps
<1>3. \A x \in Sockets : told'[x] = told[x] \/ (seat[x] \in Packs /\ told'[x] = version[seat[x]])
  BY <1>2 DEF TypeOK
<1>4. version \in [Packs -> 0 .. MaxVersion] /\ told' \in [Sockets -> (0 .. MaxVersion) \cup {None}]
  BY <1>2 DEF TypeOK
<1>5. TypeOK'
  <2>1. join' \in [Handlers -> {Idle} \cup Handling]
    BY <1>2, StepTypes
  <2>2. \A x \in Sockets : told'[x] # None => seat'[x] # None /\ told'[x] <= version'[seat'[x]]
    <3> SUFFICES ASSUME NEW x \in Sockets, told'[x] # None PROVE seat[x] # None /\ told'[x] <= version[seat[x]]
      BY <1>2 DEF news
    <3>1. CASE told'[x] = told[x]
      BY <1>2, <3>1 DEF TypeOK
    <3>2. CASE seat[x] \in Packs /\ told'[x] = version[seat[x]]
      BY <1>4, <3>2, NoneIsNothing
    <3> QED BY <1>3, <3>1, <3>2
  <2> QED BY <1>2, <1>4, <2>1, <2>2 DEF TypeOK, people, news, history
<1>6. Places'
  <2>1. SeatedInRoom' /\ InRoomOfSeat'
    BY <1>2 DEF IInv, SeatedInRoom, InRoomOfSeat, history
  <2>2. NoMissedCommit'
    <3> SUFFICES ASSUME NEW x \in open, told'[x] # None, NEW v \in told'[x] + 1 .. version[seat[x]]
                 PROVE  v \in heard[x] \cup owed[seat[x]]
      BY <1>2 DEF NoMissedCommit, news
    <3>1. x \in Sockets
      BY <1>2 DEF TypeOK
    <3>2. told'[x] = told[x]
      <4>1. CASE seat[x] \in Packs /\ told'[x] = version[seat[x]]
        <5>1. version[seat[x]] \in Nat
          BY <1>4, <4>1
        <5> QED BY <4>1, <5>1
      <4> QED BY <1>3, <3>1, <4>1
    <3> QED BY <3>2 DEF IInv, NoMissedCommit
  <2> QED BY <2>1, <2>2 DEF Places
<1>7. OnlyEntering /\ (\A q \in stale' : q \in stale \/ room'[q] = {}) /\ \A x \in Sockets \ {s} : seat'[x] = seat[x]
  BY <1>2 DEF OnlyEntering
<1>8. UNCHANGED <<open, slipped, people, kicker, sweep, late, revoked>>
  BY <1>2 DEF history
<1> QED BY <1>1, <1>2, <1>5, <1>6, <1>7, <1>8, HandlerStep

-----------------------------------------------------------------------------
(* Sockets come and go, packs are archived and edited.                     *)

LEMMA SocketStep ==
  ASSUME IInv, TypeOK', Places', JoinsAlone', Onward, UNCHANGED <<approved, kicker, sweep, late, revoked>>,
         live' \subseteq live, slipped \subseteq slipped', \A p \in Packs : room'[p] \subseteq room[p],
         \A p \in stale' : p \in stale \/ room'[p] = {}
  PROVE  IInv'
<1>1. TypeOK /\ LockedBarred /\ KickReaches /\ RevokedOutUnlessLate /\ SweepReaches
  BY DEF IInv
<1>2. OnlyEntering
  BY DEF OnlyEntering
<1>3. LockedBarred'
  BY <1>1, BarredStays
<1>4. KickReaches' /\ RevokedOutUnlessLate'
  BY <1>1, <1>2, KickStays
<1>5. SweepReaches'
  BY <1>1, <1>2, SweepStays
<1> QED BY <1>3, <1>4, <1>5 DEF IInv, Places

(* A second join in flight counts as slipping.                             *)
LEMMA JoinStarts ==
  ASSUME IInv, NEW h \in Handlers, NEW s \in Sockets, NEW p \in Packs, Join(h, s, p)
  PROVE  IInv'
<1>1. PICK row : row = [pc |-> "user", s |-> s, p |-> p]
  OBVIOUS
<1>2. /\ join[h].pc = "idle" /\ s \in open /\ Steps(h, row) /\ row \in Handling /\ row.pc = "user" /\ row.s = s
      /\ slipped' = slipped \cup {x \in {s} : Joining(x) # {}} /\ joins' \in 0 .. MaxJoins
      /\ UNCHANGED <<doors, open, people, kicker, sweep, news, revocations, late, revoked>>
  BY <1>1, RoomsAssumption DEF Join, Steps, Handling, IInv, TypeOK
<1>3. join'[h] = row /\ \A k \in Handlers \ {h} : join'[k] = join[k]
  BY <1>2 DEF Steps, IInv, TypeOK
<1>4. TypeOK'
  <2>1. join' \in [Handlers -> {Idle} \cup Handling]
    BY <1>2, StepTypes DEF IInv
  <2> QED BY <1>2, <2>1 DEF IInv, TypeOK, doors, people, news
<1>5. Places'
  BY <1>2, PlacesStay DEF IInv, Places, news
<1>6. JoinsAlone'
  <2> SUFFICES ASSUME NEW k \in Handlers, join'[k].pc # "idle", join'[k].s \notin slipped'
               PROVE  /\ join'[k].s \in open'
                      /\ Joining(join[k].s)' = {k}
                      /\ join'[k].pc = "enter" => seat'[join'[k].s] = None
    BY DEF JoinsAlone
  <2>1. PICK x : x = join'[k].s
    OBVIOUS
  <2>2. CASE k = h
    <3>1. x = s /\ Joining(s) = {}
      BY <1>2, <1>3, <2>1, <2>2
    <3>2. Joining(x)' = {h}
      BY <1>2, <1>3, <3>1 DEF Joining
    <3> QED BY <1>2, <1>3, <2>1, <2>2, <3>1, <3>2
  <2>3. CASE k # h
    <3>1. join'[k] = join[k] /\ k \in Joining(x)
      BY <1>3, <2>1, <2>3 DEF Joining
    <3>2. x # s
      BY <1>2, <2>1, <3>1
    <3>3. x \in open /\ Joining(x) = {k} /\ (join[k].pc = "enter" => seat[x] = None)
      BY <1>2, <2>1, <3>1 DEF IInv, JoinsAlone
    <3>4. Joining(x)' = {k}
      BY <1>2, <1>3, <3>2, <3>3 DEF Joining
    <3> QED BY <1>2, <2>1, <3>1, <3>3, <3>4 DEF doors
  <2> QED BY <2>2, <2>3
<1>7. Onward
  BY <1>2, <1>3 DEF Onward
<1> QED BY <1>2, <1>4, <1>5, <1>6, <1>7, SocketStep DEF doors, people

(* A socket leaves, and may be closed.                                     *)
LEMMA LeavingFacts ==
  ASSUME IInv, NEW s \in Sockets, LeaveRoom(s), UNCHANGED <<join, version, owed>>,
         \/ open' = open /\ slipped' = slipped
         \/ open' = open \ {s} /\ slipped' = slipped \cup {x \in {s} : Joining(x) # {}}
  PROVE  /\ PlaceTypes /\ Places' /\ JoinsAlone' /\ Onward
         /\ \A p \in Packs : room'[p] \subseteq room[p]
         /\ \A x \in Sockets \ slipped', p \in Packs : x = s => x \notin room'[p]
         /\ \A p \in stale' : p \in stale \/ room'[p] = {}
<1>1. TypeOK /\ Places /\ JoinsAlone /\ slipped \subseteq slipped'
  BY DEF IInv, Places
<1>2. PlaceTypes /\ Places'
  BY <1>1, LeaveTypes, PlacesLeft
<1>3. Onward
  BY DEF Onward
<1>4. /\ \A p \in Packs : room'[p] = IF p = seat[s] THEN room[p] \ {s} ELSE room[p]
      /\ seat'[s] = None /\ \A x \in Sockets \ {s} : seat'[x] = seat[x]
      /\ \A p \in stale' : p \in stale \/ room'[p] = {}
  BY <1>1, LeaveFacts
<1>5. JoinsAlone'
  <2>1. \A h \in Handlers : join[h].pc # "idle" => join[h].s \in Sockets
    BY <1>1, HandlerTypes
  <2>2. \A x \in Sockets : seat[x] = None => seat'[x] = None
    BY <1>4
  <2>3. \A x \in open \ open' : x \in slipped' \/ Joining(x) = {}
    OBVIOUS
  <2> QED BY <1>1, <2>1, <2>2, <2>3, JoinsAloneStays
<1>6. ASSUME s \notin slipped', NEW p \in Packs
      PROVE  s \notin room'[p]
  <2>1. s \notin slipped
    BY <1>1, <1>6
  <2>2. s \in room[p] <=> seat[s] = p
    BY <1>1, <2>1 DEF Places, InRoomOfSeat
  <2> QED BY <1>4, <2>2
<1> QED BY <1>2, <1>3, <1>4, <1>5, <1>6

LEMMA LeaveStep ==
  ASSUME IInv, NEW s \in Sockets, Leave(s)
  PROVE  IInv'
<1>1. /\ LeaveRoom(s) /\ UNCHANGED <<open, people, join, kicker, sweep, news, joins, revocations, history>>
      /\ UNCHANGED <<version, owed>> /\ slipped' = slipped
  BY DEF Leave, news, history
<1>2. /\ PlaceTypes /\ Places' /\ JoinsAlone' /\ Onward /\ (\A p \in Packs : room'[p] \subseteq room[p])
      /\ \A p \in stale' : p \in stale \/ room'[p] = {}
  BY <1>1, LeavingFacts
<1>3. TypeOK'
  BY <1>1, <1>2 DEF IInv, TypeOK, PlaceTypes, people, history
<1> QED BY <1>1, <1>2, <1>3, SocketStep DEF people, history

LEMMA CloseStep ==
  ASSUME IInv, NEW s \in Sockets, Close(s)
  PROVE  IInv'
<1>1. /\ LeaveRoom(s) /\ open' = open \ {s} /\ slipped' = slipped \cup {x \in {s} : Joining(x) # {}}
      /\ UNCHANGED <<people, join, kicker, sweep, news, joins, revocations, late, revoked>> /\ UNCHANGED <<version, owed>>
  BY DEF Close, CloseSocket, news
<1>2. /\ PlaceTypes /\ Places' /\ JoinsAlone' /\ Onward /\ (\A p \in Packs : room'[p] \subseteq room[p])
      /\ \A p \in stale' : p \in stale \/ room'[p] = {}
  BY <1>1, LeavingFacts
<1>3. TypeOK'
  BY <1>1, <1>2 DEF IInv, TypeOK, PlaceTypes, people
<1> QED BY <1>1, <1>2, <1>3, SocketStep DEF people

(* A step that moves no socket.                                            *)
LEMMA PlacesAside ==
  ASSUME IInv, UNCHANGED <<doors, open, join, news, slipped>>
  PROVE  /\ Places' /\ JoinsAlone' /\ Onward /\ (\A p \in Packs : room'[p] \subseteq room[p])
         /\ \A p \in stale' : p \in stale \/ room'[p] = {}
<1>1. Places'
  BY PlacesStay DEF IInv, Places, news
<1>2. JoinsAlone'
  BY DEF IInv, JoinsAlone, Joining, doors
<1> QED BY <1>1, <1>2 DEF Onward, doors

LEMMA ArchiveStep ==
  ASSUME IInv, NEW p \in Packs, Archive(p)
  PROVE  IInv'
<1>1. /\ live' \subseteq live /\ revocations' \in 0 .. MaxRevocations
      /\ UNCHANGED <<doors, open, approved, join, kicker, sweep, news, joins, history>>
  BY RoomsAssumption DEF Archive, IInv, TypeOK
<1>2. TypeOK'
  BY <1>1 DEF IInv, TypeOK, doors, news, history
<1>3. UNCHANGED slipped
  BY <1>1 DEF history
<1> QED BY <1>1, <1>2, <1>3, PlacesAside, SocketStep DEF history

LEMMA CommitStep ==
  ASSUME IInv, NEW p \in Packs, Commit(p)
  PROVE  IInv'
<1>1. /\ version[p] < MaxVersion /\ version' = [version EXCEPT ![p] = @ + 1]
      /\ owed' = [owed EXCEPT ![p] = @ \cup {version[p] + 1}]
      /\ UNCHANGED <<doors, open, people, join, kicker, sweep, joins, revocations, history>>
  BY DEF Commit, doors
<1>2. /\ version \in [Packs -> 0 .. MaxVersion] /\ version[p] \in Nat /\ MaxVersion \in Nat
      /\ version' \in [Packs -> 0 .. MaxVersion] /\ version'[p] = version[p] + 1
      /\ \A q \in Packs \ {p} : version'[q] = version[q] /\ owed'[q] = owed[q]
      /\ owed' \in [Packs -> SUBSET (1 .. MaxVersion)] /\ owed'[p] = owed[p] \cup {version[p] + 1}
  BY <1>1, RoomsAssumption DEF IInv, TypeOK
<1>3. \A x \in Sockets : told[x] # None => seat[x] \in Packs /\ told[x] \in Nat /\ told[x] <= version[seat[x]]
  BY DEF IInv, TypeOK
<1>4. TypeOK'
  <2>1. \A x \in Sockets : told[x] # None => seat[x] # None /\ told[x] <= version'[seat[x]]
    BY <1>2, <1>3, NoneIsNothing
  <2> QED BY <1>1, <1>2, <2>1 DEF IInv, TypeOK, doors, people, history
<1>5. Places'
  <2>1. SeatedInRoom' /\ InRoomOfSeat'
    BY <1>1 DEF IInv, SeatedInRoom, InRoomOfSeat, doors, history
  <2>2. NoMissedCommit'
    <3> SUFFICES ASSUME NEW x \in open, told[x] # None, NEW v \in told[x] + 1 .. version'[seat[x]]
                 PROVE  v \in heard[x] \cup owed'[seat[x]]
      BY <1>1 DEF NoMissedCommit, doors
    <3>1. x \in Sockets
      BY DEF IInv, TypeOK
    <3>2. CASE v \in told[x] + 1 .. version[seat[x]]
      <4>1. v \in heard[x] \cup owed[seat[x]]
        BY <3>2 DEF IInv, NoMissedCommit
      <4> QED BY <1>2, <1>3, <3>1, <4>1
    <3>3. CASE v \notin told[x] + 1 .. version[seat[x]]
      <4>1. seat[x] = p
        BY <1>2, <1>3, <3>1, <3>3
      <4>2. v = version[p] + 1
        BY <1>2, <1>3, <3>1, <3>3, <4>1
      <4> QED BY <1>2, <4>1, <4>2
    <3> QED BY <3>2, <3>3
  <2> QED BY <2>1, <2>2 DEF Places
<1>6. JoinsAlone' /\ Onward /\ (\A q \in Packs : room'[q] \subseteq room[q]) /\ (\A q \in stale' : q \in stale \/ room'[q] = {})
  BY <1>1 DEF IInv, JoinsAlone, Joining, Onward, doors, history
<1> QED BY <1>1, <1>4, <1>5, <1>6, SocketStep DEF people, history

(* A broadcast reaches every socket seated in the room.                    *)
LEMMA BroadcastStep ==
  ASSUME IInv, NEW p \in Packs, NEW v \in owed[p], Broadcast(p, v)
  PROVE  IInv'
<1>1. /\ owed' = [owed EXCEPT ![p] = @ \ {v}]
      /\ heard' = [s \in Sockets |-> IF s \in room[p] /\ seat[s] = p THEN heard[s] \cup {v} ELSE heard[s]]
      /\ UNCHANGED <<room, seat, stale, told, open, people, join, kicker, sweep, version, joins, revocations, history>>
  BY DEF Broadcast
<1>2. /\ owed' \in [Packs -> SUBSET (1 .. MaxVersion)] /\ owed'[p] = owed[p] \ {v}
      /\ \A q \in Packs \ {p} : owed'[q] = owed[q]
      /\ heard' \in [Sockets -> SUBSET (1 .. MaxVersion)]
      /\ \A s \in Sockets : heard'[s] = IF s \in room[p] /\ seat[s] = p THEN heard[s] \cup {v} ELSE heard[s]
  BY <1>1 DEF IInv, TypeOK
<1>3. TypeOK'
  BY <1>1, <1>2 DEF IInv, TypeOK, people, history
<1>4. Places'
  <2>1. SeatedInRoom' /\ InRoomOfSeat'
    BY <1>1 DEF IInv, SeatedInRoom, InRoomOfSeat, history
  <2>2. NoMissedCommit'
    <3> SUFFICES ASSUME NEW x \in open, told[x] # None, NEW w \in told[x] + 1 .. version[seat[x]]
                 PROVE  w \in heard'[x] \cup owed'[seat[x]]
      BY <1>1 DEF NoMissedCommit
    <3>1. x \in Sockets /\ seat[x] \in Packs /\ x \in room[seat[x]]
      BY DEF IInv, TypeOK, SeatedInRoom
    <3>2. w \in heard[x] \cup owed[seat[x]]
      BY DEF IInv, NoMissedCommit
    <3>3. CASE seat[x] = p
      BY <1>2, <3>1, <3>2, <3>3
    <3>4. CASE seat[x] # p
      BY <1>2, <3>1, <3>2, <3>4
    <3> QED BY <3>3, <3>4
  <2> QED BY <2>1, <2>2 DEF Places
<1>5. JoinsAlone' /\ Onward /\ (\A q \in Packs : room'[q] \subseteq room[q]) /\ (\A q \in stale' : q \in stale \/ room'[q] = {})
  BY <1>1 DEF IInv, JoinsAlone, Joining, Onward, history
<1> QED BY <1>1, <1>3, <1>4, <1>5, SocketStep DEF people, history

-----------------------------------------------------------------------------
(* The kicker.                                                             *)

LEMMA KickerStep ==
  ASSUME IInv, TypeOK', Places', JoinsAlone', Onward, (\A p \in Packs : room'[p] \subseteq room[p]),
         \A p \in stale' : p \in stale \/ room'[p] = {},
         UNCHANGED <<people, sweep, late>>, slipped \subseteq slipped', KickReaches', RevokedOutUnlessLate'
  PROVE  IInv'
<1>1. TypeOK /\ LockedBarred /\ SweepReaches /\ OnlyEntering /\ approved' = approved /\ live' = live
  BY DEF IInv, OnlyEntering, people
<1>2. LockedBarred'
  BY <1>1, BarredStays
<1>3. SweepReaches'
  BY <1>1, SweepStays
<1> QED BY <1>2, <1>3 DEF IInv, Places

(* The sockets that are past the user check are excused.                   *)
LEMMA LockUserStep ==
  ASSUME IInv, NEW u \in Users, LockUser(u)
  PROVE  IInv'
<1>1. /\ approved' = approved \ {u} /\ kicker' = Kick("revoke", u, {}) /\ late' = late \cup PastUserCheck(u)
      /\ revocations' \in 0 .. MaxRevocations
      /\ UNCHANGED <<doors, open, live, join, sweep, news, joins, slipped, revoked>>
  BY RoomsAssumption DEF LockUser, IInv, TypeOK
<1>2. TypeOK'
  <2>1. late' \subseteq Sockets
    BY <1>1 DEF IInv, TypeOK, PastUserCheck
  <2>2. kicker' \in Kicking /\ kicker'.closing = None /\ kicker'.user \in Users
    BY <1>1 DEF Kick, Kicking
  <2> QED BY <1>1, <2>1, <2>2 DEF IInv, TypeOK, doors, news
<1>3. /\ Places' /\ JoinsAlone' /\ Onward /\ (\A p \in Packs : room'[p] \subseteq room[p])
      /\ \A p \in stale' : p \in stale \/ room'[p] = {}
  BY <1>1, PlacesAside
<1>4. LockedBarred'
  <2> SUFFICES ASSUME NEW s \in Sockets \ late', UserOf[s] \notin approved' PROVE Barred(s)'
    BY DEF LockedBarred
  <2>1. Barred(s)
    <3>1. CASE UserOf[s] = u
      <4>1. s \notin PastUserCheck(u)
        BY <1>1
      <4> QED BY <3>1, <4>1 DEF PastUserCheck, Barred
    <3>2. CASE UserOf[s] # u
      BY <1>1, <3>2 DEF IInv, LockedBarred
    <3> QED BY <3>1, <3>2
  <2> QED BY <1>1, <2>1 DEF Barred, Joining
<1>5. KickReaches' /\ RevokedOutUnlessLate'
  <2>1. kicker'.pc # "lock"
    BY <1>1 DEF Kick
  <2> QED BY <1>1, <2>1 DEF IInv, KickReaches, RevokedOutUnlessLate, Out, doors
<1>6. SweepReaches'
  <2>1. OnlyEntering
    BY <1>3 DEF OnlyEntering
  <2> QED BY <1>1, <1>3, <2>1, SweepStays DEF IInv
<1> QED BY <1>2, <1>3, <1>4, <1>5, <1>6 DEF IInv, Places

(* A step that moves no socket, and the kicker's list with it.             *)
LEMMA KickerAside ==
  ASSUME IInv, UNCHANGED <<doors, open, people, join, sweep, news, joins, slipped, late>>,
         kicker' \in Kicking, kicker'.closing \in kicker'.here \cup {None}, kicker'.pc # "idle" => kicker'.user \in Users,
         revocations' \in 0 .. MaxRevocations, revoked' \subseteq Users,
         KickReaches', RevokedOutUnlessLate'
  PROVE  IInv'
<1>1. TypeOK'
  BY DEF IInv, TypeOK, doors, people, news
<1>2. /\ Places' /\ JoinsAlone' /\ Onward /\ (\A p \in Packs : room'[p] \subseteq room[p])
      /\ \A p \in stale' : p \in stale \/ room'[p] = {}
  BY PlacesAside
<1> QED BY <1>1, <1>2, KickerStep

LEMMA KickAsideSteps ==
  ASSUME IInv, Revoke \/ LockFails \/ KickDone \/ (\E p \in Packs : KickRoom(p) \/ \E u \in Users : RemoveMember(p, u))
  PROVE  IInv'
<1> USE DEF history
<1>1. /\ TypeOK /\ KickReaches /\ RevokedOutUnlessLate /\ kicker \in Kicking /\ revocations \in 0 .. MaxRevocations
      /\ revoked \subseteq Users
  BY DEF IInv, TypeOK
<1>2. ASSUME UNCHANGED <<room, revoked, slipped, late, approved>>
      PROVE  RevokedOutUnlessLate'
  BY <1>1, <1>2 DEF RevokedOutUnlessLate, Out
<1>3. NoKick \in Kicking /\ NoKick.closing = None /\ NoKick.pc = "idle"
  BY DEF NoKick, Kick, Kicking
<1>4. CASE Revoke
  <2>1. kicker' = Kick("lock", kicker.user, {p \in Packs : room[p] # {}})
    BY <1>4 DEF Revoke
  <2>2. kicker' \in Kicking /\ kicker'.closing = None /\ kicker'.user \in Users
    BY <1>1, <1>4, <2>1 DEF Kick, Kicking, Revoke, TypeOK
  <2>3. KickReaches'
    BY <1>1, <1>4, <2>1 DEF Revoke, KickReaches, Kick, doors, people
  <2>4. UNCHANGED <<doors, open, people, join, sweep, news, joins, revocations, slipped, late, revoked>>
    BY <1>4 DEF Revoke
  <2>5. RevokedOutUnlessLate'
    BY <1>2, <2>4 DEF doors, people
  <2> QED BY <1>1, <2>2, <2>3, <2>4, <2>5, KickerAside
<1>5. CASE LockFails
  <2>1. kicker' = NoKick /\ UNCHANGED <<doors, open, people, join, sweep, news, joins, revocations, slipped, late, revoked>>
    BY <1>5 DEF LockFails
  <2>2. KickReaches'
    BY <1>1, <1>3, <2>1 DEF KickReaches, people
  <2>3. RevokedOutUnlessLate'
    BY <1>2, <2>1 DEF doors, people
  <2> QED BY <1>1, <1>3, <2>1, <2>2, <2>3, KickerAside
<1>6. CASE KickDone
  <2>1. /\ kicker.todo = {} /\ kicker.here = {} /\ kicker' = NoKick
        /\ revoked' = revoked \cup {u \in {kicker.user} \ approved : kicker.pc = "lock"}
        /\ UNCHANGED <<doors, open, people, join, sweep, news, joins, revocations, slipped, late>>
    BY <1>6 DEF KickDone
  <2>2. KickReaches'
    BY <1>1, <1>3, <2>1 DEF KickReaches, people
  <2>3. RevokedOutUnlessLate'
    <3> SUFFICES ASSUME NEW u \in revoked', NEW s \in Sockets \ (slipped \cup late), UserOf[s] = u, NEW p \in Packs
                 PROVE  s \notin room[p]
      BY <2>1 DEF RevokedOutUnlessLate, Out, doors
    <3>1. CASE u \in revoked
      BY <1>1, <3>1 DEF RevokedOutUnlessLate, Out
    <3>2. CASE u \notin revoked
      <4>1. u = kicker.user /\ kicker.pc = "lock" /\ kicker.user \notin approved
        BY <2>1, <3>2
      <4> QED BY <1>1, <2>1, <4>1 DEF KickReaches
    <3> QED BY <3>1, <3>2
  <2>4. revoked' \subseteq Users
    <3>1. kicker.pc = "lock" => kicker.user \in Users
      BY <1>1, <1>6 DEF TypeOK
    <3> QED BY <1>1, <2>1, <3>1
  <2> QED BY <1>1, <1>3, <2>1, <2>2, <2>3, <2>4, KickerAside
<1>7. ASSUME NEW p \in Packs, KickRoom(p)
      PROVE  IInv'
  <2>1. /\ kicker.here = {} /\ kicker' = [kicker EXCEPT !.todo = @ \ {p}, !.here = {s \in room[p] : UserOf[s] = kicker.user}]
        /\ UNCHANGED <<doors, open, people, join, sweep, news, joins, revocations, slipped, late, revoked>>
    BY <1>7 DEF KickRoom
  <2>2. kicker.closing = None /\ room[p] \subseteq Sockets
    BY <1>1, <2>1 DEF TypeOK
  <2>3. /\ kicker' \in Kicking /\ kicker'.closing = None /\ kicker'.pc = kicker.pc /\ kicker'.user = kicker.user
        /\ kicker'.todo = kicker.todo \ {p} /\ kicker'.here = {s \in room[p] : UserOf[s] = kicker.user}
    BY <1>1, <2>1, <2>2 DEF Kicking
  <2>6. kicker'.pc # "idle" => kicker'.user \in Users
    BY <1>1, <2>3 DEF TypeOK
  <2>4. KickReaches'
    BY <1>1, <2>1, <2>3, NoneIsNothing DEF KickReaches, doors, people
  <2>5. RevokedOutUnlessLate'
    BY <1>2, <2>1 DEF doors, people
  <2> QED BY <1>1, <2>1, <2>3, <2>4, <2>5, <2>6, KickerAside
<1>8. ASSUME NEW p \in Packs, NEW u \in Users, RemoveMember(p, u)
      PROVE  IInv'
  <2>1. /\ kicker' = Kick("remove", u, {p}) /\ revocations' = revocations + 1 /\ revocations < MaxRevocations
        /\ UNCHANGED <<doors, open, people, join, sweep, news, joins, slipped, late, revoked>>
    BY <1>8 DEF RemoveMember
  <2>2. kicker' \in Kicking /\ kicker'.closing = None /\ kicker'.pc # "lock" /\ kicker'.user \in Users
    BY <2>1 DEF Kick, Kicking
  <2>3. KickReaches'
    BY <1>1, <2>1, <2>2 DEF KickReaches, people
  <2>4. RevokedOutUnlessLate'
    BY <1>2, <2>1 DEF doors, people
  <2>5. revocations' \in 0 .. MaxRevocations
    BY <1>1, <2>1, RoomsAssumption
  <2> QED BY <1>1, <2>1, <2>2, <2>3, <2>4, <2>5, KickerAside
<1> QED BY <1>4, <1>5, <1>6, <1>7, <1>8

(* A socket that is kicked leaves its room, and is closed a step later.    *)
LEMMA KickSocketStep ==
  ASSUME IInv, NEW s \in Sockets, KickSocket(s)
  PROVE  IInv'
<1>1. /\ s \in kicker.here /\ kicker.closing = None /\ kicker' = [kicker EXCEPT !.closing = s] /\ LeaveRoom(s)
      /\ UNCHANGED <<open, people, join, sweep, news, joins, revocations, history>> /\ UNCHANGED <<version, owed>>
      /\ slipped' = slipped /\ kicker \in Kicking
  BY DEF KickSocket, news, history, IInv, TypeOK
<1>2. /\ PlaceTypes /\ Places' /\ JoinsAlone' /\ Onward /\ (\A p \in Packs : room'[p] \subseteq room[p])
      /\ (\A x \in Sockets \ slipped', p \in Packs : x = s => x \notin room'[p])
      /\ \A p \in stale' : p \in stale \/ room'[p] = {}
  BY <1>1, LeavingFacts
<1>3. /\ kicker' \in Kicking /\ kicker'.closing = s /\ kicker'.here = kicker.here /\ kicker'.todo = kicker.todo
      /\ kicker'.pc = kicker.pc /\ kicker'.user = kicker.user
  BY <1>1 DEF Kicking
<1>4. TypeOK'
  BY <1>1, <1>2, <1>3 DEF IInv, TypeOK, PlaceTypes, people, history
<1>5. KickReaches'
  BY <1>1, <1>2, <1>3 DEF IInv, KickReaches, people, history
<1>6. RevokedOutUnlessLate'
  BY <1>1, <1>2 DEF IInv, RevokedOutUnlessLate, Out, history
<1> QED BY <1>1, <1>2, <1>4, <1>5, <1>6, KickerStep DEF history

LEMMA KickCloseStep ==
  ASSUME IInv, KickClose
  PROVE  IInv'
<1>1. PICK s \in Sockets : s = kicker.closing
  BY DEF KickClose, IInv, TypeOK, Kicking
<1>2. /\ kicker' = [kicker EXCEPT !.closing = None, !.here = @ \ {s}] /\ LeaveRoom(s)
      /\ open' = open \ {s} /\ slipped' = slipped \cup {x \in {s} : Joining(x) # {}}
      /\ UNCHANGED <<people, join, sweep, news, joins, revocations, late, revoked>> /\ UNCHANGED <<version, owed>>
      /\ kicker \in Kicking
  BY <1>1 DEF KickClose, CloseSocket, news, IInv, TypeOK
<1>3. /\ PlaceTypes /\ Places' /\ JoinsAlone' /\ Onward /\ (\A p \in Packs : room'[p] \subseteq room[p])
      /\ (\A p \in stale' : p \in stale \/ room'[p] = {}) /\ slipped \subseteq slipped' /\ slipped' \subseteq Sockets
  BY <1>2, LeavingFacts DEF IInv, TypeOK
<1>4. /\ kicker' \in Kicking /\ kicker'.closing = None /\ kicker'.here = kicker.here \ {s} /\ kicker'.todo = kicker.todo
      /\ kicker'.pc = kicker.pc /\ kicker'.user = kicker.user
  BY <1>2 DEF Kicking
<1>5. TypeOK'
  BY <1>2, <1>3, <1>4 DEF IInv, TypeOK, PlaceTypes, people
<1>6. KickReaches'
  BY <1>1, <1>2, <1>3, <1>4, NoneIsNothing DEF IInv, KickReaches, people
<1>7. RevokedOutUnlessLate'
  BY <1>2, <1>3 DEF IInv, RevokedOutUnlessLate, Out
<1> QED BY <1>2, <1>3, <1>5, <1>6, <1>7, KickerStep

-----------------------------------------------------------------------------
(* The sweep.                                                              *)

LEMMA SweeperStep ==
  ASSUME IInv, TypeOK', Places', JoinsAlone', Onward, (\A p \in Packs : room'[p] \subseteq room[p]),
         UNCHANGED <<people, kicker, late, revoked>>, slipped \subseteq slipped', SweepReaches'
  PROVE  IInv'
<1>1. /\ TypeOK /\ LockedBarred /\ KickReaches /\ RevokedOutUnlessLate /\ OnlyEntering /\ approved' = approved
  BY DEF IInv, OnlyEntering, people
<1>2. LockedBarred'
  BY <1>1, BarredStays
<1>3. KickReaches' /\ RevokedOutUnlessLate'
  BY <1>1, KickStays
<1> QED BY <1>2, <1>3 DEF IInv, Places

(* A step that moves no socket, and the sweep with it.                     *)
LEMMA SweeperAside ==
  ASSUME IInv, UNCHANGED <<room, seat, told, heard, open, people, join, kicker, news, joins, revocations, history>>,
         stale' \subseteq Packs, sweep' \in Sweeping, sweep'.closing \in sweep'.here \cup {None}, SweepReaches'
  PROVE  IInv'
<1>1. TypeOK'
  BY DEF IInv, TypeOK, people, news, history
<1>2. Places'
  BY DEF IInv, Places, SeatedInRoom, InRoomOfSeat, NoMissedCommit, news, history
<1>3. JoinsAlone' /\ Onward
  BY DEF IInv, JoinsAlone, Joining, Onward, history
<1> QED BY <1>1, <1>2, <1>3, SweeperStep DEF history

LEMMA ApproveStep ==
  ASSUME IInv, NEW u \in Users, Approve(u)
  PROVE  IInv'
<1>1. /\ u \notin approved /\ approved' = approved \cup {u} /\ revoked' = revoked \ {u}
      /\ sweep' = [sweep EXCEPT !.locked = {s \in @ : UserOf[s] # u}]
      /\ UNCHANGED <<doors, open, live, join, kicker, news, joins, revocations, slipped, late>>
      /\ sweep \in Sweeping
  BY DEF Approve, IInv, TypeOK
<1>2. /\ sweep' \in Sweeping /\ sweep'.locked = {s \in sweep.locked : UserOf[s] # u}
      /\ sweep'.pc = sweep.pc /\ sweep'.todo = sweep.todo /\ sweep'.here = sweep.here /\ sweep'.closing = sweep.closing
      /\ sweep'.ok = sweep.ok /\ sweep'.dead = sweep.dead /\ sweep'.packLive = sweep.packLive
  BY <1>1 DEF Sweeping
<1>3. TypeOK'
  BY <1>1, <1>2 DEF IInv, TypeOK, doors, news
<1>4. Places' /\ JoinsAlone' /\ Onward /\ OnlyEntering
  BY <1>1, PlacesAside DEF OnlyEntering
<1>5. LockedBarred'
  BY <1>1, <1>4, BarredStays DEF IInv
<1>6. KickReaches' /\ RevokedOutUnlessLate'
  BY <1>1, <1>4, KickStays DEF IInv
<1>7. SweepReaches'
  <2>1. \A s \in Sockets, p \in Packs : ToBeSwept(s, p)' <=> ToBeSwept(s, p)
    BY <1>1, <1>2 DEF ToBeSwept, doors
  <2>2. \A s \in Sockets : Joining(s)' = Joining(s) /\ (Barred(s)' <=> Barred(s))
    BY <1>1 DEF Barred, Joining
  <2>3. sweep.locked \subseteq Sockets
    BY <1>1 DEF Sweeping
  <2> QED BY <1>1, <1>2, <2>1, <2>2, <2>3 DEF IInv, SweepReaches, doors
<1> QED BY <1>3, <1>4, <1>5, <1>6, <1>7 DEF IInv, Places

LEMMA SweepTurns ==
  ASSUME IInv, SweepStart \/ SweepEnd \/ SweepFails
  PROVE  IInv'
<1>1. NoSweep \in Sweeping /\ NoSweep.closing = None /\ NoSweep.pc = "idle"
  BY DEF NoSweep, Sweeping
<1>2. CASE SweepEnd \/ SweepFails
  <2>1. /\ sweep' = NoSweep /\ stale' = {}
        /\ UNCHANGED <<room, seat, told, heard, open, people, join, kicker, news, joins, revocations, history>>
    BY <1>2 DEF SweepEnd, SweepFails
  <2>2. SweepReaches'
    BY <1>1, <2>1 DEF SweepReaches
  <2> QED BY <1>1, <2>1, <2>2, SweeperAside
<1>3. CASE SweepStart
  <2>1. PICK settled : settled = {s \in Sockets : Joining(s) = {}}
    OBVIOUS
  <2>2. /\ sweep' = [NoSweep EXCEPT !.pc = "sweep", !.todo = {p \in Packs : room[p] # {}},
                       !.locked = {s \in settled : UserOf[s] \notin approved},
                       !.dead = {t \in settled \X (Packs \ live) : t[1] \in room[t[2]]}]
        /\ stale' = {}
        /\ UNCHANGED <<room, seat, told, heard, open, people, join, kicker, news, joins, revocations, history>>
    BY <1>3, <2>1 DEF SweepStart
  <2>3. /\ sweep' \in Sweeping /\ sweep'.closing = None /\ sweep'.here = {} /\ sweep'.ok = {}
        /\ sweep'.todo = {p \in Packs : room[p] # {}}
        /\ sweep'.locked = {s \in settled : UserOf[s] \notin approved}
        /\ sweep'.dead = {t \in settled \X (Packs \ live) : t[1] \in room[t[2]]}
    BY <2>1, <2>2 DEF Sweeping, NoSweep
  <2>4. \A s \in settled : Joining(s)' = {} /\ Barred(s)'
    BY <2>1, <2>2 DEF Joining, Barred
  <2>5. \A s \in Sockets, p \in Packs : s \in room'[p] => ToBeSwept(s, p)'
    BY <2>2, <2>3 DEF ToBeSwept
  <2>6. SweepReaches'
    <3>1. ASSUME NEW s \in sweep'.locked \ slipped'
          PROVE  /\ UserOf[s] \notin approved' \cup sweep'.ok
                 /\ Barred(s)'
                 /\ \A p \in Packs : s \in room'[p] => ToBeSwept(s, p)'
      BY <2>1, <2>2, <2>3, <2>4, <2>5, <3>1 DEF people
    <3>2. ASSUME NEW s \in Sockets \ slipped', NEW p \in Packs, <<s, p>> \in sweep'.dead
          PROVE  /\ p \notin live'
                 /\ \A h \in Joining(s)' : ~(join'[h].pc = "enter" /\ join'[h].p = p)
                 /\ s \in room'[p] => ToBeSwept(s, p)' /\ (s \in sweep'.here => ~sweep'.packLive)
      BY <2>2, <2>3, <2>4, <2>5, <3>2 DEF people
    <3> QED BY <3>1, <3>2 DEF SweepReaches
  <2> QED BY <2>2, <2>3, <2>6, SweeperAside
<1> QED BY <1>2, <1>3

(* The sockets of the next room are copied; a Set dropped from the map has
   nobody left in it.                                                      *)
LEMMA SweepRoomStep ==
  ASSUME IInv, NEW p \in Packs, SweepRoom(p)
  PROVE  IInv'
<1>1. /\ sweep.pc = "sweep" /\ sweep.here = {}
      /\ sweep' = [sweep EXCEPT !.todo = @ \ {p}, !.here = IF p \in stale THEN {} ELSE room[p], !.packLive = p \in live]
      /\ UNCHANGED <<doors, open, people, join, kicker, news, joins, revocations, history>>
      /\ sweep \in Sweeping /\ sweep.closing = None /\ room[p] \subseteq Sockets
      /\ InRoomOfSeat /\ SweepReaches
  BY DEF SweepRoom, IInv, TypeOK
<1>0. sweep \in Sweeping /\ sweep.closing = None
  BY <1>1
<1>2. /\ sweep' \in Sweeping /\ sweep'.closing = None /\ sweep'.todo = sweep.todo \ {p}
      /\ sweep'.here = (IF p \in stale THEN {} ELSE room[p]) /\ (sweep'.packLive => p \in live)
      /\ sweep'.ok = sweep.ok /\ sweep'.locked = sweep.locked /\ sweep'.dead = sweep.dead
  <2>1. PICK here \in SUBSET Sockets : here = IF p \in stale THEN {} ELSE room[p]
    BY <1>1
  <2>2. CASE p \in live
    <3>1. (p \in live) = TRUE
      BY <2>2
    <3>2. sweep' = [sweep EXCEPT !.todo = @ \ {p}, !.here = here, !.packLive = TRUE]
      BY <1>1, <2>1, <3>1
    <3>3. /\ sweep' \in Sweeping /\ sweep'.closing = None /\ sweep'.todo = sweep.todo \ {p}
          /\ sweep'.here = here /\ sweep'.packLive = TRUE
          /\ sweep'.ok = sweep.ok /\ sweep'.locked = sweep.locked /\ sweep'.dead = sweep.dead
      BY <1>0, <3>2 DEF Sweeping
    <3> QED BY <2>1, <2>2, <3>3
  <2>3. CASE p \notin live
    <3>1. (p \in live) = FALSE
      BY <2>3
    <3>2. sweep' = [sweep EXCEPT !.todo = @ \ {p}, !.here = here, !.packLive = FALSE]
      BY <1>1, <2>1, <3>1
    <3>3. /\ sweep' \in Sweeping /\ sweep'.closing = None /\ sweep'.todo = sweep.todo \ {p}
          /\ sweep'.here = here /\ sweep'.packLive = FALSE
          /\ sweep'.ok = sweep.ok /\ sweep'.locked = sweep.locked /\ sweep'.dead = sweep.dead
      BY <1>0, <3>2 DEF Sweeping
    <3> QED BY <2>1, <2>3, <3>3
  <2> QED BY <2>2, <2>3
<1>3. \A s \in Sockets, q \in Packs : s \in room[q] /\ ToBeSwept(s, q) => ToBeSwept(s, q)'
  BY <1>1, <1>2, NoneIsNothing DEF ToBeSwept, doors
<1>4. \A s \in Sockets : Joining(s)' = Joining(s) /\ (Barred(s)' <=> Barred(s))
  BY <1>1 DEF Barred, Joining
<1>5. SweepReaches'
  <2>1. ASSUME NEW s \in sweep.locked \ slipped, s \in Sockets
        PROVE  /\ UserOf[s] \notin approved \cup sweep.ok
               /\ Barred(s)'
               /\ \A q \in Packs : s \in room[q] => ToBeSwept(s, q)'
    BY <1>1, <1>3, <1>4, <2>1 DEF SweepReaches
  <2>2. ASSUME NEW s \in Sockets \ slipped, NEW q \in Packs, <<s, q>> \in sweep.dead
        PROVE  /\ q \notin live
               /\ \A h \in Joining(s)' : ~(join[h].pc = "enter" /\ join[h].p = q)
               /\ s \in room[q] => ToBeSwept(s, q)' /\ (s \in sweep'.here => ~sweep'.packLive)
    <3>1. /\ q \notin live
          /\ \A h \in Joining(s) : ~(join[h].pc = "enter" /\ join[h].p = q)
          /\ s \in room[q] => ToBeSwept(s, q)
      BY <1>1, <2>2 DEF SweepReaches
    <3>2. s \in room[q] /\ s \in room[p] => q = p
      BY <1>1 DEF InRoomOfSeat
    <3> QED BY <1>2, <1>3, <1>4, <3>1, <3>2
  <2>3. sweep.locked \subseteq Sockets
    BY <1>1 DEF Sweeping
  <2> QED BY <1>1, <1>2, <2>1, <2>2, <2>3 DEF SweepReaches, doors, people, history
<1>6. stale' \subseteq Packs
  BY <1>1 DEF doors, IInv, TypeOK
<1> QED BY <1>1, <1>2, <1>5, <1>6, SweeperAside DEF doors

(* Who is passed over is neither locked nor in an archived pack.           *)
LEMMA SweepSocketStep ==
  ASSUME IInv, NEW s \in Sockets, SweepSocket(s)
  PROVE  IInv'
<1>1. PICK u, known : /\ u = UserOf[s]
                      /\ known = [sweep EXCEPT !.read = @ \cup {u},
                                    !.ok = IF u \in approved \ sweep.read THEN @ \cup {u} ELSE @]
  OBVIOUS
<1>2. /\ sweep.pc = "sweep" /\ s \in sweep.here /\ sweep.closing = None /\ sweep \in Sweeping /\ SweepReaches
      /\ u \in Users
      /\ UNCHANGED <<open, people, join, kicker, news, joins, revocations, history>>
  BY <1>1, RoomsAssumption DEF SweepSocket, IInv, TypeOK
<1>3. /\ known \in Sweeping /\ known.ok \subseteq sweep.ok \cup approved /\ known.pc = sweep.pc
      /\ known.todo = sweep.todo /\ known.here = sweep.here /\ known.closing = None
      /\ known.packLive = sweep.packLive /\ known.locked = sweep.locked /\ known.dead = sweep.dead
  BY <1>1, <1>2 DEF Sweeping
<1>4. sweep.locked \subseteq Sockets
  BY <1>2 DEF Sweeping
<1>5. CASE StillAllowed(s) /\ sweep' = [known EXCEPT !.here = @ \ {s}] /\ UNCHANGED doors
  <2>1. /\ sweep' \in Sweeping /\ sweep'.closing = None /\ sweep'.here = sweep.here \ {s} /\ sweep'.ok = known.ok
        /\ sweep'.todo = sweep.todo /\ sweep'.packLive = sweep.packLive
        /\ sweep'.locked = sweep.locked /\ sweep'.dead = sweep.dead
    BY <1>3, <1>5 DEF Sweeping
  <2>2. sweep.packLive /\ (u \in sweep.ok \/ u \in approved)
    BY <1>1, <1>5 DEF StillAllowed
  <2>3. \A x \in Sockets \ {s}, p \in Packs : ToBeSwept(x, p) => ToBeSwept(x, p)'
    BY <1>2, <1>5, <2>1, NoneIsNothing DEF ToBeSwept, doors
  <2>4. \A x \in Sockets : Joining(x)' = Joining(x) /\ (Barred(x)' <=> Barred(x))
    BY <1>2 DEF Barred, Joining
  <2>5. SweepReaches'
    <3>1. ASSUME NEW x \in sweep.locked \ slipped, x \in Sockets
          PROVE  /\ UserOf[x] \notin approved \cup known.ok
                 /\ Barred(x)'
                 /\ \A p \in Packs : x \in room[p] => ToBeSwept(x, p)'
      <4>1. UserOf[x] \notin approved \cup sweep.ok /\ Barred(x) /\ \A p \in Packs : x \in room[p] => ToBeSwept(x, p)
        BY <1>2, <3>1 DEF SweepReaches
      <4>2. x # s
        BY <1>1, <2>2, <4>1
      <4> QED BY <1>3, <2>3, <2>4, <3>1, <4>1, <4>2
    <3>2. ASSUME NEW x \in Sockets \ slipped, NEW p \in Packs, <<x, p>> \in sweep.dead
          PROVE  /\ p \notin live
                 /\ \A h \in Joining(x)' : ~(join[h].pc = "enter" /\ join[h].p = p)
                 /\ x \in room[p] => ToBeSwept(x, p)' /\ (x \in sweep'.here => ~sweep'.packLive)
      <4>1. /\ p \notin live
            /\ \A h \in Joining(x) : ~(join[h].pc = "enter" /\ join[h].p = p)
            /\ x \in room[p] => ToBeSwept(x, p) /\ (x \in sweep.here => ~sweep.packLive)
        BY <1>2, <3>2 DEF SweepReaches
      <4>2. x \in room[p] => x # s
        BY <1>2, <2>2, <4>1
      <4> QED BY <2>1, <2>3, <2>4, <4>1, <4>2
    <3> QED BY <1>2, <1>4, <2>1, <3>1, <3>2, <1>5 DEF SweepReaches, doors, people, history
  <2>6. stale' \subseteq Packs
    BY <1>5 DEF doors, IInv, TypeOK
  <2> QED BY <1>2, <1>5, <2>1, <2>5, <2>6, SweeperAside DEF doors
<1>6. CASE sweep' = [known EXCEPT !.closing = s] /\ LeaveRoom(s)
  <2>1. /\ sweep' \in Sweeping /\ sweep'.closing = s /\ sweep'.here = sweep.here /\ sweep'.ok = known.ok
        /\ sweep'.todo = sweep.todo /\ sweep'.packLive = sweep.packLive
        /\ sweep'.locked = sweep.locked /\ sweep'.dead = sweep.dead
    BY <1>3, <1>6 DEF Sweeping
  <2>2. slipped' = slipped /\ UNCHANGED <<version, owed, late, revoked>> /\ approved' = approved /\ live' = live
    BY <1>2 DEF news, history, people
  <2>3. /\ PlaceTypes /\ Places' /\ JoinsAlone' /\ Onward /\ (\A p \in Packs : room'[p] \subseteq room[p])
        /\ (\A x \in Sockets \ slipped', p \in Packs : x = s => x \notin room'[p])
        /\ \A p \in stale' : p \in stale \/ room'[p] = {}
    BY <1>2, <1>6, <2>2, LeavingFacts
  <2>4. TypeOK'
    BY <1>2, <2>1, <2>2, <2>3 DEF IInv, TypeOK, PlaceTypes, people, history
  <2>5. \A x \in Sockets \ {s}, p \in Packs : x \in room'[p] /\ ToBeSwept(x, p) => ToBeSwept(x, p)'
    BY <1>2, <2>1, <2>3 DEF ToBeSwept
  <2>6. \A x \in Sockets : Joining(x)' = Joining(x) /\ (Barred(x)' <=> Barred(x))
    BY <1>2 DEF Barred, Joining
  <2>7. SweepReaches'
    <3>1. ASSUME NEW x \in sweep.locked \ slipped, x \in Sockets
          PROVE  /\ UserOf[x] \notin approved \cup known.ok
                 /\ Barred(x)'
                 /\ \A p \in Packs : x \in room'[p] => ToBeSwept(x, p)'
      <4>1. UserOf[x] \notin approved \cup sweep.ok /\ Barred(x) /\ \A p \in Packs : x \in room[p] => ToBeSwept(x, p)
        BY <1>2, <3>1 DEF SweepReaches
      <4> QED BY <1>3, <2>2, <2>3, <2>5, <2>6, <3>1, <4>1
    <3>2. ASSUME NEW x \in Sockets \ slipped, NEW p \in Packs, <<x, p>> \in sweep.dead
          PROVE  /\ p \notin live
                 /\ \A h \in Joining(x)' : ~(join[h].pc = "enter" /\ join[h].p = p)
                 /\ x \in room'[p] => ToBeSwept(x, p)' /\ (x \in sweep.here => ~sweep.packLive)
      <4>1. /\ p \notin live
            /\ \A h \in Joining(x) : ~(join[h].pc = "enter" /\ join[h].p = p)
            /\ x \in room[p] => ToBeSwept(x, p) /\ (x \in sweep.here => ~sweep.packLive)
        BY <1>2, <3>2 DEF SweepReaches
      <4> QED BY <2>2, <2>3, <2>5, <2>6, <4>1
    <3> QED BY <1>2, <1>4, <2>1, <2>2, <3>1, <3>2 DEF SweepReaches
  <2> QED BY <1>2, <2>2, <2>3, <2>4, <2>7, SweeperStep
<1> QED BY <1>1, <1>5, <1>6 DEF SweepSocket

LEMMA SweepCloseStep ==
  ASSUME IInv, SweepClose
  PROVE  IInv'
<1>1. PICK s \in Sockets : s = sweep.closing
  BY DEF SweepClose, IInv, TypeOK, Sweeping
<1>2. /\ sweep.pc = "sweep" /\ sweep' = [sweep EXCEPT !.closing = None, !.here = @ \ {s}] /\ LeaveRoom(s)
      /\ open' = open \ {s} /\ slipped' = slipped \cup {x \in {s} : Joining(x) # {}}
      /\ UNCHANGED <<people, join, kicker, news, joins, revocations, late, revoked>> /\ UNCHANGED <<version, owed>>
      /\ sweep \in Sweeping /\ SweepReaches
  BY <1>1 DEF SweepClose, CloseSocket, news, IInv, TypeOK
<1>3. /\ PlaceTypes /\ Places' /\ JoinsAlone' /\ Onward /\ (\A p \in Packs : room'[p] \subseteq room[p])
      /\ (\A p \in stale' : p \in stale \/ room'[p] = {}) /\ slipped \subseteq slipped' /\ slipped' \subseteq Sockets
  BY <1>2, LeavingFacts DEF IInv, TypeOK
<1>4. /\ sweep' \in Sweeping /\ sweep'.closing = None /\ sweep'.here = sweep.here \ {s} /\ sweep'.ok = sweep.ok
      /\ sweep'.todo = sweep.todo /\ sweep'.packLive = sweep.packLive
      /\ sweep'.locked = sweep.locked /\ sweep'.dead = sweep.dead /\ sweep.locked \subseteq Sockets
  BY <1>2 DEF Sweeping
<1>5. TypeOK'
  BY <1>2, <1>3, <1>4 DEF IInv, TypeOK, PlaceTypes, people
<1>6. \A x \in Sockets, p \in Packs : x \in room'[p] /\ ToBeSwept(x, p) => ToBeSwept(x, p)'
  BY <1>1, <1>3, <1>4, NoneIsNothing DEF ToBeSwept
<1>7. \A x \in Sockets : Joining(x)' = Joining(x) /\ (Barred(x)' <=> Barred(x))
  BY <1>2 DEF Barred, Joining
<1>8. SweepReaches'
  <2>1. ASSUME NEW x \in sweep.locked \ slipped, x \in Sockets
        PROVE  /\ UserOf[x] \notin approved \cup sweep.ok
               /\ Barred(x)'
               /\ \A p \in Packs : x \in room'[p] => ToBeSwept(x, p)'
    BY <1>2, <1>3, <1>6, <1>7, <2>1 DEF SweepReaches
  <2>2. ASSUME NEW x \in Sockets \ slipped, NEW p \in Packs, <<x, p>> \in sweep.dead
        PROVE  /\ p \notin live
               /\ \A h \in Joining(x)' : ~(join[h].pc = "enter" /\ join[h].p = p)
               /\ x \in room'[p] => ToBeSwept(x, p)' /\ (x \in sweep'.here => ~sweep.packLive)
    BY <1>2, <1>3, <1>4, <1>6, <1>7, <2>2 DEF SweepReaches
  <2> QED BY <1>2, <1>3, <1>4, <2>1, <2>2 DEF SweepReaches, people
<1> QED BY <1>2, <1>3, <1>5, <1>8, SweeperStep

-----------------------------------------------------------------------------
(* Together.                                                               *)

LEMMA InitHolds == Init => IInv
<1> SUFFICES ASSUME Init PROVE IInv
  OBVIOUS
<1>1. /\ NoKick \in Kicking /\ NoKick.pc = "idle" /\ NoKick.closing = None
      /\ NoSweep \in Sweeping /\ NoSweep.pc = "idle" /\ NoSweep.closing = None
      /\ Idle.pc = "idle"
  BY DEF NoKick, Kick, Kicking, NoSweep, Sweeping, Idle
<1>2. \A h \in Handlers : join[h] = Idle
  BY DEF Init
<1>3. TypeOK
  BY <1>1, RoomsAssumption DEF Init, TypeOK
<1>4. SeatedInRoom /\ InRoomOfSeat /\ NoMissedCommit
  BY NoneIsNothing DEF Init, SeatedInRoom, InRoomOfSeat, NoMissedCommit
<1>5. JoinsAlone /\ LockedBarred
  BY <1>1, <1>2 DEF JoinsAlone, LockedBarred, Barred, Joining
<1>6. KickReaches /\ RevokedOutUnlessLate /\ SweepReaches
  BY <1>1 DEF Init, KickReaches, RevokedOutUnlessLate, SweepReaches
<1> QED BY <1>3, <1>4, <1>5, <1>6 DEF IInv

LEMMA StutterHolds == IInv /\ UNCHANGED vars => IInv'
<1> SUFFICES ASSUME IInv, UNCHANGED vars PROVE IInv'
  OBVIOUS
<1>1. UNCHANGED <<room, seat, told, heard, open, people, join, kicker, news, joins, revocations, history>> /\ sweep' = sweep
      /\ stale' = stale /\ UNCHANGED <<slipped, late, revoked, approved, live>>
  BY DEF vars, doors, people, history
<1>2. SweepReaches'
  BY <1>1 DEF IInv, SweepReaches, ToBeSwept, Barred, Joining
<1> QED BY <1>1, <1>2, SweeperAside DEF IInv, TypeOK

LEMMA NextKeeps == IInv /\ [Next]_vars => IInv'
<1> SUFFICES ASSUME IInv, [Next]_vars PROVE IInv'
  OBVIOUS
<1>1. ASSUME NEW h \in Handlers, JoinStep(h) \/ JoinFails(h) \/ \E s \in Sockets, p \in Packs : Join(h, s, p)
      PROVE  IInv'
  BY <1>1, CheckUserStep, CheckPackStep, EnterAfterLeaveStep, ReadVersionStep, JoinFailsStep, JoinStarts DEF JoinStep
<1>2. ASSUME NEW s \in Sockets, Leave(s) \/ Close(s)
      PROVE  IInv'
  BY <1>2, LeaveStep, CloseStep
<1>3. ASSUME NEW u \in Users, LockUser(u) \/ Approve(u) \/ \E p \in Packs : RemoveMember(p, u)
      PROVE  IInv'
  BY <1>3, LockUserStep, ApproveStep, KickAsideSteps
<1>4. ASSUME NEW p \in Packs, Archive(p) \/ Commit(p) \/ \E v \in owed[p] : Broadcast(p, v)
      PROVE  IInv'
  BY <1>4, ArchiveStep, CommitStep, BroadcastStep
<1>5. CASE KickStep
  BY <1>5, KickAsideSteps, KickSocketStep, KickCloseStep DEF KickStep
<1>6. CASE SweepStep \/ SweepFails
  BY <1>6, SweepTurns, SweepRoomStep, SweepSocketStep, SweepCloseStep DEF SweepStep
<1> QED BY <1>1, <1>2, <1>3, <1>4, <1>5, <1>6, StutterHolds DEF Next

(* The inductive invariant: places, handlers, and the lists of the kicker
   and of the sweep fit together, whatever interleaves with their awaits.  *)
THEOREM Invariance == Spec => []IInv
<1>1. Init => IInv
  BY InitHolds
<1>2. IInv /\ [Next]_vars => IInv'
  BY NextKeeps
<1> QED BY <1>1, <1>2, PTL DEF Spec

(* A socket that was told the version of its pack's workspace misses no
   later commit, although it enters the room before the version is read and
   commits are broadcast after they are stored (collab.ts 189-206).        *)
THEOREM MissesNoCommit == Spec => []NoMissedCommit
<1>1. IInv => NoMissedCommit
  BY DEF IInv
<1> QED BY <1>1, Invariance, PTL

(* After the answer to the lock of a user none of the user's sockets is in
   a room, but for those whose join was past the user check when the user
   was locked and those with joins in flight (admin.ts 91).                *)
THEOREM RevokedAreOut == Spec => []RevokedOutUnlessLate
<1>1. IInv => RevokedOutUnlessLate
  BY DEF IInv
<1> QED BY <1>1, Invariance, PTL

(* A sweep that runs to its end has found every socket it had to find,
   although rooms change while it waits (collab.ts 290-322).               *)
THEOREM SweepIsBackstop == Spec => SweepCatches
<1>1. IInv => (SweepEnd => /\ \A s \in sweep.locked \ slipped : Out(s)
                           /\ \A t \in sweep.dead : t[1] \in slipped \/ t[1] \notin room[t[2]])
  <2> SUFFICES ASSUME IInv, SweepEnd
               PROVE  /\ \A s \in sweep.locked \ slipped : Out(s)
                      /\ \A t \in sweep.dead : t[1] \in slipped \/ t[1] \notin room[t[2]]
    OBVIOUS
  <2>1. sweep.pc = "sweep" /\ sweep.todo = {} /\ sweep.here = {} /\ SweepReaches /\ sweep \in Sweeping
    BY DEF SweepEnd, IInv, TypeOK
  <2>2. \A s, p : ~ToBeSwept(s, p)
    BY <2>1 DEF ToBeSwept
  <2>3. \A s \in sweep.locked \ slipped : Out(s)
    BY <2>1, <2>2 DEF SweepReaches, Out
  <2>4. \A t \in sweep.dead : t[1] \in slipped \/ t[1] \notin room[t[2]]
    <3> SUFFICES ASSUME NEW t \in sweep.dead, t[1] \notin slipped PROVE t[1] \notin room[t[2]]
      OBVIOUS
    <3>1. t \in Sockets \X Packs
      BY <2>1 DEF Sweeping
    <3>2. t[1] \in Sockets \ slipped /\ t[2] \in Packs /\ <<t[1], t[2]>> \in sweep.dead
      BY <3>1
    <3> QED BY <2>1, <2>2, <3>2 DEF SweepReaches
  <2> QED BY <2>3, <2>4
<1> QED BY <1>1, Invariance, PTL DEF SweepCatches

=============================================================================
