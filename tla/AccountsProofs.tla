--------------------------- MODULE AccountsProofs ---------------------------
(***************************************************************************)
(* Proofs about Accounts, for any users, codes, devices and requests.      *)
(*                                                                         *)
(* The inductive invariant IInv says where a token can be: the app holds   *)
(* the current one or, while one request owes it, the one before.  From it *)
(* follow that the reuse check spares the apps that played by the rules,   *)
(* that a code opens one session, what a lock ends, and that each session  *)
(* implements SessionChain.                                                *)
(***************************************************************************)
EXTENDS Accounts, TLAPS

(* The parts of the invariant that say nothing of the users.               *)
Kept == /\ \A p \in Requests : Shape(req[p])
        /\ TokensInOrder /\ OneOwed /\ OneRefresh /\ CodeSpent
        /\ HonestKept /\ AppInStep /\ OneSessionPerCode

(* A request that only goes on to another step.                            *)
LEMMA AdvanceKeeps ==
  ASSUME IInv, NEW q \in Requests, NEW pc \in Steps,
         Shape([req[q] EXCEPT !.pc = pc]),
         pc \in {"rotate", "reuse"} => req[q].pc \in {"rotate", "reuse"},
         GoOn(q, pc), UNCHANGED <<codes, devices, held, raced>>, reused' \subseteq raced
  PROVE  req' \in [Requests -> Request] /\ Kept'
<1> USE DEF GoOn
<1>1. req' \in [Requests -> Request]
  BY DEF IInv, TypeOK, Request
<1>2. \A p \in Requests : /\ p # q => req'[p] = req[p]
                          /\ req'[p].op = req[p].op /\ req'[p].user = req[p].user /\ req'[p].device = req[p].device
                          /\ req'[p].code = req[p].code /\ req'[p].token = req[p].token /\ req'[p].target = req[p].target
  BY DEF IInv, TypeOK, Request
<1>3. req'[q].pc = pc /\ req'[q] = [req[q] EXCEPT !.pc = pc]
  BY DEF IInv, TypeOK, Request
<1>4. \A p \in Requests : Shape(req'[p])
  BY <1>2, <1>3 DEF IInv
<1>5. /\ \A d \in Devices : Owing(d)' = Owing(d) /\ Refreshing(d)' = Refreshing(d)
      /\ \A c \in Codes : Exchanging(c)' = Exchanging(c) /\ Opened(c)' = Opened(c)
  BY <1>2 DEF Owing, Refreshing, Exchanging, Opened
<1>6. TokensInOrder'
  BY <1>2, <1>3 DEF IInv, TokensInOrder
<1>7. OneOwed'
  BY <1>2, <1>5 DEF IInv, OneOwed, Owing
<1>8. OneRefresh'
  BY <1>2, <1>3, <1>5 DEF IInv, OneRefresh, Refreshing
<1>9. CodeSpent' /\ HonestKept' /\ AppInStep' /\ OneSessionPerCode'
  BY <1>5 DEF IInv, CodeSpent, HonestKept, AppInStep, OneSessionPerCode
<1> QED BY <1>1, <1>4, <1>6, <1>7, <1>8, <1>9 DEF Kept

(* A request that ends, whatever it revoked or issued.                     *)
LEMMA FinishKeeps ==
  ASSUME IInv, NEW q \in Requests, Finish(q),
         \A d \in Devices : q \in Owing(d) => d \in raced' \/ devices'[d].revoked,
         devices' \in [Devices -> Device],
         \A d \in Devices : /\ devices'[d].user = devices[d].user /\ devices'[d].code = devices[d].code
                            /\ devices'[d].hash = devices[d].hash /\ devices'[d].prev = devices[d].prev
                            /\ devices[d].hash = 0 => devices'[d] = devices[d]
                            /\ devices[d].revoked => devices'[d].revoked,
         raced \subseteq raced', reused' \subseteq raced', UNCHANGED held,
         \A c \in Codes : \/ codes'[c] = codes[c]
                          \/ codes[c].state = "none" /\ codes'[c].state = "live" /\ codes'[c].user \in Users
  PROVE  req' \in [Requests -> Request] /\ Kept'
<1>1. req' \in [Requests -> Request]
  BY AccountsAssumption DEF IInv, TypeOK, Request, Finish, Idle, Steps, Ops
<1>2. req'[q] = Idle /\ \A p \in Requests \ {q} : req'[p] = req[p]
  BY DEF IInv, TypeOK, Finish
<1>3. Idle.op = "none" /\ Idle.pc = "idle" /\ Idle.device = None
  BY DEF Idle
<1>4. \A p \in Requests : Shape(req'[p])
  BY <1>2, <1>3 DEF IInv, Shape, AdminOps
<1>5. /\ \A d \in Devices : /\ Owing(d)' = Owing(d) \ {q} /\ Refreshing(d)' = Refreshing(d) \ {q}
                            /\ Owing(d) \subseteq Requests /\ Refreshing(d) \subseteq Requests
      /\ \A c \in Codes : Exchanging(c)' = Exchanging(c) \ {q} /\ Opened(c)' = Opened(c)
  BY <1>2, <1>3 DEF Owing, Refreshing, Exchanging, Opened
<1>6. TokensInOrder'
  BY <1>2, <1>3 DEF IInv, TokensInOrder, TypeOK, Request
<1>7. OneOwed'
  BY <1>2, <1>5 DEF IInv, OneOwed
<1>8. OneRefresh'
  BY <1>2, <1>3, <1>5 DEF IInv, OneRefresh
<1>9. CodeSpent' /\ HonestKept' /\ OneSessionPerCode'
  BY <1>5 DEF IInv, CodeSpent, HonestKept, OneSessionPerCode
<1>11. AppInStep'
  BY <1>5 DEF IInv, AppInStep
<1> QED BY <1>1, <1>4, <1>6, <1>7, <1>8, <1>9, <1>11 DEF Kept

(* A request that arrives with no new token to ask for.                    *)
LEMMA ArriveKeeps ==
  ASSUME IInv, NEW q \in Requests, NEW pc \in Steps \ {"rotate", "reuse", "idle"},
         NEW op \in Ops \ {"none", "exchange", "refresh"},
         NEW u \in Users, NEW d \in Devices \cup {None}, NEW t \in Users \cup Devices \cup {None},
         Arrive(q, pc, op, u, d, 0, t), d # None => held[d] > 0,
         \A r \in Request : /\ r.pc = pc /\ r.op = op /\ r.user = u /\ r.device = d /\ r.target = t
                            => Shape(r),
         UNCHANGED <<codes, devices, held, raced, reused>>
  PROVE  req' \in [Requests -> Request] /\ Kept'
<1>1. req' \in [Requests -> Request]
  BY AccountsAssumption DEF IInv, TypeOK, Request, Arrive
<1>2. /\ req'[q].pc = pc /\ req'[q].op = op /\ req'[q].user = u /\ req'[q].device = d /\ req'[q].target = t
      /\ req[q].pc = "idle" /\ req'[q] \in Request
      /\ \A p \in Requests \ {q} : req'[p] = req[p]
  BY <1>1 DEF IInv, TypeOK, Arrive
<1>3. req[q].op = "none"
  BY <1>2 DEF IInv, Shape
<1>4. \A p \in Requests : Shape(req'[p])
  BY <1>2 DEF IInv
<1>5. /\ \A e \in Devices : /\ Owing(e)' = Owing(e) /\ Refreshing(e)' = Refreshing(e)
                            /\ \A p \in Owing(e) \cup Refreshing(e) : p \in Requests \ {q}
      /\ \A c \in Codes : Exchanging(c)' = Exchanging(c) /\ Opened(c)' = Opened(c)
  BY <1>2, <1>3 DEF Owing, Refreshing, Exchanging, Opened
<1>6. TokensInOrder'
  BY <1>2 DEF IInv, TokensInOrder, TypeOK, Device
<1>7. OneOwed'
  BY <1>2, <1>5 DEF IInv, OneOwed
<1>8. OneRefresh'
  BY <1>2, <1>5 DEF IInv, OneRefresh
<1>9. CodeSpent' /\ HonestKept' /\ AppInStep' /\ OneSessionPerCode'
  BY <1>5 DEF IInv, CodeSpent, HonestKept, AppInStep, OneSessionPerCode
<1> QED BY <1>1, <1>4, <1>6, <1>7, <1>8, <1>9 DEF Kept

(* No step but a lock, its revocations and a late exchange touches what    *)
(* LockEndsSessionsUnlessLate speaks of.                                   *)
LEMMA LockKept ==
  ASSUME IInv,
         \A d \in Devices : /\ devices'[d].user = devices[d].user
                            /\ devices[d].revoked => devices'[d].revoked,
         \A u \in Users : users'[u].status = "locked" => users[u].status = "locked",
         \A u \in Users : Locking(u) => Locking(u)' \/ u \in torn',
         torn \subseteq torn', late \subseteq late'
  PROVE  LockEndsSessionsUnlessLate'
BY DEF IInv, LockEndsSessionsUnlessLate, TypeOK, Device

-----------------------------------------------------------------------------
(* Every action keeps the inductive invariant.                             *)

LEMMA LoginKeeps ==
  ASSUME IInv, NEW q \in Requests, NEW u \in Users, Login(q, u)
  PROVE  IInv'
<1> USE DEF Login, history
<1>1. \A r \in Request : r.pc = "issue" /\ r.op = "login" /\ r.user = u => Shape(r)
  BY DEF Shape, AdminOps
<1>a. "issue" \in Steps \ {"rotate", "reuse", "idle"} /\ "login" \in Ops \ {"none", "exchange", "refresh"}
  BY DEF Steps, Ops
<1>b. Arrive(q, "issue", "login", u, None, 0, None)
  OBVIOUS
<1>2. req' \in [Requests -> Request] /\ Kept'
  BY <1>1, <1>a, <1>b, ArriveKeeps
<1>3. TypeOK'
  BY <1>2, AccountsAssumption DEF IInv, TypeOK, Arrive, LoggedIn, Account, Statuses, Roles
<1>4. \A v \in Users : Locking(v) => Locking(v)'
  BY DEF IInv, TypeOK, Locking, Arrive
<1>5. LockEndsSessionsUnlessLate'
  BY <1>4, LockKept DEF IInv, TypeOK, LoggedIn
<1> QED BY <1>2, <1>3, <1>5 DEF IInv, Kept

LEMMA IssueCodeKeeps ==
  ASSUME IInv, NEW q \in Requests, NEW c \in Codes, IssueCode(q, c)
  PROVE  IInv'
<1> USE DEF IssueCode, history
<1>1. req[q].op = "login" /\ req[q].user \in Users
  BY DEF IInv, Shape, Ops, AdminOps, TypeOK, Request
<1>2. codes[c].state = "none" /\ codes'[c].state = "live" /\ codes'[c].user \in Users
      /\ codes' \in [Codes -> Code] /\ \A k \in Codes \ {c} : codes'[k] = codes[k]
  BY <1>1 DEF IInv, TypeOK, Code, NoCode
<1>3. \A d \in Devices : q \notin Owing(d)
  BY <1>1 DEF Owing
<1>4. req' \in [Requests -> Request] /\ Kept'
  BY <1>2, <1>3, FinishKeeps DEF IInv, TypeOK, HonestKept
<1>5. TypeOK'
  BY <1>2, <1>4 DEF IInv, TypeOK
<1>6. \A u \in Users : Locking(u) => Locking(u)'
  BY DEF IInv, TypeOK, Locking, Finish
<1>7. LockEndsSessionsUnlessLate'
  BY <1>6, LockKept DEF IInv
<1> QED BY <1>4, <1>5, <1>7 DEF IInv, Kept

LEMMA ConsumeKeeps ==
  ASSUME IInv, NEW q \in Requests, NEW c \in Codes, Consume(q, c)
  PROVE  IInv'
<1> DEFINE r == [pc |-> "user", op |-> "exchange", user |-> codes[c].user, code |-> c,
                device |-> None, token |-> 0, target |-> None]
<1>a. /\ codes' = [codes EXCEPT ![c].state = "used"] /\ req' = [req EXCEPT ![q] = r]
      /\ req[q].pc = "idle" /\ Usable(c) /\ served < MaxServed /\ served' = served + 1
      /\ UNCHANGED <<users, devices, held, raced, reused, late, torn>>
  BY DEF Consume, history
<1>1. codes[c].user \in Users /\ Opened(c) = {} /\ Exchanging(c) = {}
  BY <1>a DEF IInv, CodeSpent, Usable
<1>2. r \in Request /\ r.pc = "user" /\ r.op = "exchange" /\ r.user \in Users /\ r.code = c /\ r.device = None
  BY <1>1, AccountsAssumption DEF Request, Steps, Ops
<1>3. /\ req' \in [Requests -> Request]
      /\ req'[q] = r /\ \A p \in Requests \ {q} : req'[p] = req[p]
  BY <1>2, <1>a DEF IInv, TypeOK
<1> HIDE DEF r
<1>4. req[q].op = "none"
  BY <1>a DEF IInv, Shape
<1>5. \A p \in Requests : Shape(req'[p])
  BY <1>a, <1>2, <1>3 DEF IInv, Shape, AdminOps
<1>6. /\ \A e \in Devices : /\ Owing(e)' = Owing(e) /\ Refreshing(e)' = Refreshing(e)
                            /\ \A p \in Owing(e) \cup Refreshing(e) : p \in Requests \ {q}
      /\ \A k \in Codes : /\ Exchanging(k)' = IF k = c THEN {q} ELSE Exchanging(k)
                          /\ Opened(k)' = Opened(k)
  BY <1>a, <1>1, <1>2, <1>3, <1>4, AccountsAssumption DEF Owing, Refreshing, Exchanging, Opened
<1>7. codes' \in [Codes -> Code] /\ codes'[c].state = "used" /\ \A k \in Codes \ {c} : codes'[k] = codes[k]
  BY <1>a DEF IInv, TypeOK, Code
<1>8. TokensInOrder'
  BY <1>a, <1>2, <1>3 DEF IInv, TokensInOrder
<1>9. OneOwed' /\ OneRefresh'
  BY <1>a, <1>2, <1>3, <1>6 DEF IInv, OneOwed, OneRefresh
<1>10. CodeSpent'
  BY <1>a, <1>1, <1>6, <1>7 DEF IInv, CodeSpent
<1>11. HonestKept' /\ AppInStep' /\ OneSessionPerCode'
  BY <1>a, <1>6 DEF IInv, HonestKept, AppInStep, OneSessionPerCode
<1>12. \A u \in Users : Locking(u) => Locking(u)'
  BY <1>a, <1>3 DEF Locking
<1>13. LockEndsSessionsUnlessLate'
  BY <1>a, <1>12, LockKept DEF IInv
<1>14. TypeOK'
  BY <1>a, <1>3, <1>7, AccountsAssumption DEF IInv, TypeOK
<1> QED BY <1>5, <1>8, <1>9, <1>10, <1>11, <1>13, <1>14 DEF IInv

LEMMA OpenKeeps ==
  ASSUME IInv, NEW q \in Requests, NEW d \in Devices, Open(q, d)
  PROVE  IInv'
<1> USE DEF Open, history
<1>1. /\ req[q].op = "exchange" /\ req[q].device = None
      /\ req[q].user \in Users /\ req[q].code \in Codes
  BY DEF IInv, Shape, TypeOK, Request, Ops, AdminOps
<1>2. devices[d].hash = 0 /\ devices[d].user = None /\ devices[d].code = None /\ held[d] = 0
  BY DEF IInv, TokensInOrder, NoDevice, TypeOK
<1>3. NewDevice(req[q].user, req[q].code) \in Device
  BY <1>1, AccountsAssumption DEF NewDevice, Device
<1>4. /\ devices' \in [Devices -> Device]
      /\ devices'[d].user = req[q].user /\ devices'[d].code = req[q].code
      /\ devices'[d].hash = 1 /\ devices'[d].prev = 0
      /\ \A e \in Devices \ {d} : devices'[e] = devices[e]
  BY <1>3 DEF IInv, TypeOK, NewDevice
<1>5. /\ req' \in [Requests -> Request]
      /\ req'[q].pc = "answer" /\ req'[q].op = "exchange" /\ req'[q].user = req[q].user
      /\ req'[q].code = req[q].code /\ req'[q].device = d /\ req'[q].token = 1
      /\ \A p \in Requests \ {q} : req'[p] = req[p]
  BY <1>1, AccountsAssumption DEF IInv, TypeOK, Request, Steps
<1>6. \A p \in Requests : Shape(req'[p])
  BY <1>1, <1>5, AccountsAssumption DEF IInv, Shape, AdminOps
<1>7. \A p \in Requests : req[p].device # d
  BY <1>2, AccountsAssumption DEF IInv, TokensInOrder
<1>8. /\ \A e \in Devices : /\ Owing(e)' = IF e = d THEN {q} ELSE Owing(e)
                            /\ Refreshing(e)' = Refreshing(e) /\ Owing(d) = {}
                            /\ \A p \in Owing(e) \cup Refreshing(e) : p \in Requests \ {q}
      /\ \A k \in Codes : /\ Exchanging(k)' = Exchanging(k) \ {q}
                          /\ Opened(k)' = IF k = req[q].code THEN Opened(k) \cup {d} ELSE Opened(k)
      /\ q \in Exchanging(req[q].code)
  BY <1>1, <1>2, <1>4, <1>5, <1>7, AccountsAssumption DEF Owing, Refreshing, Exchanging, Opened
<1>9. TokensInOrder'
  BY <1>1, <1>2, <1>4, <1>5, <1>7 DEF IInv, TokensInOrder, TypeOK, Device, Request
<1>10. OneOwed'
  BY <1>2, <1>4, <1>5, <1>8 DEF IInv, OneOwed
<1>11. OneRefresh'
  BY <1>5, <1>8 DEF IInv, OneRefresh
<1>12. CodeSpent'
  BY <1>1, <1>5, <1>8 DEF IInv, CodeSpent
<1>13. HonestKept' /\ AppInStep'
  BY <1>2, <1>4, <1>8 DEF IInv, HonestKept, AppInStep, TypeOK
<1>14. OneSessionPerCode'
  BY <1>1, <1>4, <1>8 DEF IInv, OneSessionPerCode, CodeSpent, Opened
<1>15. LockEndsSessionsUnlessLate'
  BY <1>4, <1>5 DEF IInv, LockEndsSessionsUnlessLate, Locking
<1>16. TypeOK'
  BY <1>4, <1>5 DEF IInv, TypeOK
<1> QED BY <1>6, <1>9, <1>10, <1>11, <1>12, <1>13, <1>14, <1>15, <1>16 DEF IInv

LEMMA RefreshKeeps ==
  ASSUME IInv, NEW q \in Requests, NEW d \in Devices, Refresh(q, d)
  PROVE  IInv'
<1> USE DEF Refresh, Arrive, history
<1>1. /\ req' \in [Requests -> Request] /\ req[q].pc = "idle"
      /\ req'[q].pc = "rotate" /\ req'[q].op = "refresh" /\ req'[q].user = None
      /\ req'[q].device = d /\ req'[q].token = held[d] /\ req'[q].target = None
      /\ \A p \in Requests \ {q} : req'[p] = req[p]
  BY AccountsAssumption DEF IInv, TypeOK, Request, Steps, Ops
<1>2. req[q].op = "none"
  BY <1>1 DEF IInv, Shape
<1>3. \A p \in Requests : Shape(req'[p])
  BY <1>1, AccountsAssumption DEF IInv, Shape, AdminOps
<1>4. /\ \A e \in Devices : /\ Owing(e)' = Owing(e)
                            /\ Refreshing(e)' = IF e = d THEN Refreshing(d) \cup {q} ELSE Refreshing(e)
                            /\ \A p \in Owing(e) \cup Refreshing(e) : p \in Requests \ {q}
      /\ \A c \in Codes : Exchanging(c)' = Exchanging(c) /\ Opened(c)' = Opened(c)
  BY <1>1, <1>2 DEF Owing, Refreshing, Exchanging, Opened
<1>5. TokensInOrder'
  BY <1>1 DEF IInv, TokensInOrder, TypeOK, Device
<1>6. OneOwed'
  BY <1>1, <1>4 DEF IInv, OneOwed
<1>7. OneRefresh'
  BY <1>1, <1>4 DEF IInv, OneRefresh
<1>8. CodeSpent' /\ HonestKept' /\ AppInStep' /\ OneSessionPerCode'
  BY <1>4 DEF IInv, CodeSpent, HonestKept, AppInStep, OneSessionPerCode
<1>9. \A u \in Users : Locking(u) => Locking(u)'
  BY <1>1 DEF Locking
<1>10. LockEndsSessionsUnlessLate'
  BY <1>9, LockKept DEF IInv
<1>11. TypeOK'
  BY <1>1, AccountsAssumption DEF IInv, TypeOK
<1> QED BY <1>3, <1>5, <1>6, <1>7, <1>8, <1>10, <1>11 DEF IInv

LEMMA RotateKeeps ==
  ASSUME IInv, NEW q \in Requests, Rotate(q)
  PROVE  IInv'
<1> DEFINE d == req[q].device
<1>a. /\ req[q].pc = "rotate" /\ Rotatable(d, req[q].token) /\ devices[d].hash < MaxToken
      /\ devices' = [devices EXCEPT ![d] = Rotated(devices[d])]
      /\ req' = [req EXCEPT ![q].pc = "user", ![q].user = devices[d].user, ![q].token = @ + 1]
      /\ UNCHANGED <<users, codes, held, served, raced, reused, late, torn>>
  BY DEF Rotate, history
<1>1. req[q].op = "refresh" /\ d \in Devices /\ req[q].user = None
  BY <1>a DEF IInv, Shape, TypeOK, Request, Ops, AdminOps
<1>2. /\ req[q].token = devices[d].hash /\ held[d] = devices[d].hash /\ devices[d].hash > 0
      /\ ~devices[d].revoked /\ devices[d].hash < MaxToken /\ devices[d].user \in Users
  BY <1>a, <1>1 DEF IInv, TokensInOrder, Rotatable, TypeOK, Device, Request
<1>b. /\ devices[d] \in Device /\ Rotated(devices[d]) \in Device
      /\ Rotated(devices[d]).user = devices[d].user /\ Rotated(devices[d]).code = devices[d].code
      /\ Rotated(devices[d]).hash = devices[d].hash + 1 /\ Rotated(devices[d]).prev = devices[d].hash
      /\ Rotated(devices[d]).revoked = devices[d].revoked
  <2> DEFINE dev == devices[d]
  <2>1. dev \in Device
    BY <1>1 DEF IInv, TypeOK
  <2>2. dev.hash + 1 \in 0 .. MaxToken
    BY <2>1, <1>2, AccountsAssumption DEF Device
  <2> HIDE DEF dev
  <2>3. /\ Rotated(dev) \in Device /\ Rotated(dev).hash = dev.hash + 1 /\ Rotated(dev).prev = dev.hash
        /\ Rotated(dev).user = dev.user /\ Rotated(dev).code = dev.code
        /\ Rotated(dev).revoked = dev.revoked
    BY <2>1, <2>2 DEF Device, Rotated
  <2> QED BY <2>1, <2>3 DEF dev
<1>3. /\ devices' \in [Devices -> Device]
      /\ devices'[d].user = devices[d].user /\ devices'[d].code = devices[d].code
      /\ devices'[d].hash = devices[d].hash + 1 /\ devices'[d].prev = devices[d].hash
      /\ devices'[d].revoked = devices[d].revoked
      /\ \A e \in Devices \ {d} : devices'[e] = devices[e]
  BY <1>a, <1>b, <1>1 DEF IInv, TypeOK
<1>4. /\ req' \in [Requests -> Request]
      /\ req'[q].pc = "user" /\ req'[q].op = "refresh" /\ req'[q].user = devices[d].user
      /\ req'[q].device = d /\ req'[q].token = devices[d].hash + 1
      /\ \A p \in Requests \ {q} : req'[p] = req[p]
  BY <1>a, <1>1, <1>2, AccountsAssumption DEF IInv, TypeOK, Request, Steps, Device
<1> HIDE DEF d
<1>5. \A p \in Requests : Shape(req'[p])
  BY <1>a, <1>1, <1>2, <1>4 DEF IInv, Shape, AdminOps
<1>6. Owing(d) = {}
  BY <1>a, <1>1, <1>2 DEF IInv, OneOwed, TypeOK, Device
<1>7. \A e \in Devices : /\ Owing(e)' = IF e = d THEN {q} ELSE Owing(e)
                         /\ Refreshing(e)' = Refreshing(e) /\ Refreshing(e) \subseteq Requests
                         /\ Owing(e) \subseteq Requests \ {q}
  <2>1. \A e \in Devices : Owing(e) \subseteq Requests \ {q} /\ Refreshing(e) \subseteq Requests
    BY <1>1 DEF Owing, Refreshing
  <2>2. devices[d].user # None
    BY <1>2, AccountsAssumption
  <2>3. \A e \in Devices : Owing(e)' = IF e = d THEN {q} ELSE Owing(e)
    BY <1>1, <1>4, <1>6, <2>1, <2>2 DEF Owing
  <2>4. \A e \in Devices : Refreshing(e)' = Refreshing(e)
    BY <1>1, <1>4 DEF Refreshing, d
  <2> QED BY <2>1, <2>3, <2>4
<1>c. \A c \in Codes : Exchanging(c)' = Exchanging(c) /\ Opened(c)' = Opened(c)
  BY <1>1, <1>3, <1>4 DEF Exchanging, Opened
<1>d. req[q].device = d
  BY DEF d
<1>8. TokensInOrder'
  <2>1. \A e \in Devices : /\ held[e] \in Nat /\ devices[e].hash \in Nat /\ held[e] <= devices[e].hash
    BY AccountsAssumption DEF IInv, TypeOK, Device, TokensInOrder
  <2>2. \A e \in Devices : /\ held'[e] <= devices'[e].hash
                           /\ IF devices'[e].hash = 0 THEN devices'[e] = NoDevice
                              ELSE devices'[e].user \in Users /\ devices'[e].prev < devices'[e].hash
    BY <1>a, <1>1, <1>2, <1>3, <2>1 DEF IInv, TokensInOrder
  <2>3. \A p \in Requests : req'[p].device # None => devices'[req'[p].device].hash > 0
    BY <1>1, <1>3, <1>4, <2>1 DEF IInv, TokensInOrder, TypeOK, Request
  <2>4. \A p \in Requests : req'[p].pc \in {"rotate", "reuse"} => req'[p].token \in 1 .. held'[req'[p].device]
    BY <1>a, <1>4 DEF IInv, TokensInOrder
  <2> QED BY <2>2, <2>3, <2>4 DEF TokensInOrder
<1>9. OneOwed'
  BY <1>a, <1>1, <1>2, <1>3, <1>4, <1>7 DEF IInv, OneOwed, TypeOK, Device
<1>10. OneRefresh'
  BY <1>a, <1>4, <1>7 DEF IInv, OneRefresh
<1>11. CodeSpent'
  BY <1>a, <1>c DEF IInv, CodeSpent
<1>12. HonestKept' /\ OneSessionPerCode'
  BY <1>a, <1>1, <1>3 DEF IInv, HonestKept, OneSessionPerCode
<1>e. AppInStep'
  BY <1>a, <1>1, <1>3, <1>7 DEF IInv, AppInStep
<1>13. \A u \in Users : Locking(u) => Locking(u)'
  BY <1>a, <1>4 DEF Locking
<1>14. LockEndsSessionsUnlessLate'
  BY <1>a, <1>1, <1>3, <1>13, LockKept DEF IInv
<1>15. TypeOK'
  BY <1>a, <1>3, <1>4 DEF IInv, TypeOK
<1> QED BY <1>5, <1>8, <1>9, <1>10, <1>11, <1>12, <1>e, <1>14, <1>15 DEF IInv

LEMMA RotateMissedKeeps ==
  ASSUME IInv, NEW q \in Requests, RotateMissed(q)
  PROVE  IInv'
<1> USE DEF RotateMissed, history
<1>1. req[q].op = "refresh" /\ "reuse" \in Steps
  BY DEF IInv, Shape, TypeOK, Request, Ops, AdminOps, Steps
<1>2. Shape([req[q] EXCEPT !.pc = "reuse"])
  BY <1>1 DEF IInv, Shape, AdminOps, TypeOK, Request
<1>3. req' \in [Requests -> Request] /\ Kept'
  BY <1>1, <1>2, AdvanceKeeps DEF IInv, HonestKept
<1>4. \A u \in Users : Locking(u) => Locking(u)'
  BY DEF IInv, TypeOK, Request, Locking, GoOn
<1>5. LockEndsSessionsUnlessLate'
  BY <1>4, LockKept DEF IInv
<1>6. TypeOK'
  BY <1>3 DEF IInv, TypeOK
<1> QED BY <1>3, <1>5, <1>6 DEF IInv, Kept

LEMMA FindReusedKeeps ==
  ASSUME IInv, NEW q \in Requests, FindReused(q)
  PROVE  IInv'
<1> DEFINE d == req[q].device
<1>a. req[q].pc = "reuse" /\ UNCHANGED <<users, codes, devices, held, served, raced, late, torn>>
  BY DEF FindReused, history
<1>1. req[q].op = "refresh" /\ req[q].user = None /\ d \in Devices /\ "revoke" \in Steps
  BY <1>a DEF IInv, Shape, TypeOK, Request, Ops, AdminOps, Steps
<1>2. \A u \in Users : Locking(u) => Locking(u)'
  BY <1>a DEF IInv, TypeOK, Request, Locking, GoOn, Finish, FindReused
<1>3. LockEndsSessionsUnlessLate'
  BY <1>a, <1>2, LockKept DEF IInv
<1>4. CASE Reuse(d, req[q].token)
  <2>1. GoOn(q, "revoke") /\ reused' = reused \cup {d}
    BY <1>4 DEF FindReused
  <2>2. d \in raced
    <3> SUFFICES ASSUME d \notin raced PROVE FALSE
      OBVIOUS
    <3>1. q \in Refreshing(d)
      BY <1>1 DEF Refreshing
    <3>2. req[q].token = held[d] /\ held[d] > 0
      BY <1>a, <1>1, <3>1 DEF IInv, OneRefresh, TokensInOrder, TypeOK
    <3>3. Owing(d) = {}
      BY <1>1, <3>1, <3>2, AccountsAssumption DEF IInv, OneOwed, OneRefresh, Owing, Refreshing, TypeOK, Device
    <3>4. held[d] = devices[d].hash /\ devices[d].prev < devices[d].hash
      BY <1>1, <1>4, <3>2, <3>3 DEF IInv, AppInStep, Reuse, TokensInOrder
    <3>5. devices[d].prev = held[d] /\ devices[d].prev \in Nat
      BY <1>1, <1>4, <3>2 DEF Reuse, IInv, TypeOK, Device
    <3> QED BY <3>4, <3>5
  <2>3. Shape([req[q] EXCEPT !.pc = "revoke"])
    BY <1>1 DEF IInv, Shape, AdminOps, TypeOK, Request
  <2>4. reused' \subseteq raced
    BY <2>1, <2>2 DEF IInv, HonestKept
  <2>5. req' \in [Requests -> Request] /\ Kept'
    BY <1>a, <1>1, <2>1, <2>3, <2>4, AdvanceKeeps
  <2>6. TypeOK'
    BY <1>a, <1>1, <2>1, <2>5 DEF IInv, TypeOK
  <2> QED BY <1>3, <2>5, <2>6 DEF IInv, Kept
<1>5. CASE ~Reuse(d, req[q].token)
  <2>1. Finish(q) /\ reused' = reused
    BY <1>5 DEF FindReused
  <2>2. \A e \in Devices : q \notin Owing(e)
    BY <1>1 DEF Owing
  <2>3. req' \in [Requests -> Request] /\ Kept'
    BY <1>a, <2>1, <2>2, FinishKeeps DEF IInv, TypeOK, HonestKept
  <2>4. TypeOK'
    BY <1>a, <2>1, <2>3 DEF IInv, TypeOK
  <2> QED BY <1>3, <2>3, <2>4 DEF IInv, Kept
<1> QED BY <1>4, <1>5

LEMMA AnswerKeeps ==
  ASSUME IInv, NEW q \in Requests, Answer(q)
  PROVE  IInv'
<1> DEFINE d == req[q].device
<1>a. /\ req[q].pc = "answer" /\ Finish(q) /\ held' = [held EXCEPT ![d] = req[q].token]
      /\ UNCHANGED <<users, codes, devices, served, raced, reused, late, torn>>
  BY DEF Answer, history
<1>1. d \in Devices /\ q \in Owing(d) /\ req[q].op \in {"exchange", "refresh"}
  BY <1>a, AccountsAssumption DEF IInv, Shape, TypeOK, Request, Ops, AdminOps, Owing
<1>2. req[q].token = devices[d].hash /\ \A p \in Owing(d) : p = q
  BY <1>1 DEF IInv, OneOwed
<1>3. held' \in [Devices -> 0 .. MaxToken] /\ held'[d] = devices[d].hash /\ \A e \in Devices \ {d} : held'[e] = held[e]
  BY <1>a, <1>1, <1>2 DEF IInv, TypeOK, Device
<1>4. /\ req' \in [Requests -> Request] /\ req'[q] = Idle
      /\ \A p \in Requests \ {q} : req'[p] = req[p]
  BY <1>a, AccountsAssumption DEF IInv, TypeOK, Request, Finish, Idle, Steps, Ops
<1>5. Idle.op = "none" /\ Idle.pc = "idle" /\ Idle.device = None
  BY DEF Idle
<1>d. req[q].device = d
  OBVIOUS
<1> HIDE DEF d
<1>6. /\ \A e \in Devices : /\ Owing(e)' = Owing(e) \ {q} /\ Refreshing(e)' = Refreshing(e) \ {q}
                            /\ Owing(e) \subseteq Requests /\ Refreshing(e) \subseteq Requests
                            /\ q \in Owing(e) => e = d
      /\ \A c \in Codes : Exchanging(c)' = Exchanging(c) \ {q} /\ Opened(c)' = Opened(c)
  BY <1>a, <1>d, <1>4, <1>5 DEF Owing, Refreshing, Exchanging, Opened
<1>7. \A p \in Requests : Shape(req'[p])
  BY <1>4, <1>5 DEF IInv, Shape, AdminOps
<1>8. \A e \in Devices : held[e] \in Nat /\ held'[e] \in Nat /\ devices[e].hash \in Nat /\ held[e] <= held'[e]
  BY <1>3, AccountsAssumption DEF IInv, TypeOK, Device, TokensInOrder
<1>9. TokensInOrder'
  <2>1. \A p \in Requests : req'[p].pc \in {"rotate", "reuse"} =>
            /\ p # q /\ req[p].device \in Devices /\ req[p].token \in Nat
            /\ 1 <= req[p].token /\ req[p].token <= held[req[p].device]
    BY <1>4, <1>5, AccountsAssumption DEF IInv, TokensInOrder, TypeOK, Request, Shape, Ops, AdminOps
  <2>2. \A p \in Requests : req'[p].pc \in {"rotate", "reuse"} => req'[p].token \in 1 .. held'[req'[p].device]
    BY <1>4, <1>8, <2>1
  <2>3. \A p \in Requests : req'[p].device # None => devices'[req'[p].device].hash > 0
    BY <1>a, <1>4, <1>5 DEF IInv, TokensInOrder
  <2>4. \A e \in Devices : held'[e] <= devices[e].hash
    BY <1>3, <1>8 DEF IInv, TokensInOrder
  <2> QED BY <1>a, <2>2, <2>3, <2>4 DEF IInv, TokensInOrder
<1>10. OneOwed'
  BY <1>a, <1>2, <1>3, <1>4, <1>6 DEF IInv, OneOwed
<1>11. OneRefresh'
  <2>1. d \in raced \/ \A p \in Refreshing(d) \ {q} : FALSE \/ req[q].op = "exchange"
    BY <1>1, <1>d DEF IInv, OneRefresh, Refreshing
  <2>2. req[q].op = "exchange" => held[d] = 0
    BY <1>1, <1>8 DEF IInv, OneOwed
  <2>3. \A p \in Refreshing(d) \ {q} : req[p].pc \in {"rotate", "reuse"} => held[d] > 0
    BY <1>1, <1>8 DEF IInv, TokensInOrder, Refreshing, TypeOK, Request
  <2> QED BY <1>a, <1>1, <1>3, <1>4, <1>6, <2>1, <2>2, <2>3 DEF IInv, OneRefresh
<1>12. CodeSpent' /\ HonestKept' /\ OneSessionPerCode'
  BY <1>a, <1>6 DEF IInv, CodeSpent, HonestKept, OneSessionPerCode
<1>13. AppInStep'
  BY <1>a, <1>3, <1>6 DEF IInv, AppInStep
<1>14. \A u \in Users : Locking(u) => Locking(u)'
  BY <1>a, <1>4 DEF Locking
<1>15. LockEndsSessionsUnlessLate'
  BY <1>a, <1>14, LockKept DEF IInv
<1>16. TypeOK'
  BY <1>a, <1>3, <1>4 DEF IInv, TypeOK
<1> QED BY <1>7, <1>9, <1>10, <1>11, <1>12, <1>13, <1>15, <1>16 DEF IInv

LEMMA BearerKeeps ==
  ASSUME IInv, NEW q \in Requests, NEW op \in Ops, NEW d \in Devices,
         NEW t \in Users \cup Devices \cup {None}, Bearer(q, op, d, t)
  PROVE  IInv'
<1>a. /\ held[d] > 0 /\ Arrive(q, "device", op, devices[d].user, d, 0, t)
      /\ op \in {"logout", "delete"} \cup AdminOps /\ (op = "delete" => t \in Devices) /\ (op \in AdminOps => t \in Users)
      /\ UNCHANGED <<users, codes, devices, held, raced, reused, late, torn>>
  BY DEF Bearer, history, AdminOps
<1>b. devices[d].user \in Users
  <2>1. devices[d].hash # 0
    BY <1>a DEF IInv, TokensInOrder, TypeOK, Device
  <2> QED BY <2>1 DEF IInv, TokensInOrder
<1>c. "device" \in Steps \ {"rotate", "reuse", "idle"} /\ op \in Ops \ {"none", "exchange", "refresh"}
  BY <1>a DEF Steps, Ops, AdminOps
<1>1. \A r \in Request : /\ r.pc = "device" /\ r.op = op /\ r.user = devices[d].user /\ r.device = d /\ r.target = t
                         => Shape(r)
  BY <1>a, <1>b DEF Shape, AdminOps
<1>2. req' \in [Requests -> Request] /\ Kept'
  BY <1>1, <1>a, <1>b, <1>c, ArriveKeeps
<1>3. TypeOK'
  BY <1>2, <1>a, AccountsAssumption DEF IInv, TypeOK, Arrive
<1>4. \A v \in Users : Locking(v) => Locking(v)'
  BY <1>a DEF IInv, TypeOK, Locking, Arrive
<1>5. LockEndsSessionsUnlessLate'
  BY <1>a, <1>4, LockKept DEF IInv, TypeOK
<1> QED BY <1>2, <1>3, <1>5 DEF IInv, Kept

LEMMA WebRequestKeeps ==
  ASSUME IInv, NEW q \in Requests, NEW u \in Users, NEW op \in AdminOps, NEW t \in Users, WebRequest(q, u, op, t)
  PROVE  IInv'
<1>a. /\ Arrive(q, "act", op, u, None, 0, t)
      /\ UNCHANGED <<users, codes, devices, held, raced, reused, late, torn>>
  BY DEF WebRequest, history
<1>c. "act" \in Steps \ {"rotate", "reuse", "idle"} /\ op \in Ops \ {"none", "exchange", "refresh"}
  BY DEF Steps, Ops, AdminOps
<1>1. \A r \in Request : r.pc = "act" /\ r.op = op /\ r.user = u /\ r.device = None /\ r.target = t => Shape(r)
  BY DEF Shape, AdminOps
<1>2. req' \in [Requests -> Request] /\ Kept'
  BY <1>1, <1>a, <1>c, ArriveKeeps
<1>3. TypeOK'
  BY <1>2, <1>a, AccountsAssumption DEF IInv, TypeOK, Arrive
<1>4. \A v \in Users : Locking(v) => Locking(v)'
  BY <1>a DEF IInv, TypeOK, Locking, Arrive
<1>5. LockEndsSessionsUnlessLate'
  BY <1>a, <1>4, LockKept DEF IInv, TypeOK
<1> QED BY <1>2, <1>3, <1>5 DEF IInv, Kept

LEMMA ExpireDeviceKeeps ==
  ASSUME IInv, NEW d \in Devices, ExpireDevice(d)
  PROVE  IInv'
<1>a. /\ devices[d].fresh /\ devices' = [devices EXCEPT ![d].fresh = FALSE]
      /\ UNCHANGED <<users, codes, held, req, served, raced, reused, late, torn>>
  BY DEF ExpireDevice, history
<1>1. devices[d].hash # 0
  BY <1>a DEF IInv, TokensInOrder, NoDevice
<1>2. devices' \in [Devices -> Device]
  BY <1>a DEF IInv, TypeOK, Device
<1>3. \A e \in Devices : /\ devices'[e].user = devices[e].user /\ devices'[e].code = devices[e].code
                         /\ devices'[e].hash = devices[e].hash /\ devices'[e].prev = devices[e].prev
                         /\ devices'[e].revoked = devices[e].revoked
                         /\ devices[e].hash = 0 => devices'[e] = devices[e]
  BY <1>a, <1>1 DEF IInv, TypeOK, Device
<1>4. /\ \A e \in Devices : Owing(e)' = Owing(e) /\ Refreshing(e)' = Refreshing(e)
      /\ \A c \in Codes : Exchanging(c)' = Exchanging(c) /\ Opened(c)' = Opened(c)
  BY <1>a, <1>3 DEF Owing, Refreshing, Exchanging, Opened
<1>5. \A p \in Requests : Shape(req'[p])
  BY <1>a DEF IInv
<1>6. TokensInOrder'
  BY <1>a, <1>3 DEF IInv, TokensInOrder, TypeOK, Request
<1>7. OneOwed' /\ OneRefresh'
  BY <1>a, <1>3, <1>4 DEF IInv, OneOwed, OneRefresh
<1>8. CodeSpent' /\ HonestKept' /\ AppInStep' /\ OneSessionPerCode'
  BY <1>a, <1>3, <1>4 DEF IInv, CodeSpent, HonestKept, AppInStep, OneSessionPerCode
<1>9. LockEndsSessionsUnlessLate'
  BY <1>a, <1>3, LockKept DEF IInv, Locking
<1>10. TypeOK'
  BY <1>a, <1>2 DEF IInv, TypeOK
<1> QED BY <1>5, <1>6, <1>7, <1>8, <1>9, <1>10 DEF IInv

LEMMA WebLoginKeeps ==
  ASSUME IInv, NEW u \in Users, WebLogin(u)
  PROVE  IInv'
<1>a. /\ users' = [users EXCEPT ![u] = LoggedIn(u)]
      /\ UNCHANGED <<codes, devices, held, req, served, raced, reused, late, torn>>
  BY DEF WebLogin, history
<1>1. Kept' /\ (\A v \in Users : Locking(v) => Locking(v)')
  BY <1>a DEF IInv, Kept, TokensInOrder, OneOwed, OneRefresh, CodeSpent, HonestKept, AppInStep, OneSessionPerCode,
              Owing, Refreshing, Exchanging, Opened, Locking
<1>2. LockEndsSessionsUnlessLate'
  BY <1>a, <1>1, LockKept DEF IInv, TypeOK, LoggedIn
<1>3. TypeOK'
  BY <1>a DEF IInv, TypeOK, LoggedIn, Account, Statuses, Roles
<1> QED BY <1>1, <1>2, <1>3 DEF IInv, Kept

(* A request that leaves the documents alone and goes on or is refused.    *)
LEMMA RestKeeps ==
  ASSUME IInv, NEW q \in Requests, UNCHANGED <<codes, devices, held, served, raced, reused, late, torn>>,
         req[q].pc # "revokeAll",
         \/ Finish(q) /\ \A d \in Devices : q \notin Owing(d)
         \/ \E pc \in Steps \ {"rotate", "reuse"} : GoOn(q, pc) /\ Shape([req[q] EXCEPT !.pc = pc]),
         users' \in [Users -> Account],
         \A u \in Users : users'[u].status = "locked" => users[u].status = "locked"
  PROVE  IInv'
<1>1. req' \in [Requests -> Request] /\ Kept'
  BY AdvanceKeeps, FinishKeeps DEF IInv, TypeOK, HonestKept
<1>2. \A u \in Users : Locking(u) => Locking(u)'
  BY DEF IInv, TypeOK, Request, Locking, GoOn, Finish
<1>3. LockEndsSessionsUnlessLate'
  BY <1>2, LockKept DEF IInv
<1>4. TypeOK'
  BY <1>1 DEF IInv, TypeOK
<1> QED BY <1>1, <1>3, <1>4 DEF IInv, Kept

LEMMA CheckDeviceKeeps ==
  ASSUME IInv, NEW q \in Requests, CheckDevice(q)
  PROVE  IInv'
<1>a. /\ req[q].pc = "device" /\ (Finish(q) \/ GoOn(q, "user"))
      /\ UNCHANGED <<users, codes, devices, held, served, raced, reused, late, torn>>
  BY DEF CheckDevice, history
<1>1. req[q].op \in {"logout", "delete"} \cup AdminOps
  BY <1>a DEF IInv, Shape, TypeOK, Request, Ops
<1>2. Shape([req[q] EXCEPT !.pc = "user"]) /\ "user" \in Steps \ {"rotate", "reuse"}
  BY <1>1 DEF IInv, Shape, AdminOps, TypeOK, Request, Steps
<1>3. \A d \in Devices : q \notin Owing(d)
  BY <1>1 DEF Owing, AdminOps
<1> QED BY <1>a, <1>2, <1>3, RestKeeps DEF IInv, TypeOK

(* Once its user is known, a request goes on or is refused.                *)
LEMMA ProceedShape ==
  ASSUME IInv, NEW q \in Requests, NEW account, req[q].pc \in {"user", "heal"}, Proceed(q, account)
  PROVE  \/ Finish(q) /\ \A d \in Devices : q \notin Owing(d)
         \/ \E pc \in Steps \ {"rotate", "reuse"} : GoOn(q, pc) /\ Shape([req[q] EXCEPT !.pc = pc])
<1> DEFINE r == req[q]
           pc == Onward(r, account)
<1>1. r \in Request /\ Shape(r) /\ r.pc \in {"user", "heal"}
  BY DEF IInv, TypeOK
<1> HIDE DEF r
<1>2. r.op \in {"exchange", "refresh", "logout", "delete"} \cup AdminOps
  BY <1>1 DEF Shape, Request, Ops, AdminOps
<1>3. CASE r.op = "exchange"
  <2>1. pc = "open" /\ Shape([r EXCEPT !.pc = "open"])
    BY <1>1, <1>3 DEF Onward, Shape, Request, AdminOps
  <2> QED BY <2>1 DEF Proceed, Steps, r
<1>4. CASE r.op = "refresh"
  <2>1. pc \in {"revoke", "answer"}
    BY <1>4 DEF Onward
  <2>2. \A s \in {"revoke", "answer"} : Shape([r EXCEPT !.pc = s])
    BY <1>1, <1>4 DEF Shape, Request, AdminOps
  <2> QED BY <2>1, <2>2 DEF Proceed, Steps, r
<1>5. CASE r.op = "logout"
  <2>1. pc = "revoke"
    BY <1>5 DEF Onward
  <2>2. Shape([r EXCEPT !.pc = "revoke"])
    BY <1>1, <1>5 DEF Shape, Request, AdminOps
  <2> QED BY <2>1, <2>2 DEF Proceed, Steps, r
<1>6. CASE r.op \in {"delete"} \cup AdminOps
  <2>1. pc \in {"act", "idle"}
    BY <1>6 DEF Onward, AdminOps
  <2>2. Shape([r EXCEPT !.pc = "act"])
    BY <1>1, <1>6 DEF Shape, Request, AdminOps
  <2>3. \A d \in Devices : q \notin Owing(d)
    BY <1>6 DEF Owing, AdminOps, r
  <2> QED BY <2>1, <2>2, <2>3 DEF Proceed, Steps, r
<1> QED BY <1>2, <1>3, <1>4, <1>5, <1>6

LEMMA ReadUserKeeps ==
  ASSUME IInv, NEW q \in Requests, ReadUser(q)
  PROVE  IInv'
<1>a. /\ req[q].pc = "user" /\ (GoOn(q, "heal") \/ Proceed(q, users[req[q].user]))
      /\ UNCHANGED <<users, codes, devices, held, served, raced, reused, late, torn>>
  BY DEF ReadUser, history
<1>1. Shape([req[q] EXCEPT !.pc = "heal"]) /\ "heal" \in Steps \ {"rotate", "reuse"}
  BY <1>a DEF IInv, Shape, AdminOps, TypeOK, Request, Steps
<1>2. \/ Finish(q) /\ \A d \in Devices : q \notin Owing(d)
      \/ \E pc \in Steps \ {"rotate", "reuse"} : GoOn(q, pc) /\ Shape([req[q] EXCEPT !.pc = pc])
  BY <1>a, <1>1, ProceedShape
<1> QED BY <1>a, <1>2, RestKeeps DEF IInv, TypeOK

LEMMA HealKeeps ==
  ASSUME IInv, NEW q \in Requests, Heal(q)
  PROVE  IInv'
<1>a. /\ req[q].pc = "heal" /\ Proceed(q, LoggedIn(req[q].user))
      /\ users' = [users EXCEPT ![req[q].user] = LoggedIn(req[q].user)]
      /\ UNCHANGED <<codes, devices, held, served, raced, reused, late, torn>>
  BY DEF Heal, history
<1>1. \/ Finish(q) /\ \A d \in Devices : q \notin Owing(d)
      \/ \E pc \in Steps \ {"rotate", "reuse"} : GoOn(q, pc) /\ Shape([req[q] EXCEPT !.pc = pc])
  BY <1>a, ProceedShape
<1>2. \A u \in Users : LoggedIn(u) \in Account /\ (LoggedIn(u).status = "locked" => users[u].status = "locked")
  BY DEF IInv, TypeOK, LoggedIn, Account, Statuses, Roles
<1>3. /\ users' \in [Users -> Account]
      /\ \A u \in Users : users'[u].status = "locked" => users[u].status = "locked"
  BY <1>a, <1>2 DEF IInv, TypeOK
<1> QED BY <1>a, <1>1, <1>3, RestKeeps

LEMMA FindTargetKeeps ==
  ASSUME IInv, NEW q \in Requests, FindTarget(q)
  PROVE  IInv'
<1> DEFINE t == req[q].target
<1>a. /\ req[q].pc = "act" /\ req[q].op = "delete"
      /\ \/ Finish(q)
         \/ devices[t].user = req[q].user /\ req' = [req EXCEPT ![q].pc = "revoke", ![q].device = t]
      /\ UNCHANGED <<users, codes, devices, held, served, raced, reused, late, torn>>
  BY DEF FindTarget, history
<1>1. t \in Devices /\ req[q].user \in Users
  BY <1>a DEF IInv, Shape
<1>2. CASE Finish(q)
  <2>1. \A d \in Devices : q \notin Owing(d)
    BY <1>a DEF Owing
  <2> QED BY <1>a, <1>2, <2>1, RestKeeps DEF IInv, TypeOK
<1>3. CASE devices[t].user = req[q].user /\ req' = [req EXCEPT ![q].pc = "revoke", ![q].device = t]
  <2>1. /\ req' \in [Requests -> Request]
        /\ req'[q].pc = "revoke" /\ req'[q].device = t /\ req'[q].op = "delete"
        /\ req'[q].user = req[q].user /\ req'[q].target = t
        /\ \A p \in Requests \ {q} : req'[p] = req[p]
    <3> DEFINE r == [req[q] EXCEPT !.pc = "revoke", !.device = t]
    <3>1. req[q] \in Request /\ req' = [req EXCEPT ![q] = r]
      BY <1>3 DEF IInv, TypeOK
    <3>2. /\ r \in Request /\ r.pc = "revoke" /\ r.device = t /\ r.op = req[q].op /\ r.user = req[q].user
          /\ r.target = req[q].target
      BY <3>1, <1>1 DEF Request, Steps
    <3> HIDE DEF r
    <3> QED BY <1>a, <3>1, <3>2 DEF IInv, TypeOK
  <2>2. devices[t].hash > 0
    BY <1>1, <1>3, AccountsAssumption DEF IInv, TokensInOrder, NoDevice, TypeOK, Device
  <2>3. \A p \in Requests : Shape(req'[p])
    BY <2>1, <1>1 DEF IInv, Shape, AdminOps
  <2>4. /\ \A e \in Devices : Owing(e)' = Owing(e) /\ Refreshing(e)' = Refreshing(e)
                              /\ Owing(e) \cup Refreshing(e) \subseteq Requests \ {q}
        /\ \A c \in Codes : Exchanging(c)' = Exchanging(c) /\ Opened(c)' = Opened(c)
    BY <1>a, <2>1 DEF Owing, Refreshing, Exchanging, Opened
  <2>5. TokensInOrder'
    BY <1>a, <2>1, <2>2 DEF IInv, TokensInOrder
  <2>6. OneOwed' /\ OneRefresh'
    BY <1>a, <2>1, <2>4 DEF IInv, OneOwed, OneRefresh
  <2>7. CodeSpent' /\ HonestKept' /\ AppInStep' /\ OneSessionPerCode'
    BY <1>a, <2>4 DEF IInv, CodeSpent, HonestKept, AppInStep, OneSessionPerCode
  <2>8. \A u \in Users : Locking(u) => Locking(u)'
    BY <1>a, <2>1 DEF Locking
  <2>9. LockEndsSessionsUnlessLate'
    BY <1>a, <2>8, LockKept DEF IInv
  <2>10. TypeOK'
    BY <1>a, <2>1 DEF IInv, TypeOK
  <2> QED BY <2>3, <2>5, <2>6, <2>7, <2>9, <2>10 DEF IInv
<1> QED BY <1>a, <1>2, <1>3

(* A revocation marks the devices and leaves the rest of them alone.       *)
LEMMA RevokeEffect ==
  ASSUME IInv, NEW ds \in SUBSET Devices, Revoke(ds), \A d \in ds : devices[d].hash > 0
  PROVE  /\ devices' \in [Devices -> Device]
         /\ \A d \in ds : devices'[d].revoked
         /\ \A d \in Devices : /\ devices'[d].user = devices[d].user /\ devices'[d].code = devices[d].code
                               /\ devices'[d].hash = devices[d].hash /\ devices'[d].prev = devices[d].prev
                               /\ devices[d].hash = 0 => devices'[d] = devices[d]
                               /\ devices[d].revoked => devices'[d].revoked
<1>1. \A d \in Devices : devices[d] \in Device
  BY DEF IInv, TypeOK
<1>2. \A dev \in Device : /\ [dev EXCEPT !.revoked = TRUE] \in Device
                          /\ [dev EXCEPT !.revoked = TRUE].revoked
                          /\ [dev EXCEPT !.revoked = TRUE].user = dev.user /\ [dev EXCEPT !.revoked = TRUE].code = dev.code
                          /\ [dev EXCEPT !.revoked = TRUE].hash = dev.hash /\ [dev EXCEPT !.revoked = TRUE].prev = dev.prev
  BY DEF Device
<1>3. \A d \in Devices : devices'[d] = IF d \in ds THEN [devices[d] EXCEPT !.revoked = TRUE] ELSE devices[d]
  BY DEF Revoke
<1>4. devices' \in [Devices -> Device]
  BY <1>1, <1>2 DEF Revoke
<1>5. \A d \in Devices : devices[d].hash = 0 => d \notin ds
  OBVIOUS
<1>6. \A d \in ds : devices'[d] = [devices[d] EXCEPT !.revoked = TRUE]
  BY <1>3
<1>7. \A d \in Devices \ ds : devices'[d] = devices[d]
  BY <1>3
<1> QED BY <1>1, <1>2, <1>4, <1>5, <1>6, <1>7

LEMMA RevokeDeviceKeeps ==
  ASSUME IInv, NEW q \in Requests, RevokeDevice(q)
  PROVE  IInv'
<1> DEFINE d == req[q].device
<1>a. /\ req[q].pc = "revoke" /\ Revoke({d}) /\ Finish(q)
      /\ UNCHANGED <<users, codes, held, served, raced, reused, late, torn>>
  BY DEF RevokeDevice, history
<1>1. d \in Devices /\ d # None
  BY <1>a, AccountsAssumption DEF IInv, Shape, TypeOK, Request, Ops, AdminOps
<1>2. devices[d].hash > 0
  BY <1>1 DEF IInv, TokensInOrder
<1>3. /\ devices' \in [Devices -> Device] /\ devices'[d].revoked
      /\ \A e \in Devices : /\ devices'[e].user = devices[e].user /\ devices'[e].code = devices[e].code
                            /\ devices'[e].hash = devices[e].hash /\ devices'[e].prev = devices[e].prev
                            /\ devices[e].hash = 0 => devices'[e] = devices[e]
                            /\ devices[e].revoked => devices'[e].revoked
  BY <1>a, <1>1, <1>2, RevokeEffect
<1>4. \A e \in Devices : q \in Owing(e) => e = d
  BY DEF Owing
<1>5. req' \in [Requests -> Request] /\ Kept'
  BY <1>a, <1>3, <1>4, FinishKeeps DEF IInv, HonestKept
<1>6. \A u \in Users : Locking(u) => Locking(u)'
  BY <1>a DEF IInv, TypeOK, Locking, Finish
<1>7. LockEndsSessionsUnlessLate'
  BY <1>a, <1>3, <1>6, LockKept DEF IInv
<1>8. TypeOK'
  BY <1>a, <1>3, <1>5 DEF IInv, TypeOK
<1> QED BY <1>5, <1>7, <1>8 DEF IInv, Kept

LEMMA RevokeAllKeeps ==
  ASSUME IInv, NEW q \in Requests, RevokeAll(q)
  PROVE  IInv'
<1> DEFINE u == req[q].target
<1>a. /\ req[q].pc = "revokeAll" /\ Revoke(DevicesOf(u)) /\ Finish(q) /\ torn' = torn \ {u}
      /\ UNCHANGED <<users, codes, held, served, raced, reused, late>>
  BY DEF RevokeAll
<1>1. u \in Users /\ req[q].op = "lock"
  BY <1>a DEF IInv, Shape, TypeOK, Request, Ops, AdminOps
<1>2. DevicesOf(u) \subseteq Devices /\ \A e \in DevicesOf(u) : devices[e].hash > 0
  BY <1>1, AccountsAssumption DEF DevicesOf, IInv, TokensInOrder, NoDevice, TypeOK, Device
<1>3. /\ devices' \in [Devices -> Device] /\ \A e \in DevicesOf(u) : devices'[e].revoked
      /\ \A e \in Devices : /\ devices'[e].user = devices[e].user /\ devices'[e].code = devices[e].code
                            /\ devices'[e].hash = devices[e].hash /\ devices'[e].prev = devices[e].prev
                            /\ devices[e].hash = 0 => devices'[e] = devices[e]
                            /\ devices[e].revoked => devices'[e].revoked
  BY <1>a, <1>2, RevokeEffect
<1>4. \A e \in Devices : q \notin Owing(e)
  BY <1>1 DEF Owing
<1>5. req' \in [Requests -> Request] /\ Kept'
  BY <1>a, <1>3, <1>4, FinishKeeps DEF IInv, HonestKept
<1>6. \A v \in Users \ {u} : Locking(v) => Locking(v)'
  BY <1>a DEF IInv, TypeOK, Locking, Finish
<1>7. LockEndsSessionsUnlessLate'
  BY <1>a, <1>3, <1>6 DEF IInv, LockEndsSessionsUnlessLate, DevicesOf, TypeOK, Device
<1>8. TypeOK'
  BY <1>a, <1>3, <1>5 DEF IInv, TypeOK
<1> QED BY <1>5, <1>7, <1>8 DEF IInv, Kept

LEMMA DieKeeps ==
  ASSUME IInv, NEW q \in Requests, Die(q)
  PROVE  IInv'
<1>a. /\ Finish(q) /\ raced' = raced \cup {d \in Devices : q \in Owing(d)}
      /\ torn' = IF req[q].pc = "revokeAll" THEN torn \cup {req[q].target} ELSE torn
      /\ UNCHANGED <<users, codes, devices, held, served, reused, late>>
  BY DEF Die
<1>1. req' \in [Requests -> Request] /\ Kept'
  BY <1>a, FinishKeeps DEF IInv, TypeOK, HonestKept
<1>2. req[q].pc = "revokeAll" => req[q].target \in Users
  BY DEF IInv, Shape, TypeOK, Request, Ops, AdminOps
<1>3. \A u \in Users : Locking(u) => Locking(u)' \/ u \in torn'
  BY <1>a DEF IInv, TypeOK, Locking, Finish
<1>4. LockEndsSessionsUnlessLate'
  BY <1>a, <1>3, LockKept DEF IInv
<1>5. TypeOK'
  BY <1>a, <1>1, <1>2 DEF IInv, TypeOK
<1> QED BY <1>1, <1>4, <1>5 DEF IInv, Kept

LEMMA DecideKeeps ==
  ASSUME IInv, NEW q \in Requests, Decide(q)
  PROVE  IInv'
<1> DEFINE r == req[q]
<1>a. /\ r.pc = "act" /\ r.op \in AdminOps
      /\ \/ users' = users /\ Finish(q)
         \/ /\ users' = [users EXCEPT ![r.target] = Decided(r.op, @)]
            /\ IF r.op = "lock" THEN GoOn(q, "revokeAll") ELSE Finish(q)
      /\ UNCHANGED <<codes, devices, held, served, raced, reused, late, torn>>
  BY DEF Decide, history
<1>1. r.target \in Users /\ \A d \in Devices : q \notin Owing(d)
  BY <1>a DEF IInv, Shape, Owing, AdminOps
<1>2. CASE users' = users /\ Finish(q)
  BY <1>a, <1>1, <1>2, RestKeeps DEF IInv, TypeOK
<1>3. CASE /\ users' = [users EXCEPT ![r.target] = Decided(r.op, @)]
           /\ IF r.op = "lock" THEN GoOn(q, "revokeAll") ELSE Finish(q)
  <2>1. /\ Decided(r.op, users[r.target]) \in Account
        /\ r.op # "lock" => Decided(r.op, users[r.target]).status \in {"approved", users[r.target].status}
    <3>1. users[r.target] \in Account
      BY <1>1 DEF IInv, TypeOK
    <3>2. CASE r.op = "approve" BY <3>1, <3>2 DEF Decided, Account, Statuses
    <3>3. CASE r.op = "lock" BY <3>1, <3>3 DEF Decided, Account, Statuses
    <3>4. CASE r.op = "promote" BY <3>1, <3>4 DEF Decided, Account, Roles
    <3>5. CASE r.op = "demote" BY <3>1, <3>5 DEF Decided, Account, Roles
    <3> QED BY <1>a, <3>2, <3>3, <3>4, <3>5 DEF AdminOps
  <2>2. users' \in [Users -> Account]
    BY <1>1, <1>3, <2>1 DEF IInv, TypeOK
  <2>3. CASE r.op # "lock"
    <3>1. \A u \in Users : users'[u].status = "locked" => users[u].status = "locked"
      BY <1>1, <1>3, <2>1, <2>3 DEF IInv, TypeOK
    <3>2. Finish(q)
      BY <1>3, <2>3
    <3> QED BY <1>a, <1>1, <2>2, <3>1, <3>2, RestKeeps
  <2>4. CASE r.op = "lock"
    <3>1. GoOn(q, "revokeAll") /\ "revokeAll" \in Steps
      BY <1>3, <2>4 DEF Steps
    <3>2. Shape([req[q] EXCEPT !.pc = "revokeAll"])
      BY <1>1, <2>4 DEF IInv, Shape, AdminOps, TypeOK, Request
    <3>3. req' \in [Requests -> Request] /\ Kept'
      BY <1>a, <3>1, <3>2, AdvanceKeeps DEF IInv, HonestKept
    <3>4. \A u \in Users : (Locking(u) \/ u = r.target) => Locking(u)'
      BY <1>a, <3>1 DEF IInv, TypeOK, Request, Locking, GoOn
    <3>5. \A u \in Users \ {r.target} : users'[u] = users[u]
      BY <1>3 DEF IInv, TypeOK
    <3>6. LockEndsSessionsUnlessLate'
      BY <1>a, <3>4, <3>5 DEF IInv, LockEndsSessionsUnlessLate, TypeOK, Device
    <3>7. TypeOK'
      BY <1>a, <2>2, <3>3 DEF IInv, TypeOK
    <3> QED BY <3>3, <3>6, <3>7 DEF IInv, Kept
  <2> QED BY <2>3, <2>4
<1> QED BY <1>a, <1>2, <1>3

-----------------------------------------------------------------------------
(* Init establishes the inductive invariant.                               *)
LEMMA InitIInv == Init => IInv
<1> SUFFICES ASSUME Init PROVE IInv
  OBVIOUS
<1> USE AccountsAssumption
<1>1. \A d \in Devices : \/ devices[d] = NoDevice
                         \/ /\ devices[d].user \in Users /\ devices[d].code = None
                            /\ devices[d].hash = 1 /\ devices[d].prev = 0 /\ devices[d] \in Device
                            /\ users[devices[d].user].status # "locked"
  <2>1. \A u \in Users : /\ NewDevice(u, None) \in Device /\ NewDevice(u, None).user = u
                         /\ NewDevice(u, None).code = None /\ NewDevice(u, None).hash = 1
                         /\ NewDevice(u, None).prev = 0
    BY DEF NewDevice, Device
  <2>2. \A d \in Devices : devices[d] = NoDevice \/ \E u \in Users : devices[d] = NewDevice(u, None)
    BY DEF Init
  <2>3. \A d \in Devices : devices[d] # NoDevice => users[devices[d].user].status # "locked"
    BY DEF Init
  <2> QED BY <2>1, <2>2, <2>3
<1>2. NoDevice \in Device /\ NoDevice.hash = 0 /\ NoDevice.user = None /\ NoDevice.code = None
  BY DEF NoDevice, Device
<1>3. Idle \in Request /\ Idle.op = "none" /\ Idle.pc = "idle" /\ Idle.device = None
  BY DEF Idle, Request, Steps, Ops
<1>4. NoAccount \in Account /\ NoCode \in Code /\ NoCode.state = "none"
  BY DEF NoAccount, Account, NoCode, Code, Roles
<1>5. users \in [Users -> Account]
  BY <1>4 DEF Init, Account, Statuses, Roles
<1>6. \A d \in Devices : devices[d] \in Device /\ held[d] = devices[d].hash
  BY <1>1, <1>2 DEF Init
<1>7. devices \in [Devices -> Device]
  BY <1>6 DEF Init
<1>8. held \in [Devices -> 0 .. MaxToken]
  BY <1>6 DEF Init, Device
<1>9. TypeOK
  BY <1>3, <1>4, <1>5, <1>7, <1>8 DEF Init, TypeOK
<1>10. \A q \in Requests : req[q] = Idle
  BY DEF Init
<1>11. \A q \in Requests : Shape(req[q])
  BY <1>3, <1>10 DEF Shape, AdminOps
<1>12. /\ \A d \in Devices : Owing(d) = {} /\ Refreshing(d) = {}
       /\ \A c \in Codes : Exchanging(c) = {} /\ Opened(c) = {}
       /\ \A u \in Users : ~Locking(u)
  BY <1>1, <1>2, <1>3, <1>10 DEF Owing, Refreshing, Exchanging, Opened, Locking
<1>13. TokensInOrder
  BY <1>1, <1>2, <1>3, <1>6, <1>10 DEF TokensInOrder, Device
<1>14. OneOwed /\ OneRefresh /\ HonestKept /\ AppInStep
  BY <1>6, <1>12 DEF OneOwed, OneRefresh, HonestKept, AppInStep, Init
<1>15. CodeSpent /\ OneSessionPerCode
  BY <1>1, <1>2, <1>4, <1>12 DEF CodeSpent, OneSessionPerCode, Init
<1>16. LockEndsSessionsUnlessLate
  BY <1>1, <1>2 DEF LockEndsSessionsUnlessLate
<1> QED BY <1>9, <1>11, <1>13, <1>14, <1>15, <1>16 DEF IInv

LEMMA NextIInv == IInv /\ [Next]_vars => IInv'
<1> SUFFICES ASSUME IInv, [Next]_vars PROVE IInv'
  OBVIOUS
<1>1. CASE UNCHANGED vars
  BY <1>1 DEF vars, history, IInv, TypeOK, TokensInOrder, OneOwed, OneRefresh, CodeSpent, HonestKept, AppInStep,
              OneSessionPerCode, LockEndsSessionsUnlessLate, Locking, Owing, Refreshing, Exchanging, Opened
<1>2. ASSUME NEW q \in Requests, SessionStep(q) PROVE IInv'
  BY <1>2, IssueCodeKeeps, ConsumeKeeps, OpenKeeps, RefreshKeeps, RotateKeeps, RotateMissedKeeps, FindReusedKeeps,
     AnswerKeeps DEF SessionStep
<1>3. ASSUME NEW q \in Requests, UserStep(q) PROVE IInv'
  BY <1>3, LoginKeeps, BearerKeeps, WebRequestKeeps, CheckDeviceKeeps, ReadUserKeeps, HealKeeps, FindTargetKeeps,
     RevokeDeviceKeeps, DecideKeeps, RevokeAllKeeps, DieKeeps DEF UserStep
<1> QED BY <1>1, <1>2, <1>3, ExpireDeviceKeeps, WebLoginKeeps DEF Next

(* IInv holds in every reachable state.                                    *)
THEOREM InductiveInvariant == Spec => []IInv
<1>1. Init => IInv BY InitIInv
<1>2. IInv /\ [Next]_vars => IInv' BY NextIInv
<1> QED BY <1>1, <1>2, PTL DEF Spec

-----------------------------------------------------------------------------
(* What follows from the inductive invariant.                              *)

(* No refresh check revokes the session of an app that refreshed once at a *)
(* time and lost no answer.                                                *)
THEOREM HonestSessionsKept == Spec => []HonestKept
BY InductiveInvariant, PTL DEF IInv

(* Such an app always holds the current token of its session.              *)
THEOREM AppsStayInStep == Spec => []AppInStep
BY InductiveInvariant, PTL DEF IInv

(* A one-time code opens one session.                                      *)
THEOREM CodesSpentOnce == Spec => []OneSessionPerCode
BY InductiveInvariant, PTL DEF IInv

(* A lock that went through has ended the user's sessions, those whose     *)
(* refresh or exchange was under way included.                             *)
THEOREM LocksEndSessions == Spec => []LockEndsSessionsUnlessLate
BY InductiveInvariant, PTL DEF IInv

(* Every step leaves an approved env admin approved and an admin.          *)
LEMMA EnvAdminsStep ==
  ASSUME IInv, [Next]_vars
  PROVE  \A u \in EnvAdmins : ~Drifted(u) => ~Drifted(u)'
<1> SUFFICES ASSUME NEW u \in EnvAdmins, ~Drifted(u), users' # users PROVE users'[u] = users[u]
  BY DEF Drifted
<1>1. users[u] = [status |-> "approved", role |-> "admin"] /\ u \in Users
  BY AccountsAssumption DEF Drifted
<1>2. LoggedIn(u) = users[u]
  BY <1>1 DEF LoggedIn
<1>3. ASSUME NEW v \in Users, users' = [users EXCEPT ![v] = LoggedIn(v)] PROVE users'[u] = users[u]
  BY <1>1, <1>2, <1>3 DEF IInv, TypeOK
<1>4. ASSUME NEW q \in Requests, Heal(q) PROVE users'[u] = users[u]
  <2>1. req[q].user \in Users
    BY <1>4 DEF Heal, IInv, Shape, TypeOK, Request, Ops, AdminOps
  <2> QED BY <1>3, <1>4, <2>1 DEF Heal
<1>5. ASSUME NEW q \in Requests, Decide(q) PROVE users'[u] = users[u]
  <2>1. Permitted(req[q]) /\ users' = [users EXCEPT ![req[q].target] = Decided(req[q].op, @)]
    BY <1>5 DEF Decide
  <2>2. CASE req[q].target # u
    BY <2>1, <2>2 DEF IInv, TypeOK
  <2>3. CASE req[q].target = u
    <3>1. req[q].op = "approve" \/ req[q].op = "promote"
      BY <2>1, <2>3 DEF Permitted
    <3>2. Decided(req[q].op, users[u]) = users[u]
      BY <1>1, <3>1 DEF Decided
    <3> QED BY <2>1, <2>3, <3>2 DEF IInv, TypeOK
  <2> QED BY <2>2, <2>3
<1>6. \A q \in Requests : SessionStep(q) => users' = users
  BY DEF SessionStep, IssueCode, Consume, Open, Refresh, Rotate, RotateMissed, FindReused, Answer
<1>7. \A q \in Requests : UserStep(q) =>
         users' = users \/ Heal(q) \/ Decide(q) \/ \E v \in Users : users' = [users EXCEPT ![v] = LoggedIn(v)]
  BY DEF UserStep, Login, Bearer, WebRequest, CheckDevice, ReadUser, FindTarget, RevokeDevice, RevokeAll, Die
<1> QED BY <1>3, <1>4, <1>5, <1>6, <1>7 DEF Next, vars, ExpireDevice, WebLogin

(* Env admins stay approved admins.                                        *)
THEOREM EnvAdminsStay == Spec => EnvAdminsKept
<1>1. IInv /\ [Next]_vars => \A u \in EnvAdmins : ~Drifted(u) => ~Drifted(u)'
  BY EnvAdminsStep
<1> QED BY <1>1, InductiveInvariant, PTL DEF Spec, EnvAdminsKept

(* Every step is a step of the chains or leaves them alone.                *)
LEMMA ChainStep ==
  ASSUME IInv, [Next]_vars
  PROVE  [Chain!Next]_(Chain!vars)
<1>1. UNCHANGED <<devices, held>> => UNCHANGED Chain!vars
  BY DEF Chain!vars
<1>2. ASSUME NEW d \in Devices, NEW q \in Requests, Open(q, d) PROVE Chain!Open(d)
  <2>1. devices[d].hash = 0 /\ devices[d].revoked = FALSE /\ held' = held
    BY <1>2 DEF Open, NoDevice
  <2>2. devices' = [devices EXCEPT ![d] = NewDevice(req[q].user, req[q].code)]
    BY <1>2 DEF Open
  <2>3. \A e \in Devices : devices'[e].hash = (IF e = d THEN 1 ELSE devices[e].hash) /\ devices'[e].revoked = devices[e].revoked
    BY <2>1, <2>2 DEF IInv, TypeOK, NewDevice
  <2> QED BY <2>1, <2>3 DEF Chain!Open
<1>3. ASSUME NEW q \in Requests, Rotate(q) PROVE \E d \in Devices : Chain!Renew(d)
  <2>1. req[q].op = "refresh" /\ req[q].device \in Devices
    BY <1>3 DEF Rotate, IInv, Shape, TypeOK, Request, Ops, AdminOps
  <2>2. PICK d \in Devices : d = req[q].device
    BY <2>1
  <2>3. /\ devices[d].hash = held[d] /\ devices[d].hash > 0 /\ ~devices[d].revoked /\ held' = held
    BY <1>3, <2>1, <2>2 DEF Rotate, Rotatable, IInv, TokensInOrder, TypeOK, Device, Request
  <2>4. devices' = [devices EXCEPT ![d] = Rotated(devices[d])]
    BY <1>3, <2>2 DEF Rotate
  <2>5. Rotated(devices[d]).hash = devices[d].hash + 1 /\ Rotated(devices[d]).revoked = devices[d].revoked
    BY DEF IInv, TypeOK, Device, Rotated
  <2>6. \A e \in Devices : /\ devices'[e].hash = IF e = d THEN devices[d].hash + 1 ELSE devices[e].hash
                           /\ devices'[e].revoked = devices[e].revoked
    BY <2>4, <2>5 DEF IInv, TypeOK
  <2>7. Chain!Renew(d)
    BY <2>3, <2>6 DEF Chain!Renew
  <2> QED BY <2>7
<1>4. ASSUME NEW q \in Requests, Answer(q) PROVE \E d \in Devices : Chain!Hand(d)
  <2>1. req[q].device \in Devices
    BY <1>4, AccountsAssumption DEF Answer, IInv, Shape, TypeOK, Request, Ops, AdminOps
  <2>2. PICK d \in Devices : d = req[q].device
    BY <2>1
  <2>3. req[q].token = devices[d].hash /\ held[d] < devices[d].hash
    BY <1>4, <2>2, AccountsAssumption DEF Answer, IInv, Shape, OneOwed, Owing, TypeOK, Request, Ops, AdminOps
  <2>4. devices' = devices /\ held' = [held EXCEPT ![d] = req[q].token]
    BY <1>4, <2>2 DEF Answer
  <2>5. Chain!Hand(d)
    BY <2>3, <2>4 DEF Chain!Hand
  <2> QED BY <2>5
<1>5. ASSUME NEW ds \in SUBSET Devices, Revoke(ds), \A d \in ds : devices[d].hash > 0, held' = held PROVE Chain!End(ds)
  <2>1. \A d \in Devices : devices'[d].hash = devices[d].hash /\ devices[d].revoked \in BOOLEAN
    BY <1>5, RevokeEffect DEF IInv, TypeOK, Device
  <2>2. \A d \in ds : devices'[d].revoked = TRUE
    BY <1>5 DEF Revoke, IInv, TypeOK, Device
  <2>3. \A d \in Devices \ ds : devices'[d].revoked = devices[d].revoked
    BY <1>5 DEF Revoke
  <2>4. \A d \in Devices : devices'[d].revoked = IF d \in ds THEN TRUE ELSE devices[d].revoked
    BY <2>2, <2>3
  <2> QED BY <1>5, <2>1, <2>4 DEF Chain!End
<1>6. ASSUME NEW q \in Requests, RevokeDevice(q) PROVE \E ds \in SUBSET Devices : Chain!End(ds)
  <2> DEFINE ds == {req[q].device}
  <2>1. req[q].device \in Devices /\ devices[req[q].device].hash > 0
    BY <1>6, AccountsAssumption DEF RevokeDevice, IInv, Shape, TokensInOrder, TypeOK, Request, Ops, AdminOps
  <2>2. ds \in SUBSET Devices /\ (\A d \in ds : devices[d].hash > 0)
    BY <2>1
  <2>3. Revoke(ds) /\ held' = held
    BY <1>6 DEF RevokeDevice
  <2> HIDE DEF ds
  <2> QED BY <1>5, <2>2, <2>3
<1>7. ASSUME NEW q \in Requests, RevokeAll(q) PROVE \E ds \in SUBSET Devices : Chain!End(ds)
  <2> DEFINE ds == DevicesOf(req[q].target)
  <2>1. req[q].target \in Users
    BY <1>7 DEF RevokeAll, IInv, Shape, TypeOK, Request, Ops, AdminOps
  <2>2. ds \in SUBSET Devices /\ (\A d \in ds : devices[d].hash > 0)
    BY <2>1, AccountsAssumption DEF DevicesOf, IInv, TokensInOrder, NoDevice, TypeOK, Device
  <2>3. Revoke(ds) /\ held' = held
    BY <1>7 DEF RevokeAll
  <2> HIDE DEF ds
  <2> QED BY <1>5, <2>2, <2>3
<1>8. ASSUME NEW d \in Devices, ExpireDevice(d) PROVE UNCHANGED Chain!vars
  <2>1. \A e \in Devices : devices'[e].hash = devices[e].hash /\ devices'[e].revoked = devices[e].revoked
    BY <1>8 DEF ExpireDevice, IInv, TypeOK, Device
  <2> QED BY <1>8, <2>1 DEF ExpireDevice, Chain!vars
<1>9. \A q \in Requests : SessionStep(q) =>
        \/ UNCHANGED <<devices, held>> \/ (\E d \in Devices : Open(q, d)) \/ Rotate(q) \/ Answer(q)
  BY DEF SessionStep, IssueCode, Consume, Refresh, RotateMissed, FindReused
<1>10. \A q \in Requests : UserStep(q) => UNCHANGED <<devices, held>> \/ RevokeDevice(q) \/ RevokeAll(q)
  BY DEF UserStep, Login, Bearer, WebRequest, CheckDevice, ReadUser, Heal, FindTarget, Decide, Die
<1>11. ASSUME NEW q \in Requests, SessionStep(q) PROVE [Chain!Next]_(Chain!vars)
  <2>1. CASE \E d \in Devices : Open(q, d)
    BY <1>2, <2>1 DEF Chain!Next
  <2>2. CASE Rotate(q)
    BY <1>3, <2>2 DEF Chain!Next
  <2>3. CASE Answer(q)
    BY <1>4, <2>3 DEF Chain!Next
  <2>4. CASE UNCHANGED <<devices, held>>
    BY <1>1, <2>4
  <2> QED BY <1>9, <1>11, <2>1, <2>2, <2>3, <2>4
<1>12. ASSUME NEW q \in Requests, UserStep(q) PROVE [Chain!Next]_(Chain!vars)
  BY <1>1, <1>6, <1>7, <1>10, <1>12 DEF Chain!Next
<1> QED BY <1>1, <1>8, <1>11, <1>12 DEF Next, WebLogin, vars

(* Every session is a chain of tokens: SessionChain is implemented.        *)
THEOREM ChainImplemented == Spec => ImplementsChain
<1>1. Init => Chain!Init
  <2> SUFFICES ASSUME Init PROVE Chain!Init
    OBVIOUS
  <2>1. \A d \in Devices : devices[d].hash \in 0 .. 1 /\ devices[d].revoked = FALSE /\ held[d] = devices[d].hash
    BY DEF Init, NewDevice, NoDevice
  <2>2. held \in [Devices -> 0 .. 1]
    BY <2>1 DEF Init
  <2>3. /\ [d \in Devices |-> devices[d].hash] \in [Devices -> 0 .. 1]
        /\ [d \in Devices |-> devices[d].revoked] = [d \in Devices |-> FALSE]
    BY <2>1
  <2>4. \A d \in Devices : held[d] <= devices[d].hash
    BY <2>1
  <2> QED BY <2>2, <2>3, <2>4 DEF Chain!Init
<1>2. IInv /\ [Next]_vars => [Chain!Next]_(Chain!vars)
  BY ChainStep
<1> QED BY <1>1, <1>2, InductiveInvariant, PTL DEF Spec, ImplementsChain, Chain!Spec
=============================================================================
