------------------------------ MODULE Accounts ------------------------------
(***************************************************************************)
(* Users, one-time codes and login sessions: routes/auth.ts,               *)
(* routes/devices.ts, routes/admin.ts, the login and user routes of        *)
(* routes/admin-web.ts, and what they call in auth/ and models/.           *)
(*                                                                         *)
(* A request talks to the database in separate steps, so that logins,      *)
(* exchanges, refreshes, revocations and an admin's decisions interleave;  *)
(* a request may die between two steps (a crash, a lost answer).  A token  *)
(* is known by the number of rotations before it, its hash by the token.   *)
(* Discord vouches for the user; an app presents only tokens it was given. *)
(***************************************************************************)
EXTENDS Naturals, FiniteSets

CONSTANTS
    Users, EnvAdmins,   \* ATELIER_ADMIN_DISCORD_IDS
    Codes, Devices,     \* documents that may come to exist
    Requests,           \* requests that may be in flight at once
    None,
    Stored,             \* accounts of earlier days
    MaxToken,           \* bound of the rotations of a session
    MaxServed           \* bound of the requests that are sent

ASSUME AccountsAssumption ==
    /\ EnvAdmins \subseteq Users /\ None \notin Users \cup Devices \cup Codes
    /\ MaxToken \in Nat \ {0} /\ MaxServed \in Nat
    /\ Stored \subseteq [status : {"pending", "approved", "locked"}, role : {"member", "admin"}]

VARIABLES
    users,     \* atelierUsers
    codes,     \* atelierAuthCodes
    devices,   \* atelierDevices
    held,      \* the refresh token an app holds, per device
    req,       \* requests in flight
    served,    \* requests so far
    raced,     \* history: devices refreshed twice at once, or with a lost answer
    reused,    \* history: devices that the reuse check revoked
    late,      \* history: devices created while their user was locked
    torn       \* history: users whose lock died before it revoked the devices

vars == <<users, codes, devices, held, req, served, raced, reused, late, torn>>
history == <<raced, reused, late, torn>>

Statuses == {"pending", "approved", "locked"}
Roles == {"member", "admin"}
AdminOps == {"approve", "lock", "promote", "demote"}
Ops == AdminOps \cup {"none", "login", "exchange", "refresh", "logout", "delete"}
Steps == {"idle", "issue", "open", "rotate", "reuse", "device", "user", "heal",
          "answer", "act", "revoke", "revokeAll"}

Account == [status : Statuses \cup {"none"}, role : Roles]
Code == [user : Users \cup {None}, state : {"none", "live", "used"}]
Device == [user : Users \cup {None}, code : Codes \cup {None},
           hash : 0 .. MaxToken, prev : 0 .. MaxToken, fresh : BOOLEAN, revoked : BOOLEAN]
Request == [pc : Steps, op : Ops, user : Users \cup {None}, code : Codes \cup {None},
            device : Devices \cup {None}, token : 0 .. MaxToken,
            target : Users \cup Devices \cup {None}]

NoAccount == [status |-> "none", role |-> "member"]
NoCode == [user |-> None, state |-> "none"]
NoDevice == [user |-> None, code |-> None, hash |-> 0, prev |-> 0, fresh |-> FALSE, revoked |-> FALSE]
Idle == [pc |-> "idle", op |-> "none", user |-> None, code |-> None, device |-> None,
         token |-> 0, target |-> None]

NewDevice(u, c) == [user |-> u, code |-> c, hash |-> 1, prev |-> 0, fresh |-> TRUE, revoked |-> FALSE]

(* The accounts and sessions of earlier days; a new env admin may still be *)
(* stored as anything.                                                     *)
Init ==
    /\ users \in [Users -> Stored \cup {NoAccount}]
    /\ devices \in [Devices -> {NoDevice} \cup {NewDevice(u, None) : u \in Users}]
    /\ \A d1, d2 \in Devices : devices[d1].user = devices[d2].user => d1 = d2 \/ devices[d1] = NoDevice
    /\ \A d \in Devices : devices[d] # NoDevice => users[devices[d].user].status \notin {"none", "locked"}
    /\ codes = [c \in Codes |-> NoCode]
    /\ held = [d \in Devices |-> devices[d].hash]
    /\ req = [q \in Requests |-> Idle]
    /\ served = 0
    /\ raced = {} /\ reused = {} /\ late = {} /\ torn = {}

-----------------------------------------------------------------------------
Arrive(q, pc, op, u, d, g, t) ==
    /\ req[q].pc = "idle" /\ served < MaxServed /\ served' = served + 1
    /\ req' = [req EXCEPT ![q] = [pc |-> pc, op |-> op, user |-> u, code |-> None,
                                  device |-> d, token |-> g, target |-> t]]

GoOn(q, pc) == req' = [req EXCEPT ![q].pc = pc]
Finish(q) == req' = [req EXCEPT ![q] = Idle]

(* upsertLoginUser: a login refreshes the profile and creates a pending    *)
(* member; an env admin is always approved and an admin.                   *)
LoggedIn(u) ==
    IF u \in EnvAdmins THEN [status |-> "approved", role |-> "admin"]
    ELSE IF users[u].status = "none" THEN [status |-> "pending", role |-> "member"]
    ELSE users[u]

Login(q, u) ==
    /\ Arrive(q, "issue", "login", u, None, 0, None)
    /\ users' = [users EXCEPT ![u] = LoggedIn(u)]
    /\ UNCHANGED <<codes, devices, held, history>>

IssueCode(q, c) ==
    /\ req[q].pc = "issue" /\ codes[c] = NoCode
    /\ codes' = [codes EXCEPT ![c] = [user |-> req[q].user, state |-> "live"]]
    /\ Finish(q)
    /\ UNCHANGED <<users, devices, held, served, history>>

(* A login to the dashboard; its cookie names an env admin, then and later. *)
WebLogin(u) ==
    /\ u \in EnvAdmins
    /\ users' = [users EXCEPT ![u] = LoggedIn(u)]
    /\ UNCHANGED <<codes, devices, held, req, served, history>>

-----------------------------------------------------------------------------
(***************************************************************************)
(* Exchange and refresh.                                                   *)
(***************************************************************************)
(* A code that has expired is one that is never consumed.                  *)
UsableIgnoringUse(c) == codes[c].state \in {"live", "used"}
Usable(c) == codes[c].state = "live"

Consume(q, c) ==
    /\ req[q].pc = "idle" /\ served < MaxServed /\ served' = served + 1
    /\ Usable(c)
    /\ codes' = [codes EXCEPT ![c].state = "used"]
    /\ req' = [req EXCEPT ![q] = [pc |-> "user", op |-> "exchange", user |-> codes[c].user, code |-> c,
                                  device |-> None, token |-> 0, target |-> None]]
    /\ UNCHANGED <<users, devices, held, history>>

(* createDevice.                                                           *)
Open(q, d) ==
    /\ req[q].pc = "open" /\ devices[d] = NoDevice
    /\ devices' = [devices EXCEPT ![d] = NewDevice(req[q].user, req[q].code)]
    /\ req' = [req EXCEPT ![q].pc = "answer", ![q].device = d, ![q].token = 1]
    /\ late' = IF users[req[q].user].status = "locked" THEN late \cup {d} ELSE late
    /\ UNCHANGED <<users, codes, held, served, raced, reused, torn>>

(* Requests that have created or rotated a token the app has not got yet.  *)
Owing(d) == {q \in Requests : /\ req[q].device = d /\ req[q].op \in {"exchange", "refresh"}
                              /\ req[q].user # None}

Refreshing(d) == {q \in Requests : req[q].op = "refresh" /\ req[q].device = d}

Refresh(q, d) ==
    /\ held[d] > 0
    /\ Arrive(q, "rotate", "refresh", None, d, held[d], None)
    /\ raced' = IF Refreshing(d) # {} THEN raced \cup {d} ELSE raced
    /\ UNCHANGED <<users, codes, devices, held, reused, late, torn>>

(* Filter of rotateRefreshTokenAtomic.                                     *)
RotatableOnceRevoked(d, g) == devices[d].hash = g /\ devices[d].fresh
Rotatable(d, g) == devices[d].hash = g /\ ~devices[d].revoked /\ devices[d].fresh

Rotated(dev) == [dev EXCEPT !.hash = @ + 1, !.prev = dev.hash]

Rotate(q) ==
    LET d == req[q].device IN
    /\ req[q].pc = "rotate" /\ Rotatable(d, req[q].token)
    /\ devices[d].hash < MaxToken
    /\ devices' = [devices EXCEPT ![d] = Rotated(devices[d])]
    /\ req' = [req EXCEPT ![q].pc = "user", ![q].user = devices[d].user, ![q].token = @ + 1]
    /\ UNCHANGED <<users, codes, held, served, history>>

RotateMissed(q) ==
    /\ req[q].pc = "rotate" /\ ~Rotatable(req[q].device, req[q].token)
    /\ GoOn(q, "reuse")
    /\ UNCHANGED <<users, codes, devices, held, served, history>>

(* findDeviceByReusedRefreshToken.                                         *)
ReuseOfAny(d, g) == devices[d].hash >= g /\ ~devices[d].revoked
Reuse(d, g) == devices[d].prev = g /\ ~devices[d].revoked

FindReused(q) ==
    /\ req[q].pc = "reuse"
    /\ IF Reuse(req[q].device, req[q].token) THEN GoOn(q, "revoke") /\ reused' = reused \cup {req[q].device}
                                             ELSE Finish(q) /\ UNCHANGED reused
    /\ UNCHANGED <<users, codes, devices, held, served, raced, late, torn>>

(* The app gets its new tokens.                                            *)
Answer(q) ==
    /\ req[q].pc = "answer"
    /\ held' = [held EXCEPT ![req[q].device] = req[q].token]
    /\ Finish(q)
    /\ UNCHANGED <<users, codes, devices, served, history>>

(* 90 days without a refresh.                                              *)
ExpireDevice(d) ==
    /\ devices[d].fresh
    /\ devices' = [devices EXCEPT ![d].fresh = FALSE]
    /\ UNCHANGED <<users, codes, held, req, served, history>>

-----------------------------------------------------------------------------
(***************************************************************************)
(* Requests with an access token (requireUser): the device is checked,     *)
(* then the user is read, then the handler goes on.  tokenVersion moves    *)
(* only together with revokedAt, so that a device's access tokens are all  *)
(* good or all bad; one that has expired is refused like a bad one.        *)
(***************************************************************************)
Bearer(q, op, d, t) ==
    /\ held[d] > 0
    /\ \/ op = "logout" /\ t = None
       \/ op = "delete" /\ t \in Devices
       \/ op \in AdminOps /\ t \in Users
    /\ Arrive(q, "device", op, devices[d].user, d, 0, t)
    /\ UNCHANGED <<users, codes, devices, held, history>>

CheckDevice(q) ==
    /\ req[q].pc = "device"
    /\ IF devices[req[q].device].revoked THEN Finish(q) ELSE GoOn(q, "user")
    /\ UNCHANGED <<users, codes, devices, held, served, history>>

(* What a request does once it knows its user; "idle" when it is refused.  *)
OnwardOfApproved(r, account) ==
    IF r.op # "logout" /\ account.status # "approved" THEN "idle"
    ELSE CASE r.op = "exchange" -> "open"
           [] r.op = "refresh" -> "answer"
           [] r.op = "logout" -> "revoke"
           [] OTHER -> IF r.op \in AdminOps => account.role = "admin" THEN "act" ELSE "idle"

Onward(r, account) ==
    CASE r.op = "exchange" -> "open"
      [] r.op = "refresh" -> IF account.status = "locked" THEN "revoke" ELSE "answer"
      [] r.op = "logout" -> "revoke"
      [] OTHER -> IF account.status = "approved" /\ (r.op \in AdminOps => account.role = "admin")
                  THEN "act" ELSE "idle"

Drifted(u) == u \in EnvAdmins /\ users[u] # [status |-> "approved", role |-> "admin"]

Proceed(q, account) ==
    IF Onward(req[q], account) = "idle" THEN Finish(q) ELSE GoOn(q, Onward(req[q], account))

(* getFreshUser.  Nothing deletes a user: the reading always finds one.    *)
ReadUser(q) ==
    /\ req[q].pc = "user"
    /\ IF Drifted(req[q].user) THEN GoOn(q, "heal") ELSE Proceed(q, users[req[q].user])
    /\ UNCHANGED <<users, codes, devices, held, served, history>>

Heal(q) ==
    /\ req[q].pc = "heal"
    /\ users' = [users EXCEPT ![req[q].user] = LoggedIn(req[q].user)]
    /\ Proceed(q, LoggedIn(req[q].user))
    /\ UNCHANGED <<codes, devices, held, served, history>>

(* DELETE /devices/:deviceId finds the device among the user's own.        *)
FindTarget(q) ==
    LET t == req[q].target IN
    /\ req[q].pc = "act" /\ req[q].op = "delete"
    /\ IF devices[t].user = req[q].user /\ ~devices[t].revoked
       THEN req' = [req EXCEPT ![q].pc = "revoke", ![q].device = t]
       ELSE Finish(q)
    /\ UNCHANGED <<users, codes, devices, held, served, history>>

Revoke(ds) == devices' = [d \in Devices |-> IF d \in ds THEN [devices[d] EXCEPT !.revoked = TRUE]
                                                        ELSE devices[d]]

RevokeDevice(q) ==
    /\ req[q].pc = "revoke"
    /\ Revoke({req[q].device})
    /\ Finish(q)
    /\ UNCHANGED <<users, codes, held, served, history>>

-----------------------------------------------------------------------------
(***************************************************************************)
(* An admin's decisions, from the desktop app (device # None) and from the *)
(* dashboard, whose cookie is checked against the env admins alone.        *)
(***************************************************************************)
WebRequest(q, u, op, t) ==
    /\ u \in EnvAdmins
    /\ Arrive(q, "act", op, u, None, 0, t)
    /\ UNCHANGED <<users, codes, devices, held, history>>

(* cannot_lock_env_admin, cannot_demote_env_admin, cannot_change_env_admin *)
PermittedToDemote(r) == r.target \in EnvAdmins => r.op \in {"approve", "demote", "promote"}
Permitted(r) ==
    r.target \in EnvAdmins => r.op = "approve" \/ (r.op = "promote" /\ r.device # None)

Decided(op, account) ==
    CASE op = "approve" -> [account EXCEPT !.status = "approved"]
      [] op = "lock" -> [account EXCEPT !.status = "locked"]
      [] op = "promote" -> [account EXCEPT !.role = "admin"]
      [] op = "demote" -> [account EXCEPT !.role = "member"]

Decide(q) ==
    LET r == req[q] IN
    /\ r.pc = "act" /\ r.op \in AdminOps
    /\ IF Permitted(r) /\ users[r.target].status # "none"
       THEN /\ users' = [users EXCEPT ![r.target] = Decided(r.op, @)]
            /\ IF r.op = "lock" THEN GoOn(q, "revokeAll") ELSE Finish(q)
       ELSE Finish(q) /\ UNCHANGED users
    /\ UNCHANGED <<codes, devices, held, served, history>>

FreshDevicesOf(u) == {d \in Devices : devices[d].user = u /\ devices[d].fresh}
DevicesOf(u) == {d \in Devices : devices[d].user = u}

(* revokeAllDevicesForUser; then the user's sockets are closed (Rooms).    *)
RevokeAll(q) ==
    /\ req[q].pc = "revokeAll"
    /\ Revoke(DevicesOf(req[q].target))
    /\ torn' = torn \ {req[q].target}
    /\ Finish(q)
    /\ UNCHANGED <<users, codes, held, served, raced, reused, late>>

(* A request dies, or its answer is lost.                                  *)
Die(q) ==
    /\ req[q].pc # "idle"
    /\ Finish(q)
    /\ raced' = raced \cup {d \in Devices : q \in Owing(d)}
    /\ torn' = IF req[q].pc = "revokeAll" THEN torn \cup {req[q].target} ELSE torn
    /\ UNCHANGED <<users, codes, devices, held, served, reused, late>>

SessionStep(q) ==
    \/ \E c \in Codes : IssueCode(q, c) \/ Consume(q, c)
    \/ \E d \in Devices : Open(q, d) \/ Refresh(q, d)
    \/ Rotate(q) \/ RotateMissed(q) \/ FindReused(q) \/ Answer(q)

UserStep(q) ==
    \/ \E u \in Users : Login(q, u)
    \/ \E op \in Ops, d \in Devices, t \in Users \cup Devices \cup {None} : Bearer(q, op, d, t)
    \/ \E u \in Users, op \in AdminOps, t \in Users : WebRequest(q, u, op, t)
    \/ CheckDevice(q) \/ ReadUser(q) \/ Heal(q) \/ FindTarget(q) \/ RevokeDevice(q)
    \/ Decide(q) \/ RevokeAll(q) \/ Die(q)

Next ==
    \/ \E q \in Requests : SessionStep(q) \/ UserStep(q)
    \/ \E d \in Devices : ExpireDevice(d)
    \/ \E u \in Users : WebLogin(u)

Spec == Init /\ [][Next]_vars

-----------------------------------------------------------------------------
(* TypeOK: documents, tokens and requests keep their form; the previous    *)
(* token is the one before the current one.                                *)
TypeOK ==
    /\ users \in [Users -> Account]
    /\ codes \in [Codes -> Code]
    /\ devices \in [Devices -> Device]
    /\ held \in [Devices -> 0 .. MaxToken]
    /\ req \in [Requests -> Request]
    /\ served \in 0 .. MaxServed
    /\ raced \subseteq Devices /\ reused \subseteq Devices /\ late \subseteq Devices
    /\ torn \subseteq Users

(* Which steps a request of each kind takes, and what it knows by then.    *)
Shape(r) ==
    /\ r.pc = "idle" <=> r.op = "none"
    /\ r.op = "login" => r.pc = "issue" /\ r.user \in Users
    /\ r.op = "exchange" =>
          /\ r.pc \in {"user", "heal", "open", "answer"} /\ r.user \in Users /\ r.code \in Codes
          /\ r.device = None <=> r.pc # "answer"
    /\ r.op = "refresh" =>
          /\ r.pc \in {"rotate", "reuse", "user", "heal", "answer", "revoke"} /\ r.device \in Devices
          /\ r.pc \in {"rotate", "reuse"} => r.user = None
          /\ r.pc \in {"user", "heal", "answer"} => r.user \in Users
    /\ r.op \in {"logout", "delete"} \cup AdminOps =>
          /\ r.pc \in {"device", "user", "heal", "act", "revoke", "revokeAll"} /\ r.user \in Users
          /\ r.pc = "device" \/ r.op \in {"logout", "delete"} => r.device \in Devices
          /\ r.pc = "act" => r.op # "logout"
          /\ r.pc = "revokeAll" => r.op = "lock"
          /\ r.op = "delete" => r.target \in Devices
          /\ r.op \in AdminOps => r.target \in Users /\ r.pc # "revoke"

(* A token that is asked for is not ahead of the one the app holds, nor    *)
(* that one ahead of the current one.                                      *)
TokensInOrder ==
    /\ \A d \in Devices :
          /\ held[d] <= devices[d].hash
          /\ IF devices[d].hash = 0 THEN devices[d] = NoDevice
             ELSE devices[d].user \in Users /\ devices[d].prev < devices[d].hash
    /\ \A q \in Requests :
          /\ req[q].device # None => devices[req[q].device].hash > 0
          /\ req[q].pc \in {"rotate", "reuse"} => req[q].token \in 1 .. held[req[q].device]

(* A new token is owed to one request, and it is the current one.          *)
OneOwed ==
    \A d \in Devices : \A q \in Owing(d) :
        /\ req[q].token = devices[d].hash /\ held[d] < devices[d].hash
        /\ req[q].op = "exchange" => devices[d].hash = 1
        /\ \A p \in Owing(d) : p = q

(* An app that was never raced refreshes once at a time, with its token.   *)
OneRefresh ==
    \A d \in Devices \ raced : \A q \in Refreshing(d) :
        /\ \A p \in Refreshing(d) : p = q
        /\ req[q].pc \in {"rotate", "reuse"} => req[q].token = held[d]

Exchanging(c) == {q \in Requests : req[q].op = "exchange" /\ req[q].device = None /\ req[q].code = c}
Opened(c) == {d \in Devices : devices[d].code = c}

(* A code opens a session only after it was used up, by one request.       *)
CodeSpent ==
    \A c \in Codes :
        /\ codes[c].state # "used" => Exchanging(c) = {} /\ Opened(c) = {}
        /\ codes[c].state = "live" => codes[c].user \in Users
        /\ \A q \in Exchanging(c) : Opened(c) = {} /\ \A p \in Exchanging(c) : p = q

(* HonestKept: the reuse check of POST /auth/device/refresh (devices.ts)   *)
(* revokes no session of an app that refreshed once at a time and got      *)
(* every answer.                                                           *)
HonestKept == reused \subseteq raced

(* AppInStep: an app that has an answer to each of its refreshes holds the *)
(* current token; it is never shut out by a rotation it was not told of.   *)
AppInStep ==
    \A d \in Devices :
        d \notin raced /\ held[d] > 0 /\ Owing(d) = {} /\ ~devices[d].revoked => held[d] = devices[d].hash

(* OneSessionPerCode: however many exchanges present a one-time code       *)
(* (consumeAuthCode), it opens one session.                                *)
OneSessionPerCode ==
    \A d1, d2 \in Devices : devices[d1].code = devices[d2].code /\ devices[d1].code # None => d1 = d2

Locking(u) == \E q \in Requests : req[q].pc = "revokeAll" /\ req[q].target = u

(* LockEndsSessionsUnlessLate: "Lock revokes everything" (admin.ts): once  *)
(* a lock is through, the user's sessions are revoked, those of every      *)
(* refresh and exchange that was under way included.  Excepted are devices *)
(* whose exchange ended only when the user was locked (late) and locks     *)
(* that died half-way (torn); both are refused at the next refresh.        *)
LockEndsSessionsUnlessLate ==
    \A d \in Devices :
        LET u == devices[d].user IN
        u # None /\ users[u].status = "locked" /\ ~Locking(u) /\ u \notin torn /\ d \notin late
            => devices[d].revoked

(* IInv: the inductive invariant.                                          *)
IInv ==
    /\ TypeOK
    /\ \A q \in Requests : Shape(req[q])
    /\ TokensInOrder /\ OneOwed /\ OneRefresh /\ CodeSpent
    /\ HonestKept /\ AppInStep /\ OneSessionPerCode /\ LockEndsSessionsUnlessLate

(* EnvAdminsKept: no login, healing, decision or race of them takes an env *)
(* admin's approval or role away.                                          *)
EnvAdminsKept ==
    [][\A u \in EnvAdmins : ~Drifted(u) => ~Drifted(u)']_vars

(* Every session is a chain of tokens (SessionChain).                      *)
Chain == INSTANCE SessionChain WITH
    Sessions <- Devices,
    token <- [d \in Devices |-> devices[d].hash],
    ended <- [d \in Devices |-> devices[d].revoked],
    held <- held

(* ImplementsChain: a token is accepted once, in order, only by a session  *)
(* that has not ended, and handed out once.                                *)
ImplementsChain == Chain!Spec
=============================================================================
