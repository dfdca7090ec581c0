--------------------------- MODULE AccountsProofs ---------------------------
(***************************************************************************)
(* Safety theorems about Accounts, for any requests, identities, addresses *)
(* and devices.                                                            *)
(***************************************************************************)
EXTENDS Accounts, FiniteSetTheorems, TLAPS

ReqRecord ==
    [kind : Kinds \cup {None}, start : Nat, end : Nat,
     step : {"ready", "open", "ok", "gone", "unauthorized", "error"},
     identity : Identity \cup {None}, user : UserId \cup {None},
     device : Device \cup {None}, is_first : BOOLEAN,
     meant : UserId \cup {None}, reached : UserId \cup {None}]

\* What TypeOK says, without the bound of the clock.
Shape ==
    /\ users \subseteq [id : UserId, identity : Identity]
    /\ devices \subseteq [device_id : Device, user_id : UserId,
                          updated_at : Nat, by : Request \cup {None}]
    /\ req \in [Request -> ReqRecord]
    /\ clock \in Nat

\* An account that has a request for its id was made by that request.
MadeByRequest == \A u \in users : u.id \in Request => req[u.id].step = "ok"

\* A login under way has told nothing, and has not found the account it may make.
OpenLogins ==
    \A r \in Request :
        /\ req[r].step = "ready" => ~req[r].is_first
        /\ req[r].kind = "login" /\ req[r].step = "open" => ~req[r].is_first /\ req[r].user # r

\* A request that is going to upsert a device has one.
OpenUpserts ==
    \A r \in Request : req[r].kind \in {"login", "register"} /\ req[r].step = "open" =>
        req[r].device \in Device

Inv ==
    /\ Shape /\ MadeByRequest /\ OpenLogins /\ OpenUpserts
    /\ OneAccountPerIdentity /\ DeviceHasOneLivingOwner /\ FirstLoginOnce

\* What a request may become when it changes no row.
Harmless(r, fields) ==
    /\ fields \in ReqRecord
    /\ fields.kind = "login" => fields.step = "open" /\ ~fields.is_first /\ fields.user # r
    /\ fields.kind \in {"login", "register"} => fields.device \in Device
    /\ fields.step = "ready" => ~fields.is_first

\* A request of which nothing is kept harms nothing.
LEMMA BlankIsHarmless ==
    ASSUME NEW r \in Request, NEW step \in {"ready", "ok", "gone", "unauthorized", "error"}
    PROVE  Harmless(r, Blank(step))
BY AccountsAssumption DEF Harmless, Blank, ReqRecord, Kinds, UserId

\* The user with an identity is a user, or None.
LEMMA UserOfType ==
    ASSUME Shape, NEW i
    PROVE  UserOf(i) = None \/ \E u \in users : UserOf(i) = u.id
<1>1. CASE \E u \in users : u.identity = i
  <2>1. PICK u \in users : u = CHOOSE v \in users : v.identity = i
    BY <1>1
  <2>2. QED
    BY <1>1, <2>1 DEF UserOf
<1>2. CASE ~\E u \in users : u.identity = i
  BY <1>2 DEF UserOf
<1>3. QED
  BY <1>1, <1>2

\* Whatever accounts and devices earlier requests left satisfy the invariant.
LEMMA AccountsInit == Init => Inv
<1> SUFFICES ASSUME Init PROVE Inv
  OBVIOUS
<1>1. PICK S \in SUBSET Identity :
        /\ \A i, j \in S : EmailOf[i] = EmailOf[j] => i = j
        /\ users = {[id |-> i, identity |-> i] : i \in S}
        /\ \E owner \in [Device -> S \cup {None}] :
              devices = {[device_id |-> d, user_id |-> owner[d], updated_at |-> 0, by |-> None] :
                         d \in {e \in Device : owner[e] # None}}
  BY DEF Init
<1>2. PICK owner \in [Device -> S \cup {None}] :
        devices = {[device_id |-> d, user_id |-> owner[d], updated_at |-> 0, by |-> None] :
                   d \in {e \in Device : owner[e] # None}}
  BY <1>1
<1>3. req = [r \in Request |-> Blank("ready")] /\ clock = 0
  BY DEF Init
<1>4. \A r \in Request : req[r] = Blank("ready") /\ req[r] \in ReqRecord
  BY <1>3, BlankIsHarmless DEF Harmless
<1>5. Shape
  BY <1>1, <1>2, <1>3, <1>4 DEF Shape, UserId
<1>6. MadeByRequest /\ OpenLogins /\ OpenUpserts /\ FirstLoginOnce
  <2>1. \A r \in Request : req[r].kind = None /\ ~req[r].is_first
    BY <1>4 DEF Blank
  <2>2. \A u \in users : u.id \notin Request
    BY <1>1, AccountsAssumption
  <2>3. None \notin {"login", "register"}
    BY AccountsAssumption DEF Kinds
  <2>4. QED
    BY <2>1, <2>2, <2>3 DEF MadeByRequest, OpenLogins, OpenUpserts, FirstLoginOnce
<1>7. OneAccountPerIdentity
  <2> SUFFICES ASSUME NEW u \in users, NEW v \in users, u # v
               PROVE  u.id # v.id /\ u.identity # v.identity
    BY DEF OneAccountPerIdentity
  <2>1. PICK i \in S : u = [id |-> i, identity |-> i]
    BY <1>1
  <2>2. PICK j \in S : v = [id |-> j, identity |-> j]
    BY <1>1
  <2>3. i # j
    BY <2>1, <2>2
  <2>4. u.id = i /\ u.identity = i /\ v.id = j /\ v.identity = j
    BY <2>1, <2>2
  <2>5. QED
    BY <2>3, <2>4
<1>8. DeviceHasOneLivingOwner
  <2>1. \A x \in devices : /\ owner[x.device_id] # None /\ x.user_id \in S
                           /\ x = [device_id |-> x.device_id, user_id |-> owner[x.device_id],
                                   updated_at |-> 0, by |-> None]
    BY <1>2
  <2>2. \A i \in S : [id |-> i, identity |-> i] \in users
    BY <1>1
  <2>3. \A i \in S : \E u \in users : u.id = i
    BY <2>2
  <2>4. \A x, y \in devices : x.device_id = y.device_id => x = y
    BY <2>1
  <2>5. QED
    BY <2>1, <2>3, <2>4 DEF DeviceHasOneLivingOwner, Exists
<1>9. QED
  BY <1>5, <1>6, <1>7, <1>8 DEF Inv

\* A step that changes a request and no row.
LEMMA RequestStep ==
    ASSUME Inv, NEW r \in Request, NEW fields, Harmless(r, fields),
           req[r].step # "ok", req' = [req EXCEPT ![r] = fields],
           UNCHANGED <<users, devices>>, clock' \in Nat
    PROVE  Inv'
<1>1. \A s \in Request : req'[s] = IF s = r THEN fields ELSE req[s]
  BY DEF Inv, Shape
<1>2. Shape'
  BY DEF Inv, Shape, Harmless
<1>3. MadeByRequest'
  BY <1>1 DEF Inv, MadeByRequest
<1>4. OpenLogins' /\ OpenUpserts'
  BY <1>1 DEF Inv, OpenLogins, OpenUpserts, Harmless
<1>5. FirstLoginOnce'
  BY <1>1 DEF Inv, FirstLoginOnce, Harmless
<1>6. OneAccountPerIdentity' /\ DeviceHasOneLivingOwner'
  BY DEF Inv, OneAccountPerIdentity, DeviceHasOneLivingOwner, Exists
<1>7. QED
  BY <1>2, <1>3, <1>4, <1>5, <1>6 DEF Inv

\* The upsert of a device leaves each device one row; only the new row has a new
\* owner.
LEMMA UpsertOwns ==
    ASSUME Inv, NEW r \in Request, NEW d \in Device, NEW id \in UserId, Upsert(r, d, id),
           \E u \in users' : u.id = id, users \subseteq users'
    PROVE  /\ DeviceHasOneLivingOwner'
           /\ devices' \subseteq [device_id : Device, user_id : UserId,
                                  updated_at : Nat, by : Request \cup {None}]
<1> DEFINE new == [device_id |-> d, user_id |-> id, updated_at |-> req[r].start, by |-> r]
<1>1. devices' = {x \in devices : x.device_id # d} \cup {new}
  BY DEF Upsert
<1>2. req[r].start \in Nat
  BY DEF Inv, Shape, ReqRecord
<1>3. new \in [device_id : Device, user_id : UserId, updated_at : Nat, by : Request \cup {None}]
  BY <1>2
<1>4. new.device_id = d /\ new.user_id = id
  OBVIOUS
<1> HIDE DEF new
<1>5. \A x, y \in devices' : x.device_id = y.device_id => x = y
  BY <1>1, <1>4 DEF Inv, DeviceHasOneLivingOwner
<1>6. \A x \in devices' : \E u \in users' : u.id = x.user_id
  BY <1>1, <1>4 DEF Inv, DeviceHasOneLivingOwner, Exists
<1>7. QED
  BY <1>1, <1>3, <1>5, <1>6 DEF Inv, Shape, DeviceHasOneLivingOwner, Exists

\* The request r commits with these fields.
LEMMA CommitStep ==
    ASSUME Inv, NEW r \in Request, NEW fields \in ReqRecord, Commit(r, fields),
           req[r].step = "open",
           fields.kind = "login" => (fields.is_first <=> fields.user = r)
    PROVE  /\ req' \in [Request -> ReqRecord] /\ clock' \in Nat
           /\ req'[r].step = "ok"
           /\ \A s \in Request \ {r} : req'[s] = req[s]
           /\ OpenLogins' /\ OpenUpserts' /\ FirstLoginOnce'
<1> DEFINE done == [fields EXCEPT !.step = "ok", !.end = clock + 1]
<1>1. req' = [req EXCEPT ![r] = done] /\ clock' = clock + 1
  BY DEF Commit
<1>2. clock + 1 \in Nat
  BY DEF Inv, Shape
<1>3. /\ done \in ReqRecord /\ done.step = "ok" /\ done.kind = fields.kind
      /\ done.is_first = fields.is_first /\ done.user = fields.user
  BY <1>2 DEF ReqRecord
<1> HIDE DEF done
<1>4. \A s \in Request : req'[s] = IF s = r THEN done ELSE req[s]
  BY <1>1 DEF Inv, Shape
<1>5. OpenLogins' /\ OpenUpserts'
  BY <1>3, <1>4 DEF Inv, OpenLogins, OpenUpserts
<1>6. FirstLoginOnce'
  BY <1>3, <1>4 DEF Inv, FirstLoginOnce
<1>7. QED
  BY <1>1, <1>2, <1>3, <1>4, <1>5, <1>6 DEF Inv, Shape

\* The login r makes its account.
LEMMA AccountsCreateUser == ASSUME Inv, NEW r \in Request, CreateUser(r) PROVE Inv'
<1> DEFINE q == req[r]
           user == [id |-> r, identity |-> q.identity]
           done == [q EXCEPT !.user = r, !.is_first = TRUE]
<1>1. /\ q.kind = "login" /\ q.step = "open" /\ FreeIdentity(q.identity)
      /\ users' = users \cup {user}
      /\ Upsert(r, q.device, r)
      /\ Commit(r, done)
  BY DEF CreateUser
<1>2. q \in ReqRecord /\ r \in UserId
  BY DEF Inv, Shape, UserId
<1>3. q.identity \in Identity
  BY <1>1, <1>2 DEF FreeIdentity, ReqRecord
<1>4. done \in ReqRecord /\ done.kind = "login" /\ done.is_first /\ done.user = r
  BY <1>1, <1>2 DEF ReqRecord
<1>5. user.id = r /\ user.identity = q.identity /\ user \in [id : UserId, identity : Identity]
  BY <1>2, <1>3
<1>6. q.device \in Device
  BY <1>1 DEF Inv, OpenUpserts
<1> HIDE DEF q, user, done
<1>7. /\ req' \in [Request -> ReqRecord] /\ clock' \in Nat /\ req'[r].step = "ok"
      /\ \A s \in Request \ {r} : req'[s] = req[s]
      /\ OpenLogins' /\ OpenUpserts' /\ FirstLoginOnce'
  BY <1>1, <1>4, CommitStep DEF q
<1>8. DeviceHasOneLivingOwner' /\ devices' \subseteq
         [device_id : Device, user_id : UserId, updated_at : Nat, by : Request \cup {None}]
  BY <1>1, <1>2, <1>5, <1>6, UpsertOwns
<1>9. Shape'
  BY <1>1, <1>5, <1>7, <1>8 DEF Inv, Shape
<1>10. MadeByRequest'
  BY <1>1, <1>5, <1>7 DEF Inv, MadeByRequest
<1>11. OneAccountPerIdentity'
  <2>1. \A u \in users : u.id # r
    BY <1>1 DEF Inv, MadeByRequest, q
  <2>2. \A u \in users : u.identity # q.identity
    BY <1>1 DEF FreeIdentity
  <2>3. QED
    BY <1>1, <1>5, <2>1, <2>2 DEF Inv, OneAccountPerIdentity
<1>12. QED
  BY <1>7, <1>8, <1>9, <1>10, <1>11 DEF Inv

\* The login r goes on with the account it found.
LEMMA AccountsUpdateLastLogin == ASSUME Inv, NEW r \in Request, UpdateLastLogin(r) PROVE Inv'
<1>1. /\ req[r].kind = "login" /\ req[r].step = "open" /\ Exists(req[r].user)
      /\ Upsert(r, req[r].device, req[r].user) /\ users' = users
      /\ Commit(r, req[r])
  BY DEF UpdateLastLogin
<1>2. /\ req[r] \in ReqRecord /\ req[r].device \in Device
      /\ ~req[r].is_first /\ req[r].user # r
  BY <1>1 DEF Inv, Shape, OpenLogins, OpenUpserts
<1>3. req[r].user \in UserId
  BY <1>1 DEF Inv, Shape, Exists
<1>4. /\ req' \in [Request -> ReqRecord] /\ clock' \in Nat /\ req'[r].step = "ok"
      /\ \A s \in Request \ {r} : req'[s] = req[s]
      /\ OpenLogins' /\ OpenUpserts' /\ FirstLoginOnce'
  BY <1>1, <1>2, CommitStep
<1>5. DeviceHasOneLivingOwner' /\ devices' \subseteq
         [device_id : Device, user_id : UserId, updated_at : Nat, by : Request \cup {None}]
  BY <1>1, <1>2, <1>3, UpsertOwns DEF Exists
<1>6. Shape' /\ OneAccountPerIdentity' /\ MadeByRequest'
  BY <1>1, <1>4, <1>5 DEF Inv, Shape, OneAccountPerIdentity, MadeByRequest
<1>7. QED
  BY <1>4, <1>5, <1>6 DEF Inv

\* The registration r commits.
LEMMA AccountsCommitRegister == ASSUME Inv, NEW r \in Request, CommitRegister(r) PROVE Inv'
<1>1. /\ req[r].kind = "register" /\ req[r].step = "open" /\ Exists(req[r].user)
      /\ Upsert(r, req[r].device, req[r].user) /\ users' = users
      /\ Commit(r, req[r])
  BY DEF CommitRegister
<1>2. req[r] \in ReqRecord /\ req[r].device \in Device
  BY <1>1 DEF Inv, Shape, OpenUpserts
<1>3. req[r].user \in UserId
  BY <1>1 DEF Inv, Shape, Exists
<1>4. /\ req' \in [Request -> ReqRecord] /\ clock' \in Nat /\ req'[r].step = "ok"
      /\ \A s \in Request \ {r} : req'[s] = req[s]
      /\ OpenLogins' /\ OpenUpserts' /\ FirstLoginOnce'
  BY <1>1, <1>2, CommitStep
<1>5. DeviceHasOneLivingOwner' /\ devices' \subseteq
         [device_id : Device, user_id : UserId, updated_at : Nat, by : Request \cup {None}]
  BY <1>1, <1>2, <1>3, UpsertOwns DEF Exists
<1>6. Shape' /\ OneAccountPerIdentity' /\ MadeByRequest'
  BY <1>1, <1>4, <1>5 DEF Inv, Shape, OneAccountPerIdentity, MadeByRequest
<1>7. QED
  BY <1>4, <1>5, <1>6 DEF Inv

\* An account goes, and its devices with it.
LEMMA AccountsCommitLeave == ASSUME Inv, NEW r \in Request, CommitLeave(r) PROVE Inv'
<1>1. /\ req[r].step = "open"
      /\ users' = {u \in users : u.id # req[r].user}
      /\ devices' = {x \in devices : x.user_id # req[r].user}
      /\ req' = [req EXCEPT ![r] = Blank("ok")] /\ clock' = clock
  BY DEF CommitLeave
<1>2. Harmless(r, Blank("ok")) /\ Blank("ok").step = "ok"
  BY BlankIsHarmless DEF Blank
<1>3. \A s \in Request : req'[s] = IF s = r THEN Blank("ok") ELSE req[s]
  BY <1>1 DEF Inv, Shape
<1>4. Shape'
  BY <1>1, <1>2 DEF Inv, Shape, Harmless
<1>5. MadeByRequest'
  BY <1>1, <1>2, <1>3 DEF Inv, MadeByRequest
<1>6. OpenLogins' /\ OpenUpserts' /\ FirstLoginOnce'
  BY <1>2, <1>3 DEF Inv, OpenLogins, OpenUpserts, FirstLoginOnce, Harmless
<1>7. OneAccountPerIdentity'
  BY <1>1 DEF Inv, OneAccountPerIdentity
<1>8. DeviceHasOneLivingOwner'
  BY <1>1 DEF Inv, DeviceHasOneLivingOwner, Exists
<1>9. QED
  BY <1>4, <1>5, <1>6, <1>7, <1>8 DEF Inv

\* A request that opens.
LEMMA AccountsBegin ==
    ASSUME Inv, NEW r \in Request, NEW fields, Begin(r, fields), Harmless(r, fields)
    PROVE  Inv'
<1>1. req[r].step = "ready" /\ req' = [req EXCEPT ![r] = fields]
      /\ UNCHANGED <<users, devices>> /\ clock' = clock + 1
  BY DEF Begin
<1>2. clock' \in Nat
  BY <1>1 DEF Inv, Shape
<1>3. QED
  BY <1>1, <1>2, RequestStep

\* A request that only reads, or is refused.
LEMMA AccountsAnswer ==
    ASSUME Inv, NEW r \in Request, NEW step \in {"ok", "gone", "unauthorized"}, Answer(r, step)
    PROVE  Inv'
<1>1. /\ req[r].step = "ready" /\ req' = [req EXCEPT ![r] = Blank(step)]
      /\ UNCHANGED <<users, devices>> /\ clock' \in Nat
  BY DEF Answer, Inv, Shape
<1>2. QED
  BY <1>1, BlankIsHarmless, RequestStep

\* A request that is rolled back.
LEMMA AccountsFail == ASSUME Inv, NEW r \in Request, Fail(r) PROVE Inv'
<1>1. /\ req[r].step = "open" /\ req' = [req EXCEPT ![r] = Blank("error")]
      /\ UNCHANGED <<users, devices>> /\ clock' \in Nat
  BY DEF Fail, Inv, Shape
<1>2. QED
  BY <1>1, BlankIsHarmless, RequestStep

\* Whose id an access token may name.
LEMMA AuthenticatedType == Inv => Authenticated \subseteq UserId \cup {None}
<1> SUFFICES ASSUME Inv, NEW r \in Request, req[r].kind = "login", req[r].step = "ok"
             PROVE  req[r].user \in UserId \cup {None}
  BY DEF Authenticated, UserId
<1>1. req[r] \in ReqRecord
  BY DEF Inv, Shape
<1>2. QED
  BY <1>1 DEF ReqRecord

\* A login opens, of an identity or of none.
LEMMA AccountsBeginLogin ==
    ASSUME Inv, NEW r \in Request, NEW i \in Identity \cup {None}, NEW d \in Device, Identified(r, i, d)
    PROVE  Inv'
<1> DEFINE fields == [Opened(r, "login") EXCEPT !.identity = i, !.user = UserOf(i), !.device = d]
<1>1. Begin(r, fields) /\ req[r].step = "ready"
  BY DEF Identified, Begin
<1>2. UserOf(i) \in UserId \cup {None} /\ UserOf(i) # r
  <2>1. CASE UserOf(i) = None
    BY <2>1, AccountsAssumption
  <2>2. CASE \E u \in users : UserOf(i) = u.id
    BY <1>1, <2>2 DEF Inv, Shape, MadeByRequest
  <2>3. QED
    BY <2>1, <2>2, UserOfType DEF Inv
<1>3. req[r] \in ReqRecord /\ ~req[r].is_first /\ clock + 1 \in Nat
  BY <1>1 DEF Inv, Shape, OpenLogins
<1>4. /\ fields \in ReqRecord /\ fields.step = "open" /\ fields.user # r
      /\ fields.device \in Device /\ ~fields.is_first
  BY <1>2, <1>3 DEF Opened, ReqRecord, Kinds
<1>5. Harmless(r, fields)
  BY <1>4 DEF Harmless
<1>6. QED
  BY <1>1, <1>5, AccountsBegin

\* What a registration, a retry or a background run opens with.
IsOpenedWith(fields, r, k, id, d, m) ==
    \/ fields = [Opened(r, k) EXCEPT !.user = id, !.device = d]
    \/ fields = [Opened(r, k) EXCEPT !.user = id, !.device = d, !.meant = m]

\* A registration, a retry or a background run opens.
LEMMA AccountsOpens ==
    ASSUME Inv, NEW r \in Request, NEW k \in {"register", "retry_push", "background_push"},
           NEW id \in UserId \cup {None}, NEW d \in Device \cup {None},
           NEW m \in UserId \cup {None}, NEW fields,
           k = "register" => d \in Device,
           IsOpenedWith(fields, r, k, id, d, m), Begin(r, fields)
    PROVE  Inv'
<1>1. req[r] \in ReqRecord /\ ~req[r].is_first /\ clock + 1 \in Nat
  BY DEF Begin, Inv, Shape, OpenLogins
<1>2. /\ fields \in ReqRecord /\ fields.step = "open" /\ fields.kind = k
      /\ fields.device = d
  BY <1>1 DEF IsOpenedWith, Opened, ReqRecord, Kinds
<1>3. Harmless(r, fields)
  BY <1>2 DEF Harmless
<1>4. QED
  BY <1>3, AccountsBegin

\* Who has a device is a user, or None.
LEMMA HolderOfType == Inv => \A d : HolderOf(d) \in UserId \cup {None}
BY DEF Inv, Shape, HolderOf

\* The deletion of an account has found it.
LEMMA AccountsBeginLeave ==
    ASSUME Inv, NEW r \in Request, NEW id \in UserId \cup {None}, BeginLeave(r, id)
    PROVE  Inv'
<1> DEFINE fields == [req[r] EXCEPT !.kind = "leave", !.step = "open", !.user = id]
<1>1. /\ req[r].step = "ready" /\ req' = [req EXCEPT ![r] = fields]
      /\ UNCHANGED <<users, devices, clock>>
  BY DEF BeginLeave
<1>2. req[r] \in ReqRecord /\ clock \in Nat
  BY DEF Inv, Shape
<1>3. fields \in ReqRecord /\ fields.kind = "leave" /\ fields.step = "open"
  BY <1>2 DEF ReqRecord, Kinds
<1>4. Harmless(r, fields)
  BY <1>3 DEF Harmless
<1>5. QED
  BY <1>1, <1>2, <1>4, RequestStep

\* A push goes out.
LEMMA AccountsPush == ASSUME Inv, NEW r \in Request, SendSilentNotification(r) PROVE Inv'
<1>0. PICK owner \in TokenOwner(req[r].device) : \E u \in Delivered(owner) :
         req' = [req EXCEPT ![r] = [req[r] EXCEPT !.step = "ok", !.reached = u]]
  BY DEF SendSilentNotification
<1>1. PICK u \in Delivered(owner) :
         req' = [req EXCEPT ![r] = [req[r] EXCEPT !.step = "ok", !.reached = u]]
  BY <1>0
<1> DEFINE fields == [req[r] EXCEPT !.step = "ok", !.reached = u]
<1>2. /\ req[r].kind \in {"background_push", "retry_push"} /\ req[r].step = "open"
      /\ UNCHANGED <<users, devices, clock>>
      /\ req[r] \in ReqRecord /\ clock \in Nat
  BY DEF SendSilentNotification, Inv, Shape
<1>3. u \in UserId \cup {None}
  BY DEF TokenOwner, Delivered, Inv, Shape
<1>4. fields \in ReqRecord /\ fields.kind = req[r].kind /\ fields.step = "ok"
  BY <1>2, <1>3 DEF ReqRecord
<1>5. Harmless(r, fields)
  BY <1>2, <1>4 DEF Harmless
<1>6. QED
  BY <1>1, <1>2, <1>5, RequestStep

\* The device of a retry is a device.
LEMMA DeviceForUserType == Inv => \A id : DeviceForUser(id) \subseteq Device
BY DEF Inv, Shape, DeviceForUser, DevicesOf

\* Every step keeps the invariant: one case for each action.
LEMMA AccountsNext == Inv /\ [Next]_vars => Inv'
<1> SUFFICES ASSUME Inv, [Next]_vars PROVE Inv'
  OBVIOUS
<1>1. ASSUME NEW r \in Request, NEW id \in Authenticated,
             \/ VerifyToken(r, id) \/ GetMe(r, id) \/ BeginLeave(r, id) \/ DispatchRetry(r, id)
             \/ \E d \in Device : BeginRegister(r, id, d) \/ StartBackground(r, id, d)
      PROVE  Inv'
  <2>0. id \in UserId \cup {None}
    BY AuthenticatedType
  <2>1. CASE VerifyToken(r, id)
    BY <2>1, AccountsAnswer DEF VerifyToken
  <2>2. CASE GetMe(r, id)
    BY <2>2, AccountsAnswer DEF GetMe
  <2>3. CASE BeginLeave(r, id)
    BY <2>0, <2>3, AccountsBeginLeave
  <2>4. CASE DispatchRetry(r, id)
    <3>1. PICK d \in Device \cup {None} :
             Begin(r, [Opened(r, "retry_push") EXCEPT !.user = id, !.device = d, !.meant = id])
      BY <2>4, DeviceForUserType DEF DispatchRetry
    <3>2. QED
      BY <2>0, <3>1, AccountsOpens DEF IsOpenedWith
  <2>5. ASSUME NEW d \in Device, BeginRegister(r, id, d) PROVE Inv'
    BY <2>0, <2>5, AccountsOpens DEF BeginRegister, IsOpenedWith
  <2>6. ASSUME NEW d \in Device, StartBackground(r, id, d) PROVE Inv'
    BY <2>0, <2>6, HolderOfType, AccountsOpens DEF StartBackground, IsOpenedWith
  <2>7. QED
    BY <1>1, <2>1, <2>2, <2>3, <2>4, <2>5, <2>6
<1>2. ASSUME NEW r \in Request, NEW i \in Identity,
             RefuseLogin(r, i) \/ \E d \in Device : BeginLogin(r, i, d) \/ BeginDevLogin(r, i, d)
      PROVE  Inv'
  <2>1. CASE RefuseLogin(r, i)
    BY <2>1, AccountsAnswer DEF RefuseLogin
  <2>2. ASSUME NEW d \in Device, BeginLogin(r, i, d) PROVE Inv'
    <3>1. PICK verified \in LoginIdentities(i) : Identified(r, verified, d)
      BY <2>2 DEF BeginLogin
    <3>2. verified \in Identity \cup {None}
      BY <3>1 DEF LoginIdentities
    <3>3. QED
      BY <3>1, <3>2, AccountsBeginLogin
  <2>3. ASSUME NEW d \in Device, BeginDevLogin(r, i, d) PROVE Inv'
    BY <2>3, AccountsBeginLogin DEF BeginDevLogin
  <2>4. QED
    BY <1>2, <2>1, <2>2, <2>3
<1>3. ASSUME NEW r \in Request, CommitRegister(r) \/ CreateUser(r) \/ UpdateLastLogin(r)
             \/ CommitLeave(r) \/ SendSilentNotification(r) \/ Fail(r)
      PROVE  Inv'
  BY <1>3, AccountsCommitRegister, AccountsCreateUser, AccountsUpdateLastLogin,
     AccountsCommitLeave, AccountsPush, AccountsFail
<1>4. CASE UNCHANGED vars
  BY <1>4 DEF vars, Inv, Shape, MadeByRequest, OpenLogins, OpenUpserts, OneAccountPerIdentity,
     DeviceHasOneLivingOwner, FirstLoginOnce, Exists
<1>5. QED
  BY <1>1, <1>2, <1>3, <1>4 DEF Next

\* Whatever overlaps, two accounts differ in their identity: login.
THEOREM OneAccountPerIdentityAlways == Spec => []OneAccountPerIdentity
<1>1. Inv => OneAccountPerIdentity
  BY DEF Inv
<1>2. QED
  BY <1>1, AccountsInit, AccountsNext, PTL DEF Spec

\* Whatever overlaps, of the logins into an account exactly the one that made it
\* says is_first: login.
THEOREM FirstLoginOnceAlways == Spec => []FirstLoginOnce
<1>1. Inv => FirstLoginOnce
  BY DEF Inv
<1>2. QED
  BY <1>1, AccountsInit, AccountsNext, PTL DEF Spec

\* Whatever overlaps, and with access tokens that outlive their accounts, a device
\* id has one row and the row a living owner: upsert_device, delete_user.
THEOREM DeviceHasOneLivingOwnerAlways == Spec => []DeviceHasOneLivingOwner
<1>1. Inv => DeviceHasOneLivingOwner
  BY DEF Inv
<1>2. QED
  BY <1>1, AccountsInit, AccountsNext, PTL DEF Spec
\* The requests that have begun, or were answered at once, and those that are over.
Begun == {r \in Request : req[r].step # "ready"}
Over == {r \in Request : req[r].step \notin {"ready", "open"}}

\* Every tick of the clock is the start or the commit of a request, and no time is later.
ClockInv ==
    /\ clock <= Cardinality(Begun) + Cardinality(Over)
    /\ \A r \in Request : req[r].start <= clock /\ req[r].end <= clock
    /\ \A x \in devices : x.updated_at <= clock

\* What a step of r does to the clock and to the times.
Ticked(r) ==
    /\ \A s \in Request : s # r => req'[s] = req[s]
    /\ req'[r].start <= clock' /\ req'[r].end <= clock'
    /\ \A x \in devices' : x \in devices \/ x.updated_at <= clock
    /\ req[r].step # "ready" => req'[r].step # "ready"
    /\ req[r].step \in {"ready", "open"}
    /\ \/ clock' = clock
       \/ clock' = clock + 1 /\ req[r].step = "ready" /\ req'[r].step = "open"
       \/ clock' = clock + 1 /\ req[r].step = "open" /\ req'[r].step = "ok"

\* A tick is paid for by the request that began or was committed.
LEMMA TickPaid ==
    ASSUME IsFiniteSet(Request), Inv, Inv', ClockInv, NEW r \in Request, Ticked(r)
    PROVE  ClockInv'
<1>1. clock \in Nat /\ clock' \in Nat /\ clock <= clock'
  BY DEF Inv, Shape, Ticked
<1>2. \A s \in Request : req[s].start \in Nat /\ req[s].end \in Nat
  BY DEF Inv, Shape, ReqRecord
<1>3. \A s \in Request : req'[s].start <= clock' /\ req'[s].end <= clock'
  BY <1>1, <1>2 DEF Ticked, ClockInv
<1>4. \A x \in devices' : x.updated_at <= clock'
  BY <1>1 DEF Ticked, ClockInv, Inv, Shape
<1>5. Begun \subseteq Begun' /\ Over \subseteq Over'
  BY DEF Ticked, Begun, Over
<1>6. /\ IsFiniteSet(Begun) /\ IsFiniteSet(Over)
      /\ IsFiniteSet(Begun') /\ IsFiniteSet(Over')
  <2>1. Begun \subseteq Request /\ Over \subseteq Request /\ Begun' \subseteq Request /\ Over' \subseteq Request
    BY DEF Begun, Over
  <2>2. QED
    BY <2>1, FS_Subset
<1>7. /\ Cardinality(Begun) \in Nat /\ Cardinality(Over) \in Nat
      /\ Cardinality(Begun') \in Nat /\ Cardinality(Over') \in Nat
      /\ Cardinality(Begun) <= Cardinality(Begun') /\ Cardinality(Over) <= Cardinality(Over')
  BY <1>5, <1>6, FS_CardinalityType, FS_Subset
<1>8. clock' <= Cardinality(Begun') + Cardinality(Over')
  <2>1. CASE clock' = clock
    BY <1>1, <1>7, <2>1 DEF ClockInv
  <2>2. CASE clock' = clock + 1 /\ req[r].step = "ready" /\ req'[r].step = "open"
    <3>1. r \notin Begun /\ Begun' = Begun \cup {r}
      BY <2>2 DEF Begun, Ticked
    <3>2. Cardinality(Begun') = Cardinality(Begun) + 1
      BY <1>6, <3>1, FS_AddElement
    <3>3. QED
      BY <1>1, <1>7, <2>2, <3>2 DEF ClockInv
  <2>3. CASE clock' = clock + 1 /\ req[r].step = "open" /\ req'[r].step = "ok"
    <3>1. r \notin Over /\ Over' = Over \cup {r}
      BY <2>3 DEF Over, Ticked
    <3>2. Cardinality(Over') = Cardinality(Over) + 1
      BY <1>6, <3>1, FS_AddElement
    <3>3. QED
      BY <1>1, <1>7, <2>3, <3>2 DEF ClockInv
  <2>4. QED
    BY <2>1, <2>2, <2>3 DEF Ticked
<1>9. QED
  BY <1>3, <1>4, <1>8 DEF ClockInv

\* A request that opens ticks; one that is answered at once does not.
LEMMA TickBegin ==
    ASSUME Inv, ClockInv, NEW r \in Request, NEW fields, Begin(r, fields),
           fields.start = clock + 1, fields.end = req[r].end, fields.step = "open"
    PROVE  Ticked(r)
<1>1. clock \in Nat /\ req[r].end \in Nat /\ req \in [Request -> ReqRecord]
  BY DEF Inv, Shape, ReqRecord
<1>2. req[r].end <= clock
  BY DEF ClockInv
<1>3. QED
  BY <1>1, <1>2 DEF Begin, Ticked

LEMMA TickBlank ==
    ASSUME Inv, NEW r \in Request, NEW step \in {"ok", "gone", "unauthorized", "error"},
           req[r].step \in {"ready", "open"}, req' = [req EXCEPT ![r] = Blank(step)],
           devices' \subseteq devices, UNCHANGED clock
    PROVE  Ticked(r)
<1>1. req'[r] = Blank(step) /\ \A s \in Request : s # r => req'[s] = req[s]
  BY DEF Inv, Shape
<1>2. req'[r].start = 0 /\ req'[r].end = 0 /\ req'[r].step # "ready"
  BY <1>1 DEF Blank
<1>3. clock \in Nat
  BY DEF Inv, Shape
<1>4. QED
  BY <1>1, <1>2, <1>3 DEF Ticked

\* A request that upserts a device ticks, and the new row is as old as the request.
LEMMA TickCommit ==
    ASSUME Inv, ClockInv, NEW r \in Request, NEW fields \in ReqRecord, NEW d, NEW id,
           req[r].step = "open", fields.start = req[r].start,
           Upsert(r, d, id), Commit(r, fields)
    PROVE  Ticked(r)
<1>1. clock \in Nat /\ req[r].start \in Nat /\ req[r].start <= clock
  BY DEF Inv, Shape, ReqRecord, ClockInv
<1>2. /\ clock' = clock + 1 /\ \A s \in Request : s # r => req'[s] = req[s]
      /\ req'[r] = [fields EXCEPT !.step = "ok", !.end = clock + 1]
  BY DEF Commit, Inv, Shape
<1>3. req'[r].start = req[r].start /\ req'[r].end = clock + 1 /\ req'[r].step = "ok"
  BY <1>2 DEF ReqRecord
<1>4. \A x \in devices' : x \in devices \/ x.updated_at <= clock
  BY <1>1 DEF Upsert
<1>5. QED
  BY <1>1, <1>2, <1>3, <1>4 DEF Ticked

\* Every step is of some request and ticks as it should.
LEMMA TickNext ==
    ASSUME Inv, ClockInv, NEW r \in Request,
           \/ \E id \in Authenticated :
                 \/ VerifyToken(r, id) \/ GetMe(r, id) \/ BeginLeave(r, id) \/ DispatchRetry(r, id)
                 \/ \E d \in Device : BeginRegister(r, id, d) \/ StartBackground(r, id, d)
           \/ \E i \in Identity :
                 RefuseLogin(r, i) \/ \E d \in Device : BeginLogin(r, i, d) \/ BeginDevLogin(r, i, d)
           \/ CommitRegister(r) \/ CreateUser(r) \/ UpdateLastLogin(r)
           \/ CommitLeave(r) \/ SendSilentNotification(r) \/ Fail(r)
    PROVE  Ticked(r)
<1>0. req[r] \in ReqRecord /\ clock \in Nat /\ req \in [Request -> ReqRecord]
  BY DEF Inv, Shape
<1>1. ASSUME NEW id, VerifyToken(r, id) \/ GetMe(r, id) PROVE Ticked(r)
  <2>1. PICK step \in {"ok", "gone", "unauthorized"} : Answer(r, step)
    BY <1>1 DEF VerifyToken, GetMe
  <2>2. QED
    BY <2>1, TickBlank DEF Answer
<1>2. ASSUME NEW id, BeginLeave(r, id) PROVE Ticked(r)
  <2>1. /\ req'[r] = [req[r] EXCEPT !.kind = "leave", !.step = "open", !.user = id]
        /\ \A s \in Request : s # r => req'[s] = req[s]
        /\ req[r].step = "ready" /\ UNCHANGED <<devices, clock>>
    BY <1>0, <1>2 DEF BeginLeave
  <2>2. req'[r].start = req[r].start /\ req'[r].end = req[r].end /\ req'[r].step = "open"
    BY <1>0, <2>1 DEF ReqRecord
  <2>3. QED
    BY <2>1, <2>2 DEF Ticked, ClockInv
<1>3. ASSUME NEW k, NEW id, NEW d, NEW m, NEW fields,
             IsOpenedWith(fields, r, k, id, d, m), Begin(r, fields)
      PROVE  Ticked(r)
  <2>1. fields.start = clock + 1 /\ fields.end = req[r].end /\ fields.step = "open"
    BY <1>0, <1>3 DEF IsOpenedWith, Opened, ReqRecord
  <2>2. QED
    BY <1>3, <2>1, TickBegin
<1>4. ASSUME NEW id, DispatchRetry(r, id) PROVE Ticked(r)
  BY <1>3, <1>4 DEF DispatchRetry, IsOpenedWith
<1>5. ASSUME NEW id, NEW d, BeginRegister(r, id, d) \/ StartBackground(r, id, d) PROVE Ticked(r)
  BY <1>3, <1>5 DEF BeginRegister, StartBackground, IsOpenedWith
<1>6. ASSUME NEW i, NEW d, Identified(r, i, d) PROVE Ticked(r)
  <2> DEFINE fields == [Opened(r, "login") EXCEPT !.identity = i, !.user = UserOf(i), !.device = d]
  <2>1. fields.start = clock + 1 /\ fields.end = req[r].end /\ fields.step = "open"
    BY <1>0 DEF Opened, ReqRecord
  <2>2. QED
    BY <1>6, <2>1, TickBegin DEF Identified
<1>7. ASSUME NEW i, RefuseLogin(r, i) PROVE Ticked(r)
  BY <1>7, TickBlank DEF RefuseLogin, Answer
<1>8. ASSUME NEW i, NEW d, BeginLogin(r, i, d) \/ BeginDevLogin(r, i, d) PROVE Ticked(r)
  BY <1>6, <1>8 DEF BeginLogin, BeginDevLogin
<1>9. CASE CommitRegister(r)
  BY <1>0, <1>9, TickCommit DEF CommitRegister
<1>10. CASE CreateUser(r)
  <2> DEFINE fields == [req[r] EXCEPT !.user = r, !.is_first = TRUE]
  <2>1. fields \in ReqRecord /\ fields.start = req[r].start
    BY <1>0 DEF ReqRecord, UserId
  <2>2. req[r].step = "open" /\ Upsert(r, req[r].device, r) /\ Commit(r, fields)
    BY <1>10 DEF CreateUser
  <2>3. QED
    BY <2>1, <2>2, TickCommit
<1>11. CASE UpdateLastLogin(r)
  BY <1>0, <1>11, TickCommit DEF UpdateLastLogin
<1>12. CASE CommitLeave(r)
  <2>1. devices' \subseteq devices
    BY <1>12 DEF CommitLeave
  <2>2. QED
    BY <1>12, <2>1, TickBlank DEF CommitLeave
<1>13. CASE SendSilentNotification(r)
  <2>1. PICK u : req' = [req EXCEPT ![r] = [req[r] EXCEPT !.step = "ok", !.reached = u]]
    BY <1>13 DEF SendSilentNotification
  <2>2. /\ req'[r].start = req[r].start /\ req'[r].end = req[r].end /\ req'[r].step = "ok"
        /\ \A s \in Request : s # r => req'[s] = req[s]
    BY <1>0, <2>1 DEF ReqRecord
  <2>3. req[r].step = "open" /\ UNCHANGED <<devices, clock>>
    BY <1>13 DEF SendSilentNotification
  <2>4. QED
    BY <2>2, <2>3 DEF Ticked, ClockInv
<1>14. CASE Fail(r)
  BY <1>14, TickBlank DEF Fail
<1>15. QED
  BY <1>1, <1>2, <1>4, <1>5, <1>7, <1>8, <1>9, <1>10, <1>11, <1>12, <1>13, <1>14

\* Type correctness: a clock that a finite number of requests moves, each at most twice.
THEOREM AccountsTypeCorrect ==
    ASSUME IsFiniteSet(Request)
    PROVE  Spec => []TypeOK
<1>1. Init => ClockInv
  <2> SUFFICES ASSUME Init PROVE ClockInv
    OBVIOUS
  <2>1. clock = 0 /\ \A r \in Request : req[r] = Blank("ready")
    BY DEF Init
  <2>2. \A r \in Request : req[r].start = 0 /\ req[r].end = 0
    BY <2>1 DEF Blank
  <2>3. \A x \in devices : x.updated_at = 0
    BY DEF Init
  <2>4. Cardinality(Begun) \in Nat /\ Cardinality(Over) \in Nat
    <3>1. IsFiniteSet(Begun) /\ IsFiniteSet(Over)
      <4>1. Begun \subseteq Request /\ Over \subseteq Request
        BY DEF Begun, Over
      <4>2. QED
        BY <4>1, FS_Subset
    <3>2. QED
      BY <3>1, FS_CardinalityType
  <2>5. QED
    BY <2>1, <2>2, <2>3, <2>4 DEF ClockInv
<1>2. Inv /\ Inv' /\ ClockInv /\ [Next]_vars => ClockInv'
  <2> SUFFICES ASSUME Inv, Inv', ClockInv, [Next]_vars PROVE ClockInv'
    OBVIOUS
  <2>1. CASE UNCHANGED vars
    BY <2>1 DEF vars, ClockInv, Begun, Over
  <2>2. CASE Next
    <3>1. PICK r \in Request : Ticked(r)
      BY <2>2, TickNext DEF Next
    <3>2. QED
      BY <3>1, TickPaid
  <2>3. QED
    BY <2>1, <2>2
<1>3. Inv /\ ClockInv => TypeOK
  <2> SUFFICES ASSUME Inv, ClockInv PROVE TypeOK
    OBVIOUS
  <2>1. clock \in 0 .. MaxClock
    <3>1. Begun \subseteq Request /\ Over \subseteq Request
      BY DEF Begun, Over
    <3>2. /\ Cardinality(Begun) \in Nat /\ Cardinality(Over) \in Nat /\ Cardinality(Request) \in Nat
          /\ Cardinality(Begun) <= Cardinality(Request) /\ Cardinality(Over) <= Cardinality(Request)
      BY <3>1, FS_Subset, FS_CardinalityType
    <3>3. QED
      BY <3>2 DEF MaxClock, ClockInv, Inv, Shape
  <2>2. \A n \in Nat : n <= clock => n \in 0 .. MaxClock
    <3>1. MaxClock \in Nat
      BY FS_CardinalityType DEF MaxClock
    <3>2. QED
      BY <2>1, <3>1
  <2>3. devices \subseteq [device_id : Device, user_id : UserId,
                           updated_at : 0 .. MaxClock, by : Request \cup {None}]
    <3> SUFFICES ASSUME NEW x \in devices
                 PROVE  x \in [device_id : Device, user_id : UserId,
                               updated_at : 0 .. MaxClock, by : Request \cup {None}]
      OBVIOUS
    <3>1. x \in [device_id : Device, user_id : UserId, updated_at : Nat, by : Request \cup {None}]
      BY DEF Inv, Shape
    <3>2. x.updated_at \in 0 .. MaxClock
      BY <2>2, <3>1 DEF ClockInv
    <3> HIDE DEF MaxClock
    <3>3. QED
      BY <3>1, <3>2
  <2>4. ASSUME NEW r \in Request
        PROVE  req[r] \in [kind : Kinds \cup {None}, start : 0 .. MaxClock, end : 0 .. MaxClock,
                           step : {"ready", "open", "ok", "gone", "unauthorized", "error"},
                           identity : Identity \cup {None}, user : UserId \cup {None},
                           device : Device \cup {None}, is_first : BOOLEAN,
                           meant : UserId \cup {None}, reached : UserId \cup {None}]
    <3>1. req[r] \in ReqRecord
      BY DEF Inv, Shape
    <3>2. req[r].start \in 0 .. MaxClock /\ req[r].end \in 0 .. MaxClock
      BY <2>2, <3>1 DEF ClockInv, ReqRecord
    <3>3. QED
      BY <3>1, <3>2 DEF ReqRecord
  <2>5. QED
    BY <2>1, <2>3, <2>4 DEF TypeOK, Inv, Shape
<1>4. QED
  BY <1>1, <1>2, <1>3, AccountsInit, AccountsNext, PTL DEF Spec
-----------------------------------------------------------------------------
\* The device a push goes to and the user it reaches.

Pushes == {"background_push", "retry_push"}
Upserts == {"login", "register"}

\* s gave the device to the user after r had begun.
GaveAfter(s, device, user, r) ==
    req[s].step = "ok" /\ req[s].device = device /\ req[s].user = user /\ req[s].end > req[r].start

\* No request begins in the future; one that upserts has begun.
Times ==
    \A r \in Request :
        /\ req[r].start <= clock
        /\ req[r].kind \in Upserts /\ req[r].step = "open" => req[r].start > 0

\* A row tells who wrote it and when that request began.
RowsAreWritten ==
    \A x \in devices :
        IF x.by = None THEN x.updated_at = 0
        ELSE /\ req[x.by].step = "ok" /\ req[x.by].device = x.device_id
             /\ req[x.by].user = x.user_id /\ req[x.by].start = x.updated_at
             /\ 0 < req[x.by].start /\ req[x.by].start < req[x.by].end

\* The device of a push under way is nobody's, or that of whom the push is meant for,
\* or somebody got it since.
PushesAreRouted ==
    \A r \in Request : req[r].kind \in Pushes /\ req[r].step = "open" =>
        \A x \in devices : x.device_id = req[r].device /\ x.user_id # req[r].meant =>
            \E s \in Request : GaveAfter(s, x.device_id, x.user_id, r)

\* A request that is not over has reached nobody; who else was reached than the push
\* was meant for got the device in the meantime.
ReachedIsRouted ==
    \A r \in Request :
        /\ req[r].step # "ok" => req[r].reached = None
        /\ req[r].reached \notin {None, req[r].meant} =>
              \E s \in Request : GaveAfter(s, req[r].device, req[r].reached, r)

PushInv == Inv /\ Times /\ RowsAreWritten /\ PushesAreRouted /\ ReachedIsRouted

\* At the start nothing is under way and no row has a writer.
LEMMA PushInit == Init => PushInv
<1> SUFFICES ASSUME Init PROVE PushInv
  OBVIOUS
<1>1. Inv
  BY AccountsInit
<1>2. \A r \in Request : req[r] = Blank("ready")
  BY DEF Init
<1>3. \A r \in Request : req[r].start = 0 /\ req[r].kind = None /\ req[r].reached = None
  BY <1>2 DEF Blank
<1>4. None \notin Pushes \cup Upserts
  BY AccountsAssumption DEF Pushes, Upserts, Kinds
<1>5. \A x \in devices : x.by = None /\ x.updated_at = 0
  BY DEF Init
<1>6. clock = 0
  BY DEF Init
<1>7. Times /\ PushesAreRouted /\ ReachedIsRouted
  BY <1>3, <1>4, <1>6 DEF Times, PushesAreRouted, ReachedIsRouted
<1>8. RowsAreWritten
  BY <1>5 DEF RowsAreWritten
<1>9. QED
  BY <1>1, <1>7, <1>8 DEF PushInv

\* A step that changes the request r, which is not over, and writes no device.
LEMMA PushQuiet ==
    ASSUME PushInv, Inv', NEW r \in Request, NEW fields \in ReqRecord,
           req[r].step # "ok", req' = [req EXCEPT ![r] = fields],
           devices' \subseteq devices, clock' >= clock, clock' \in Nat,
           fields.start <= clock',
           fields.kind \in Upserts /\ fields.step = "open" => fields.start > 0,
           fields.kind \in Pushes /\ fields.step = "open" =>
              \A x \in devices : x.device_id = fields.device => x.user_id = fields.meant,
           fields.step # "ok" => fields.reached = None,
           fields.reached \notin {None, fields.meant} =>
              /\ fields.start = req[r].start
              /\ \E s \in Request : GaveAfter(s, fields.device, fields.reached, r)
    PROVE  PushInv'
<1>1. \A s \in Request : req'[s] = IF s = r THEN fields ELSE req[s]
  BY DEF PushInv, Inv, Shape
<1>2. Times'
  <2> SUFFICES ASSUME NEW s \in Request
               PROVE  /\ req'[s].start <= clock'
                      /\ req'[s].kind \in Upserts /\ req'[s].step = "open" => req'[s].start > 0
    BY DEF Times
  <2>1. CASE s = r
    BY <1>1, <2>1
  <2>2. CASE s # r
    <3>1. req'[s] = req[s]
      BY <1>1, <2>2
    <3>2. req[s].start \in Nat /\ clock \in Nat
      BY DEF PushInv, Inv, Shape, ReqRecord
    <3>3. QED
      BY <3>1, <3>2 DEF PushInv, Times
  <2>3. QED
    BY <2>1, <2>2
<1>3. RowsAreWritten'
  <2> SUFFICES ASSUME NEW x \in devices, x.by # None, x.by \in Request
               PROVE  req'[x.by] = req[x.by]
    BY DEF PushInv, RowsAreWritten, Inv, Shape
  <2>1. x.by # r
    BY DEF PushInv, RowsAreWritten
  <2>2. QED
    BY <1>1, <2>1
<1>4. PushesAreRouted'
  <2> SUFFICES ASSUME NEW q \in Request, req'[q].kind \in Pushes, req'[q].step = "open",
                      NEW x \in devices', x.device_id = req'[q].device, x.user_id # req'[q].meant
               PROVE  \E s \in Request : GaveAfter(s, x.device_id, x.user_id, q)'
    BY DEF PushesAreRouted
  <2>1. x \in devices
    OBVIOUS
  <2>2. q # r
    <3>1. CASE q = r
      <4>1. fields.kind \in Pushes /\ fields.step = "open" /\ x.device_id = fields.device
            /\ x.user_id # fields.meant
        BY <1>1, <3>1
      <4>2. QED
        BY <2>1, <4>1
    <3>2. QED
      BY <3>1
  <2>3. req'[q] = req[q]
    BY <1>1, <2>2
  <2>4. PICK s \in Request : GaveAfter(s, x.device_id, x.user_id, q)
    BY <2>1, <2>3 DEF PushInv, PushesAreRouted
  <2>5. GaveAfter(s, x.device_id, x.user_id, q)'
    BY <1>1, <2>2, <2>4 DEF GaveAfter
  <2>6. QED
    BY <2>5
<1>5. ReachedIsRouted'
  <2> SUFFICES ASSUME NEW q \in Request
               PROVE  /\ req'[q].step # "ok" => req'[q].reached = None
                      /\ req'[q].reached \notin {None, req'[q].meant} =>
                            \E s \in Request : GaveAfter(s, req[q].device, req[q].reached, q)'
    BY DEF ReachedIsRouted
  <2>1. CASE q # r
    <3>1. req'[q] = req[q]
      BY <1>1, <2>1
    <3>2. ASSUME req[q].reached \notin {None, req[q].meant}
          PROVE  \E s \in Request : GaveAfter(s, req[q].device, req[q].reached, q)'
      <4>1. PICK s \in Request : GaveAfter(s, req[q].device, req[q].reached, q)
        BY <3>2 DEF PushInv, ReachedIsRouted
      <4>2. GaveAfter(s, req[q].device, req[q].reached, q)'
        BY <1>1, <2>1, <3>1, <4>1 DEF GaveAfter
      <4>3. QED
        BY <4>2
    <3>3. QED
      BY <3>1, <3>2 DEF PushInv, ReachedIsRouted
  <2>2. CASE q = r
    <3>1. req'[q] = fields
      BY <1>1, <2>2
    <3>2. ASSUME fields.reached \notin {None, fields.meant}
          PROVE  \E s \in Request : GaveAfter(s, fields.device, fields.reached, q)'
      <4>1. PICK s \in Request : GaveAfter(s, fields.device, fields.reached, r)
        BY <3>2
      <4>2. s # r
        BY <4>1 DEF GaveAfter
      <4>3. GaveAfter(s, fields.device, fields.reached, q)'
        BY <1>1, <2>2, <3>1, <3>2, <4>1, <4>2 DEF GaveAfter
      <4>4. QED
        BY <4>3
    <3>3. QED
      BY <3>1, <3>2
  <2>3. QED
    BY <2>1, <2>2
<1>6. QED
  BY <1>2, <1>3, <1>4, <1>5 DEF PushInv

\* The request r commits with an upsert of its device.
LEMMA PushUpsert ==
    ASSUME PushInv, Inv', NEW r \in Request, NEW fields \in ReqRecord,
           req[r].step = "open", req[r].kind \in Upserts,
           fields.kind = req[r].kind, fields.start = req[r].start, fields.device = req[r].device,
           fields.reached = req[r].reached, fields.user \in UserId,
           Upsert(r, req[r].device, fields.user), Commit(r, fields)
    PROVE  PushInv'
<1> DEFINE new == [device_id |-> req[r].device, user_id |-> fields.user,
                   updated_at |-> req[r].start, by |-> r]
           done == [fields EXCEPT !.step = "ok", !.end = clock + 1]
<1>1. clock' = clock + 1 /\ clock \in Nat /\ req[r] \in ReqRecord /\ req[r].start \in Nat
  BY DEF Commit, PushInv, Inv, Shape, ReqRecord
<1>2. \A s \in Request : req'[s] = IF s = r THEN done ELSE req[s]
  BY DEF Commit, PushInv, Inv, Shape
<1>3. /\ done.step = "ok" /\ done.kind \in Upserts /\ done.start = req[r].start
      /\ done.device = req[r].device /\ done.user = fields.user /\ done.end = clock + 1
      /\ done.reached = None
  BY <1>1 DEF ReqRecord, PushInv, ReachedIsRouted
<1>4. devices' = {x \in devices : x.device_id # req[r].device} \cup {new}
  BY DEF Upsert
<1>5. /\ new.device_id = req[r].device /\ new.user_id = fields.user
      /\ new.updated_at = req[r].start /\ new.by = r
  OBVIOUS
<1>6. req[r].start > 0 /\ req[r].start <= clock
  BY DEF PushInv, Times
<1>7. r # None
  BY AccountsAssumption
<1> HIDE DEF new, done
<1>8. \A d, u : \A s, q \in Request : q # r /\ GaveAfter(s, d, u, q) => GaveAfter(s, d, u, q)'
  BY <1>2 DEF GaveAfter
<1>9. Times'
  <2> SUFFICES ASSUME NEW s \in Request
               PROVE  /\ req'[s].start <= clock'
                      /\ req'[s].kind \in Upserts /\ req'[s].step = "open" => req'[s].start > 0
    BY DEF Times
  <2>1. CASE s = r
    BY <1>1, <1>2, <1>3, <1>6, <2>1
  <2>2. CASE s # r
    <3>1. req'[s] = req[s] /\ req[s].start \in Nat
      BY <1>2, <2>2 DEF PushInv, Inv, Shape, ReqRecord
    <3>2. QED
      BY <1>1, <3>1 DEF PushInv, Times
  <2>3. QED
    BY <2>1, <2>2
<1>10. RowsAreWritten'
  <2>1. ASSUME NEW x \in devices, x.by # None
        PROVE  x.by # r /\ x.by \in Request
    BY <2>1 DEF PushInv, RowsAreWritten, Inv, Shape
  <2>2. \A x \in devices : x.by # None => req'[x.by] = req[x.by]
    BY <1>2, <2>1
  <2>3. 0 < req'[r].start /\ req'[r].start < req'[r].end
    BY <1>1, <1>2, <1>3, <1>6
  <2>4. req'[r] = done
    BY <1>2
  <2> SUFFICES ASSUME NEW x \in devices'
               PROVE  IF x.by = None THEN x.updated_at = 0
                      ELSE /\ req'[x.by].step = "ok" /\ req'[x.by].device = x.device_id
                           /\ req'[x.by].user = x.user_id /\ req'[x.by].start = x.updated_at
                           /\ 0 < req'[x.by].start /\ req'[x.by].start < req'[x.by].end
    BY DEF RowsAreWritten
  <2>5. CASE x = new
    BY <1>3, <1>5, <1>7, <2>3, <2>4, <2>5
  <2>6. CASE x \in devices
    BY <2>2, <2>6 DEF PushInv, RowsAreWritten
  <2>7. QED
    BY <1>4, <2>5, <2>6
<1>11. PushesAreRouted'
  <2> SUFFICES ASSUME NEW q \in Request, req'[q].kind \in Pushes, req'[q].step = "open",
                      NEW x \in devices', x.device_id = req'[q].device, x.user_id # req'[q].meant
               PROVE  \E s \in Request : GaveAfter(s, x.device_id, x.user_id, q)'
    BY DEF PushesAreRouted
  <2>1. q # r /\ req'[q] = req[q]
    BY <1>2, <1>3
  <2>2. CASE x = new
    <3>1. req[q].start \in Nat /\ req[q].start <= clock
      BY DEF PushInv, Inv, Shape, ReqRecord, Times
    <3>2. GaveAfter(r, x.device_id, x.user_id, q)'
      BY <1>1, <1>2, <1>3, <1>5, <2>1, <2>2, <3>1 DEF GaveAfter
    <3>3. QED
      BY <3>2
  <2>3. CASE x \in devices
    <3>1. \E s \in Request : GaveAfter(s, x.device_id, x.user_id, q)
      BY <2>1, <2>3 DEF PushInv, PushesAreRouted
    <3>2. QED
      BY <1>8, <2>1, <3>1
  <2>4. QED
    BY <1>4, <2>2, <2>3
<1>12. ReachedIsRouted'
  <2> SUFFICES ASSUME NEW q \in Request
               PROVE  /\ req'[q].step # "ok" => req'[q].reached = None
                      /\ req'[q].reached \notin {None, req'[q].meant} =>
                            \E s \in Request : GaveAfter(s, req[q].device, req[q].reached, q)'
    BY DEF ReachedIsRouted
  <2>1. CASE q # r
    BY <1>2, <1>8, <2>1 DEF PushInv, ReachedIsRouted
  <2>2. CASE q = r
    BY <1>2, <1>3, <2>2
  <2>3. QED
    BY <2>1, <2>2
<1>13. QED
  BY <1>9, <1>10, <1>11, <1>12 DEF PushInv

\* A request begins.  A push begins with a device of whom it is meant for, or of nobody.
LEMMA PushBegin ==
    ASSUME PushInv, Inv', NEW r \in Request, NEW fields, Begin(r, fields),
           fields.start = clock + 1, fields.reached = req[r].reached, fields.step = "open",
           fields.kind \in Pushes =>
              \A x \in devices : x.device_id = fields.device => x.user_id = fields.meant
    PROVE  PushInv'
<1>1. /\ req[r].step = "ready" /\ req' = [req EXCEPT ![r] = fields]
      /\ devices' = devices /\ clock' = clock + 1
  BY DEF Begin
<1>2. fields \in ReqRecord /\ clock \in Nat
  <2>1. req'[r] = fields /\ req'[r] \in ReqRecord
    BY <1>1 DEF PushInv, Inv, Shape
  <2>2. QED
    BY <2>1 DEF PushInv, Inv, Shape
<1>3. req[r].reached = None
  BY <1>1 DEF PushInv, ReachedIsRouted
<1>4. /\ clock' \in Nat /\ clock' >= clock /\ fields.start <= clock' /\ fields.start > 0
  BY <1>1, <1>2
<1>5. QED
  BY <1>1, <1>2, <1>3, <1>4, PushQuiet

\* A request ends, and nothing is kept of it.
LEMMA PushBlank ==
    ASSUME PushInv, Inv', NEW r \in Request,
           NEW step \in {"ready", "ok", "gone", "unauthorized", "error"},
           req[r].step # "ok", req' = [req EXCEPT ![r] = Blank(step)],
           devices' \subseteq devices, UNCHANGED clock
    PROVE  PushInv'
<1>1. /\ Blank(step).start = 0 /\ Blank(step).kind = None /\ Blank(step).reached = None
      /\ Blank(step).step # "open"
  BY DEF Blank
<1>2. Blank(step) \in ReqRecord /\ clock \in Nat
  BY BlankIsHarmless DEF Harmless, PushInv, Inv, Shape
<1>3. clock' \in Nat /\ clock' >= clock /\ Blank(step).start <= clock'
  BY <1>1, <1>2
<1> DEFINE fields == Blank(step)
<1>4. /\ fields.start <= clock' /\ fields.reached = None /\ fields.step # "open"
      /\ fields \in ReqRecord /\ req' = [req EXCEPT ![r] = fields]
  BY <1>1, <1>2, <1>3
<1> HIDE DEF fields
<1>5. QED
  BY <1>3, <1>4, PushQuiet

\* The push goes out, to whoever has the device by now.
LEMMA PushSend ==
    ASSUME PushInv, Inv', NEW r \in Request, SendSilentNotification(r)
    PROVE  PushInv'
<1>0. PICK owner \in TokenOwner(req[r].device) : \E u \in Delivered(owner) :
         req' = [req EXCEPT ![r] = [req[r] EXCEPT !.step = "ok", !.reached = u]]
  BY DEF SendSilentNotification
<1>1. PICK u \in Delivered(owner) :
         req' = [req EXCEPT ![r] = [req[r] EXCEPT !.step = "ok", !.reached = u]]
  BY <1>0
<1> DEFINE fields == [req[r] EXCEPT !.step = "ok", !.reached = u]
<1>2. /\ req[r].kind \in Pushes /\ req[r].step = "open"
      /\ devices' = devices /\ clock' = clock /\ req[r] \in ReqRecord /\ clock \in Nat
  BY DEF SendSilentNotification, Pushes, PushInv, Inv, Shape
<1>3. /\ fields.step = "ok" /\ fields.reached = u /\ fields.start = req[r].start
      /\ fields.device = req[r].device /\ fields.meant = req[r].meant
  BY <1>2 DEF ReqRecord
<1>4. req' = [req EXCEPT ![r] = fields]
  BY <1>1
<1> HIDE DEF fields
<1>5. fields \in ReqRecord
  BY <1>4 DEF PushInv, Inv, Shape
<1>6. u = None \/ \E x \in devices : x.device_id = req[r].device /\ x.user_id = u
  BY DEF TokenOwner, Delivered
<1>7. u \notin {None, req[r].meant} =>
         \E s \in Request : GaveAfter(s, req[r].device, u, r)
  BY <1>2, <1>6 DEF PushInv, PushesAreRouted
<1>8. fields.start <= clock'
  BY <1>2, <1>3 DEF PushInv, Times
<1>9. clock' \in Nat /\ clock' >= clock
  BY <1>2
<1>10. QED
  BY <1>2, <1>3, <1>4, <1>5, <1>7, <1>8, <1>9, PushQuiet

\* The account goes, or rather is about to.
LEMMA PushBeginLeave ==
    ASSUME PushInv, Inv', NEW r \in Request, NEW id, BeginLeave(r, id)
    PROVE  PushInv'
<1> DEFINE fields == [req[r] EXCEPT !.kind = "leave", !.step = "open", !.user = id]
<1>1. /\ req[r].step = "ready" /\ req' = [req EXCEPT ![r] = fields]
      /\ devices' = devices /\ clock' = clock /\ req[r] \in ReqRecord /\ clock \in Nat
  BY DEF BeginLeave, PushInv, Inv, Shape
<1>2. /\ fields.kind = "leave" /\ fields.start = req[r].start /\ fields.reached = req[r].reached
  BY <1>1 DEF ReqRecord
<1> HIDE DEF fields
<1>3. fields \in ReqRecord
  BY <1>1 DEF PushInv, Inv, Shape
<1>4. fields.kind \notin Pushes \cup Upserts
  BY <1>2 DEF Pushes, Upserts
<1>5. fields.reached = None /\ fields.start <= clock'
  BY <1>1, <1>2 DEF PushInv, ReachedIsRouted, Times
<1>6. clock' \in Nat /\ clock' >= clock
  BY <1>1
<1>7. QED
  BY <1>1, <1>3, <1>4, <1>5, <1>6, PushQuiet

\* A request that opens with Opened begins in the sense of PushBegin.
LEMMA PushOpens ==
    ASSUME PushInv, Inv', NEW r \in Request, NEW k, NEW id, NEW d, NEW m, NEW fields,
           IsOpenedWith(fields, r, k, id, d, m), Begin(r, fields),
           k \in Pushes =>
              /\ fields.meant = m
              /\ \A x \in devices : x.device_id = d => x.user_id = m
    PROVE  PushInv'
<1>1. req[r] \in ReqRecord
  BY DEF PushInv, Inv, Shape
<1>2. /\ fields.start = clock + 1 /\ fields.reached = req[r].reached /\ fields.step = "open"
      /\ fields.kind = k /\ fields.device = d
  BY <1>1 DEF IsOpenedWith, Opened, ReqRecord
<1>3. QED
  BY <1>2, PushBegin

\* A retry begins with a device of its user, or with none.
LEMMA PushRetry ==
    ASSUME PushInv, Inv', NEW r \in Request, NEW id, DispatchRetry(r, id)
    PROVE  PushInv'
<1>1. PICK d \in IF DeviceForUser(id) = {} THEN {None} ELSE DeviceForUser(id) :
         Begin(r, [Opened(r, "retry_push") EXCEPT !.user = id, !.device = d, !.meant = id])
  BY DEF DispatchRetry
<1>2. d = None \/ \E y \in devices : y.user_id = id /\ y.device_id = d
  BY DEF DeviceForUser, DevicesOf
<1>3. \A x \in devices : x.device_id = d => x.user_id = id
  BY <1>2, AccountsAssumption DEF PushInv, Inv, Shape, DeviceHasOneLivingOwner
<1> DEFINE fields == [Opened(r, "retry_push") EXCEPT !.user = id, !.device = d, !.meant = id]
<1>4. req[r] \in ReqRecord
  BY DEF PushInv, Inv, Shape
<1>5. fields.meant = id /\ IsOpenedWith(fields, r, "retry_push", id, d, id)
  BY <1>4 DEF IsOpenedWith, Opened, ReqRecord
<1>6. Begin(r, fields)
  BY <1>1
<1> HIDE DEF fields
<1>7. QED
  BY <1>3, <1>5, <1>6, PushOpens

\* A background run begins with whatever device the upload names.
LEMMA PushBackground ==
    ASSUME PushInv, Inv', NEW r \in Request, NEW id, NEW d, StartBackground(r, id, d)
    PROVE  PushInv'
<1> DEFINE fields ==
      [Opened(r, "background_push") EXCEPT !.user = id, !.device = d, !.meant = HolderOf(d)]
<1>1. Begin(r, fields)
  BY DEF StartBackground
<1>2. req[r] \in ReqRecord
  BY DEF PushInv, Inv, Shape
<1>3. /\ fields.meant = HolderOf(d)
      /\ IsOpenedWith(fields, r, "background_push", id, d, HolderOf(d))
  BY <1>2 DEF IsOpenedWith, Opened, ReqRecord
<1>4. \A x \in devices : x.device_id = d => x.user_id = HolderOf(d)
  BY DEF HolderOf, PushInv, Inv, DeviceHasOneLivingOwner
<1> HIDE DEF fields
<1>5. QED
  BY <1>1, <1>3, <1>4, PushOpens

\* The same of a login.
LEMMA PushIdentified ==
    ASSUME PushInv, Inv', NEW r \in Request, NEW i, NEW d, Identified(r, i, d)
    PROVE  PushInv'
<1> DEFINE fields == [Opened(r, "login") EXCEPT !.identity = i, !.user = UserOf(i), !.device = d]
<1>1. req[r] \in ReqRecord
  BY DEF PushInv, Inv, Shape
<1>2. /\ fields.start = clock + 1 /\ fields.reached = req[r].reached /\ fields.step = "open"
      /\ fields.kind = "login"
  BY <1>1 DEF Opened, ReqRecord
<1>3. Begin(r, fields) /\ "login" \notin Pushes
  BY DEF Identified, Pushes
<1> HIDE DEF fields
<1>4. QED
  BY <1>2, <1>3, PushBegin

\* The three commits that give a device to somebody.
LEMMA PushCommits ==
    ASSUME PushInv, Inv', NEW r \in Request,
           CommitRegister(r) \/ CreateUser(r) \/ UpdateLastLogin(r)
    PROVE  PushInv'
<1>0. req[r] \in ReqRecord
  BY DEF PushInv, Inv, Shape
<1>1. CASE CommitRegister(r) \/ UpdateLastLogin(r)
  <2>1. /\ req[r].kind \in Upserts /\ req[r].step = "open" /\ Exists(req[r].user)
        /\ Upsert(r, req[r].device, req[r].user) /\ Commit(r, req[r])
    BY <1>1 DEF CommitRegister, UpdateLastLogin, Upserts
  <2>2. req[r].user \in UserId
    BY <2>1 DEF PushInv, Inv, Shape, Exists
  <2>3. QED
    BY <1>0, <2>1, <2>2, PushUpsert
<1>2. CASE CreateUser(r)
  <2> DEFINE fields == [req[r] EXCEPT !.user = r, !.is_first = TRUE]
  <2>1. /\ req[r].kind \in Upserts /\ req[r].step = "open"
        /\ Upsert(r, req[r].device, r) /\ Commit(r, fields)
    BY <1>2 DEF CreateUser, Upserts
  <2>2. /\ fields \in ReqRecord /\ fields.kind = req[r].kind /\ fields.start = req[r].start
        /\ fields.device = req[r].device /\ fields.reached = req[r].reached /\ fields.user = r
        /\ r \in UserId
    BY <1>0 DEF ReqRecord, UserId
  <2> HIDE DEF fields
  <2>3. QED
    BY <2>1, <2>2, PushUpsert
<1>3. QED
  BY <1>1, <1>2

\* Every step keeps PushInv.
LEMMA PushNext == PushInv /\ [Next]_vars => PushInv'
<1> SUFFICES ASSUME PushInv, [Next]_vars PROVE PushInv'
  OBVIOUS
<1>0. Inv /\ Inv'
  BY AccountsNext DEF PushInv
<1>1. ASSUME NEW r \in Request, NEW id,
             \/ VerifyToken(r, id) \/ GetMe(r, id) \/ BeginLeave(r, id) \/ DispatchRetry(r, id)
             \/ \E d \in Device : BeginRegister(r, id, d) \/ StartBackground(r, id, d)
      PROVE  PushInv'
  <2>1. CASE VerifyToken(r, id) \/ GetMe(r, id)
    <3>1. PICK step \in {"ok", "gone", "unauthorized"} : Answer(r, step)
      BY <2>1 DEF VerifyToken, GetMe
    <3>2. /\ req[r].step # "ok" /\ req' = [req EXCEPT ![r] = Blank(step)]
          /\ devices' \subseteq devices /\ UNCHANGED clock
      BY <3>1 DEF Answer
    <3>3. QED
      BY <1>0, <3>1, <3>2, PushBlank
  <2>2. CASE BeginLeave(r, id)
    BY <1>0, <2>2, PushBeginLeave
  <2>3. CASE DispatchRetry(r, id)
    BY <1>0, <2>3, PushRetry
  <2>4. ASSUME NEW d \in Device, BeginRegister(r, id, d) PROVE PushInv'
    <3>1. "register" \notin Pushes
      BY DEF Pushes
    <3>2. QED
      BY <1>0, <2>4, <3>1, PushOpens DEF BeginRegister, IsOpenedWith
  <2>5. ASSUME NEW d \in Device, StartBackground(r, id, d) PROVE PushInv'
    BY <1>0, <2>5, PushBackground
  <2>6. QED
    BY <1>1, <2>1, <2>2, <2>3, <2>4, <2>5
<1>2. ASSUME NEW r \in Request, NEW i \in Identity,
             RefuseLogin(r, i) \/ \E d \in Device : BeginLogin(r, i, d) \/ BeginDevLogin(r, i, d)
      PROVE  PushInv'
  <2>1. CASE RefuseLogin(r, i)
    <3>1. /\ req[r].step # "ok" /\ req' = [req EXCEPT ![r] = Blank("unauthorized")]
          /\ devices' \subseteq devices /\ UNCHANGED clock
      BY <2>1 DEF RefuseLogin, Answer
    <3>2. QED
      BY <1>0, <3>1, PushBlank
  <2>2. ASSUME NEW d \in Device, BeginLogin(r, i, d) PROVE PushInv'
    BY <1>0, <2>2, PushIdentified DEF BeginLogin
  <2>3. ASSUME NEW d \in Device, BeginDevLogin(r, i, d) PROVE PushInv'
    BY <1>0, <2>3, PushIdentified DEF BeginDevLogin
  <2>4. QED
    BY <1>2, <2>1, <2>2, <2>3
<1>3. ASSUME NEW r \in Request, CommitRegister(r) \/ CreateUser(r) \/ UpdateLastLogin(r)
      PROVE  PushInv'
  BY <1>0, <1>3, PushCommits
<1>4. ASSUME NEW r \in Request, CommitLeave(r) \/ Fail(r) PROVE PushInv'
  <2>1. PICK step \in {"ok", "error"} :
          /\ req[r].step # "ok" /\ req' = [req EXCEPT ![r] = Blank(step)]
          /\ devices' \subseteq devices /\ UNCHANGED clock
    BY <1>4 DEF CommitLeave, Fail
  <2>2. QED
    BY <1>0, <2>1, PushBlank
<1>5. ASSUME NEW r \in Request, SendSilentNotification(r) PROVE PushInv'
  BY <1>0, <1>5, PushSend
<1>6. CASE UNCHANGED vars
  BY <1>0, <1>6 DEF vars, PushInv, Times, RowsAreWritten, PushesAreRouted, ReachedIsRouted, GaveAfter
<1>7. QED
  BY <1>1, <1>2, <1>3, <1>4, <1>5, <1>6 DEF Next

\* Whatever overlaps, a push reaches whom it was meant for, the owner of the device that
\* it began with, or whoever got the device while the analysis ran: _get_device_token,
\* get_device_id_for_user, upsert_device.
THEOREM PushReachesOwnerAlways == Spec => []PushReachesOwner
<1>1. PushInv => PushReachesOwner
  BY DEF PushInv, ReachedIsRouted, GaveAfter, PushReachesOwner
<1>2. QED
  BY <1>1, PushInit, PushNext, PTL DEF Spec

\* Whatever overlaps, a retry chooses the device its user registered last, or one
\* whose registration overlapped the last: get_device_id_for_user.
THEOREM RetryTakesLatestDeviceAlways == Spec => []RetryTakesLatestDevice
<1>1. PushInv => RetryTakesLatestDevice
  <2> SUFFICES ASSUME PushInv, NEW id \in UserId, NEW x \in DevicesOf(id), NEW y \in DevicesOf(id),
                      x.device_id \in DeviceForUser(id), Committed(y) > Committed(x)
               PROVE  req[y.by].start < Committed(x)
    BY DEF RetryTakesLatestDevice
  <2>1. x \in devices /\ y \in devices
    BY DEF DevicesOf
  <2>2. PICK z \in DevicesOf(id) :
          z.device_id = x.device_id /\ \A w \in DevicesOf(id) : w.updated_at <= z.updated_at
    BY DEF DeviceForUser
  <2>3. z = x
    BY <2>1, <2>2 DEF DevicesOf, PushInv, Inv, DeviceHasOneLivingOwner
  <2>4. y.updated_at <= x.updated_at
    BY <2>2, <2>3
  <2>5. /\ \A w \in devices : w.by # None => w.by \in Request
        /\ \A r \in Request : req[r].start \in Nat /\ req[r].end \in Nat
    BY DEF PushInv, Inv, Shape, ReqRecord
  <2>6. CASE y.by = None
    <3>1. Committed(y) = 0
      BY <2>6 DEF Committed
    <3>2. Committed(x) \in Nat
      BY <2>1, <2>5 DEF Committed
    <3>3. QED
      BY <3>1, <3>2
  <2>7. CASE y.by # None
    <3>1. req[y.by].start = y.updated_at /\ 0 < req[y.by].start /\ y.by \in Request
      BY <2>1, <2>5, <2>7 DEF PushInv, RowsAreWritten
    <3>2. x.by # None
      <4>1. x.by = None => x.updated_at = 0
        BY <2>1 DEF PushInv, RowsAreWritten
      <4>2. QED
        BY <2>4, <2>5, <3>1, <4>1
    <3>3. /\ req[x.by].start = x.updated_at /\ req[x.by].start < req[x.by].end
          /\ x.by \in Request
      BY <2>1, <2>5, <3>2 DEF PushInv, RowsAreWritten
    <3>4. Committed(x) = req[x.by].end
      BY <3>2 DEF Committed
    <3>5. QED
      BY <2>4, <2>5, <3>1, <3>3, <3>4
  <2>8. QED
    BY <2>6, <2>7
<1>2. QED
  BY <1>1, PushInit, PushNext, PTL DEF Spec
=============================================================================
