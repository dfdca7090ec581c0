------------------------------ MODULE Accounts ------------------------------
(***************************************************************************)
(* Accounts and devices: login with a provider's token, registration of a  *)
(* device, DELETE /users/me, and the choice of the device a push goes to.  *)
(*                                                                         *)
(* Each request is one transaction.  It reads, and later it writes and     *)
(* commits: its locks keep every conflicting write out in between, so      *)
(* these two are one step.  now() is the start of the transaction, not its *)
(* commit: one clock counts both, where a property compares them.          *)
(*                                                                         *)
(* A user created by a login has that request for its id, a user of before *)
(* its identity: ids are fresh UUIDs, and never used twice.                *)
(***************************************************************************)
EXTENDS FiniteSets, Integers

CONSTANTS
    Request,      \* requests and pushes, each made at most once
    Identity,     \* pairs <<provider, provider_user_id>>
    Email, EmailOf,   \* the e-mail address a provider tells of an identity
    Device,       \* device ids
    None          \* no user, no device

Kinds == {"login", "register", "leave", "background_push", "retry_push"}

ASSUME AccountsAssumption ==
    /\ EmailOf \in [Identity -> Email]
    /\ \A i \in Identity : i[1] \in {"apple", "google", "dev"}
    /\ Request \cap Identity = {} /\ None \notin Request \cup Identity \cup Device \cup Kinds

VARIABLES
    users,        \* rows of users
    devices,      \* rows of devices
    req,          \* what each request is, has read and has answered; of a push also, for
                  \* the properties, whom it was meant for and whom it reached
    clock         \* starts and commits so far that somebody may ask for

vars == <<users, devices, req, clock>>

UserId == Request \cup Identity
MaxClock == 2 * Cardinality(Request)

TypeOK ==
    /\ users \subseteq [id : UserId, identity : Identity]
    /\ devices \subseteq [device_id : Device, user_id : UserId,
                          updated_at : 0 .. MaxClock, by : Request \cup {None}]
    /\ req \in [Request -> [kind : Kinds \cup {None}, start : 0 .. MaxClock, end : 0 .. MaxClock,
                            step : {"ready", "open", "ok", "gone", "unauthorized", "error"},
                            identity : Identity \cup {None}, user : UserId \cup {None},
                            device : Device \cup {None}, is_first : BOOLEAN,
                            meant : UserId \cup {None}, reached : UserId \cup {None}]]
    /\ clock \in 0 .. MaxClock

\* A request that is not begun, or over with nothing to remember.
Blank(step) ==
    [kind |-> None, start |-> 0, end |-> 0, step |-> step, identity |-> None, user |-> None,
     device |-> None, is_first |-> FALSE, meant |-> None, reached |-> None]

\* Any accounts and devices that earlier requests can have left.
Init ==
    /\ \E S \in SUBSET Identity :
          /\ \A i, j \in S : EmailOf[i] = EmailOf[j] => i = j
          /\ users = {[id |-> i, identity |-> i] : i \in S}
          /\ \E owner \in [Device -> S \cup {None}] :
                devices = {[device_id |-> d, user_id |-> owner[d], updated_at |-> 0, by |-> None] :
                           d \in {e \in Device : owner[e] # None}}
    /\ req = [r \in Request |-> Blank("ready")]
    /\ clock = 0
-----------------------------------------------------------------------------
\* The tokens of verify_oauth_token: who issued one, for which client, whether
\* signature and expiry hold, and which claims it has.

Tokens == [issuer : {"apple", "google", "firebase"}, ours : BOOLEAN, genuine : BOOLEAN,
           claims : SUBSET {"sub", "user_id", "email"}]

\* The tokens each check lets through, whatever the login says about itself.
VerifiedByApple(token) ==
    token.issuer = "apple" /\ token.genuine /\ token.ours /\ {"sub", "email"} \subseteq token.claims

VerifiedByGoogle(token) ==
    token.issuer = "google" /\ token.genuine /\ token.ours /\ {"sub", "email"} \subseteq token.claims

\* Of Firebase also one that names the user in user_id only.
VerifiedByFirebase(token) ==
    /\ token.issuer = "firebase" /\ token.genuine /\ token.ours
    /\ "email" \in token.claims /\ token.claims \cap {"sub", "user_id"} # {}

\* verify_google_token: a Google login takes tokens of Firebase too.
Verified(provider, token) ==
    \/ provider = "apple" /\ VerifiedByApple(token)
    \/ provider = "google" /\ (VerifiedByFirebase(token) \/ VerifiedByGoogle(token))

\* The user ids an access token may name: of every account there has been.  No
\* token is ever taken back, and get_current_user_id asks no database.
Authenticated ==
    Identity \cup {req[r].user : r \in {q \in Request :
                       req[q].kind = "login" /\ req[q].step = "ok"}}

Exists(id) == \E u \in users : u.id = id

Opened(r, k) == [req[r] EXCEPT !.kind = k, !.start = clock + 1, !.step = "open"]

Begin(r, fields) ==
    /\ req[r].step = "ready"
    /\ req' = [req EXCEPT ![r] = fields]
    /\ clock' = clock + 1
    /\ UNCHANGED <<users, devices>>

Commit(r, fields) ==
    /\ req' = [req EXCEPT ![r] = [fields EXCEPT !.step = "ok", !.end = clock + 1]]
    /\ clock' = clock + 1

\* A request that only reads, or is refused.
Answer(r, step) ==
    /\ req[r].step = "ready"
    /\ req' = [req EXCEPT ![r] = Blank(step)]
    /\ UNCHANGED <<users, devices, clock>>

\* The request is rolled back: a broken constraint, a vanished row, a deadlock, a
\* lost connection, a crash.
Fail(r) ==
    /\ req[r].step = "open"
    /\ req' = [req EXCEPT ![r] = Blank("error")]
    /\ UNCHANGED <<users, devices, clock>>
-----------------------------------------------------------------------------
\* upsert_device: one live row for each device id; it changes hands.

\* Faulty: set_ leaves updated_at out.
Upsert_KeepsTime(r, d, id) ==
    LET old == {x \in devices : x.device_id = d}
    IN  devices' = (devices \ old) \cup
            {[device_id |-> d, user_id |-> id, by |-> r,
              updated_at |-> IF old = {} THEN req[r].start ELSE (CHOOSE x \in old : TRUE).updated_at]}

Upsert(r, d, id) ==
    devices' = {x \in devices : x.device_id # d} \cup
        {[device_id |-> d, user_id |-> id, updated_at |-> req[r].start, by |-> r]}

\* Faulty: without a check of its own, the device of a vanished user is kept.
CommitRegister_NoForeignKey(r) ==
    /\ req[r].kind = "register" /\ req[r].step = "open"
    /\ Upsert(r, req[r].device, req[r].user)
    /\ UNCHANGED users
    /\ Commit(r, req[r])

\* POST /members/me/device.  A user who is gone breaks the foreign key.
BeginRegister(r, id, d) ==
    /\ id \in Authenticated
    /\ Begin(r, [Opened(r, "register") EXCEPT !.user = id, !.device = d])

CommitRegister(r) ==
    /\ req[r].kind = "register" /\ req[r].step = "open" /\ Exists(req[r].user)
    /\ Upsert(r, req[r].device, req[r].user)
    /\ UNCHANGED users
    /\ Commit(r, req[r])
-----------------------------------------------------------------------------
\* POST /auth/login and POST /auth/dev/login.

\* verify_oauth_token: the identities a login of i may end up with, None if its
\* token has no sub.
LoginIdentities(i) ==
    {IF "sub" \in token.claims THEN i ELSE None : token \in {t \in Tokens : Verified(i[1], t)}}

\* The user with the identity, or None.
UserOf(i) ==
    IF \E u \in users : u.identity = i THEN (CHOOSE u \in users : u.identity = i).id ELSE None

Identified(r, i, d) ==
    Begin(r, [Opened(r, "login") EXCEPT !.identity = i, !.user = UserOf(i), !.device = d])

BeginLogin(r, i, d) == \E verified \in LoginIdentities(i) : Identified(r, verified, d)

\* dev_login takes an address for a token; the server runs with DEBUG.
BeginDevLogin(r, i, d) == i[1] = "dev" /\ Identified(r, i, d)

\* A token that does not verify: 401, before the database is asked.
RefuseLogin(r, i) == i[1] # "dev" /\ Answer(r, "unauthorized")

\* Faulty: no constraint on provider and provider_user_id, nor on email.
FreeIdentity_Always(i) == i # None

\* Faulty: provider_user_id may be null.
FreeIdentity_NullSub(i) ==
    \A u \in users : u.identity # i /\ (i = None \/ EmailOf[u.identity] # EmailOf[i])

\* A new user: provider_user_id is not null, and neither it nor the address is
\* in use.
FreeIdentity(i) ==
    i # None /\ \A u \in users : u.identity # i /\ EmailOf[u.identity] # EmailOf[i]

\* Faulty: an INSERT that meets an existing account goes on with that account.
CreateUser_OnConflict(r) ==
    LET q == req[r]
        id == IF UserOf(q.identity) = None THEN r ELSE UserOf(q.identity)
    IN  /\ q.kind = "login" /\ q.step = "open" /\ q.user = None /\ q.identity # None
        /\ users' = users \cup {[id |-> id, identity |-> q.identity]}
        /\ Upsert(r, q.device, id)
        /\ Commit(r, [q EXCEPT !.user = id, !.is_first = TRUE])

\* The login, or login_dev, found no user: it inserts one, then the device.
CreateUser(r) ==
    LET q == req[r]
    IN  /\ q.kind = "login" /\ q.step = "open" /\ q.user = None /\ FreeIdentity(q.identity)
        /\ users' = users \cup {[id |-> r, identity |-> q.identity]}
        /\ Upsert(r, q.device, r)
        /\ Commit(r, [q EXCEPT !.user = r, !.is_first = TRUE])

\* The login, or login_dev, found its user and updates last_login_at, which fails when the row
\* is gone by now.
UpdateLastLogin(r) ==
    LET q == req[r]
    IN  /\ q.kind = "login" /\ q.step = "open" /\ q.user # None /\ Exists(q.user)
        /\ Upsert(r, q.device, q.user)
        /\ UNCHANGED users
        /\ Commit(r, q)
-----------------------------------------------------------------------------
\* GET /auth/verify and GET /users/me look the user up; DELETE /users/me deletes it.

VerifyToken(r, id) ==
    /\ id \in Authenticated
    /\ Answer(r, IF Exists(id) THEN "ok" ELSE "unauthorized")

GetMe(r, id) ==
    /\ id \in Authenticated
    /\ Answer(r, IF Exists(id) THEN "ok" ELSE "gone")

BeginLeave(r, id) ==
    /\ id \in Authenticated /\ Exists(id)
    /\ req[r].step = "ready"
    /\ req' = [req EXCEPT ![r] = [@ EXCEPT !.kind = "leave", !.step = "open", !.user = id]]
    /\ UNCHANGED <<users, devices, clock>>

\* Deleting a row that is gone by now is no error.
CommitLeave(r) ==
    /\ req[r].kind = "leave" /\ req[r].step = "open"
    /\ users' = {u \in users : u.id # req[r].user}
    /\ devices' = {x \in devices : x.user_id # req[r].user}
    /\ req' = [req EXCEPT ![r] = Blank("ok")] /\ UNCHANGED clock
-----------------------------------------------------------------------------
\* The push of an analysis: its device id is chosen when the analysis starts, the
\* token behind the id is read when it ends.

DevicesOf(id) == {x \in devices : x.user_id = id}

\* Faulty: the last device of anybody.
DeviceForUser_Anybody(id) ==
    {x.device_id : x \in {y \in devices : \A z \in devices : z.updated_at <= y.updated_at}}

\* get_device_id_for_user: the latest updated_at.
DeviceForUser(id) ==
    {x.device_id : x \in {y \in DevicesOf(id) : \A z \in DevicesOf(id) : z.updated_at <= y.updated_at}}

\* dispatch_pending_diary for a diary of the user.
DispatchRetry(r, id) ==
    /\ Exists(id)
    /\ \E d \in IF DeviceForUser(id) = {} THEN {None} ELSE DeviceForUser(id) :
          Begin(r, [Opened(r, "retry_push") EXCEPT !.user = id, !.device = d, !.meant = id])

\* Who has the device, or None.
HolderOf(d) ==
    IF \E x \in devices : x.device_id = d THEN (CHOOSE x \in devices : x.device_id = d).user_id ELSE None

\* analyze_and_notify for a new diary of the user: the upload names the device, and
\* nothing asks whether it is registered, or whose it is.
StartBackground(r, id, d) ==
    /\ Exists(id)
    /\ Begin(r, [Opened(r, "background_push") EXCEPT !.user = id, !.device = d, !.meant = HolderOf(d)])

\* _get_device_token: whoever has the device by now, if the row has a token.
TokenOwner(device) ==
    {None} \cup {x.user_id : x \in {y \in devices : y.device_id = device}}

\* send_silent_push: the device may not answer.
Delivered(owner) == {None, owner}

\* send_silent_notification.
SendSilentNotification(r) ==
    LET q == req[r]
    IN  /\ q.kind \in {"background_push", "retry_push"} /\ q.step = "open"
        /\ \E owner \in TokenOwner(q.device) : \E u \in Delivered(owner) :
              req' = [req EXCEPT ![r] = [q EXCEPT !.step = "ok", !.reached = u]]
        /\ UNCHANGED <<users, devices, clock>>
-----------------------------------------------------------------------------
Next == \E r \in Request :
    \/ \E id \in Authenticated :
          \/ VerifyToken(r, id) \/ GetMe(r, id) \/ BeginLeave(r, id)
          \/ DispatchRetry(r, id)
          \/ \E d \in Device : BeginRegister(r, id, d) \/ StartBackground(r, id, d)
    \/ \E i \in Identity :
          RefuseLogin(r, i) \/ \E d \in Device : BeginLogin(r, i, d) \/ BeginDevLogin(r, i, d)
    \/ CommitRegister(r) \/ CreateUser(r) \/ UpdateLastLogin(r)
    \/ CommitLeave(r) \/ SendSilentNotification(r)
    \/ Fail(r)

Spec == Init /\ [][Next]_vars
-----------------------------------------------------------------------------
\* Properties.

\* Two accounts differ in their identity, also when their first logins meet.
OneAccountPerIdentity ==
    \A u, v \in users : u # v => u.id # v.id /\ u.identity # v.identity

\* is_first starts the introduction of the app: of the logins into one account
\* exactly the one that created it has told so.
FirstLoginOnce ==
    \A r \in Request : req[r].kind = "login" /\ req[r].step = "ok" =>
        (req[r].is_first <=> req[r].user = r)

\* A device id has one row, and the row a living owner: no login, registration
\* or old access token brings back the device of an account that is gone.
DeviceHasOneLivingOwner ==
    /\ \A x, y \in devices : x.device_id = y.device_id => x = y
    /\ \A x \in devices : Exists(x.user_id)

\* A retry's push reaches the diary's owner, an upload's whoever had the device it
\* names, or else somebody who registered the device after the push was begun.
PushReachesOwner ==
    \A r \in Request :
        LET q == req[r]
        IN  q.reached \notin {None, q.meant} =>
                \E s \in Request : /\ req[s].device = q.device /\ req[s].user = q.reached
                                   /\ req[s].end > q.start

Committed(x) == IF x.by = None THEN 0 ELSE req[x.by].end

\* Of a user's devices, a retry takes the one registered last; only
\* registrations that overlapped may be taken in the other order.
RetryTakesLatestDevice ==
    \A id \in UserId : \A x, y \in DevicesOf(id) :
        x.device_id \in DeviceForUser(id) /\ Committed(y) > Committed(x) =>
            req[y.by].start < Committed(x)
=============================================================================
