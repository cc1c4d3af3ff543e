----------------------------- MODULE LocalAuth ------------------------------
(***************************************************************************)
(* The runtime's own accounts: bootstrap of the first administrator, login *)
(* and sessions, creation and update of accounts by administrators.  An    *)
(* HTTP handler is a sequence of units of work, and handlers overlap;      *)
(* every authenticated request writes the session it has read back to the  *)
(* account.  The in-memory store never suspends, so there a handler runs   *)
(* to its end.  Passwords are assumed to be right and cookies to be ones   *)
(* the runtime has issued.                                                 *)
(***************************************************************************)
EXTENDS Naturals

CONSTANTS
    AuthStores,   \* "sql", "memory"
    Handlers,     \* concurrent HTTP handlers
    Usernames,
    MaxActors,    \* bound: accounts
    MaxSecrets,   \* bound: secrets generated
    None

VARIABLES
    authStore,    \* the store
    configured,   \* a session secret is configured
    accounts,     \* accounts by id
    actors,       \* accounts created, the ids given out
    secret,       \* the stored session secret, 0 if there is none
    secrets,      \* secrets generated
    tokens,       \* the session cookies issued: account and secret
    call,         \* the handlers
    mixed         \* history: which parts of handlers overlapped

authVars == <<authStore, configured, accounts, actors, secret, secrets, tokens, call, mixed>>

Actors     == 1..MaxActors
EnvSecret  == MaxSecrets + 1
NoAccount  == [name |-> None, admin |-> FALSE, active |-> FALSE]
NoChange   == [admin |-> "keep", active |-> "keep"]
\* An update names the roles or the status (several at once are allowed too).
Changes    == {[NoChange EXCEPT !.admin = v] : v \in {"yes", "no"}}
                 \cup {[NoChange EXCEPT !.active = v] : v \in {"yes", "no"}}
Ready      == [kind |-> "none", pc |-> "ready", actor |-> 0, admin |-> FALSE, name |-> None,
               change |-> NoChange, next |-> NoAccount, secret |-> 0]

AuthTypeOK ==
    /\ authStore \in AuthStores /\ configured \in BOOLEAN
    /\ accounts \in [Actors -> [name : Usernames, admin : BOOLEAN, active : BOOLEAN]
                               \cup {NoAccount}]
    /\ actors \in 0..MaxActors /\ secret \in 0..EnvSecret /\ secrets \in 0..MaxSecrets
    /\ tokens \subseteq [actor : Actors, secret : 1..EnvSecret]
    /\ \A h \in Handlers :
          /\ call[h].kind \in {"none", "bootstrap", "login", "read", "create", "update"}
          /\ call[h].pc \in {"ready", "create", "sync", "token", "secret", "check", "count", "update"}

AuthInit ==
    /\ authStore \in AuthStores
    /\ configured \in BOOLEAN
    /\ accounts = [i \in Actors |-> NoAccount]
    /\ actors = 0
    /\ secret = 0
    /\ secrets = 0
    /\ tokens = {}
    /\ call = [h \in Handlers |-> Ready]
    /\ mixed = {}

Existing == {i \in Actors : accounts[i] # NoAccount}

\* _is_active_admin, has_admin_account
ActiveAdmin(a) == a.active /\ a.admin
HasAdmin       == \E i \in Actors : ActiveAdmin(accounts[i])

\* What a handler has read and not yet used.
Exposure(c) ==
    CASE c.pc = "create" /\ c.kind = "bootstrap" -> "bootstrap"
      [] c.pc \in {"sync", "secret"} -> c.pc
      [] c.pc \in {"count", "update"} -> "update"
      [] OTHER -> "none"

Becomes(h, c) ==
    /\ call' = [call EXCEPT ![h] = c]
    /\ mixed' = mixed \cup {{Exposure(c), Exposure(call[g])} :
                               g \in {g \in Handlers \ {h} : /\ Exposure(c) # "none"
                                                             /\ Exposure(call[g]) # "none"}}

\* A handler starts: with the in-memory store no other one is under way.
MayStart(h) ==
    /\ call[h].pc = "ready"
    /\ authStore = "memory" => \A g \in Handlers : call[g].pc = "ready"

-----------------------------------------------------------------------------
(* Bootstrap, login and requests                                           *)

BootstrapRequired == ~HasAdmin

\* bootstrap_admin: create_admin_account looks for an administrator first.
BeginBootstrap(h, n) ==
    /\ MayStart(h)
    /\ BootstrapRequired
    /\ Becomes(h, [Ready EXCEPT !.kind = "bootstrap", !.pc = "create", !.name = n, !.admin = TRUE])
    /\ UNCHANGED <<authStore, configured, accounts, actors, secret, secrets, tokens>>

\* create_account; the unique constraint on the username decides.
CreateAccount(h) ==
    LET c == call[h] IN
    /\ c.pc = "create"
    /\ actors < MaxActors
    /\ \A i \in Existing : accounts[i].name # c.name
    /\ actors' = actors + 1
    /\ accounts' = [accounts EXCEPT ![actors + 1] =
                       [name |-> c.name, admin |-> c.admin, active |-> TRUE]]
    /\ IF c.kind = "bootstrap"
       THEN Becomes(h, [c EXCEPT !.pc = "sync", !.actor = actors + 1])
       ELSE Becomes(h, Ready)
    /\ UNCHANGED <<authStore, configured, secret, secrets, tokens>>

\* authenticate: the session holds the roles the account has now.
BeginLogin(h, i) ==
    /\ MayStart(h)
    /\ HasAdmin
    /\ accounts[i].active
    /\ Becomes(h, [Ready EXCEPT !.kind = "login", !.pc = "sync", !.actor = i,
                                !.admin = accounts[i].admin])
    /\ UNCHANGED <<authStore, configured, accounts, actors, secret, secrets, tokens>>

\* authenticate_session_request: the cookie is checked, then the account.
BeginRequest(h, t, kind) ==
    /\ MayStart(h)
    /\ HasAdmin
    /\ t.secret = secret
    /\ accounts[t.actor].active
    /\ Becomes(h, [Ready EXCEPT !.kind = kind, !.pc = "sync", !.actor = t.actor,
                                !.admin = accounts[t.actor].admin])
    /\ UNCHANGED <<authStore, configured, accounts, actors, secret, secrets, tokens>>

\* _ensure_runtime_actor: roles and status of the session are written to the
\* account.  An administrator's request goes on.
SyncSession(h) ==
    LET c == call[h] IN
    /\ c.pc = "sync"
    /\ accounts' = IF authStore = "memory" THEN accounts
                   ELSE [accounts EXCEPT ![c.actor].admin = c.admin, ![c.actor].active = TRUE]
    /\ \/ c.kind \in {"bootstrap", "login"} /\ Becomes(h, [c EXCEPT !.pc = "token"])
       \/ c.kind = "create" /\ c.admin /\ \E n \in Usernames, admin \in BOOLEAN :
             Becomes(h, [c EXCEPT !.pc = "create", !.name = n, !.admin = admin])
       \/ c.kind = "update" /\ c.admin /\ Becomes(h, [c EXCEPT !.pc = "check"])
       \/ (c.kind = "read" \/ (c.kind \in {"create", "update"} /\ ~c.admin)) /\ Becomes(h, Ready)
    /\ UNCHANGED <<authStore, configured, actors, secret, secrets, tokens>>

\* Mutant of StoredSecret: every login makes a secret of its own.
StoredSecretNever == IF configured THEN EnvSecret ELSE 0

\* _resolve_session_secret: the configured secret, or the one that is stored.
StoredSecret == IF configured THEN EnvSecret ELSE secret

\* issue_session_token; a secret is generated when there is none.
IssueToken(h) ==
    LET c == call[h] IN
    /\ c.pc = "token"
    /\ IF StoredSecret # 0
       THEN /\ secret' = StoredSecret
            /\ tokens' = tokens \cup {[actor |-> c.actor, secret |-> StoredSecret]}
            /\ Becomes(h, Ready)
            /\ UNCHANGED secrets
       ELSE /\ secrets < MaxSecrets
            /\ secrets' = secrets + 1
            /\ Becomes(h, [c EXCEPT !.pc = "secret", !.secret = secrets + 1])
            /\ UNCHANGED <<secret, tokens>>
    /\ UNCHANGED <<authStore, configured, accounts, actors>>

\* save_session_secret replaces a secret that was stored in the meantime.
SaveSecret(h) ==
    LET c == call[h] IN
    /\ c.pc = "secret"
    /\ secret' = c.secret
    /\ tokens' = tokens \cup {[actor |-> c.actor, secret |-> c.secret]}
    /\ Becomes(h, Ready)
    /\ UNCHANGED <<authStore, configured, accounts, actors, secrets>>

-----------------------------------------------------------------------------
(* Updates                                                                 *)

\* Only what the request names is changed.
Applied(change, a) ==
    [a EXCEPT !.admin = IF change.admin = "keep" THEN @ ELSE change.admin = "yes",
              !.active = IF change.active = "keep" THEN @ ELSE change.active = "yes"]

\* Mutant of ActiveAdminRemains: the account is counted as it was.
ActiveAdminRemainsBefore(i, next) == HasAdmin

\* _ensure_active_admin_remains
ActiveAdminRemains(i, next) ==
    \/ \E j \in Actors \ {i} : ActiveAdmin(accounts[j])
    \/ ActiveAdmin(next)

\* update_actor: the account is read, then all are counted, then it is updated.
ReadAccount(h, i, change) ==
    /\ call[h].pc = "check"
    /\ i \in Existing
    /\ Becomes(h, [call[h] EXCEPT !.pc = "count", !.actor = i, !.change = change,
                                  !.next = Applied(change, accounts[i])])
    /\ UNCHANGED <<authStore, configured, accounts, actors, secret, secrets, tokens>>

CountAdmins(h) ==
    LET c == call[h] IN
    /\ c.pc = "count"
    /\ ActiveAdminRemains(c.actor, c.next)
    /\ Becomes(h, [c EXCEPT !.pc = "update", !.next = NoAccount])
    /\ UNCHANGED <<authStore, configured, accounts, actors, secret, secrets, tokens>>

UpdateAccount(h) ==
    LET c == call[h] IN
    /\ c.pc = "update"
    /\ accounts' = [accounts EXCEPT ![c.actor] = Applied(c.change, @)]
    /\ Becomes(h, Ready)
    /\ UNCHANGED <<authStore, configured, actors, secret, secrets, tokens>>

\* The handler raises, or the request is refused.
Refuse(h) ==
    /\ call[h].pc # "ready"
    /\ Becomes(h, Ready)
    /\ UNCHANGED <<authStore, configured, accounts, actors, secret, secrets, tokens>>

\* The process is gone, and with it an in-memory store.
AuthLost ==
    /\ call' = [h \in Handlers |-> Ready]
    /\ IF authStore = "memory"
       THEN /\ accounts' = [i \in Actors |-> NoAccount]
            /\ secret' = 0
       ELSE UNCHANGED <<accounts, secret>>
    /\ UNCHANGED <<authStore, configured, actors, secrets, tokens, mixed>>

AuthBegin(h) ==
    \/ \E n \in Usernames : BeginBootstrap(h, n)
    \/ \E i \in Actors : BeginLogin(h, i)
    \/ \E t \in tokens, kind \in {"read", "create", "update"} : BeginRequest(h, t, kind)

AuthStep(h) ==
    \/ CreateAccount(h)
    \/ SyncSession(h)
    \/ IssueToken(h)
    \/ SaveSecret(h)
    \/ \E i \in Actors, change \in Changes : ReadAccount(h, i, change)
    \/ CountAdmins(h)
    \/ UpdateAccount(h)
    \/ Refuse(h)

-----------------------------------------------------------------------------
(* Properties                                                              *)

Mixed(parts, others) == \E p \in parts, q \in others : {p, q} \in mixed

\* "At least one active admin runtime user is required": once there are
\* accounts there is an active administrator, unless the update of an account
\* overlapped another one or the write-back of a session.
AdminRemains ==
    Existing # {} /\ ~Mixed({"update"}, {"update", "sync"}) => HasAdmin

\* A cookie that was issued for an account is accepted as long as the account
\* is stored, over restarts too, unless two logins made the first secret.
TokensHonoured ==
    \A t \in tokens : t.actor \in Existing => t.secret = secret \/ Mixed({"secret"}, {"secret"})

\* Somebody can always log in as administrator, and who has logged in stays so.
AccountsUsable == AdminRemains /\ TokensHonoured
=============================================================================
