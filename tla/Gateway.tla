------------------------------ MODULE Gateway -------------------------------
(***************************************************************************)
(* How a request gets in and what it is answered: the authentication of    *)
(* the runtime's HTTP application and of the MCP server mounted in it, the *)
(* cache of the identity provider's signing keys, the context the          *)
(* request runs in, and the status its outcome is turned into.  What the   *)
(* operations do is the other modules' subject; local sessions are         *)
(* LocalAuth's.                                                            *)
(***************************************************************************)
EXTENDS Naturals, Sequences, FiniteSets

CONSTANTS
    Requests,      \* concurrent requests
    KeySets,       \* what the provider may publish: sets of key ids
    Tokens,        \* bearer tokens: kid (or NoKid), by (the key that signed it),
                   \* ws, actor, subject, admin
    NoKid,
    Secret,        \* the key, or the token, that is configured
    KeyTTL,        \* jwks_cache_ttl_seconds
    Setups,        \* RuntimeAuthConfig: mode, local (sessions are enabled)
    Churning,      \* bound: modes in which the runtime's resources come and go
    MaxTime,       \* bound: time
    MaxArrivals    \* bound: requests

\* RuntimeAuthConfig.validate: local sessions need a secured mode.
ASSUME GatewayBounds ==
    /\ KeyTTL \in Nat \ {0} /\ MaxTime \in Nat /\ MaxArrivals \in Nat
    /\ Setups \subseteq [mode : {"none", "static_token", "jwt_secret", "jwks"}, local : BOOLEAN]
    /\ \A s \in Setups : s.mode = "none" => ~s.local

VARIABLES
    authMode,   \* "off" where this module's requests do not run, "none",
                \* "static_token", "jwt_secret", "jwks"
    local,      \* local sessions are enabled
    now,
    published,  \* history: the key set of each moment up to now
    jwks,       \* _jwks_cache, _jwks_cache_expires_at
    stock,      \* kinds of resources the runtime has
    tools,      \* MCP tools registered when the server was built
    gate,       \* the requests
    last,       \* history: what the last step did: the status it answered with, the
                \* token it judged by a key set and whether it passed, when the
                \* request of that token came and when it was judged
    arrivals

gatewayVars == <<authMode, local, now, published, jwks, stock, tools, gate, last, arrivals>>

NoToken   == [kid |-> NoKid, by |-> NoKid, ws |-> "own", actor |-> "none", subject |-> FALSE, admin |-> FALSE]
NoContext == [ws |-> "own", who |-> "none", admin |-> FALSE]
Waiting   == [pc |-> "free", token |-> NoToken, since |-> 0, keys |-> {},
              context |-> NoContext]
NoEvent   == [reply |-> 0, token |-> NoToken, ok |-> TRUE, since |-> 0, at |-> 0]
NoKeys    == [keys |-> {}, until |-> 0]


-----------------------------------------------------------------------------
(* Outcomes of an operation and the replies they become: the class of the  *)
(* exception and what its text says                                        *)

Success  == [class |-> "none", text |-> "plain"]
Outcomes == {Success} \cup [class : {"value", "business", "execution", "other"},
                            text  : {"missing", "taken", "plain"}]

\* _runtime_mutation_status_code
MutationStatus(o) == IF o.text = "taken" THEN 409 ELSE 400

\* get, and every operation on a thread
ReadReply(o) == CASE o = Success -> 200 [] o.class = "value" -> 404 [] OTHER -> 500

\* create of a dataset, a semantic model or a connector
CreateReply(o) ==
    CASE o = Success -> 201 [] o.class \in {"value", "business"} -> MutationStatus(o) [] OTHER -> 500

\* update and delete: a text that speaks of something missing is taken for
\* the resource itself
ChangeReply(o) ==
    CASE o = Success -> 200
      [] o.class \in {"value", "business"} -> IF o.text = "missing" THEN 404 ELSE MutationStatus(o)
      [] OTHER -> 500

\* preview, sync and semantic queries, which catch different classes
RunReply(caught, o) ==
    CASE o = Success       -> 200
      [] o.class \in caught -> IF o.text = "missing" THEN 404 ELSE 400
      [] OTHER             -> 500

PreviewReply(o)  == RunReply({"value", "execution"}, o)
SyncReply(o)     == RunReply({"value", "business", "execution"}, o)
SemanticReply(o) == RunReply({"value", "execution"}, o)

\* SQL and agents: every error is the server's
SqlReply(o) == IF o = Success THEN 200 ELSE 500
AskReply(o) == IF o = Success THEN 200 ELSE 500

\* sync resources and states
SyncListReply(o) == CASE o = Success -> 200 [] o.class = "value" -> 400 [] OTHER -> 500

\* An administrator's operation on accounts
AdminReply(o) == CASE o = Success -> 200
                   [] o.class = "value" -> IF o.text = "missing" THEN 404 ELSE MutationStatus(o)
                   [] OTHER -> 500

\* A tool reports every failure of the runtime as a result.
ToolReply(route, o) == IF route \in tools THEN 200 ELSE 400

Reply(route, o) ==
    CASE route = "read"     -> ReadReply(o)
      [] route = "create"   -> CreateReply(o)
      [] route = "change"   -> ChangeReply(o)
      [] route = "preview"  -> PreviewReply(o)
      [] route = "sync"     -> SyncReply(o)
      [] route = "semantic" -> SemanticReply(o)
      [] route = "sql"      -> SqlReply(o)
      [] route = "ask"      -> AskReply(o)
      [] route = "states"   -> SyncListReply(o)
      [] route = "admin"    -> AdminReply(o)
      [] OTHER              -> ToolReply(route, o)

McpTools == {"runtime_info", "list_datasets", "preview_dataset", "query_semantic", "query_sql", "ask_agent"}
Routes   == {"read", "create", "change", "preview", "sync", "semantic", "sql", "ask", "states", "admin"}
               \cup McpTools

\* _build_mcp_tool_availability
ToolsFor(kinds) ==
    {"runtime_info", "list_datasets"}
      \cup (IF "dataset" \in kinds THEN {"preview_dataset"} ELSE {})
      \cup (IF "model" \in kinds THEN {"query_semantic"} ELSE {})
      \cup (IF kinds \cap {"dataset", "connector"} # {} THEN {"query_sql"} ELSE {})
      \cup (IF "agent" \in kinds THEN {"ask_agent"} ELSE {})

-----------------------------------------------------------------------------
(* Principals                                                              *)

DefaultPrincipal == [ws |-> "own", who |-> "default", admin |-> FALSE]

\* _principal_from_claims; a token without actor and subject has no actor.
PrincipalOf(token) ==
    [ws |-> token.ws,
     who |-> IF token.actor = "id" THEN "actor" ELSE IF token.subject THEN "subject" ELSE "none",
     admin |-> token.admin]

ClaimsUsable(token) == token.ws # "bad" /\ token.actor # "bad"

\* _finalize_principal, build_context: the default actor stands in.
ContextOf(principal) ==
    [principal EXCEPT !.who = IF @ = "none" THEN "default" ELSE @]

-----------------------------------------------------------------------------
(* Keys                                                                    *)

\* _resolve_jwks_key: without a key id only a single key will do.
KeyFor(token, keys) ==
    IF token.kid = NoKid /\ Cardinality(keys) = 1 THEN CHOOSE k \in keys : TRUE
    ELSE IF token.kid \in keys THEN token.kid ELSE NoKid

Verified(token, keys) == KeyFor(token, keys) # NoKid /\ KeyFor(token, keys) = token.by

Running(context) == [Waiting EXCEPT !.pc = "run", !.context = context]
CacheFresh       == jwks.until > now

Goes(r, c)         == gate' = [gate EXCEPT ![r] = c] /\ last' = NoEvent
Answers(r, status) == gate' = [gate EXCEPT ![r] = Waiting] /\ last' = [NoEvent EXCEPT !.reply = status]

\* The request is let through to its operation or refused.
Decide(r, token, ok) ==
    IF ok /\ ClaimsUsable(token) THEN Goes(r, Running(ContextOf(PrincipalOf(token)))) ELSE Answers(r, 401)

\* The same by a key set; the judgement is noted.
DecideBy(r, c, keys) ==
    LET ok     == Verified(c.token, keys)
        passes == ok /\ ClaimsUsable(c.token)
    IN /\ gate' = [gate EXCEPT ![r] = IF passes THEN Running(ContextOf(PrincipalOf(c.token))) ELSE Waiting]
       /\ last' = [reply |-> IF passes THEN 0 ELSE 401, token |-> c.token, ok |-> ok,
                   since |-> c.since, at |-> now]

\* A request that carries a token; the key set comes from the cache if it is fresh.
Arrive(r, token) ==
    LET c == [Waiting EXCEPT !.token = token, !.since = now]
    IN /\ gate[r].pc = "free" /\ arrivals < MaxArrivals
       /\ arrivals' = arrivals + 1
       /\ \/ authMode = "none" /\ Goes(r, Running(DefaultPrincipal))
          \/ authMode = "static_token" /\ token.by = Secret /\ Goes(r, Running(DefaultPrincipal))
          \/ authMode = "static_token" /\ token.by # Secret /\ Answers(r, 401)
          \/ authMode = "jwt_secret" /\ Decide(r, token, token.by = Secret)
          \/ authMode = "jwks" /\ CacheFresh /\ DecideBy(r, c, jwks.keys)
          \/ authMode = "jwks" /\ ~CacheFresh /\ Goes(r, [c EXCEPT !.pc = "fetch"])
       /\ UNCHANGED <<authMode, local, now, published, jwks, stock, tools>>

\* A request without a token, or with another scheme.
ArriveBare(r, malformed) ==
    /\ gate[r].pc = "free" /\ arrivals < MaxArrivals
    /\ arrivals' = arrivals + 1
    /\ \/ authMode = "none" /\ Goes(r, Running(DefaultPrincipal))
       \/ authMode # "none" /\ (malformed \/ ~local) /\ Answers(r, 401)
       \/ authMode # "none" /\ ~malformed /\ local /\ Goes(r, [Waiting EXCEPT !.pc = "session"])
    /\ UNCHANGED <<authMode, local, now, published, jwks, stock, tools>>

\* authenticate_local_session
Session(r, ok, admin) ==
    /\ gate[r].pc = "session"
    /\ IF ok THEN Goes(r, Running([ws |-> "own", who |-> "actor", admin |-> admin])) ELSE Answers(r, 401)
    /\ UNCHANGED <<authMode, local, now, published, jwks, stock, tools, arrivals>>

\* The provider answers with the keys it has then; the answer is under way.
ProviderAnswers(r) ==
    /\ gate[r].pc = "fetch"
    /\ Goes(r, [gate[r] EXCEPT !.pc = "fetched", !.keys = published[now + 1]])
    /\ UNCHANGED <<authMode, local, now, published, jwks, stock, tools, arrivals>>

\* Mutant of KeptUntil: the time to live runs from the answer.
KeptUntilFromAnswer(c) == now + KeyTTL

\* The time to live runs from the time before the request was sent.
KeptUntil(c) == c.since + KeyTTL

\* The answer replaces what another request may have stored in the meantime.
ReceiveKeys(r) ==
    LET c == gate[r]
    IN /\ c.pc = "fetched"
       /\ jwks' = [keys |-> c.keys, until |-> KeptUntil(c)]
       /\ DecideBy(r, c, c.keys)
       /\ UNCHANGED <<authMode, local, now, published, stock, tools, arrivals>>

\* Not reached, or not JSON of the expected form: nothing is stored.
FetchFails(r, status) ==
    /\ gate[r].pc = "fetch"
    /\ Answers(r, status)
    /\ UNCHANGED <<authMode, local, now, published, jwks, stock, tools, arrivals>>

-----------------------------------------------------------------------------
(* Operations                                                              *)

\* _require_runtime_admin_principal, _require_local_auth_manager
RefuseAdmin(r) ==
    LET c == gate[r]
    IN /\ c.pc = "run"
       /\ \/ ~c.context.admin /\ Answers(r, 403)
          \/ c.context.admin /\ ~local /\ Answers(r, 400)
       /\ UNCHANGED <<authMode, local, now, published, jwks, stock, tools, arrivals>>

\* What an operation leaves the runtime with.
StockAfter(route, o) ==
    IF o # Success \/ authMode \notin Churning THEN {stock}
    ELSE CASE route = "create" -> {stock \cup {"dataset"}, stock \cup {"model"}}
           [] route = "change" -> {stock, stock \ {"dataset"}}
           [] OTHER            -> {stock}

\* The dataset or the agent that the request names is not there.
LookupFails == [status |-> 404, stock |-> stock]

Ends(open) ==
    {LookupFails} \cup UNION {{[status |-> Reply(route, o), stock |-> k] : k \in StockAfter(route, o)} :
             route \in open, o \in Outcomes}

\* Any of the operations: what came before does not depend on which.
Operate(r) ==
    LET c    == gate[r]
        open == IF c.context.admin /\ local THEN Routes ELSE Routes \ {"admin"}
    IN /\ c.pc = "run"
       /\ \E end \in Ends(open) : Answers(r, end.status) /\ stock' = end.stock
       /\ UNCHANGED <<authMode, local, now, published, jwks, tools, arrivals>>

\* Time passes; the provider may change its keys.
Tick(keys) ==
    /\ authMode = "jwks" /\ now < MaxTime
    /\ now' = now + 1
    /\ published' = Append(published, keys)
    /\ last' = NoEvent
    /\ UNCHANGED <<authMode, local, jwks, stock, tools, gate, arrivals>>

\* The process starts again: the cache is empty, the tools are those of what is there.
Restart ==
    /\ jwks # NoKeys \/ tools # ToolsFor(stock)
    /\ jwks' = NoKeys
    /\ tools' = ToolsFor(stock)
    /\ gate' = [r \in Requests |-> Waiting]
    /\ last' = NoEvent
    /\ UNCHANGED <<authMode, local, now, published, stock, arrivals>>

-----------------------------------------------------------------------------

GatewayStart ==
    /\ now = 0
    /\ jwks = NoKeys
    /\ gate = [r \in Requests |-> Waiting]
    /\ last = NoEvent
    /\ arrivals = 0

GatewayIdle ==
    /\ authMode = "off" /\ local = FALSE /\ published = <<>> /\ stock = {} /\ tools = {}
    /\ GatewayStart

GatewayInit ==
    /\ \E s \in Setups : authMode = s.mode /\ local = s.local
    /\ published \in {<<k>> : k \in KeySets}
    /\ stock \in IF authMode \in Churning THEN {{}, {"connector", "agent"}, {"dataset", "model"}} ELSE {{}}
    /\ tools = ToolsFor(stock)
    /\ GatewayStart

GatewayNext ==
    \/ \E r \in Requests :
         \/ \E token \in Tokens : Arrive(r, token)
         \/ \E m \in BOOLEAN : ArriveBare(r, m)
         \/ \E ok, admin \in BOOLEAN : Session(r, ok, admin)
         \/ ProviderAnswers(r)
         \/ ReceiveKeys(r)
         \/ \E status \in {401, 500} : FetchFails(r, status)
         \/ RefuseAdmin(r)
         \/ Operate(r)
    \/ \E keys \in KeySets : Tick(keys)
    \/ Restart

GatewaySpec == GatewayInit /\ [][GatewayNext]_gatewayVars

-----------------------------------------------------------------------------
(* Properties                                                              *)

\* A key that the identity provider withdraws stops being accepted, and one
\* that it adds starts to be, within the time to live of the cache: a token
\* was judged by a key set that was published within that time or since its
\* request came, whatever other requests have fetched and stored meanwhile
\* (RuntimeAuthResolver._get_jwks).
KeysFollowed ==
    last.token # NoToken =>
        \E t \in 0..last.at :
            /\ t + KeyTTL > last.at \/ t >= last.since
            /\ Verified(last.token, published[t + 1]) <=> last.ok
=============================================================================
