------------------------------ MODULE Analyst ------------------------------
(***************************************************************************)
(* The analyst of an agent.  AgentOrchestratorFactory turns the SQL tools  *)
(* of an agent into analytical assets and leaves out what the connector    *)
(* policy does not allow; AnalystAgent refuses a question that names such  *)
(* an asset, selects another one, has SQL written for it and executed, and *)
(* retries within a budget.  What the language model writes and what       *)
(* happens to the query are choices; texts are known by what they name.    *)
(***************************************************************************)
EXTENDS Naturals, SequencesExt

CONSTANTS
    DatasetRows,    \* stored datasets: conn, file, alias
    ModelRows,      \* stored semantic models: the datasets of their tables
    NoConnector,
    Toolkits,       \* the SQL tools an agent may have: sequences of [kind, of]
    Policies,       \* connector policies: allowed, denied
    Inquiries,          \* questions: names, hint, blank
    AnalystRetries  \* max_retries of the analyst

ASSUME AnalystRetriesAssumption == AnalystRetries \in Nat
ASSUME ToolkitsAssumption ==
    /\ Toolkits \subseteq Seq(UNION {ToSet(t) : t \in Toolkits})
    /\ \A t \in UNION {ToSet(t) : t \in Toolkits} : t.kind \in {"data", "model"} /\ t.of # <<>>

VARIABLES
    apc,       \* "idle", "build", "ask", "run", "rewrite", "returned", "raised", "none"
    kit,       \* the agent: tools and policy
    request,   \* the request: asked, filters, and the question of the next attempt
    assets,    \* the analytical assets it has
    refused,   \* those its policy refused
    built,     \* the tools that were looked at for that
    chosen,    \* the one selected
    retries,   \* retry_count
    ran,       \* the executions so far: asset and result
    reply      \* the outcome of the latest attempt

analystVars == <<apc, kit, request, assets, refused, built, chosen, retries, ran, reply>>

NoReply == [status |-> "none", terminal |-> FALSE, recoverable |-> FALSE, retries |-> 0]

-----------------------------------------------------------------------------
(* The assets of an agent                                                  *)

Known(tool) == IF tool.kind = "data" THEN DOMAIN DatasetRows ELSE DOMAIN ModelRows

\* The datasets behind a tool: listed, or tables of the semantic model.
Behind(tool) == IF tool.kind = "data" THEN ToSet(tool.of) ELSE ModelRows[tool.of[1]]

\* A workflow binds a dataset that is a file to no connector; a list of
\* datasets is judged by the connectors of their rows.
ConnectorsOf(tool) ==
    {IF tool.kind = "model" /\ DatasetRows[d].file THEN NoConnector ELSE DatasetRows[d].conn :
        d \in Behind(tool)}

\* Tables are kept under their aliases: of two with the same, the last stays.
TablesOf(tool) ==
    IF tool.kind = "model" THEN Behind(tool)
    ELSE {tool.of[k] : k \in {j \in DOMAIN tool.of :
            ~\E n \in DOMAIN tool.of : n > j /\ DatasetRows[tool.of[n]].alias = DatasetRows[tool.of[j]].alias}}

\* evaluate_asset_connectors: restricted agents get no asset whose connectors
\* are not all known, none that is denied and, if some are allowed, no other.
Verdict(policy, connectors) ==
    LET known == connectors \ {NoConnector}
    IN CASE policy.allowed \cup policy.denied # {} /\ (NoConnector \in connectors \/ known = {}) -> "unknown"
         [] known \cap policy.denied # {} -> "denied"
         [] policy.allowed # {} /\ ~(known \subseteq policy.allowed) -> "outside"
         [] OTHER -> "allowed"

\* The names a question may know an asset by.
NamesOfAsset(tool) ==
    (IF tool.kind = "model" THEN ToSet(tool.of) ELSE {})
    \cup Behind(tool) \cup {DatasetRows[d].alias : d \in Behind(tool)}

\* A dataset that is gone fails the call, a semantic model that is gone is
\* passed over.
Gone(tool) == ~(ToSet(tool.of) \subseteq Known(tool))
Unbuildable(tool) ==
    IF tool.kind = "data" THEN Gone(tool)
    ELSE ~Gone(tool) /\ ~(Behind(tool) \subseteq DOMAIN DatasetRows)
Permits(tool) == Verdict(kit.policy, ConnectorsOf(tool)) = "allowed"

\* The loop of _build_analyst_tools: one tool after the other.
AddTool ==
    LET tool == kit.tools[built + 1]
    IN /\ apc = "build" /\ built < Len(kit.tools)
       /\ built' = built + 1
       /\ apc' = IF Unbuildable(tool) THEN "raised" ELSE "build"
       /\ assets' = IF ~Gone(tool) /\ ~Unbuildable(tool) /\ Permits(tool) THEN Append(assets, tool) ELSE assets
       /\ refused' = IF ~Gone(tool) /\ ~Unbuildable(tool) /\ ~Permits(tool) THEN Append(refused, tool) ELSE refused
       /\ UNCHANGED <<kit, request, chosen, retries, ran, reply>>

\* create_runtime: without an asset there is no analyst.
Build ==
    /\ apc = "build" /\ built = Len(kit.tools)
    /\ apc' = IF assets = <<>> THEN "none" ELSE "ask"
    /\ UNCHANGED <<kit, request, assets, refused, built, chosen, retries, ran, reply>>

-----------------------------------------------------------------------------
(* A question                                                              *)

Return(status) ==
    /\ apc' = "returned"
    /\ reply' = [status |-> status, terminal |-> TRUE, recoverable |-> FALSE, retries |-> 0]

\* match_denied_request
NamesRefused(question) == \E a \in ToSet(refused) : question.names \cap NamesOfAsset(a) # {}

\* AnalyticalContextSelector: the asset the language model names or, failing
\* that, one of those that fit best: any of them.
AssetChoices == DOMAIN assets

\* Refused before an asset is chosen: an empty question, and one that names an
\* asset the policy refused.
Decline ==
    /\ apc = "ask"
    /\ \/ request.asked.blank /\ Return("invalid_request")
       \/ ~request.asked.blank /\ NamesRefused(request.asked) /\ Return("access_denied")
    /\ UNCHANGED <<kit, request, assets, refused, built, chosen, retries, ran>>

Select(n) ==
    /\ apc = "ask" /\ ~request.asked.blank /\ ~NamesRefused(request.asked)
    /\ chosen' = n
    /\ apc' = "run"
    /\ UNCHANGED <<kit, request, assets, refused, built, retries, ran, reply>>

\* What one execution of SqlAnalystTool comes to, as it reports it: SQL that is
\* not written or does not parse, rows, no rows, a failure that is transient or not.
ToolOutcome(result) ==
    CASE result = "rows"  -> [status |-> "success", terminal |-> TRUE, recoverable |-> FALSE]
      [] result = "empty" -> [status |-> "empty_result", terminal |-> FALSE, recoverable |-> TRUE]
      [] result \in {"unwritten", "unparsable"} ->
             [status |-> "query_error", terminal |-> FALSE, recoverable |-> TRUE]
      [] OTHER -> [status |-> "execution_error", terminal |-> FALSE, recoverable |-> result = "transient"]

\* An empty result is tried again if there was something to narrow it.
WorthRetrying(question) == request.filters \/ question.hint

\* Mutant of Finalized: the budget is compared with >.
FinalizedLate(o) ==
    LET spent    == retries > AnalystRetries
        terminal == o.status = "success" \/ spent \/ (o.status # "empty_result" /\ (o.terminal \/ ~o.recoverable))
    IN [status |-> o.status, terminal |-> terminal, retries |-> retries,
        recoverable |-> o.status # "success" /\ o.recoverable /\ ~terminal]

\* _finalize_response
Finalized(o) ==
    LET spent    == retries >= AnalystRetries
        terminal == CASE o.status = "success"      -> TRUE
                      [] o.status = "empty_result" -> spent \/ ~WorthRetrying(request.next)
                      [] OTHER                     -> o.terminal \/ spent \/ ~o.recoverable
    IN [status |-> o.status, terminal |-> terminal, retries |-> retries,
        recoverable |-> o.status # "success" /\ o.recoverable /\ ~terminal]

ShouldRetryAnalysis(o) ==
    /\ retries < AnalystRetries
    /\ \/ o.status \in {"query_error", "execution_error"} /\ o.recoverable
       \/ o.status = "empty_result" /\ WorthRetrying(request.next)

Results == {"unwritten", "unparsable", "rows", "empty", "transient", "fatal"}

Run(result) ==
    LET o == Finalized(ToolOutcome(result))
    IN /\ apc = "run"
       /\ ran' = Append(ran, [asset |-> assets[chosen], result |-> result])
       /\ reply' = o
       /\ apc' = IF ShouldRetryAnalysis(o) THEN "rewrite" ELSE "returned"
       /\ UNCHANGED <<kit, request, assets, refused, built, chosen, retries>>

\* _prepare_retry_request: the question may be rewritten, the asset stays.
Rewrite(question) ==
    /\ apc = "rewrite"
    /\ request' = [request EXCEPT !.next = question]
    /\ retries' = retries + 1
    /\ apc' = "run"
    /\ UNCHANGED <<kit, assets, refused, built, chosen, ran, reply>>

\* A language model that fails here fails the call: the first result is lost.
RewriteFails ==
    /\ apc = "rewrite"
    /\ apc' = "raised"
    /\ UNCHANGED <<kit, request, assets, refused, built, chosen, retries, ran, reply>>

-----------------------------------------------------------------------------

AnalystStart ==
    /\ assets = <<>> /\ refused = <<>> /\ built = 0 /\ chosen = 0 /\ retries = 0 /\ ran = <<>> /\ reply = NoReply

NoQuestion == [names |-> {}, hint |-> FALSE, blank |-> TRUE]

AnalystIdle ==
    /\ apc = "idle"
    /\ kit = [tools |-> <<>>, policy |-> [allowed |-> {}, denied |-> {}]]
    /\ request = [asked |-> NoQuestion, next |-> NoQuestion, filters |-> FALSE]
    /\ AnalystStart

AnalystInit ==
    /\ apc = "build"
    /\ kit \in [tools : Toolkits, policy : Policies]
    /\ request \in {[asked |-> q, next |-> q, filters |-> f] : q \in Inquiries, f \in BOOLEAN}
    /\ AnalystStart

AnalystNext ==
    \/ AddTool
    \/ Build
    \/ Decline
    \/ \E n \in AssetChoices : Select(n)
    \/ \E r \in Results : Run(r)
    \/ \E q \in {request.next} \cup {q \in Inquiries : ~q.blank} : Rewrite(q)
    \/ RewriteFails

AnalystSpec == AnalystInit /\ [][AnalystNext]_analystVars

-----------------------------------------------------------------------------
(* Properties                                                              *)

\* What the analyst returns is settled: it is final and not to be retried, its
\* count is the number of executions, which is within the budget, and it
\* reports the last of them, of which only the last may have had rows.  What
\* was executed is behind connectors the policy allows, and nothing was for a
\* question that names what the policy refused (AnalystAgent.answer_with_request_async,
\* AgentOrchestratorFactory._build_analyst_tools).
OutcomeSettled ==
    apc = "returned" =>
        /\ reply.terminal /\ ~reply.recoverable
        /\ Len(ran) <= AnalystRetries + 1
        /\ ran # <<>> => /\ Len(ran) = reply.retries + 1
                         /\ reply.status = ToolOutcome(Last(ran).result).status
                         /\ \A k \in 1..Len(ran) - 1 : ran[k].result # "rows"
        /\ NamesRefused(request.asked) => ran = <<>>
        /\ \A k \in DOMAIN ran : \A d \in TablesOf(ran[k].asset) :
               /\ DatasetRows[d].conn \notin kit.policy.denied
               /\ kit.policy.allowed # {} => DatasetRows[d].conn \in kit.policy.allowed
=============================================================================
