--------------------------- MODULE MCConversation ---------------------------
(***************************************************************************)
(* The way into the runtime, conversations and two kinds of agents they    *)
(* reach, for TLC.  The modules share no state, so a behaviour is about    *)
(* one of them.  Conversation: two overlapping calls, and one clarifying   *)
(* question more than the budget allows in a row.  Research: a memory, a   *)
(* document, a row and five pages, of which two say the same and one fits  *)
(* badly.  Analyst: datasets of two connectors, two of them with one alias *)
(* and one a file, and semantic models over them.  Gateway: two            *)
(* overlapping requests, a provider that changes its two keys, and tokens  *)
(* with and without a key id, of which one has claims that cannot be used. *)
(* Answer: tables of up to six rows, by region and by month, in and out of *)
(* order, with ties, gaps, amounts in pounds, codes that look like times,  *)
(* and questions that ask for the lowest, a comparison, a trend or a share *)
(* and speak of charts in every way that some detector hears.              *)
(***************************************************************************)
EXTENDS Conversation, Research, Analyst, Gateway, Answer

CONSTANTS a1, a2, q1, q2, q3,
          d1, m1, r1, p1, p2, p3, p4, p5,
          cx, cy,
          g1, g2, k1, k2

TwoAsks        == {a1, a2}
ThreeQuestions == {q1, q2, q3}
BothStores     == {"sql", "memory"}

-----------------------------------------------------------------------------
(* Research                                                                *)

Fact(k, r, d, l) == [kind |-> k, ref |-> r, domain |-> d, long |-> l]
SomeFacts == d1 :> Fact("internal", "u1", "internal:1", TRUE) @@ m1 :> Fact("memory", "m", "memory:m", FALSE)
   @@ r1 :> Fact("sql", NoRef, "internal-sql", TRUE) @@ p1 :> Fact("web", "u1", "a", TRUE)
   @@ p2 :> Fact("web", "u2", "a", TRUE) @@ p3 :> Fact("web", "u3", "b", FALSE)
   @@ p4 :> Fact("web", "u4", "c", TRUE) @@ p5 :> Fact("web", "u5", "c", TRUE)

AFit(q, i) == CASE q = "s1" /\ i \in {d1, p2} -> 60
                [] q = "s2" /\ i \in {p3, m1} -> 50
                [] q = "s3" /\ i = r1          -> 10
                [] i = p5                      -> 5
                [] OTHER                       -> 20
AWebFit(q, i) == CASE i = p5              -> 10
                   [] q = "s1" /\ i = p1 -> 70
                   [] q = "s2"            -> 15
                   [] OTHER               -> 30
AnInstant(q) == CASE q = "a"  -> <<p1, p2>> [] q = "b"  -> <<>>
                  [] q = "s3" -> <<p5>>     [] OTHER    -> <<p1, p5>>
ALite(q) == <<p3, p4>>

Subs     == <<"s1", "s2", "s3">>
SameText == {{p4, p5}}
SomeRefinements(q) == {<<>>, <<"a", "b">>}
SomeContexts == {<<>>, <<d1, m1, r1, d1>>}
SomePlans == {[subs |-> <<>>, tools |-> {}, steps |-> 2, target |-> 40],
              [subs |-> <<"s1", "s2", "s1">>, tools |-> {"web_search"}, steps |-> 9, target |-> 60],
              [subs |-> <<"s1">>, tools |-> {"internal_retrieval"}, steps |-> 2, target |-> 95]}

-----------------------------------------------------------------------------
(* Analyst                                                                 *)

Row(c, f, a) == [conn |-> c, file |-> f, alias |-> a]
SomeDatasets == "sales" :> Row(cx, FALSE, "s") @@ "synced" :> Row(cx, TRUE, "x")
             @@ "costs" :> Row(cy, FALSE, "s") @@ "upload" :> Row(NoConnector, TRUE, "u")
SomeModels == "m" :> {"sales"} @@ "margin" :> {"sales", "costs"} @@ "files" :> {"synced"}
           @@ "broken" :> {"sales", "gone"}

Data(of)  == [kind |-> "data", of |-> of]
Model(of) == [kind |-> "model", of |-> <<of>>]
SomeToolkits ==
    {<<Data(<<"sales", "costs">>), Model("m")>>,
     <<Model("margin"), Data(<<"synced">>), Data(<<"costs">>)>>,
     <<Model("lost"), Data(<<"upload">>)>>,
     <<Model("files"), Model("m"), Model("broken")>>,
     <<Data(<<"gone">>)>>,
     <<Model("m")>>}
Policy(a, d) == [allowed |-> a, denied |-> d]
SomePolicies == {Policy({}, {}), Policy({cx}, {}), Policy({cx, cy}, {cy}), Policy({}, {cy})}
Inquiry(n, h, b) == [names |-> n, hint |-> h, blank |-> b]
SomeInquiries ==
    {Inquiry({}, FALSE, TRUE), Inquiry({}, FALSE, FALSE), Inquiry({"sales"}, TRUE, FALSE),
     Inquiry({"s"}, FALSE, FALSE), Inquiry({"margin"}, FALSE, FALSE), Inquiry({"costs"}, TRUE, FALSE)}

-----------------------------------------------------------------------------
(* Gateway                                                                 *)

TwoRequests == {g1, g2}
SomeKeySets == {{k1, k2}, {k2}}
Token(kid, by, ws, actor, subject, admin) ==
    [kid |-> kid, by |-> by, ws |-> ws, actor |-> actor, subject |-> subject, admin |-> admin]
SomeTokens  == {Token(k1, k1, "own", "id", TRUE, TRUE), Token(NoKid, k2, "other", "bad", TRUE, FALSE),
                Token(NoKid, Secret, "own", "none", FALSE, TRUE)}
Setup(m, l) == [mode |-> m, local |-> l]
SomeSetups  == {Setup("none", FALSE), Setup("static_token", TRUE), Setup("jwt_secret", TRUE), Setup("jwks", FALSE)}

-----------------------------------------------------------------------------
(* Answer                                                                  *)

Trait(ws, h, ti, like, i, r) == [words |-> ws, hint |-> h, timely |-> ti, timelike |-> like, id |-> i, rank |-> r]
SomeTraits ==
    [region  |-> Trait({"region"}, FALSE, FALSE, FALSE, FALSE, 4), month   |-> Trait({"month"}, FALSE, TRUE, TRUE, FALSE, 2),
     year    |-> Trait({"year"}, FALSE, TRUE, TRUE, FALSE, 7),     revenue |-> Trait({"revenue"}, TRUE, FALSE, FALSE, FALSE, 5),
     units   |-> Trait({"units"}, FALSE, FALSE, FALSE, FALSE, 6),  code    |-> Trait({"code"}, FALSE, FALSE, FALSE, TRUE, 1),
     holiday |-> Trait({"holiday"}, FALSE, FALSE, TRUE, FALSE, 3)]

Cell(x, n, ti, p) == [is |-> x, num |-> n, time |-> ti, pound |-> p]
N(n)        == Cell("n", n, NoTime, FALSE)
Pounds(n)   == Cell("p", n, NoTime, TRUE)
L(x)        == Cell(x, NoNumber, NoTime, FALSE)
Time(t, c)  == [at |-> t, clock |-> c]
T(t)        == Cell("t", NoNumber, Time(t, "date"), FALSE)
Z(t)        == Cell("t", NoNumber, Time(t, "aware"), FALSE)
Code        == Cell("c", NoNumber, Raises, FALSE)
YearText(n) == Cell("y", n, Time(n, "date"), FALSE)

\* A table of columns a and b, or of three.
Pairs(a, b, ps)       == [cols |-> <<a, b>>, rows |-> [k \in DOMAIN ps |-> (a :> ps[k][1] @@ b :> ps[k][2])]]
Triples(a, b, c, ps)  == [cols |-> <<a, b, c>>,
                          rows |-> [k \in DOMAIN ps |-> (a :> ps[k][1] @@ b :> ps[k][2] @@ c :> ps[k][3])]]
SomeTables ==
    {Pairs("region", "revenue", <<<<L("n"), N(3)>>, <<L("s"), N(5)>>, <<L("e"), N(5)>>, <<L("w"), N(1)>>, <<L("x"), N(0)>>>>),
     Pairs("region", "revenue", <<<<L("n"), N(-3)>>, <<L("s"), N(2)>>>>),
     Pairs("region", "revenue", <<<<L("n"), N(4)>>>>),
     Pairs("region", "revenue", <<<<L("n"), N(4)>>, <<NoCell, N(9)>>, <<L("s"), NoCell>>, <<L("e"), N(7)>>>>),
     Pairs("month", "revenue", <<<<T(1), N(4)>>, <<T(2), N(6)>>, <<T(2), N(1)>>>>),
     Pairs("month", "revenue", <<<<T(3), N(4)>>, <<T(2), N(6)>>, <<T(1), N(9)>>>>),
     Pairs("month", "revenue", <<<<T(3), N(4)>>, <<T(1), N(6)>>, <<T(2), N(9)>>>>),
     Pairs("month", "revenue", <<<<T(1), N(4)>>, <<T(2), N(4)>>>>),
     Pairs("region", "revenue", <<<<NoCell, N(4)>>, <<NoCell, N(6)>>>>),
     Pairs("month", "revenue", <<<<T(1), N(4)>>, <<Z(2), N(6)>>>>),
     Pairs("month", "revenue", <<<<L("may"), N(4)>>, <<Code, N(6)>>>>),
     Pairs("code", "revenue", <<<<Code, N(4)>>, <<L("b"), N(6)>>>>),
     Pairs("region", "holiday", <<<<L("n"), L("a")>>, <<L("s"), L("b")>>>>),
     Pairs("units", "revenue", <<<<N(1), Pounds(4)>>, <<N(2), Pounds(6)>>, <<N(2), Pounds(6)>>, <<N(2), Pounds(1)>>>>),
     Pairs("code", "units", <<<<N(1), N(1)>>, <<N(2), N(4)>>>>),
     Triples("region", "year", "revenue", <<<<L("n"), YearText(2023), N(4)>>, <<L("s"), YearText(2024), N(6)>>>>),
     Triples("region", "month", "units", <<<<L("n"), T(2), N(4)>>, <<L("s"), T(1), N(6)>>, <<L("e"), T(1), L("?")>>,
                                           <<L("n"), T(1), N(2)>>, <<L("n"), T(1), N(2)>>, <<L("n"), T(1), L("?")>>>>),
     [cols |-> <<"region">>, rows |-> <<>>]}

AnswerQuestion(ws, p) == [words |-> ws, phrase |-> p]
SomeAnswerQuestions ==
    {AnswerQuestion(ws, "none") : ws \in {{}, {"lowest"}, {"compare", "share"}, {"trend", "region"}, {"trend", "year"}}}
      \cup {AnswerQuestion({"revenue"}, p) :
               p \in {"pie_chart", "pie_word", "pie_last", "magpie", "piece", "bar", "line", "scatter", "table"}}

-----------------------------------------------------------------------------
(* One of the five                                                         *)

Others(r, a, g, w) ==
    /\ IF r THEN ResearchInit ELSE ResearchIdle
    /\ IF a THEN AnalystInit ELSE AnalystIdle
    /\ IF g THEN GatewayInit ELSE GatewayIdle
    /\ IF w THEN AnswerInit ELSE AnswerIdle

AgentsInit ==
    /\ Init
    /\ \/ Others(FALSE, FALSE, FALSE, FALSE)
       \/ /\ store = "sql"
          /\ \/ Others(TRUE, FALSE, FALSE, FALSE) \/ Others(FALSE, TRUE, FALSE, FALSE)
             \/ Others(FALSE, FALSE, TRUE, FALSE) \/ Others(FALSE, FALSE, FALSE, TRUE)

AgentsNext ==
    \/ job = "idle" /\ apc = "idle" /\ authMode = "off" /\ stage = "off"
         /\ Next /\ UNCHANGED <<researchVars, analystVars, gatewayVars, answerVars>>
    \/ job # "idle" /\ ResearchNext /\ UNCHANGED <<vars, analystVars, gatewayVars, answerVars>>
    \/ apc # "idle" /\ AnalystNext /\ UNCHANGED <<vars, researchVars, gatewayVars, answerVars>>
    \/ authMode # "off" /\ GatewayNext /\ UNCHANGED <<vars, researchVars, analystVars, answerVars>>
    \/ stage # "off" /\ AnswerNext /\ UNCHANGED <<vars, researchVars, analystVars, gatewayVars>>

AgentsSpec ==
    /\ AgentsInit /\ [][AgentsNext]_<<vars, researchVars, analystVars, gatewayVars, answerVars>>
    /\ \A a \in Asks : WF_vars(Step(a))
=============================================================================
