---------------------------- MODULE OdbcEndpoint ----------------------------
(***************************************************************************)
(* RuntimeOdbcEndpoint: connections that speak the PostgreSQL protocol,    *)
(* each with its prepared statements and bound portals.  A message is      *)
(* handled at once, except that a query suspends while the runtime runs    *)
(* it.  Any error answers with an error and ends the connection.           *)
(***************************************************************************)
EXTENDS Naturals

CONSTANTS
    OdbcClients,
    Statements,   \* names of prepared statements
    Portals,      \* names of portals
    Queries,
    NoQuery

VARIABLES
    listening,    \* the server accepts connections
    conn          \* the connections

odbcVars == <<listening, conn>>

NoPortal == [statement |-> NoQuery, query |-> NoQuery, stale |-> FALSE]
Fresh    == [pc |-> "open", statements |-> [s \in Statements |-> NoQuery],
             portals |-> [p \in Portals |-> NoPortal], running |-> NoQuery,
             wanted |-> NoQuery]
Gone     == [Fresh EXCEPT !.pc = "gone"]

\* query, stale and wanted are history: what the portal's statement was when it
\* was bound, whether it was parsed again since, and what the client expects.
OdbcTypeOK ==
    /\ listening \in BOOLEAN
    /\ \A c \in OdbcClients :
          /\ conn[c].pc \in {"gone", "startup", "open", "simple", "extended"}
          /\ conn[c].statements \in [Statements -> Queries \cup {NoQuery}]
          /\ conn[c].portals \in [Portals ->
                [statement : Statements \cup {NoQuery}, query : Queries \cup {NoQuery},
                 stale : BOOLEAN]]
          /\ conn[c].running \in Queries \cup {NoQuery}

OdbcInit ==
    /\ listening = FALSE
    /\ conn = [c \in OdbcClients |-> Gone]

Set(c, new) == conn' = [conn EXCEPT ![c] = new] /\ UNCHANGED listening

Connect(c) ==
    /\ listening
    /\ conn[c].pc = "gone"
    /\ Set(c, [Gone EXCEPT !.pc = "startup"])

\* _startup: protocol version and token are right.
Startup(c) == conn[c].pc = "startup" /\ Set(c, Fresh)

\* A wrong start, an unknown or malformed message, or a lost connection.
Disconnect(c) == conn[c].pc # "gone" /\ Set(c, Gone)

\* "Q": the query is run and answered with its rows and "ready".
SimpleQuery(c, q) ==
    /\ conn[c].pc = "open"
    /\ Set(c, [conn[c] EXCEPT !.pc = "simple", !.running = q, !.wanted = q])

\* "P"; portals of the statement now run another query.
Parse(c, s, q) ==
    /\ conn[c].pc = "open"
    /\ Set(c, [conn[c] EXCEPT
          !.statements[s] = q,
          !.portals = [p \in Portals |-> IF @[p].statement = s THEN [@[p] EXCEPT !.stale = TRUE]
                                         ELSE @[p]]])

\* "B"; the statement is not looked up.
Bind(c, p, s) ==
    /\ conn[c].pc = "open"
    /\ Set(c, [conn[c] EXCEPT !.portals[p] =
          [statement |-> s, query |-> conn[c].statements[s], stale |-> FALSE]])

\* Mutant of StatementOf: any statement of the connection will do.
StatementOfAny(c, p) ==
    LET known == {s \in Statements : conn[c].statements[s] # NoQuery} IN
    IF known = {} THEN NoQuery ELSE conn[c].statements[CHOOSE s \in known : TRUE]

\* The query that the portal's statement has now.
StatementOf(c, p) ==
    LET s == conn[c].portals[p].statement IN
    IF s = NoQuery THEN NoQuery ELSE conn[c].statements[s]

\* "E"; an unknown portal or statement is an error.
Execute(c, p) ==
    /\ conn[c].pc = "open"
    /\ conn[c].portals[p] # NoPortal
    /\ IF StatementOf(c, p) = NoQuery THEN Set(c, Gone)
       ELSE Set(c, [conn[c] EXCEPT
               !.pc = "extended", !.running = StatementOf(c, p),
               !.wanted = IF conn[c].portals[p].stale THEN StatementOf(c, p)
                          ELSE conn[c].portals[p].query])

\* The runtime has answered, or raised: then the connection ends.
QueryEnds(c, ok) ==
    /\ conn[c].pc \in {"simple", "extended"}
    /\ IF ok THEN Set(c, [conn[c] EXCEPT !.pc = "open", !.running = NoQuery,
                                         !.wanted = NoQuery])
       ELSE Set(c, Gone)

CloseStatement(c, s) ==
    /\ conn[c].pc = "open"
    /\ Set(c, [conn[c] EXCEPT !.statements[s] = NoQuery])

ClosePortal(c, p) ==
    /\ conn[c].pc = "open"
    /\ Set(c, [conn[c] EXCEPT !.portals[p] = NoPortal])

\* What a client sends, and what the endpoint does by itself.
OdbcMessage(c) ==
    \/ Connect(c)
    \/ Startup(c)
    \/ \E q \in Queries : SimpleQuery(c, q)
    \/ \E s \in Statements, q \in Queries : Parse(c, s, q)
    \/ \E p \in Portals, s \in Statements : Bind(c, p, s)
    \/ \E p \in Portals : Execute(c, p)
    \/ \E s \in Statements : CloseStatement(c, s)
    \/ \E p \in Portals : ClosePortal(c, p)

OdbcRuns(c) == \E ok \in BOOLEAN : QueryEnds(c, ok)

-----------------------------------------------------------------------------
(* Properties                                                              *)

\* A query that runs is the one its message meant: the text of the simple
\* query, or the statement as it was when the portal was bound, unless that
\* statement was parsed again under its name since.
RunsWhatWasBound == \A c \in OdbcClients : conn[c].running = conn[c].wanted
=============================================================================
