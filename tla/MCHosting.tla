------------------------------ MODULE MCHosting -----------------------------
(* Small instance of Hosting for TLC: two concurrent HTTP handlers on an   *)
(* SQL or in-memory store, or two ODBC clients.                            *)
EXTENDS Hosting, TLC

CONSTANTS h1, h2, c1, c2, u1, u2, s1, s2, p1, q1, q2

MCHandlers   == {h1, h2}
MCClients    == {c1, c2}
MCUsernames  == {u1, u2}
MCStatements == {s1, s2}
MCPortals    == {p1}
MCQueries    == {q1, q2}
MCStores     == {"sql", "memory"}
MCFronts     == {"http", "odbc"}
=============================================================================
