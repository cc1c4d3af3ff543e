---------------------------- MODULE MCApiPaging -----------------------------
(* Small instance of ApiPaging for TLC: pages of two, at most two pages;   *)
(* the third stamp sorts before the second as text ("10" before "9").      *)
EXTENDS ApiPaging

MCTextRank == [s \in Stamps |-> IF s = 3 THEN 1 ELSE 2 * s]
MCKinds    == {"unix_timestamp", "iso_datetime", "string"}
MCPagings  == {"offset", "record", "server", "page"}
=============================================================================
