----------------------------- MODULE AgentTurn ------------------------------
(***************************************************************************)
(* What one call of the agent promises its caller, whatever the language   *)
(* model answers: a bounded number of calls of its agents, none after one  *)
(* of them was refused access, and then one outcome.                       *)
(***************************************************************************)
EXTENDS Naturals

CONSTANT MaxCalls   \* calls of agents one turn may make

VARIABLES status, calls, refused

turnVars == <<status, calls, refused>>

\* answer: a summary with or without data; question: the user is asked for
\* detail; denied: the access policy blocks the request; raised: an exception.
Outcomes == {"answer", "question", "denied", "raised"}

TurnInit == status = "working" /\ calls = 0 /\ refused = FALSE

\* An agent is called and returns.
Call ==
    /\ status = "working"
    /\ ~refused
    /\ calls < MaxCalls
    /\ calls' = calls + 1
    /\ refused' \in BOOLEAN
    /\ UNCHANGED status

\* A turn that was refused access ends with an answer that says so.
End ==
    /\ status = "working"
    /\ status' \in IF refused THEN {"answer"} ELSE Outcomes
    /\ UNCHANGED <<calls, refused>>

TurnNext == Call \/ End

TurnSafe == TurnInit /\ [][TurnNext]_turnVars

\* Every turn ends.
TurnSpec == TurnSafe /\ WF_turnVars(TurnNext)
=============================================================================
