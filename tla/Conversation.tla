---------------------------- MODULE Conversation ----------------------------
(***************************************************************************)
(* The turns of one conversation thread: ask_agent adds the user's message *)
(* and runs the agent, AgentExecutionService hands it the clarification    *)
(* state of the thread and stores the answer, and the ClarificationManager *)
(* decides whether the user may be asked back once more.  Calls of         *)
(* ask_agent overlap.  What the agent itself does is module Supervisor;    *)
(* here it ends with one of the outcomes of module AgentTurn.              *)
(*                                                                         *)
(* With a SQL store a call is one unit of work: nothing is visible before  *)
(* its commit, its flush takes the write lock, and a failure rolls         *)
(* everything back.  The thread it saves is the one it read at first, and  *)
(* of that row the flush writes every column that differs from the row as  *)
(* session.merge finds it later: a commit in between is overwritten.  The  *)
(* in-memory store is changed in place.                                    *)
(***************************************************************************)
EXTENDS Naturals, Sequences

CONSTANTS
    Stores,     \* metadata stores: "sql", "memory"
    Asks,       \* concurrent calls of ask_agent
    Questions,  \* clarifying questions the classifier may come up with
    MaxTurns,   \* max_turns of the clarification state
    MaxAsks,    \* bound: calls of ask_agent
    MaxCrashes, \* bound: crashes
    None

ASSUME TurnsAssumption == MaxTurns \in Nat \ {0}
ASSUME AsksAssumption  == None \notin Asks /\ None \notin Questions /\ MaxAsks \in Nat
ASSUME StoreAssumption == Stores \subseteq {"sql", "memory"}

VARIABLES
    store,    \* the store that is configured
    thread,   \* the stored thread: state and clarification state
    log,      \* its stored messages: <<role, number of the call>>
    lock,     \* the call that holds the write lock of the database
    ask,      \* the calls
    count,    \* calls so far
    streak,   \* history: stored clarifying questions since the last question
              \* that was clear or named no missing detail, or since a stored
              \* clarification state was lost
    crashes

vars == <<store, thread, log, lock, ask, count, streak, crashes>>

NoState == [turns |-> 0, asked |-> {}, pending |-> FALSE]
ClarificationStates == [turns : 0..MaxTurns, asked : SUBSET Questions, pending : BOOLEAN]

\* What a classification says: no clarification is needed (question None), or
\* which question to ask and whether required_context names missing details.
Classifications == {[question |-> None, named |-> FALSE]}
                   \cup [question : Questions, named : BOOLEAN]

Idle == [pc |-> "idle", n |-> 0, read |-> NoState, stale |-> FALSE, clar |-> NoState,
         class |-> [question |-> None, named |-> FALSE], result |-> None, back |-> None]

Pcs == {"idle", "begun", "merged", "execute", "handle", "recorded"}

TypeOK ==
    /\ store \in Stores
    /\ thread \in [state : {"awaiting", "processing"}, clar : ClarificationStates]
    /\ log \subseteq {"user", "assistant"} \X (1..MaxAsks)
    /\ lock \in Asks \cup {None}
    /\ ask \in [Asks -> [pc : Pcs, n : 0..MaxAsks, read : ClarificationStates, stale : BOOLEAN,
                         clar : ClarificationStates, class : Classifications,
                         result : {None, "answer", "question", "denied"},
                         back : Questions \cup {None}]]
    /\ count \in 0..MaxAsks
    /\ streak \in Seq(Questions)
    /\ crashes \in 0..MaxCrashes

Init ==
    /\ store \in Stores
    /\ thread = [state |-> "awaiting", clar |-> NoState]
    /\ log = {}
    /\ lock = None
    /\ ask = [a \in Asks |-> Idle]
    /\ count = 0
    /\ streak = <<>>
    /\ crashes = 0

-----------------------------------------------------------------------------
(* ask_agent up to the agent                                               *)

\* Mutant of LoadState: the stored state is used only while turns are left.
LoadStateUnspent(s) == IF s.pending /\ s.turns < MaxTurns THEN s ELSE NoState

\* _has_active_clarification_state and _build_planning_context: a state
\* without pending slots is not handed to the agent.
LoadState(s) == IF s.pending THEN s ELSE NoState

\* In memory the message and the state are stored at once, and nothing
\* suspends until the agent has read them.
BeginInMemory(a) ==
    /\ store = "memory"
    /\ ask[a].pc = "idle"
    /\ count < MaxAsks
    /\ count' = count + 1
    /\ thread' = [thread EXCEPT !.state = "processing"]
    /\ log' = log \cup {<<"user", count + 1>>}
    /\ ask' = [ask EXCEPT ![a] = [Idle EXCEPT !.pc = "execute", !.n = count + 1,
                                              !.clar = LoadState(thread.clar)]]
    /\ UNCHANGED <<store, lock, streak, crashes>>

\* With a SQL store the call reads the thread; what it saves later is this
\* reading.
BeginSql(a) ==
    /\ store = "sql"
    /\ ask[a].pc = "idle"
    /\ count < MaxAsks
    /\ count' = count + 1
    /\ ask' = [ask EXCEPT ![a] = [Idle EXCEPT !.pc = "begun", !.n = count + 1, !.read = thread.clar]]
    /\ UNCHANGED <<store, thread, log, lock, streak, crashes>>

\* save finds no tracked record: session.merge selects the row again and
\* copies every column of the reading onto it.  The metadata are changed by
\* that if another call has committed since.
Merge(a) ==
    /\ ask[a].pc = "begun"
    /\ ask' = [ask EXCEPT ![a].pc = "merged", ![a].stale = ask[a].read # thread.clar]
    /\ UNCHANGED <<store, thread, log, lock, count, streak, crashes>>

\* The thread's clarification state as the call's own unit of work sees it
\* once its changed columns are flushed.
Flushed(a) == IF ask[a].stale THEN ask[a].read ELSE thread.clar

\* The flush writes the changed columns of the row and so takes the lock.  The
\* record is not referenced any more: the agent reads the row again, with the
\* state that was written back.  Others see neither before the commit.
Flush(a) ==
    /\ ask[a].pc = "merged"
    /\ lock = None
    /\ lock' = a
    /\ ask' = [ask EXCEPT ![a].pc = "execute", ![a].clar = LoadState(Flushed(a))]
    /\ UNCHANGED <<store, thread, log, count, streak, crashes>>

\* The database gives up waiting for the lock: the call raises.
LockTimeout(a) ==
    /\ ask[a].pc = "merged"
    /\ lock # None
    /\ ask' = [ask EXCEPT ![a] = Idle]
    /\ UNCHANGED <<store, thread, log, lock, count, streak, crashes>>

-----------------------------------------------------------------------------
(* The agent's turn                                                        *)

\* The question was not asked before and the budget is not used up.
MayAsk(s, q) == q \notin s.asked /\ s.turns < MaxTurns

\* ClarificationManager.decide: the new state.
NextState(s, class) ==
    CASE class.question = None -> [s EXCEPT !.pending = FALSE]
      [] class.question # None /\ MayAsk(s, class.question) ->
            [turns |-> s.turns + 1, asked |-> s.asked \cup {class.question},
             pending |-> class.named]
      [] OTHER -> [s EXCEPT !.pending = class.named]

\* Mutant of Preflight: a question that may not be asked is classified again.
PreflightAgain(a, class, blocked) ==
    LET s    == ask[a].clar
        asks == class.question # None /\ MayAsk(s, class.question)
    IN
    /\ ask[a].pc = "execute"
    /\ ask' = [ask EXCEPT ![a].clar = NextState(s, class),
                          ![a].class = class,
                          ![a].back = IF asks THEN class.question ELSE None,
                          ![a].result = IF asks THEN "question" ELSE None,
                          ![a].pc = CASE asks -> "recorded"
                                      [] class.question = None -> "handle"
                                      [] OTHER -> "execute"]
    /\ UNCHANGED <<store, thread, log, lock, count, streak, crashes>>

\* handle() classifies the question.  A request that the access policy blocks
\* is denied although the state counts its question as asked.
Preflight(a, class, blocked) ==
    LET s     == ask[a].clar
        asks  == class.question # None /\ MayAsk(s, class.question)
        ended == blocked \/ asks
    IN
    /\ ask[a].pc = "execute"
    /\ ask' = [ask EXCEPT ![a].clar = NextState(s, class),
                          ![a].class = class,
                          ![a].back = IF asks /\ ~blocked THEN class.question ELSE None,
                          ![a].result = IF blocked THEN "denied"
                                        ELSE IF asks THEN "question" ELSE None,
                          ![a].pc = IF ended THEN "recorded" ELSE "handle"]
    /\ UNCHANGED <<store, thread, log, lock, count, streak, crashes>>

\* The rest of the turn: an answer, or a question of the planner's own.
Handle(a, result) ==
    /\ ask[a].pc = "handle"
    /\ ask' = [ask EXCEPT ![a].result = result, ![a].pc = "recorded"]
    /\ UNCHANGED <<store, thread, log, lock, count, streak, crashes>>

-----------------------------------------------------------------------------
(* After the agent                                                         *)

\* _persist_supervisor_state keeps an active state, and any state when a
\* question is asked.
Persisted(a) ==
    IF ask[a].clar.pending \/ ask[a].result = "question" THEN ask[a].clar ELSE NoState

\* Mutant of StoreAnswer: the answer is stored without its question.
StoreAnswerOnly(a) ==
    /\ log' = log \cup {<<"assistant", ask[a].n>>}
    /\ thread' = [state |-> "awaiting", clar |-> Persisted(a)]

\* _record_assistant_message and save; with SQL visible by the commit, together
\* with the user's message.
StoreAnswer(a) ==
    /\ log' = log \cup {<<"user", ask[a].n>>, <<"assistant", ask[a].n>>}
    /\ thread' = [state |-> "awaiting", clar |-> Persisted(a)]

\* The call has written its stale reading over a state stored since.
Overwrites(a) == Flushed(a) # thread.clar

\* The commit.
Finish(a) ==
    /\ ask[a].pc = "recorded"
    /\ StoreAnswer(a)
    /\ streak' = LET before == IF Overwrites(a) THEN <<>> ELSE streak
                 IN  IF ask[a].class.question = None \/ ~ask[a].class.named THEN <<>>
                     ELSE IF ask[a].back # None THEN Append(before, ask[a].back) ELSE before
    /\ lock' = IF lock = a THEN None ELSE lock
    /\ ask' = [ask EXCEPT ![a] = Idle]
    /\ UNCHANGED <<store, count, crashes>>

\* Anything raises, the agent, the write-back of memories or the commit: the
\* unit of work is rolled back; in memory what was stored stays.
Fail(a) ==
    /\ ask[a].pc # "idle"
    /\ lock' = IF lock = a THEN None ELSE lock
    /\ ask' = [ask EXCEPT ![a] = Idle]
    /\ UNCHANGED <<store, thread, log, count, streak, crashes>>

\* The process dies; only a database survives.
Crash ==
    /\ crashes < MaxCrashes
    /\ crashes' = crashes + 1
    /\ ask' = [a \in Asks |-> Idle]
    /\ lock' = None
    /\ IF store = "sql" THEN UNCHANGED <<thread, log, streak>>
       ELSE /\ thread' = [state |-> "awaiting", clar |-> NoState]
            /\ log' = {}
            /\ streak' = <<>>
    /\ UNCHANGED <<store, count>>

-----------------------------------------------------------------------------

Step(a) ==
    \/ Merge(a)
    \/ Flush(a)
    \/ LockTimeout(a)
    \/ \E class \in Classifications, blocked \in BOOLEAN : Preflight(a, class, blocked)
    \/ \E result \in {"answer", "question"} : Handle(a, result)
    \/ Finish(a)
    \/ Fail(a)

Next ==
    \/ \E a \in Asks : BeginInMemory(a)
    \/ \E a \in Asks : BeginSql(a)
    \/ \E a \in Asks : Step(a)
    \/ Crash

\* A call makes progress: agents end their turns (AgentTurn), the database
\* answers or times out.
Spec == Init /\ [][Next]_vars /\ \A a \in Asks : WF_vars(Step(a))

-----------------------------------------------------------------------------
(* Properties                                                              *)

Answered == {n \in 1..MaxAsks : <<"assistant", n>> \in log}
Asked    == {n \in 1..MaxAsks : <<"user", n>> \in log}

\* With a SQL store no question is left without its answer, no answer without
\* its question, and the thread is never seen processing, whatever fails and
\* however calls overlap.  In memory a thread that is processing has a question
\* without an answer.
TurnsComplete ==
    /\ store = "sql" => Asked = Answered /\ thread.state = "awaiting"
    /\ Answered \subseteq Asked
    /\ thread.state = "processing" => Asked # Answered

\* The guard of ClarificationManager: with a SQL store the user is never asked
\* back more than max_turns times in a row, nor twice the same, as long as the
\* questions name what is missing.  The row begins anew where a call overlapped
\* another between its reading of the thread and its merge, and so wrote an
\* older clarification state over the other's: what that one asked is
\* forgotten.  However else calls overlap, no stored question is.
ClarificationBudget ==
    store = "sql" =>
        /\ Len(streak) <= MaxTurns
        /\ \A i, j \in DOMAIN streak : i # j => streak[i] # streak[j]

\* What a thread stores is complete and its budget is kept.
ThreadIntact == TurnsComplete /\ ClarificationBudget

\* Every call of ask_agent returns or raises.
AsksEnd == \A a \in Asks : ask[a].pc # "idle" ~> ask[a].pc = "idle"
=============================================================================
