---------------------------- MODULE AgentsProofs -----------------------------
(***************************************************************************)
(* Theorems about the conversations with agents (Conversation), the way in *)
(* to them (Gateway), the agents for analysis (Analyst) and research       *)
(* (Research) and the answer that is delivered (Answer), for any number of *)
(* calls, questions, turns, requests, keys and tokens, and any agents,     *)
(* policies, budgets, evidence and tables.                                 *)
(***************************************************************************)
EXTENDS Conversation, Gateway, Analyst, Research, Answer, SequenceLemmas, TLAPS

-----------------------------------------------------------------------------
(* Conversation: types                                                     *)

Classes  == [question : Questions \cup {None}, named : BOOLEAN]
CallType == [pc : Pcs, n : 0..MaxAsks, read : ClarificationStates, stale : BOOLEAN,
             clar : ClarificationStates, class : Classes,
             result : {None, "answer", "question", "denied"}, back : Questions \cup {None}]

ConversationTyped ==
    /\ store \in {"sql", "memory"}
    /\ thread \in [state : {"awaiting", "processing"}, clar : ClarificationStates]
    /\ count \in 0..MaxAsks
    /\ ask \in [Asks -> CallType]
    /\ streak \in Seq(Questions)

(* The clarification state stays within its bounds. *)
LEMMA StatesTyped ==
    /\ NoState \in ClarificationStates
    /\ Idle \in CallType /\ Idle.pc = "idle"
    /\ \A s \in ClarificationStates : LoadState(s) \in ClarificationStates
    /\ \A s \in ClarificationStates, c \in Classes : NextState(s, c) \in ClarificationStates
    /\ Classifications \subseteq Classes
  <1>1. NoState \in ClarificationStates
    BY TurnsAssumption DEF NoState, ClarificationStates
  <1>2. Idle \in CallType /\ Idle.pc = "idle"
    BY <1>1, AsksAssumption DEF Idle, CallType, Pcs, Classes
  <1>3. \A s \in ClarificationStates : LoadState(s) \in ClarificationStates
    BY <1>1 DEF LoadState
  <1>4. ASSUME NEW s \in ClarificationStates, NEW c \in Classes
        PROVE  NextState(s, c) \in ClarificationStates
    <2>1. CASE c.question = None
      BY <2>1 DEF NextState, ClarificationStates
    <2>2. CASE c.question # None /\ MayAsk(s, c.question)
      <3>1. NextState(s, c) = [turns |-> s.turns + 1, asked |-> s.asked \cup {c.question},
                               pending |-> c.named]
        BY <2>2 DEF NextState
      <3>2. s.turns + 1 \in 0..MaxTurns
        BY <2>2, TurnsAssumption DEF MayAsk, ClarificationStates
      <3> QED
        BY <2>2, <3>1, <3>2 DEF ClarificationStates, Classes
    <2>3. CASE c.question # None /\ ~MayAsk(s, c.question)
      <3>1. NextState(s, c) = [s EXCEPT !.pending = c.named]
        BY <2>3 DEF NextState
      <3> QED
        BY <3>1 DEF ClarificationStates, Classes
    <2> QED
      BY <2>1, <2>2, <2>3
  <1>5. Classifications \subseteq Classes
    <2>1. [question |-> None, named |-> FALSE] \in Classes
      BY DEF Classes
    <2>2. [question : Questions, named : BOOLEAN] \subseteq Classes
      BY DEF Classes
    <2> QED
      BY <2>1, <2>2 DEF Classifications
  <1> QED
    BY <1>1, <1>2, <1>3, <1>4, <1>5

-----------------------------------------------------------------------------
(* Conversation: a thread is complete                                      *)

\* The calls and their numbers: what is stored belongs to a call that began,
\* and a stored answer stands with its question.
LogSound ==
    /\ \A a \in Asks : ask[a].pc # "idle" => ask[a].n \in 1..count
    /\ log \subseteq {"user", "assistant"} \X (1..count)
    /\ \A n \in 1..count : <<"assistant", n>> \in log => <<"user", n>> \in log
    /\ store = "sql" => /\ thread.state = "awaiting"
                        /\ \A n \in 1..count : <<"user", n>> \in log => <<"assistant", n>> \in log
    /\ thread.state = "processing" =>
          \E n \in 1..count : <<"user", n>> \in log /\ <<"assistant", n>> \notin log

\* With a SQL store a call that the agent works for holds the write lock, and
\* so the state it was handed is the one it flushed, or the thread's.
Written(c) == IF c.stale THEN c.read ELSE thread.clar
Handed(c)  ==
    LET s == LoadState(Written(c)) IN
    /\ c.pc = "execute" => c.clar = s
    /\ c.pc \in {"handle", "recorded"} =>
          /\ c.clar = NextState(s, c.class)
          /\ c.back # None => c.back = c.class.question /\ MayAsk(s, c.back)

LockSound ==
    store = "sql" => \A a \in Asks : ask[a].pc \in {"execute", "handle", "recorded"}
                        => lock = a /\ Handed(ask[a])

\* The questions asked in a row are counted and known in the thread's state.
StreakKnown(s, asked) ==
    asked # <<>> => /\ s.pending
                    /\ Len(asked) <= s.turns
                    /\ \A i \in DOMAIN asked : asked[i] \in s.asked

StreakSound ==
    store = "sql" => /\ StreakKnown(thread.clar, streak)
                     /\ \A i, j \in DOMAIN streak : i # j => streak[i] # streak[j]

\* ThreadIntact with the facts that make it inductive.
ConversationInv == ConversationTyped /\ LogSound /\ LockSound /\ StreakSound

(* A step of one call that leaves thread and messages alone.               *)
LEMMA CallStep ==
    ASSUME ConversationInv, NEW a \in Asks, NEW c \in CallType,
           ask' = [ask EXCEPT ![a] = c],
           c.pc # "idle" => c.n \in 1..count,
           store = "sql" /\ c.pc \in {"execute", "handle", "recorded"} => lock' = a /\ Handed(c),
           \A b \in Asks \ {a} : lock = b => lock' = b,
           UNCHANGED <<store, thread, log, count, streak>>
    PROVE  ConversationInv'
  <1>1. ConversationTyped'
    BY DEF ConversationInv, ConversationTyped
  <1>2. \A b \in Asks : ask'[b] = IF b = a THEN c ELSE ask[b]
    BY DEF ConversationInv, ConversationTyped
  <1>3. LogSound'
    BY <1>2 DEF ConversationInv, LogSound
  <1>4. LockSound'
    <2>1. ASSUME NEW d, Handed(d)  PROVE Handed(d)'
      BY <2>1 DEF Handed, Written
    <2> QED
      BY <1>2, <2>1 DEF ConversationInv, LockSound
  <1>5. StreakSound'
    BY DEF ConversationInv, StreakSound, StreakKnown
  <1> QED
    BY <1>1, <1>3, <1>4, <1>5 DEF ConversationInv

\* The state a call leaves, and the questions asked in a row after it.
StateAfter(c)  == IF c.clar.pending \/ c.result = "question" THEN c.clar ELSE NoState
StreakBefore(c) == IF Written(c) # thread.clar THEN <<>> ELSE streak
StreakAfter(c) == IF c.class.question = None \/ ~c.class.named THEN <<>>
                  ELSE IF c.back # None THEN Append(StreakBefore(c), c.back) ELSE StreakBefore(c)

(* The questions asked in a row are known in the state that is stored with *)
(* an answer.                                                               *)
LEMMA StreakGrows ==
    ASSUME ConversationInv, store = "sql", NEW c \in CallType, c.pc = "recorded", Handed(c)
    PROVE  /\ StreakKnown(StateAfter(c), StreakAfter(c))
           /\ \A i, j \in DOMAIN StreakAfter(c) : i # j => StreakAfter(c)[i] # StreakAfter(c)[j]
  <1> DEFINE s    == LoadState(Written(c))
             asked == StreakBefore(c)
             kept == StateAfter(c)
             next == StreakAfter(c)
  <1> USE DEF StateAfter, StreakAfter
  <1>0. /\ streak \in Seq(Questions) /\ thread.clar \in ClarificationStates
        /\ c.read \in ClarificationStates /\ c.stale \in BOOLEAN
    BY DEF ConversationInv, ConversationTyped, CallType
  <1>1. /\ asked \in Seq(Questions) /\ Written(c) \in ClarificationStates
        /\ s \in ClarificationStates
        /\ c.class \in Classes /\ c.back \in Questions \cup {None}
    BY <1>0, StatesTyped DEF CallType, Written, StreakBefore
  <1>2. /\ c.clar = NextState(s, c.class)
        /\ c.back # None => c.back = c.class.question /\ MayAsk(s, c.back)
    BY DEF Handed
  <1>3. /\ StreakKnown(Written(c), asked)
        /\ \A i, j \in DOMAIN asked : i # j => asked[i] # asked[j]
    <2>1. CASE Written(c) # thread.clar
      BY <2>1 DEF StreakKnown, StreakBefore
    <2>2. CASE Written(c) = thread.clar
      BY <2>2 DEF StreakKnown, StreakBefore, ConversationInv, StreakSound
    <2> QED BY <2>1, <2>2
  <1>4. StreakKnown(s, asked)
    BY <1>3 DEF StreakKnown, LoadState
  <1> HIDE DEF asked
  <1>5. CASE c.class.question = None \/ ~c.class.named
    BY <1>5 DEF StreakKnown
  <1>6. CASE c.class.question # None /\ c.class.named /\ c.back = None
    <2>1. next = asked
      BY <1>6 DEF asked
    <2>2. c.clar.pending /\ s.turns <= c.clar.turns /\ s.asked \subseteq c.clar.asked
      BY <1>1, <1>2, <1>6 DEF NextState, ClarificationStates
    <2>3. kept = c.clar
      BY <2>2
    <2>4. StreakKnown(kept, next)
      <3>1. c.clar.turns \in Nat /\ s.turns \in Nat /\ Len(asked) \in Nat
        BY <1>1 DEF CallType, ClarificationStates
      <3> QED
        BY <1>4, <2>1, <2>2, <2>3, <3>1 DEF StreakKnown
    <2> QED
      BY <1>1, <1>3, <2>1, <2>4
  <1>7. CASE c.class.question # None /\ c.class.named /\ c.back # None
    <2> DEFINE q == c.class.question
    <2>1. next = Append(asked, q) /\ q \in Questions /\ q \notin s.asked
      BY <1>1, <1>2, <1>7 DEF MayAsk, Classes, asked
    <2>2. c.clar = [turns |-> s.turns + 1, asked |-> s.asked \cup {q}, pending |-> TRUE]
      BY <1>1, <1>2, <1>7 DEF NextState, Classes
    <2>3. kept = c.clar /\ c.clar.pending
      BY <2>2
    <2> HIDE DEF q
    <2>4. /\ next \in Seq(Questions)
          /\ Len(next) = Len(asked) + 1
          /\ DOMAIN next = 1..Len(asked) + 1 /\ DOMAIN asked = 1..Len(asked)
          /\ next[Len(asked) + 1] = q
          /\ \A i \in 1..Len(asked) : next[i] = asked[i]
      <3> HIDE DEF next, kept
      <3>1. asked \in Seq(Questions)
        BY <1>1
      <3> QED BY <2>1, <3>1
    <2>5. s.turns \in Nat /\ Len(asked) \in Nat
      BY <1>1 DEF ClarificationStates
    <2>6. Len(asked) <= s.turns /\ \A i \in 1..Len(asked) : asked[i] \in s.asked
      BY <1>1, <1>4, <2>4, <2>5 DEF StreakKnown
    <2>7. StreakKnown(kept, next)
      BY <2>2, <2>3, <2>4, <2>5, <2>6 DEF StreakKnown
    <2>8. \A i, j \in DOMAIN next : i # j => next[i] # next[j]
      <3> SUFFICES ASSUME NEW i \in DOMAIN next, NEW j \in DOMAIN next, i # j, next[i] = next[j]
                   PROVE  FALSE
        OBVIOUS
      <3> HIDE DEF next
      <3>1. \A k \in DOMAIN next : k \in 1..Len(asked) \/ k = Len(asked) + 1
        BY <2>4, <2>5
      <3>2. \A k \in 1..Len(asked) : next[k] = asked[k] /\ next[k] # q
        BY <2>1, <2>4, <2>6
      <3>3. CASE i \in 1..Len(asked) /\ j \in 1..Len(asked)
        BY <1>3, <2>4, <3>2, <3>3
      <3>4. CASE i = Len(asked) + 1 \/ j = Len(asked) + 1
        BY <2>4, <3>1, <3>2, <3>4
      <3> QED
        BY <3>1, <3>3, <3>4
    <2> QED
      BY <2>7, <2>8
  <1> QED
    BY <1>5, <1>6, <1>7

(* A call that stores its answer. *)
LEMMA FinishKeeps ==
    ASSUME ConversationInv, NEW a \in Asks, Finish(a)
    PROVE  ConversationInv'
  <1> DEFINE n == ask[a].n
  <1>1. PICK c \in CallType : c = ask[a]
    BY DEF ConversationInv, ConversationTyped
  <1>2. PICK kept : kept = StateAfter(c)
    OBVIOUS
  <1>3. PICK next : next = StreakAfter(c)
    OBVIOUS
  <1>4. /\ c.pc = "recorded" /\ n \in 1..count
        /\ thread' = [state |-> "awaiting", clar |-> kept]
        /\ log' = log \cup {<<"user", n>>, <<"assistant", n>>}
        /\ streak' = next
        /\ UNCHANGED <<store, count>>
        /\ ask' = [ask EXCEPT ![a] = Idle]
        /\ lock' = IF lock = a THEN None ELSE lock
    BY <1>1, <1>2, <1>3
       DEF Finish, StoreAnswer, Persisted, Overwrites, Flushed, Written, StateAfter, StreakBefore,
           StreakAfter, ConversationInv, LogSound
  <1>5. \A b \in Asks : ask'[b] = IF b = a THEN Idle ELSE ask[b]
    BY <1>4 DEF ConversationInv, ConversationTyped
  <1>6. ConversationTyped'
    <2>1. kept \in ClarificationStates
      BY <1>1, <1>2, StatesTyped DEF CallType, StateAfter
    <2>2. thread' \in [state : {"awaiting", "processing"}, clar : ClarificationStates]
      BY <1>4, <2>1
    <2>3. next \in Seq(Questions)
      BY <1>1, <1>3 DEF ConversationInv, ConversationTyped, CallType, StreakBefore, StreakAfter
    <2> QED
      BY <1>4, <2>2, <2>3, StatesTyped DEF ConversationInv, ConversationTyped
  <1>7. LogSound'
    <2>1. count \in Nat
      BY DEF ConversationInv, ConversationTyped
    <2>2. \A b \in Asks : ask'[b].pc # "idle" => ask'[b].n \in 1..count
      BY <1>5, StatesTyped DEF ConversationInv, LogSound
    <2>3. log' \subseteq {"user", "assistant"} \X (1..count)
      BY <1>4 DEF ConversationInv, LogSound
    <2>4. \A m \in 1..count : /\ <<"assistant", m>> \in log' => <<"user", m>> \in log'
                              /\ store = "sql" /\ <<"user", m>> \in log' => <<"assistant", m>> \in log'
      BY <1>4 DEF ConversationInv, LogSound
    <2>5. thread'.state = "awaiting"
      BY <1>4
    <2> QED
      BY <1>4, <2>2, <2>3, <2>4, <2>5 DEF LogSound
  <1>8. LockSound' /\ StreakSound'
    <2>1. CASE store = "sql"
      <3>1. lock = a /\ Handed(c)
        BY <1>1, <1>4, <2>1 DEF ConversationInv, LockSound
      <3>2. \A b \in Asks : ask'[b].pc \notin {"execute", "handle", "recorded"}
        BY <1>5, <2>1, <3>1, StatesTyped DEF ConversationInv, LockSound
      <3>3. /\ StreakKnown(kept, next)
            /\ \A i, j \in DOMAIN next : i # j => next[i] # next[j]
        BY <1>2, <1>3, <1>4, <2>1, <3>1, StreakGrows
      <3> QED
        BY <1>4, <3>2, <3>3 DEF LockSound, StreakSound
    <2>2. CASE store # "sql"
      BY <1>4, <2>2 DEF LockSound, StreakSound
    <2> QED
      BY <2>1, <2>2
  <1> QED
    BY <1>6, <1>7, <1>8 DEF ConversationInv

(* In memory a question is stored before the agent is called. *)
LEMMA MemoryKeeps ==
    ASSUME ConversationInv, NEW a \in Asks, BeginInMemory(a)
    PROVE  ConversationInv'
  <1> DEFINE n == count + 1
             c == [Idle EXCEPT !.pc = "execute", !.n = n, !.clar = LoadState(thread.clar)]
  <1>1. /\ store = "memory" /\ count < MaxAsks /\ count' = n
        /\ thread' = [thread EXCEPT !.state = "processing"]
        /\ log' = log \cup {<<"user", n>>}
        /\ ask' = [ask EXCEPT ![a] = c]
        /\ UNCHANGED <<store, streak>>
    BY DEF BeginInMemory
  <1>2. count \in Nat /\ n \in 0..MaxAsks /\ n \in 1..n /\ 1..count \subseteq 1..n /\ n \notin 1..count
    BY <1>1, AsksAssumption DEF ConversationInv, ConversationTyped
  <1>3. c \in CallType /\ c.n = n
    <2>1. LoadState(thread.clar) \in ClarificationStates
      BY StatesTyped DEF ConversationInv, ConversationTyped
    <2> QED
      BY <1>2, <2>1, StatesTyped DEF CallType, Pcs
  <1>4. \A b \in Asks : ask'[b] = IF b = a THEN c ELSE ask[b]
    BY <1>1 DEF ConversationInv, ConversationTyped
  <1> HIDE DEF c, n
  <1>5. ConversationTyped'
    BY <1>1, <1>2, <1>3 DEF ConversationInv, ConversationTyped
  <1>6. LogSound'
    <2>1. \A b \in Asks : ask'[b].pc # "idle" => ask'[b].n \in 1..n
      BY <1>2, <1>3, <1>4 DEF ConversationInv, LogSound
    <2>2. log' \subseteq {"user", "assistant"} \X (1..n)
      BY <1>1, <1>2 DEF ConversationInv, LogSound
    <2>3. \A m \in 1..n : <<"assistant", m>> \in log' => <<"user", m>> \in log'
      BY <1>1, <1>2 DEF ConversationInv, LogSound
    <2>4. <<"user", n>> \in log' /\ <<"assistant", n>> \notin log'
      BY <1>1, <1>2 DEF ConversationInv, LogSound
    <2> QED
      BY <1>1, <1>2, <2>1, <2>2, <2>3, <2>4 DEF LogSound
  <1> QED
    BY <1>1, <1>5, <1>6 DEF ConversationInv, LockSound, StreakSound

(* The other steps of a call. *)
LEMMA StepKeeps ==
    ASSUME ConversationInv, NEW a \in Asks, Step(a) \/ BeginSql(a)
    PROVE  ConversationInv'
  <1>0. PICK k \in CallType : k = ask[a]
    BY DEF ConversationInv, ConversationTyped
  <1>1. CASE BeginSql(a)
    <2> DEFINE n == count + 1
    <2>1. PICK c : c = [Idle EXCEPT !.pc = "begun", !.n = n, !.read = thread.clar]
      OBVIOUS
    <2>2. /\ store = "sql" /\ count < MaxAsks /\ count' = n /\ ask' = [ask EXCEPT ![a] = c]
          /\ UNCHANGED <<store, thread, log, lock, streak>>
      BY <1>1, <2>1 DEF BeginSql
    <2>3. count \in Nat /\ n \in 0..MaxAsks /\ n \in 1..n /\ 1..count \subseteq 1..n /\ n \notin 1..count
      BY <2>2, AsksAssumption DEF ConversationInv, ConversationTyped
    <2>4. c \in CallType /\ c.n = n /\ c.pc = "begun"
      <3>1. thread.clar \in ClarificationStates
        BY DEF ConversationInv, ConversationTyped
      <3> QED BY <2>1, <2>3, <3>1, StatesTyped DEF CallType, Pcs
    <2>5. \A b \in Asks : ask'[b] = IF b = a THEN c ELSE ask[b]
      BY <2>2 DEF ConversationInv, ConversationTyped
    <2>6. ConversationTyped'
      BY <2>2, <2>3, <2>4 DEF ConversationInv, ConversationTyped
    <2>7. LogSound'
      <3>1. \A b \in Asks : ask'[b].pc # "idle" => ask'[b].n \in 1..n
        BY <2>3, <2>4, <2>5 DEF ConversationInv, LogSound
      <3>2. <<"user", n>> \notin log /\ <<"assistant", n>> \notin log
        BY <2>3 DEF ConversationInv, LogSound
      <3>3. log \subseteq {"user", "assistant"} \X (1..n)
        BY <2>3 DEF ConversationInv, LogSound
      <3>4. \A m \in 1..n : m \in 1..count \/ m = n
        BY <2>3
      <3> HIDE DEF n
      <3> QED
        BY <2>2, <2>3, <3>1, <3>2, <3>3, <3>4 DEF ConversationInv, LogSound
    <2>8. LockSound' /\ StreakSound'
      BY <2>2, <2>4, <2>5 DEF ConversationInv, LockSound, Handed, Written, StreakSound, StreakKnown
    <2> QED
      BY <2>6, <2>7, <2>8 DEF ConversationInv
  <1>2. CASE Flush(a)
    <2>1. PICK c : c = [k EXCEPT !.pc = "execute", !.clar = LoadState(Written(k))]
      OBVIOUS
    <2>2. LoadState(Written(k)) \in ClarificationStates
      <3>1. thread.clar \in ClarificationStates /\ k.read \in ClarificationStates
        BY DEF ConversationInv, ConversationTyped, CallType
      <3> QED BY <3>1, StatesTyped DEF Written
    <2>3. /\ c \in CallType /\ c.pc = "execute" /\ c.n = k.n
          /\ c.clar = LoadState(Written(k)) /\ Written(c) = Written(k)
      BY <2>1, <2>2 DEF CallType, Pcs, Written
    <2>4. k.pc = "merged" /\ ask' = [ask EXCEPT ![a] = c] /\ lock = None /\ lock' = a
          /\ UNCHANGED <<store, thread, log, count, streak>>
      BY <1>0, <1>2, <2>1 DEF Flush, Flushed, Written, ConversationInv, ConversationTyped
    <2>5. c.n \in 1..count /\ Handed(c)
      BY <1>0, <2>3, <2>4 DEF ConversationInv, LogSound, Handed
    <2> QED
      BY <2>3, <2>4, <2>5, AsksAssumption, CallStep
  <1>6. CASE Merge(a)
    <2>1. PICK c : c = [k EXCEPT !.pc = "merged", !.stale = k.read # thread.clar]
      OBVIOUS
    <2>2. c \in CallType /\ c.pc = "merged" /\ c.n = k.n
      <3>1. (k.read # thread.clar) \in BOOLEAN
        OBVIOUS
      <3> QED BY <2>1, <3>1 DEF CallType, Pcs
    <2>3. k.pc = "begun" /\ ask' = [ask EXCEPT ![a] = c]
          /\ UNCHANGED <<store, thread, log, lock, count, streak>>
      BY <1>0, <1>6, <2>1 DEF Merge, ConversationInv, ConversationTyped
    <2>4. c.n \in 1..count
      BY <1>0, <2>2, <2>3 DEF ConversationInv, LogSound
    <2> QED
      BY <2>2, <2>3, <2>4, CallStep
  <1>3. CASE LockTimeout(a) \/ Fail(a)
    <2>1. /\ ask' = [ask EXCEPT ![a] = Idle]
          /\ \A b \in Asks \ {a} : lock = b => lock' = b
          /\ UNCHANGED <<store, thread, log, count, streak>>
      BY <1>3 DEF LockTimeout, Fail
    <2> QED
      BY <2>1, StatesTyped, CallStep
  <1>4. ASSUME NEW class \in Classifications, NEW blocked \in BOOLEAN, Preflight(a, class, blocked)
        PROVE  ConversationInv'
    <2> DEFINE s     == k.clar
               asks  == class.question # None /\ MayAsk(s, class.question)
               ended == blocked \/ asks
    <2>1. PICK c : c = [k EXCEPT !.clar = NextState(s, class),
                          !.class = class,
                          !.back = IF asks /\ ~blocked THEN class.question ELSE None,
                          !.result = IF blocked THEN "denied"
                                     ELSE IF asks THEN "question" ELSE None,
                          !.pc = IF ended THEN "recorded" ELSE "handle"]
      OBVIOUS
    <2>2. class \in Classes /\ s \in ClarificationStates /\ NextState(s, class) \in ClarificationStates
      BY StatesTyped DEF CallType
    <2>3. /\ c \in CallType /\ c.pc \in {"handle", "recorded"} /\ c.n = k.n
          /\ c.clar = NextState(s, class) /\ c.class = class /\ Written(c) = Written(k)
          /\ c.back # None => asks /\ c.back = class.question
      BY <2>1, <2>2 DEF CallType, Pcs, Classes, Written
    <2>4. k.pc = "execute" /\ ask' = [ask EXCEPT ![a] = c]
          /\ UNCHANGED <<store, thread, log, lock, count, streak>>
      BY <1>0, <1>4, <2>1 DEF Preflight, ConversationInv, ConversationTyped
    <2>5. store = "sql" => lock = a /\ Handed(c)
      <3> SUFFICES ASSUME store = "sql"  PROVE lock = a /\ Handed(c)
        OBVIOUS
      <3>1. lock = a /\ s = LoadState(Written(k))
        BY <1>0, <2>4 DEF ConversationInv, LockSound, Handed
      <3> QED
        BY <2>3, <3>1 DEF Handed
    <2>6. c.n \in 1..count
      BY <1>0, <2>3, <2>4 DEF ConversationInv, LogSound
    <2> QED
      BY <2>3, <2>4, <2>5, <2>6, CallStep
  <1>5. ASSUME NEW result \in {"answer", "question"}, Handle(a, result)  PROVE ConversationInv'
    <2>1. PICK c : c = [k EXCEPT !.result = result, !.pc = "recorded"]
      OBVIOUS
    <2>2. /\ c \in CallType /\ c.pc = "recorded" /\ c.n = k.n
          /\ c.clar = k.clar /\ c.class = k.class /\ c.back = k.back /\ Written(c) = Written(k)
      BY <2>1 DEF CallType, Pcs, Written
    <2>3. k.pc = "handle" /\ ask' = [ask EXCEPT ![a] = c]
          /\ UNCHANGED <<store, thread, log, lock, count, streak>>
      BY <1>0, <1>5, <2>1 DEF Handle, ConversationInv, ConversationTyped
    <2>4. store = "sql" => lock = a /\ Handed(c)
      BY <1>0, <2>2, <2>3 DEF ConversationInv, LockSound, Handed
    <2>5. c.n \in 1..count
      BY <1>0, <2>2, <2>3 DEF ConversationInv, LogSound
    <2> QED
      BY <2>2, <2>3, <2>4, <2>5, CallStep
  <1> QED
    BY <1>1, <1>2, <1>3, <1>4, <1>5, <1>6, FinishKeeps DEF Step

(* Whatever calls overlap, fail or are cut off by a crash: with a SQL store *)
(* questions and answers are stored together, and the user is asked back    *)
(* max_turns times in a row at most and never twice the same; a call that   *)
(* writes a stale clarification state over another's begins a new row.      *)
THEOREM ThreadsStayIntact == Spec => []ThreadIntact
  <1>1. Init => ConversationInv
    <2> SUFFICES ASSUME Init  PROVE ConversationInv
      OBVIOUS
    <2>1. ConversationTyped
      BY StatesTyped, StoreAssumption, AsksAssumption DEF Init, ConversationTyped
    <2>2. LogSound /\ LockSound /\ StreakSound
      BY StatesTyped, AsksAssumption DEF Init, LogSound, LockSound, StreakSound, StreakKnown
    <2> QED
      BY <2>1, <2>2 DEF ConversationInv
  <1>2. ConversationInv /\ [Next]_vars => ConversationInv'
    <2> SUFFICES ASSUME ConversationInv, [Next]_vars  PROVE ConversationInv'
      OBVIOUS
    <2>1. CASE UNCHANGED vars
      BY <2>1 DEF vars, ConversationInv, ConversationTyped, LogSound, LockSound, Handed, Written,
                  StreakSound,
                  StreakKnown
    <2>2. CASE Crash
      <3>1. /\ ask' = [a \in Asks |-> Idle] /\ UNCHANGED <<store, count>>
            /\ \/ UNCHANGED <<thread, log, streak>>
               \/ store = "memory" /\ thread' = [state |-> "awaiting", clar |-> NoState]
                  /\ log' = {} /\ streak' = <<>>
        BY <2>2 DEF Crash, ConversationInv, ConversationTyped
      <3>2. ConversationTyped'
        <4>1. <<>> \in Seq(Questions) /\ ask' \in [Asks -> CallType]
          BY <3>1, StatesTyped
        <4>2. [state |-> "awaiting", clar |-> NoState]
                \in [state : {"awaiting", "processing"}, clar : ClarificationStates]
          BY StatesTyped
        <4> QED
          BY <3>1, <4>1, <4>2 DEF ConversationInv, ConversationTyped
      <3>3. LogSound'
        <4>1. \A a \in Asks : ask'[a].pc = "idle"
          BY <3>1, StatesTyped
        <4>2. CASE UNCHANGED <<thread, log>>
          BY <3>1, <4>1, <4>2 DEF ConversationInv, LogSound
        <4>3. CASE store = "memory" /\ thread' = [state |-> "awaiting", clar |-> NoState] /\ log' = {}
          BY <3>1, <4>1, <4>3 DEF LogSound
        <4> QED BY <3>1, <4>2, <4>3
      <3>4. LockSound' /\ StreakSound'
        BY <3>1, StatesTyped DEF ConversationInv, LockSound, StreakSound, StreakKnown
      <3> QED
        BY <3>2, <3>3, <3>4 DEF ConversationInv
    <2> QED
      BY <2>1, <2>2, MemoryKeeps, StepKeeps DEF Next
  <1>3. ConversationInv => ThreadIntact
    <2> SUFFICES ASSUME ConversationInv  PROVE ThreadIntact
      OBVIOUS
    <2>1. TurnsComplete
      <3>1. 1..count \subseteq 1..MaxAsks /\ log \subseteq {"user", "assistant"} \X (1..count)
        BY AsksAssumption DEF ConversationInv, ConversationTyped, LogSound
      <3>2. /\ Answered = {n \in 1..count : <<"assistant", n>> \in log}
            /\ Asked = {n \in 1..count : <<"user", n>> \in log}
        BY <3>1 DEF Answered, Asked
      <3> QED
        BY <3>2 DEF ConversationInv, LogSound, TurnsComplete
    <2>2. ClarificationBudget
      <3>1. /\ thread.clar.turns \in 0..MaxTurns /\ Len(streak) \in Nat
            /\ streak = <<>> => Len(streak) = 0
        BY DEF ConversationInv, ConversationTyped, ClarificationStates
      <3> QED
        BY <3>1, TurnsAssumption
           DEF ConversationInv, StreakSound, StreakKnown, ClarificationBudget
    <2> QED
      BY <2>1, <2>2 DEF ThreadIntact
  <1> QED
    BY <1>1, <1>2, <1>3, PTL DEF Spec

-----------------------------------------------------------------------------
(* Gateway: the identity provider's keys                                   *)

ContextType == [ws : {"own"} \cup {t.ws : t \in Tokens},
                who : {"none", "default", "actor", "subject"},
                admin : BOOLEAN \cup {t.admin : t \in Tokens}]
GateType    == [pc : {"free", "run", "fetch", "fetched", "session"},
                token : Tokens \cup {NoToken}, since : Nat, keys : KeySets \cup {{}},
                context : ContextType]

\* The provider published these keys at some moment from then until now.
PublishedSince(keys, then) == \E t \in 0..now : t >= then /\ published[t + 1] = keys

\* KeysFollowed with the facts that make it inductive: what is cached, and
\* what is under way, was published since the request was sent for it.
KeysInv ==
    /\ now \in Nat
    /\ published \in Seq(KeySets) /\ Len(published) = now + 1
    /\ gate \in [Requests -> GateType]
    /\ \A r \in Requests : gate[r].since <= now
    /\ \A r \in Requests : gate[r].pc = "fetched" => PublishedSince(gate[r].keys, gate[r].since)
    /\ jwks.until \in Nat
    /\ jwks.until # 0 => \E then \in Nat : /\ jwks.until = then + KeyTTL
                                           /\ PublishedSince(jwks.keys, then)
    /\ last.token # NoToken => last.at \in 0..now
    /\ KeysFollowed

KeysCached(cache) ==
    /\ cache.until \in Nat
    /\ cache.until # 0 => \E then \in Nat : /\ cache.until = then + KeyTTL
                                            /\ PublishedSince(cache.keys, then)

(* What a request can become is well typed. *)
LEMMA GatesTyped ==
    /\ Waiting \in GateType /\ Waiting.pc = "free" /\ Waiting.since = 0 /\ NoContext \in ContextType
    /\ NoEvent.token = NoToken
    /\ \A c \in ContextType : Running(c) \in GateType /\ Running(c).pc = "run" /\ Running(c).since = 0
    /\ DefaultPrincipal \in ContextType
    /\ \A t \in Tokens \cup {NoToken} : ContextOf(PrincipalOf(t)) \in ContextType
  <1>1. NoContext \in ContextType
    BY DEF NoContext, ContextType
  <1>2. Waiting \in GateType /\ Waiting.pc = "free" /\ Waiting.since = 0
    BY <1>1 DEF Waiting, GateType
  <1>3. \A c \in ContextType : Running(c) \in GateType /\ Running(c).pc = "run"
          /\ Running(c).since = 0
    BY <1>2 DEF Running, GateType
  <1>4. DefaultPrincipal \in ContextType
    BY DEF DefaultPrincipal, ContextType
  <1>5. ASSUME NEW t \in Tokens \cup {NoToken}  PROVE ContextOf(PrincipalOf(t)) \in ContextType
    <2> DEFINE who == (PrincipalOf(t)).who
    <2>1. t.ws \in {"own"} \cup {u.ws : u \in Tokens} /\ t.admin \in BOOLEAN \cup {u.admin : u \in Tokens}
      <3>1. NoToken.ws = "own" /\ NoToken.admin = FALSE
        BY DEF NoToken
      <3> QED
        BY <3>1
    <2>2. who \in {"actor", "subject", "none"}
      BY DEF PrincipalOf
    <2> QED
      BY <2>1, <2>2 DEF ContextOf, PrincipalOf, ContextType
  <1> QED
    BY <1>1, <1>2, <1>3, <1>4, <1>5 DEF NoEvent

(* A step of one request: it moves, and may store keys and note a judgement. *)
LEMMA RequestStep ==
    ASSUME KeysInv, NEW r \in Requests, NEW c \in GateType,
           gate' = [gate EXCEPT ![r] = c],
           c.since <= now,
           c.pc = "fetched" => PublishedSince(c.keys, c.since),
           UNCHANGED <<now, published>>,
           jwks' = jwks \/ KeysCached(jwks'),
           last'.token # NoToken => last'.at \in 0..now /\ KeysFollowed'
    PROVE  KeysInv'
  <1>1. \A g \in Requests : gate'[g] = IF g = r THEN c ELSE gate[g]
    BY DEF KeysInv
  <1>2. \A keys, then : PublishedSince(keys, then)' <=> PublishedSince(keys, then)
    BY DEF PublishedSince
  <1>3. gate' \in [Requests -> GateType]
    BY DEF KeysInv
  <1>4. \A g \in Requests : gate'[g].since <= now
    BY <1>1 DEF KeysInv
  <1>7. \A g \in Requests : gate'[g].pc = "fetched" => PublishedSince(gate'[g].keys, gate'[g].since)
    BY <1>1 DEF KeysInv
  <1>5. KeysCached(jwks')
    BY DEF KeysInv, KeysCached
  <1>6. KeysFollowed'
    BY DEF KeysFollowed
  <1> QED
    BY <1>2, <1>3, <1>4, <1>5, <1>6, <1>7 DEF KeysInv, KeysCached, PublishedSince

(* Judging a token by keys that are fresh or were fetched for it is what    *)
(* KeysFollowed asks for.                                                   *)
LEMMA JudgedRight ==
    ASSUME KeysInv, NEW r \in Requests, NEW c \in GateType, NEW keys, DecideBy(r, c, keys),
           UNCHANGED <<now, published>>, jwks' = jwks \/ KeysCached(jwks'),
           \E t \in 0..now : (t + KeyTTL > now \/ t >= c.since) /\ published[t + 1] = keys
    PROVE  KeysInv'
  <1>1. /\ last'.token = c.token /\ last'.ok = Verified(c.token, keys)
        /\ last'.since = c.since /\ last'.at = now
    BY DEF DecideBy
  <1>2. KeysFollowed'
    BY <1>1 DEF KeysFollowed
  <1>3. last'.at \in 0..now
    BY <1>1 DEF KeysInv
  <1>4. PICK d \in GateType : gate' = [gate EXCEPT ![r] = d] /\ d.pc \in {"run", "free"} /\ d.since = 0
    <2>1. ContextOf(PrincipalOf(c.token)) \in ContextType
      BY GatesTyped DEF GateType
    <2> QED
      BY <2>1, GatesTyped DEF DecideBy
  <1>5. d.since <= now /\ d.pc # "fetched"
    BY <1>4 DEF KeysInv
  <1>6. last'.token # NoToken => last'.at \in 0..now /\ KeysFollowed'
    BY <1>2, <1>3
  <1> QED
    BY <1>4, <1>5, <1>6, RequestStep

(* Every step of a request keeps the invariant. *)
LEMMA RequestKeeps ==
    ASSUME KeysInv, NEW r \in Requests,
           \/ \E token \in Tokens : Arrive(r, token)
           \/ \E m \in BOOLEAN : ArriveBare(r, m)
           \/ \E ok, admin \in BOOLEAN : Session(r, ok, admin)
           \/ ProviderAnswers(r)
           \/ ReceiveKeys(r)
           \/ \E status \in {401, 500} : FetchFails(r, status)
           \/ RefuseAdmin(r)
           \/ Operate(r)
    PROVE  KeysInv'
  <1>1. KeyTTL \in Nat \ {0} /\ now \in Nat /\ 0 <= now
    BY GatewayBounds DEF KeysInv
  <1>2. PICK k \in GateType : k = gate[r]
    BY DEF KeysInv
  <1>3. ASSUME NEW c \in GateType, Goes(r, c), c.pc # "fetched", c.since <= now, UNCHANGED <<now, published, jwks>>
        PROVE  KeysInv'
    <2>1. gate' = [gate EXCEPT ![r] = c] /\ last'.token = NoToken
      BY <1>3, GatesTyped DEF Goes
    <2> QED
      BY <1>3, <2>1, RequestStep
  <1>4. ASSUME NEW status, Answers(r, status), UNCHANGED <<now, published, jwks>>
        PROVE  KeysInv'
    <2>1. gate' = [gate EXCEPT ![r] = Waiting] /\ last'.token = NoToken
      BY <1>4, GatesTyped DEF Answers, NoEvent
    <2> QED
      BY <1>1, <1>4, <2>1, GatesTyped, RequestStep
  <1>5. ASSUME NEW token \in Tokens, Arrive(r, token)  PROVE KeysInv'
    <2>1. PICK c : c = [Waiting EXCEPT !.token = token, !.since = now]
      OBVIOUS
    <2>2. c \in GateType /\ c.since = now /\ c.token = token
      BY <1>1, <2>1, GatesTyped DEF GateType
    <2>3. UNCHANGED <<now, published, jwks>>
      BY <1>5 DEF Arrive
    <2>4. CASE Goes(r, Running(DefaultPrincipal))
      BY <1>1, <1>3, <2>3, <2>4, GatesTyped
    <2>5. CASE Answers(r, 401)
      BY <1>4, <2>3, <2>5
    <2>6. CASE Decide(r, token, token.by = Secret)
      <3>1. CASE Goes(r, Running(ContextOf(PrincipalOf(token))))
        BY <1>1, <1>3, <2>3, <3>1, GatesTyped
      <3> QED
        BY <1>4, <2>3, <2>6, <3>1 DEF Decide
    <2>7. CASE CacheFresh /\ DecideBy(r, c, jwks.keys)
      <3>1. jwks.until \in Nat /\ jwks.until > now /\ jwks.until # 0
        BY <1>1, <2>7 DEF CacheFresh, KeysInv
      <3>2. PICK then \in Nat : jwks.until = then + KeyTTL /\ PublishedSince(jwks.keys, then)
        BY <3>1 DEF KeysInv
      <3>3. PICK t \in 0..now : t >= then /\ published[t + 1] = jwks.keys
        BY <3>2 DEF PublishedSince
      <3>4. t + KeyTTL > now
        BY <1>1, <3>1, <3>2, <3>3
      <3> QED
        BY <2>2, <2>3, <2>7, <3>3, <3>4, JudgedRight
    <2>8. CASE Goes(r, [c EXCEPT !.pc = "fetch"])
      <3>1. [c EXCEPT !.pc = "fetch"] \in GateType /\ [c EXCEPT !.pc = "fetch"].pc = "fetch"
            /\ [c EXCEPT !.pc = "fetch"].since <= now
        BY <1>1, <2>2 DEF GateType
      <3> QED
        BY <1>3, <2>3, <2>8, <3>1
    <2> QED
      BY <1>5, <2>1, <2>4, <2>5, <2>6, <2>7, <2>8 DEF Arrive
  <1>6. ASSUME NEW m \in BOOLEAN, ArriveBare(r, m)  PROVE KeysInv'
    <2>1. [Waiting EXCEPT !.pc = "session"] \in GateType /\ [Waiting EXCEPT !.pc = "session"].pc = "session"
          /\ [Waiting EXCEPT !.pc = "session"].since = 0
      BY GatesTyped DEF GateType
    <2> QED
      BY <1>1, <1>3, <1>4, <1>6, <2>1, GatesTyped DEF ArriveBare
  <1>7. ASSUME NEW ok \in BOOLEAN, NEW admin \in BOOLEAN, Session(r, ok, admin)  PROVE KeysInv'
    <2>1. [ws |-> "own", who |-> "actor", admin |-> admin] \in ContextType
      BY DEF ContextType
    <2> QED
      BY <1>1, <1>3, <1>4, <1>7, <2>1, GatesTyped DEF Session
  <1>8. CASE ProviderAnswers(r)
    <2>1. PICK c : c = [k EXCEPT !.pc = "fetched", !.keys = published[now + 1]]
      OBVIOUS
    <2>2. published[now + 1] \in KeySets
      BY <1>1 DEF KeysInv
    <2>3. c \in GateType /\ c.keys = published[now + 1] /\ c.since = k.since
      BY <2>1, <2>2 DEF GateType
    <2>4. k.since <= now /\ k.since \in Nat
      BY <1>2 DEF KeysInv, GateType
    <2>5. PublishedSince(c.keys, c.since)
      BY <1>1, <2>3, <2>4 DEF PublishedSince
    <2>6. /\ gate' = [gate EXCEPT ![r] = c] /\ last'.token = NoToken
          /\ UNCHANGED <<now, published, jwks>>
      BY <1>2, <1>8, <2>1, GatesTyped DEF ProviderAnswers, Goes
    <2> QED
      BY <2>3, <2>4, <2>5, <2>6, RequestStep
  <1>9. CASE ReceiveKeys(r)
    <2>1. /\ k.pc = "fetched" /\ DecideBy(r, k, k.keys) /\ UNCHANGED <<now, published>>
          /\ jwks' = [keys |-> k.keys, until |-> k.since + KeyTTL]
          /\ PublishedSince(k.keys, k.since)
      BY <1>2, <1>9 DEF ReceiveKeys, KeptUntil, KeysInv
    <2>2. KeysCached(jwks')
      BY <1>1, <2>1 DEF KeysCached, GateType
    <2> QED
      BY <2>1, <2>2, JudgedRight DEF PublishedSince
  <1>10. CASE RefuseAdmin(r) \/ Operate(r) \/ \E status \in {401, 500} : FetchFails(r, status)
    BY <1>4, <1>10 DEF RefuseAdmin, Operate, FetchFails
  <1> QED
    BY <1>5, <1>6, <1>7, <1>8, <1>9, <1>10

(* A bearer token is judged by keys that the identity provider published   *)
(* within the cache's time to live, or since the request came, whatever    *)
(* requests overlap and whenever the provider changes its keys.            *)
THEOREM KeysAreFollowed == GatewaySpec => []KeysFollowed
  <1>1. GatewayInit => KeysInv
    <2> SUFFICES ASSUME GatewayInit  PROVE KeysInv
      OBVIOUS
    <2>1. PICK k \in KeySets : published = <<k>>
      BY DEF GatewayInit
    <2>2. published \in Seq(KeySets) /\ Len(published) = 1
      BY <2>1
    <2> QED
      BY <2>2, GatesTyped DEF GatewayInit, GatewayStart, NoKeys, NoEvent, KeysInv, KeysFollowed
  <1>2. KeysInv /\ [GatewayNext]_gatewayVars => KeysInv'
    <2> SUFFICES ASSUME KeysInv, [GatewayNext]_gatewayVars  PROVE KeysInv'
      OBVIOUS
    <2>1. CASE UNCHANGED gatewayVars
      BY <2>1 DEF gatewayVars, KeysInv, KeysFollowed, PublishedSince
    <2>2. ASSUME NEW keys \in KeySets, Tick(keys)  PROVE KeysInv'
      <3>1. /\ now' = now + 1 /\ published' = Append(published, keys) /\ last' = NoEvent
            /\ UNCHANGED <<jwks, gate>>
        BY <2>2 DEF Tick
      <3>2. now \in Nat /\ published \in Seq(KeySets) /\ Len(published) = now + 1
        BY DEF KeysInv
      <3>3. /\ published' \in Seq(KeySets) /\ Len(published') = now' + 1 /\ now' \in Nat
            /\ \A t \in 0..now : t \in 0..now' /\ published'[t + 1] = published[t + 1]
        BY <3>1, <3>2
      <3>4. \A ks, then : PublishedSince(ks, then) => PublishedSince(ks, then)'
        BY <3>3 DEF PublishedSince
      <3>5. gate' \in [Requests -> GateType] /\ \A r \in Requests : gate'[r].since <= now'
        BY <3>1, <3>2 DEF KeysInv, GateType
      <3> QED
        BY <3>1, <3>3, <3>4, <3>5, GatesTyped DEF KeysInv, KeysFollowed
    <2>3. CASE Restart
      <3>1. /\ jwks' = NoKeys /\ gate' = [r \in Requests |-> Waiting] /\ last' = NoEvent
            /\ UNCHANGED <<now, published>>
        BY <2>3 DEF Restart
      <3> QED
        BY <3>1, GatesTyped DEF KeysInv, KeysFollowed, NoKeys
    <2> QED
      BY <2>1, <2>2, <2>3, RequestKeeps DEF GatewayNext
  <1>3. KeysInv => KeysFollowed
    BY DEF KeysInv
  <1> QED
    BY <1>1, <1>2, <1>3, PTL DEF GatewaySpec

-----------------------------------------------------------------------------
(* Analyst: what is executed is allowed, and the count is right            *)

Tools == UNION {ToSet(t) : t \in Toolkits}

\* An asset of the agent: it was found and the policy permits it.
Admitted(tool) == tool \in Tools /\ ~Gone(tool) /\ ~Unbuildable(tool) /\ Permits(tool)

Executions == [asset : Tools, result : Results]

\* What is true of the analyst at any time, by where it stands.
AnalystTyped ==
    /\ apc \in {"build", "ask", "run", "rewrite", "returned", "raised", "none"}
    /\ kit.tools \in Seq(Tools) /\ built \in 0..Len(kit.tools)
    /\ assets \in Seq(Tools) /\ \A n \in DOMAIN assets : Admitted(assets[n])
    /\ retries \in 0..AnalystRetries
    /\ ran \in Seq(Executions) /\ \A k \in DOMAIN ran : Admitted(ran[k].asset)

BudgetKept ==
    /\ apc \in {"build", "ask"} => ran = <<>> /\ retries = 0
    /\ apc \in {"run", "rewrite"} =>
          /\ chosen \in DOMAIN assets /\ ~NamesRefused(request.asked)
          /\ \A k \in DOMAIN ran : ran[k].result # "rows"
    /\ apc = "run"     => Len(ran) = retries
    /\ apc = "rewrite" => Len(ran) = retries + 1 /\ retries < AnalystRetries

\* What is returned, as far as it is not about the policy.
ReplySettled ==
    apc = "returned" =>
        /\ reply.terminal /\ ~reply.recoverable
        /\ Len(ran) <= AnalystRetries + 1
        /\ ran # <<>> => /\ Len(ran) = reply.retries + 1
                         /\ reply.status = ToolOutcome(Last(ran).result).status
                         /\ \A k \in 1..Len(ran) - 1 : ran[k].result # "rows"
        /\ NamesRefused(request.asked) => ran = <<>>

AnalystInv == AnalystTyped /\ BudgetKept /\ ReplySettled

(* An admitted asset has tables of connectors the policy allows only: none *)
(* of them is without a connector, unless the agent is not restricted.     *)
LEMMA AdmittedIsAllowed ==
    ASSUME NEW tool, Admitted(tool), NEW d \in TablesOf(tool)
    PROVE  /\ DatasetRows[d].conn \notin kit.policy.denied
           /\ kit.policy.allowed # {} => DatasetRows[d].conn \in kit.policy.allowed
  <1> DEFINE restricted == kit.policy.allowed \cup kit.policy.denied # {}
  <1>1. CASE ~restricted
    BY <1>1
  <1>2. CASE restricted
    <2>1. NoConnector \notin ConnectorsOf(tool)
      BY <1>2 DEF Admitted, Permits, Verdict
    <2>2. d \in Behind(tool)
      <3>1. CASE tool.kind = "model"
        BY <3>1 DEF TablesOf
      <3>2. CASE tool.kind # "model"
        <4>1. tool.kind = "data"
          BY <3>2, ToolkitsAssumption DEF Admitted, Tools
        <4>2. PICK k \in DOMAIN tool.of : d = tool.of[k]
          BY <3>2 DEF TablesOf
        <4> QED
          BY <4>1, <4>2 DEF Behind, ToSet
      <3> QED
        BY <3>1, <3>2
    <2>3. DatasetRows[d].conn \in ConnectorsOf(tool) \ {NoConnector}
      BY <2>1, <2>2 DEF ConnectorsOf
    <2>4. (ConnectorsOf(tool) \ {NoConnector}) \cap kit.policy.denied = {}
      BY <1>2 DEF Admitted, Permits, Verdict
    <2>5. kit.policy.allowed # {} => ConnectorsOf(tool) \ {NoConnector} \subseteq kit.policy.allowed
      BY <1>2 DEF Admitted, Permits, Verdict
    <2> QED
      BY <2>3, <2>4, <2>5
  <1> QED
    BY <1>1, <1>2

LEMMA AnalystStarts == AnalystInit => AnalystInv
  <1> SUFFICES ASSUME AnalystInit PROVE AnalystInv
    OBVIOUS
  <1>1. kit.tools \in Seq(Tools)
    BY ToolkitsAssumption DEF AnalystInit, Tools
  <1>2. AnalystTyped
    BY <1>1, AnalystRetriesAssumption DEF AnalystInit, AnalystStart, AnalystTyped
  <1>3. BudgetKept /\ ReplySettled
    BY DEF AnalystInit, AnalystStart, BudgetKept, ReplySettled
  <1> QED
    BY <1>2, <1>3 DEF AnalystInv

(* The assets and what the policy refuses: one tool after the other.       *)
LEMMA AddToolKeeps == AnalystInv /\ AddTool => AnalystInv'
  <1> SUFFICES ASSUME AnalystInv, AddTool PROVE AnalystInv'
    OBVIOUS
  <1> USE DEF AnalystInv
  <1>1. PICK tool : tool = kit.tools[built + 1]
    OBVIOUS
  <1>2. built + 1 \in 1..Len(kit.tools) /\ tool \in Tools
    BY <1>1 DEF AddTool, AnalystTyped
  <1>3. \A t : Admitted(t)' <=> Admitted(t)
    BY DEF AddTool, Admitted, Gone, Unbuildable, Permits
  <1>4. assets' = IF Admitted(tool) THEN Append(assets, tool) ELSE assets
    BY <1>1, <1>2 DEF AddTool, Admitted
  <1>5. assets' \in Seq(Tools) /\ \A n \in DOMAIN assets' : Admitted(assets'[n])
    BY <1>2, <1>4 DEF AnalystTyped
  <1>6. AnalystTyped'
    BY <1>2, <1>3, <1>5 DEF AddTool, AnalystTyped
  <1>7. BudgetKept' /\ ReplySettled'
    BY DEF AddTool, BudgetKept, ReplySettled
  <1> QED
    BY <1>6, <1>7

(* An execution: one more, the last, and the only one that may have rows.  *)
LEMMA RunKeeps ==
    ASSUME AnalystInv, NEW r \in Results, Run(r)
    PROVE  AnalystInv'
  <1> USE DEF AnalystInv
  <1>1. PICK o : o = Finalized(ToolOutcome(r))
    OBVIOUS
  <1>2. PICK e : e = [asset |-> assets[chosen], result |-> r]
    OBVIOUS
  <1>3. /\ apc = "run" /\ ran' = Append(ran, e) /\ reply' = o
        /\ apc' = IF ShouldRetryAnalysis(o) THEN "rewrite" ELSE "returned"
        /\ UNCHANGED <<kit, request, assets, refused, built, chosen, retries>>
    BY <1>1, <1>2 DEF Run
  <1>4. e \in Executions /\ Admitted(e.asset) /\ e.result = r
    BY <1>2, <1>3 DEF AnalystTyped, BudgetKept, Executions
  <1>5. /\ ran' \in Seq(Executions) /\ Len(ran') = Len(ran) + 1
        /\ ran'[Len(ran')] = e /\ \A k \in 1..Len(ran) : ran'[k] = ran[k]
    BY <1>3, <1>4 DEF AnalystTyped
  <1>6. \A t : Admitted(t)' <=> Admitted(t)
    BY <1>3 DEF Admitted, Gone, Unbuildable, Permits
  <1>7. AnalystTyped'
    BY <1>3, <1>4, <1>5, <1>6 DEF AnalystTyped
  <1>8. Len(ran) = retries /\ retries \in 0..AnalystRetries
        /\ ~NamesRefused(request.asked) /\ chosen \in DOMAIN assets
        /\ \A k \in DOMAIN ran : ran[k].result # "rows"
    BY <1>3 DEF AnalystTyped, BudgetKept
  <1>9. NamesRefused(request.asked)' <=> NamesRefused(request.asked)
    BY <1>3 DEF NamesRefused
  <1>10. /\ o.status = ToolOutcome(r).status /\ o.retries = retries
         /\ r = "rows" => o.status = "success"
         /\ r # "rows" => o.status \in {"empty_result", "query_error", "execution_error"}
         /\ o.recoverable => ~o.terminal
    BY <1>1 DEF Finalized, ToolOutcome, Results
  <1>11. ShouldRetryAnalysis(o) => retries < AnalystRetries /\ r # "rows"
    BY <1>10 DEF ShouldRetryAnalysis
  <1>12. ~ShouldRetryAnalysis(o) => o.terminal /\ ~o.recoverable
    <2>1. CASE r = "rows"
      BY <1>1, <2>1 DEF Finalized, ToolOutcome
    <2>2. CASE r = "empty"
      <3>1. /\ o.status = "empty_result"
            /\ o.terminal <=> retries >= AnalystRetries \/ ~WorthRetrying(request.next)
            /\ o.recoverable <=> ~o.terminal
        BY <1>1, <2>2 DEF Finalized, ToolOutcome
      <3> QED
        BY <1>8, <3>1, AnalystRetriesAssumption DEF ShouldRetryAnalysis
    <2>3. CASE r \notin {"rows", "empty"}
      <3>1. /\ o.status \in {"query_error", "execution_error"}
            /\ o.terminal <=> retries >= AnalystRetries \/ ~ToolOutcome(r).recoverable
            /\ o.recoverable <=> ToolOutcome(r).recoverable /\ ~o.terminal
        BY <1>1, <2>3 DEF Finalized, ToolOutcome, Results
      <3> QED
        BY <1>8, <3>1, AnalystRetriesAssumption DEF ShouldRetryAnalysis
    <2> QED
      BY <2>1, <2>2, <2>3
  <1>13. BudgetKept'
    BY <1>3, <1>4, <1>5, <1>8, <1>9, <1>11 DEF BudgetKept, AnalystTyped
  <1>14. ReplySettled'
    <2> SUFFICES ASSUME apc' = "returned" PROVE ReplySettled'
      BY DEF ReplySettled
    <2>1. reply'.terminal /\ ~reply'.recoverable
      BY <1>3, <1>12
    <2>2. Len(ran') = reply'.retries + 1 /\ Len(ran') <= AnalystRetries + 1
      BY <1>3, <1>5, <1>8, <1>10, AnalystRetriesAssumption
    <2>3. Last(ran') = e
      BY <1>5 DEF Last
    <2>4. reply'.status = ToolOutcome(Last(ran').result).status
      BY <1>3, <1>4, <1>10, <2>3
    <2>5. \A k \in 1..Len(ran') - 1 : ran'[k].result # "rows"
      BY <1>5, <1>8 DEF AnalystTyped
    <2> QED
      BY <1>8, <1>9, <2>1, <2>2, <2>4, <2>5 DEF ReplySettled, ToolOutcome
  <1> QED
    BY <1>7, <1>13, <1>14

LEMMA AnalystSteps == AnalystInv /\ [AnalystNext]_analystVars => AnalystInv'
  <1> SUFFICES ASSUME AnalystInv, [AnalystNext]_analystVars PROVE AnalystInv'
    OBVIOUS
  <1> USE DEF AnalystInv
  <1>0. ASSUME UNCHANGED <<kit>> PROVE \A t : Admitted(t)' <=> Admitted(t)
    BY <1>0 DEF Admitted, Gone, Unbuildable, Permits
  <1>1. ASSUME UNCHANGED <<request, refused>> PROVE NamesRefused(request.asked)' <=> NamesRefused(request.asked)
    BY <1>1 DEF NamesRefused
  <1>2. CASE AddTool
    BY <1>2, AddToolKeeps
  <1>3. CASE Build
    BY <1>0, <1>3 DEF Build, AnalystTyped, BudgetKept, ReplySettled
  <1>4. CASE Decline
    BY <1>0, <1>4, AnalystRetriesAssumption DEF Decline, Return, AnalystTyped, BudgetKept, ReplySettled
  <1>5. ASSUME NEW n \in AssetChoices, Select(n) PROVE AnalystInv'
    BY <1>0, <1>1, <1>5 DEF AssetChoices, Select, AnalystTyped, BudgetKept, ReplySettled
  <1>6. ASSUME NEW r \in Results, Run(r) PROVE AnalystInv'
    BY <1>6, RunKeeps
  <1>7. ASSUME NEW q, Rewrite(q) PROVE AnalystInv'
    <2>1. retries' \in 0..AnalystRetries
      BY <1>7, AnalystRetriesAssumption DEF Rewrite, AnalystTyped, BudgetKept
    <2>2. NamesRefused(request.asked)' <=> NamesRefused(request.asked)
      BY <1>7 DEF Rewrite, NamesRefused
    <2> QED
      BY <1>0, <1>7, <2>1, <2>2 DEF Rewrite, AnalystTyped, BudgetKept, ReplySettled
  <1>8. CASE RewriteFails
    BY <1>0, <1>8 DEF RewriteFails, AnalystTyped, BudgetKept, ReplySettled
  <1>9. CASE UNCHANGED analystVars
    BY <1>0, <1>1, <1>9 DEF analystVars, AnalystTyped, BudgetKept, ReplySettled
  <1> QED
    BY <1>2, <1>3, <1>4, <1>5, <1>6, <1>7, <1>8, <1>9 DEF AnalystNext

(* What the analyst returns is settled, and nothing that the policy does   *)
(* not allow was executed for it: AnalystAgent.answer_with_request_async   *)
(* and AgentOrchestratorFactory._build_analyst_tools.                      *)
THEOREM AnswersAreSettled == AnalystSpec => []OutcomeSettled
  <1>1. AnalystInv => OutcomeSettled
    BY AdmittedIsAllowed DEF AnalystInv, AnalystTyped, ReplySettled, OutcomeSettled
  <1> QED
    BY <1>1, AnalystStarts, AnalystSteps, PTL DEF AnalystSpec

-----------------------------------------------------------------------------
(* Answers: tables                                                         *)

\* A table's cells are what they are read as; its columns can be compared.
LEMMA TablesTyped ==
    ASSUME NEW t \in Tables
    PROVE  /\ IsFiniteSet(DOMAIN t.rows) /\ DOMAIN t.rows \subseteq Nat
           /\ IsFiniteSet(Names(t)) /\ Names(t) \subseteq DOMAIN Traits
           /\ \A c \in Names(t) : Position(t, c) \in Nat
           /\ \A c \in Names(t) : \A i \in Filled(t, c) :
                 /\ i \in DOMAIN t.rows
                 /\ IsNumber(t.rows[i][c]) => t.rows[i][c].num \in Int
                 /\ IsTime(t.rows[i][c]) => t.rows[i][c].time.at \in Int
<1>1. /\ DOMAIN t.rows = 1..Len(t.rows) /\ Len(t.rows) \in Nat
      /\ t.cols \in Seq(DOMAIN Traits)
      /\ \A i \in DOMAIN t.rows, k \in DOMAIN t.cols :
            LET cell == t.rows[i][t.cols[k]]
            IN cell # NoCell => /\ cell.num = NoNumber \/ cell.num \in Int
                                /\ cell.time \in {NoTime, Raises} \/ cell.time.at \in Int
  BY AnswerAssumption
<1>2. IsFiniteSet(DOMAIN t.rows) /\ DOMAIN t.rows \subseteq Nat
  <2>1. PICK n : n = Len(t.rows)
    OBVIOUS
  <2>2. n \in Nat /\ DOMAIN t.rows = 1..n
    BY <1>1, <2>1
  <2>3. IsFiniteSet(1..n)
    BY <2>2, FS_Interval
  <2>4. 1..n \subseteq Nat
    BY <2>2
  <2> QED BY <2>2, <2>3, <2>4
<1>3. DOMAIN t.cols = 1..Len(t.cols) /\ Len(t.cols) \in Nat
  BY <1>1
<1>4. IsFiniteSet(Names(t)) /\ Names(t) \subseteq DOMAIN Traits
  <2> DEFINE name == [k \in 1..Len(t.cols) |-> t.cols[k]]
  <2>1. Names(t) \subseteq DOMAIN Traits /\ name \in [1..Len(t.cols) -> Names(t)]
        /\ \A c \in Names(t) : \E k \in 1..Len(t.cols) : name[k] = c
    BY <1>1, <1>3 DEF Names
  <2>2. name \in Surjection(1..Len(t.cols), Names(t))
    <3> HIDE DEF name
    <3> QED BY <2>1 DEF Surjection
  <2>3. IsFiniteSet(1..Len(t.cols))
    BY <1>3, FS_Interval
  <2> HIDE DEF name
  <2> QED BY <2>1, <2>2, <2>3, FS_Surjection
<1>5. \A c \in Names(t) : Position(t, c) \in Nat
  <2>1. ASSUME NEW c \in Names(t)
        PROVE  Position(t, c) \in Nat
    <3>1. \E k \in DOMAIN t.cols : t.cols[k] = c
      BY DEF Names
    <3>2. Position(t, c) \in DOMAIN t.cols
      BY <3>1 DEF Position
    <3> QED BY <1>3, <3>2
  <2> QED BY <2>1
<1>6. \A c \in Names(t) : \A i \in Filled(t, c) :
         /\ i \in DOMAIN t.rows
         /\ IsNumber(t.rows[i][c]) => t.rows[i][c].num \in Int
         /\ IsTime(t.rows[i][c]) => t.rows[i][c].time.at \in Int
  <2>1. ASSUME NEW c \in Names(t), NEW i \in Filled(t, c)
        PROVE  /\ i \in DOMAIN t.rows
               /\ IsNumber(t.rows[i][c]) => t.rows[i][c].num \in Int
               /\ IsTime(t.rows[i][c]) => t.rows[i][c].time.at \in Int
    <3>1. PICK k \in DOMAIN t.cols : t.cols[k] = c
      BY DEF Names
    <3>2. i \in DOMAIN t.rows /\ t.rows[i][c] # NoCell
      BY DEF Filled
    <3>3. PICK cell : cell = t.rows[i][c]
      OBVIOUS
    <3>4. /\ cell.num = NoNumber \/ cell.num \in Int
          /\ cell.time \in {NoTime, Raises} \/ cell.time.at \in Int
      BY <1>1, <3>1, <3>2, <3>3
    <3> QED BY <3>2, <3>3, <3>4 DEF IsNumber, IsTime
  <2> QED BY <2>1
<1> QED BY <1>2, <1>4, <1>5, <1>6

\* What a column scores: words it shares with the question first.
LEMMA ScoresAreNumbers ==
    ASSUME NEW t \in Tables, NEW q, NEW c \in Names(t)
    PROVE  Overlap(q, c) \in Nat /\ Traits[c].rank \in Int
<1>1. c \in DOMAIN Traits
  BY TablesTyped
<1>2. IsFiniteSet(Traits[c].words) /\ Traits[c].rank \in Int
  BY <1>1, AnswerAssumption
<1> DEFINE W == Traits[c].words \cap q.words
<1>3. W \in SUBSET Traits[c].words
  OBVIOUS
<1>4. Cardinality(W) \in Nat
  <2> HIDE DEF W
  <2> QED BY <1>2, <1>3, FS_Subset, FS_CardinalityType
<1> QED BY <1>2, <1>4 DEF Overlap

\* The measure and the dimension that are chosen are columns of the table.
LEMMA MeasureIsColumn ==
    ASSUME NEW t \in Tables, NEW q, Measure(q, t) # NoColumn
    PROVE  Measure(q, t) \in Names(t)
<1> DEFINE from == NumericColumns(t)
           Key(c) == 100 * Overlap(q, c) + (IF Traits[c].hint THEN 50 ELSE 0) + Traits[c].rank
           f == [c \in from |-> Key(c)]
<1>1. from # {} /\ Measure(q, t) = Maximal(from, Key)
  BY DEF Measure
<1>2. from \in SUBSET Names(t) /\ IsFiniteSet(from)
  <2>1. from \in SUBSET Names(t)
    BY DEF NumericColumns
  <2> HIDE DEF from
  <2> QED BY <2>1, TablesTyped, FS_Subset
<1>3. f \in [from -> Int]
  <2>1. \A c \in from : Key(c) \in Int
    <3> HIDE DEF from
    <3> QED BY <1>2, ScoresAreNumbers
  <2> HIDE DEF Key, from
  <2> QED BY <2>1
<1>4. \E x \in from : \A y \in from : f[y] <= f[x]
  <2> HIDE DEF f, from
  <2> QED BY <1>1, <1>2, <1>3, GreatestBy
<1>5. \E x \in from : \A y \in from : Key(y) <= Key(x)
  <2> HIDE DEF Key, from
  <2> QED BY <1>4
<1>6. Maximal(from, Key) \in from
  <2> HIDE DEF from
  <2> QED BY <1>5 DEF Maximal
<1> QED BY <1>1, <1>2, <1>6

LEMMA DimensionIsColumn ==
    ASSUME NEW t \in Tables, NEW q, Dimension(q, t) # NoColumn
    PROVE  Dimension(q, t) \in Names(t)
<1> DEFINE from   == Names(t) \ NumericColumns(t)
           times  == TemporalColumns(t)
           Key(c) == 100 * Overlap(q, c) - (IF c \in times THEN 50 ELSE 0) + Traits[c].rank
           At(c)  == Position(t, c)
           f == [c \in from |-> Key(c)]
           g == [c \in times |-> -At(c)]
<1>1. /\ from # {}
      /\ Dimension(q, t) = IF Trend(q) /\ times # {} THEN Minimal(times, At) ELSE Maximal(from, Key)
  BY DEF Dimension
<1>2. from \in SUBSET Names(t) /\ IsFiniteSet(from) /\ times \in SUBSET Names(t) /\ IsFiniteSet(times)
  <2>1. from \in SUBSET Names(t) /\ times \in SUBSET Names(t)
    BY DEF TemporalColumns
  <2> HIDE DEF from, times
  <2> QED BY <2>1, TablesTyped, FS_Subset
<1>3. CASE Trend(q) /\ times # {}
  <2>1. g \in [times -> Int]
    <3>1. \A c \in times : At(c) \in Nat
      <4> HIDE DEF times
      <4> QED BY <1>2, TablesTyped
    <3> HIDE DEF At, times
    <3> QED BY <3>1
  <2>2. \E x \in times : \A y \in times : g[y] <= g[x]
    <3> HIDE DEF g, times
    <3> QED BY <1>2, <1>3, <2>1, GreatestBy
  <2>3. \A c \in times : At(c) \in Nat
    <3> HIDE DEF times
    <3> QED BY <1>2, TablesTyped
  <2>4. \E x \in times : \A y \in times : At(x) <= At(y)
    <3> HIDE DEF At, times
    <3> QED BY <2>2, <2>3
  <2>5. Minimal(times, At) \in times
    <3> HIDE DEF times
    <3> QED BY <2>4 DEF Minimal
  <2> QED BY <1>1, <1>2, <1>3, <2>5
<1>4. CASE ~(Trend(q) /\ times # {})
  <2>1. f \in [from -> Int]
    <3>1. \A c \in from : Key(c) \in Int
      <4> HIDE DEF from, times
      <4> QED BY <1>2, ScoresAreNumbers
    <3> HIDE DEF Key, from
    <3> QED BY <3>1
  <2>2. \E x \in from : \A y \in from : f[y] <= f[x]
    <3> HIDE DEF f, from
    <3> QED BY <1>1, <1>2, <2>1, GreatestBy
  <2>3. \E x \in from : \A y \in from : Key(y) <= Key(x)
    <3> HIDE DEF Key, from
    <3> QED BY <2>2
  <2>4. Maximal(from, Key) \in from
    <3> HIDE DEF from
    <3> QED BY <2>3 DEF Maximal
  <2> QED BY <1>1, <1>2, <1>4, <2>4
<1> QED BY <1>3, <1>4

\* The rows with both a label and a value.
LEMMA EntriesTyped ==
    ASSUME NEW t \in Tables, NEW m \in Names(t), NEW d \in Names(t)
    PROVE  /\ IsFiniteSet(Entries(t, d, m)) /\ Entries(t, d, m) \subseteq Nat
           /\ \A i \in Entries(t, d, m) : /\ t.rows[i][m].num \in Int
                                          /\ IsTime(t.rows[i][d]) => When(t, d, i) \in Int
<1>1. Entries(t, d, m) \in SUBSET (DOMAIN t.rows)
  BY DEF Entries, Filled
<1>2. IsFiniteSet(Entries(t, d, m)) /\ Entries(t, d, m) \subseteq Nat
  BY <1>1, TablesTyped, FS_Subset
<1>3. ASSUME NEW i \in Entries(t, d, m)
      PROVE  /\ t.rows[i][m].num \in Int
             /\ IsTime(t.rows[i][d]) => When(t, d, i) \in Int
  <2>1. i \in Filled(t, d) /\ i \in Filled(t, m) /\ IsNumber(t.rows[i][m])
    BY DEF Entries
  <2> QED BY <2>1, TablesTyped DEF When
<1> QED BY <1>2, <1>3

-----------------------------------------------------------------------------
(* Answers: facts                                                          *)

\* The ranking has each row once, the greatest value first.
LEMMA RankedDescends ==
    ASSUME NEW t \in Tables, NEW d \in Names(t), NEW m \in Names(t)
    PROVE  LET es == Entries(t, d, m)
               r  == Ranked(t, m, es)
           IN /\ r \in Seq(es) /\ Len(r) = Cardinality(es) /\ Cardinality(es) \in Nat
              /\ \A i \in es : \E k \in 1..Len(r) : r[k] = i
              /\ \A k, l \in 1..Len(r) : k < l => r[k] # r[l] /\ t.rows[r[k]][m].num >= t.rows[r[l]][m].num
<1>1. PICK es : es = Entries(t, d, m)
  OBVIOUS
<1>2. PICK r : r = Ranked(t, m, es)
  OBVIOUS
<1> DEFINE R == {e \in es \X es : Before(t, m, e[1], e[2])}
<1>3. /\ IsFiniteSet(es) /\ es \subseteq Nat
      /\ \A i \in es : t.rows[i][m].num \in Int
  BY <1>1, EntriesTyped
<1>4. \A i, j \in es : <<i, j>> \in R <=> Before(t, m, i, j)
  OBVIOUS
<1>5. /\ \A i \in es : <<i, i>> \notin R
      /\ \A i, j, k \in es : <<i, j>> \in R /\ <<j, k>> \in R => <<i, k>> \in R
      /\ \A i, j \in es : i # j => <<i, j>> \in R \/ <<j, i>> \in R
  <2> HIDE DEF R
  <2>1. \A i, j \in es : <<i, j>> \in R <=> \/ t.rows[i][m].num > t.rows[j][m].num
                                            \/ t.rows[i][m].num = t.rows[j][m].num /\ i < j
    BY <1>4 DEF Before
  <2>2. \A i \in es : <<i, i>> \notin R
    BY <1>3, <2>1
  <2>3. \A i, j \in es : i # j => <<i, j>> \in R \/ <<j, i>> \in R
    BY <1>3, <2>1
  <2>4. ASSUME NEW i \in es, NEW j \in es, NEW k \in es, <<i, j>> \in R, <<j, k>> \in R
        PROVE  <<i, k>> \in R
    BY <1>3, <2>1, <2>4
  <2> QED BY <2>2, <2>3, <2>4
<1>6. R \in SUBSET (es \X es)
  OBVIOUS
<1>7. \A i \in es : {j \in es : <<j, i>> \in R} = {j \in es : Before(t, m, j, i)}
  BY <1>4
<1>8. /\ Cardinality(es) \in Nat
      /\ \A k \in 1..Cardinality(es) : \E i \in es : Cardinality({j \in es : <<j, i>> \in R}) = k - 1
      /\ \A i \in es : Cardinality({j \in es : <<j, i>> \in R}) + 1 \in 1..Cardinality(es)
      /\ \A i, j \in es : <<i, j>> \in R <=>
            Cardinality({l \in es : <<l, i>> \in R}) < Cardinality({l \in es : <<l, j>> \in R})
  <2> HIDE DEF R
  <2> QED BY <1>3, <1>5, <1>6, OrderNumbers
<1>9. /\ r \in [1..Cardinality(es) -> es]
      /\ \A k \in 1..Cardinality(es) : Cardinality({j \in es : <<j, r[k]>> \in R}) = k - 1
  <2>1. \A k \in 1..Cardinality(es) : \E i \in es : Cardinality({j \in es : <<j, i>> \in R}) = k - 1
    BY <1>8
  <2>2. ASSUME NEW k \in 1..Cardinality(es)
        PROVE  r[k] \in es /\ Cardinality({j \in es : <<j, r[k]>> \in R}) = k - 1
    <3>1. PICK e \in es : Cardinality({j \in es : Before(t, m, j, e)}) = k - 1
      <4> HIDE DEF R
      <4> QED BY <1>7, <2>1
    <3>2. r[k] = CHOOSE i \in es : Cardinality({j \in es : Before(t, m, j, i)}) = k - 1
      BY <1>2 DEF Ranked
    <3>3. r[k] \in es /\ Cardinality({j \in es : Before(t, m, j, r[k])}) = k - 1
      BY <3>1, <3>2
    <3> HIDE DEF R
    <3> QED BY <1>7, <3>3
  <2> HIDE DEF R
  <2> QED BY <1>2, <2>2 DEF Ranked
<1>10. /\ Cardinality(es) \in Nat /\ r \in Seq(es) /\ Len(r) = Cardinality(es)
       /\ \A i \in es : \E k \in 1..Cardinality(es) : r[k] = i
       /\ \A k, l \in 1..Cardinality(es) : <<r[k], r[l]>> \in R <=> k < l
  <2> HIDE DEF R
  <2> QED BY <1>3, <1>5, <1>6, <1>9, OrderedSequence
<1>11. ASSUME NEW k \in 1..Len(r), NEW l \in 1..Len(r), k < l
       PROVE  r[k] # r[l] /\ t.rows[r[k]][m].num >= t.rows[r[l]][m].num
  <2>1. r[k] \in es /\ r[l] \in es /\ <<r[k], r[l]>> \in R
    BY <1>9, <1>10, <1>11
  <2>2. Before(t, m, r[k], r[l])
    BY <1>4, <2>1
  <2>3. /\ t.rows[r[k]][m].num \in Int /\ t.rows[r[l]][m].num \in Int
        /\ r[k] \in Nat /\ r[l] \in Nat
    BY <1>3, <2>1
  <2>4. r[k] # r[l]
    BY <1>5, <2>1
  <2>5. t.rows[r[k]][m].num >= t.rows[r[l]][m].num
    BY <2>2, <2>3 DEF Before
  <2> QED BY <2>4, <2>5
<1> HIDE DEF R
<1> QED BY <1>2, <1>10, <1>11, <1>1

\* What is read off the ranking holds of the rows.
LEMMA RankingTrue ==
    ASSUME NEW t \in Tables, NEW d \in Names(t), NEW m \in Names(t), NEW q,
           Entries(t, d, m) # {}, NEW c \in RankingFacts(q, t, m, Entries(t, d, m))
    PROVE  Holds(c, t, d, m)
<1>0. PICK es : es = Entries(t, d, m)
  OBVIOUS
<1>1. /\ es # {} /\ IsFiniteSet(es) /\ es \subseteq Nat
      /\ \A i \in es : t.rows[i][m].num \in Int
  BY <1>0, EntriesTyped
<1>2. PICK r : r = Ranked(t, m, es)
  OBVIOUS
<1>3. /\ r \in Seq(es) /\ Len(r) = Cardinality(es) /\ Cardinality(es) \in Nat
      /\ \A i \in es : \E k \in 1..Len(r) : r[k] = i
      /\ \A k, l \in 1..Len(r) : k < l => r[k] # r[l] /\ t.rows[r[k]][m].num >= t.rows[r[l]][m].num
  <2> DEFINE es1 == Entries(t, d, m)
             r1  == Ranked(t, m, es1)
  <2>1. /\ r1 \in Seq(es1) /\ Len(r1) = Cardinality(es1) /\ Cardinality(es1) \in Nat
        /\ \A i \in es1 : \E k \in 1..Len(r1) : r1[k] = i
        /\ \A k, l \in 1..Len(r1) : k < l => r1[k] # r1[l] /\ t.rows[r1[k]][m].num >= t.rows[r1[l]][m].num
    BY RankedDescends
  <2>2. es = es1 /\ r = r1
    BY <1>0, <1>2
  <2> HIDE DEF es1, r1
  <2> QED BY <2>1, <2>2
<1>4. PICK n : n = Len(r)
  OBVIOUS
<1> DEFINE v(i) == t.rows[i][m].num
<1>5. /\ n \in Nat \ {0} /\ \A k \in 1..n : r[k] \in es /\ v(r[k]) \in Int
      /\ \A k, l \in 1..n : k <= l => v(r[k]) >= v(r[l])
      /\ \A i \in es : \E k \in 1..n : r[k] = i
  <2>0. n \in Nat /\ r \in Seq(es) /\ n = Len(r) /\ \A i \in es : \E k \in 1..n : r[k] = i
    BY <1>3, <1>4
  <2>1. \A k \in 1..n : r[k] \in es /\ v(r[k]) \in Int
    <3>1. \A k \in 1..n : r[k] \in es
      BY <2>0
    <3> QED BY <1>1, <3>1
  <2>2. n \in Nat \ {0}
    <3>1. PICK i \in es : \E k \in 1..n : r[k] = i
      BY <1>1, <2>0
    <3> QED BY <2>0, <3>1
  <2>3. \A k, l \in 1..n : k <= l => v(r[k]) >= v(r[l])
    BY <1>3, <1>4, <2>1, <2>2
  <2> QED BY <1>3, <1>4, <2>1, <2>2, <2>3
<1>6. \A i \in es : v(r[1]) >= v(i) /\ v(r[n]) <= v(i)
  <2>1. ASSUME NEW i \in es
        PROVE  v(r[1]) >= v(i) /\ v(r[n]) <= v(i)
    <3>1. PICK k \in 1..n : r[k] = i
      BY <1>5
    <3>2. v(r[1]) >= v(r[k]) /\ v(r[k]) >= v(r[n]) /\ v(r[k]) \in Int /\ v(r[n]) \in Int
      BY <1>5
    <3> HIDE DEF v
    <3> QED BY <3>1, <3>2
  <2> QED BY <2>1
<1>7. \/ c \in {Claim("lowest", <<r[n]>>), Claim("highest", <<r[1]>>), Claim("contributes", <<r[1]>>)}
      \/ n > 1 /\ c \in {Claim("trails", <<r[n], r[n - 1]>>), Claim("leads", <<r[1], r[2]>>),
                         Claim("higher", <<r[1], r[2]>>)}
      \/ n >= 3 /\ c = Claim("ranking", SubSeq(r, 1, IF n < 4 THEN n ELSE 4))
  <2>1. CASE Bottom(q)
    BY <1>0, <1>2, <1>4, <2>1 DEF RankingFacts
  <2>2. CASE ~Bottom(q) /\ Comparison(q) /\ n = 2
    BY <1>0, <1>2, <1>4, <2>2 DEF RankingFacts
  <2>3. CASE ~Bottom(q) /\ ~(Comparison(q) /\ n = 2)
    BY <1>0, <1>2, <1>4, <2>3 DEF RankingFacts
  <2> QED BY <2>1, <2>2, <2>3
<1>8. CASE c = Claim("lowest", <<r[n]>>)
  <2>1. c.says = "lowest" /\ c.of[1] = r[n]
    BY <1>8 DEF Claim
  <2> QED BY <1>0, <1>6, <2>1 DEF Holds
<1>9. CASE c \in {Claim("highest", <<r[1]>>), Claim("contributes", <<r[1]>>)}
  <2>1. c.says \in {"highest", "contributes"} /\ c.of[1] = r[1]
    BY <1>9 DEF Claim
  <2> QED BY <1>0, <1>6, <2>1 DEF Holds
<1>10. CASE n > 1 /\ c = Claim("trails", <<r[n], r[n - 1]>>)
  <2>1. c.says = "trails" /\ c.of[1] = r[n] /\ c.of[2] = r[n - 1]
    BY <1>10 DEF Claim
  <2>2. ASSUME NEW j \in es \ {r[n]}
        PROVE  v(r[n]) <= v(r[n - 1]) /\ v(r[n - 1]) <= v(j)
    <3>1. PICK k \in 1..n : r[k] = j
      BY <1>5
    <3>2. k <= n - 1 /\ n - 1 \in 1..n /\ n \in 1..n
      BY <1>5, <1>10, <3>1
    <3>3. /\ v(r[n - 1]) >= v(r[n]) /\ v(r[k]) >= v(r[n - 1])
          /\ v(r[k]) \in Int /\ v(r[n - 1]) \in Int /\ v(r[n]) \in Int
      BY <1>5, <3>2
    <3> HIDE DEF v
    <3> QED BY <3>1, <3>3
  <2> QED BY <1>0, <2>1, <2>2 DEF Holds
<1>11. CASE n > 1 /\ c = Claim("leads", <<r[1], r[2]>>)
  <2>1. c.says = "leads" /\ c.of[1] = r[1] /\ c.of[2] = r[2]
    BY <1>11 DEF Claim
  <2>2. ASSUME NEW j \in es \ {r[1]}
        PROVE  v(r[1]) >= v(r[2]) /\ v(r[2]) >= v(j)
    <3>1. PICK k \in 1..n : r[k] = j
      BY <1>5
    <3>2. 2 <= k /\ 1 \in 1..n /\ 2 \in 1..n
      BY <1>5, <1>11, <3>1
    <3> HIDE DEF v
    <3> QED BY <1>5, <3>1, <3>2
  <2> QED BY <1>0, <2>1, <2>2 DEF Holds
<1>12. CASE n > 1 /\ c = Claim("higher", <<r[1], r[2]>>)
  <2>1. c.says = "higher" /\ c.of[1] = r[1] /\ c.of[2] = r[2]
    BY <1>12 DEF Claim
  <2>2. v(r[1]) >= v(r[2])
    BY <1>5, <1>12
  <2> QED BY <1>0, <2>1, <2>2 DEF Holds
<1>13. CASE n >= 3 /\ c = Claim("ranking", SubSeq(r, 1, IF n < 4 THEN n ELSE 4))
  <2>1. PICK p \in 1..n : c = Claim("ranking", SubSeq(r, 1, p))
    BY <1>5, <1>13
  <2>2. PICK o : o = SubSeq(r, 1, p)
    OBVIOUS
  <2>3. DOMAIN o = 1..p /\ \A k \in 1..p : o[k] = r[k]
    BY <1>3, <1>4, <1>5, <2>2
  <2>4. c.says = "ranking" /\ c.of = o
    BY <2>1, <2>2 DEF Claim
  <2>5. ASSUME NEW k \in 1..p, NEW j \in es \ {o[l] : l \in 1..k}
        PROVE  v(o[k]) >= v(j)
    <3>1. PICK x \in 1..n : r[x] = j
      BY <1>5
    <3>2. ~(x <= k)
      BY <2>3, <3>1
    <3>3. k \in 1..n /\ k <= x
      BY <1>5, <3>2
    <3>4. o[k] = r[k]
      BY <2>3
    <3> HIDE DEF v
    <3> QED BY <1>5, <3>1, <3>3, <3>4
  <2>6. \A k \in DOMAIN c.of : \A j \in es \ {c.of[l] : l \in 1..k} : v(c.of[k]) >= v(j)
    BY <2>3, <2>4, <2>5
  <2> QED BY <1>0, <2>4, <2>6 DEF Holds
<1> QED BY <1>7, <1>8, <1>9, <1>10, <1>11, <1>12, <1>13

\* The first row of a trend is an earliest one and the last a latest one.
LEMMA TrendTrue ==
    ASSUME NEW t \in Tables, NEW d \in Names(t), NEW m \in Names(t),
           NEW es, es = Entries(t, d, m), es # {}, ~Untimed(t, d, es), NEW c \in TrendFacts(t, d, m, es)
    PROVE  Holds(c, t, d, m)
<1>1. /\ IsFiniteSet(es) /\ es \subseteq Nat
      /\ \A i \in es : t.rows[i][m].num \in Int /\ When(t, d, i) \in Int
  BY EntriesTyped DEF Untimed
<1> DEFINE late == [i \in es |-> When(t, d, i)]
           soon == [i \in es |-> -When(t, d, i)]
           high == [i \in es |-> i]
           low  == [i \in es |-> -i]
<1>2. PICK o : o = Ordered(t, d, es)
  OBVIOUS
<1>3. o[1] \in es /\ \A j \in es : When(t, d, o[1]) <= When(t, d, j)
  <2>1. soon \in [es -> Int] /\ low \in [es -> Int]
    BY <1>1
  <2>2. \E x \in es : \A y \in es : soon[y] < soon[x] \/ (soon[y] = soon[x] /\ low[y] <= low[x])
    <3> HIDE DEF soon, low
    <3> QED BY <1>1, <2>1, GreatestByBoth
  <2>3. \E x \in es : \A y \in es : When(t, d, x) < When(t, d, y) \/ (When(t, d, x) = When(t, d, y) /\ x <= y)
    BY <1>1, <2>2
  <2>4. /\ o[1] \in es
        /\ \A j \in es : When(t, d, o[1]) < When(t, d, j) \/ (When(t, d, o[1]) = When(t, d, j) /\ o[1] <= j)
    BY <1>2, <2>3 DEF Ordered
  <2> QED BY <1>1, <2>4
<1>4. o[2] \in es /\ \A j \in es : When(t, d, j) <= When(t, d, o[2])
  <2>1. late \in [es -> Int] /\ high \in [es -> Int]
    BY <1>1
  <2>2. \E x \in es : \A y \in es : late[y] < late[x] \/ (late[y] = late[x] /\ high[y] <= high[x])
    <3> HIDE DEF late, high
    <3> QED BY <1>1, <2>1, GreatestByBoth
  <2>3. \E x \in es : \A y \in es : When(t, d, x) > When(t, d, y) \/ (When(t, d, x) = When(t, d, y) /\ x >= y)
    BY <1>1, <2>2
  <2>4. /\ o[2] \in es
        /\ \A j \in es : When(t, d, o[2]) > When(t, d, j) \/ (When(t, d, o[2]) = When(t, d, j) /\ o[2] >= j)
    BY <1>2, <2>3 DEF Ordered
  <2> QED BY <1>1, <2>4
<1>5. PICK delta : delta = t.rows[o[2]][m].num - t.rows[o[1]][m].num
  OBVIOUS
<1>6. /\ c.of = o
      /\ c.says = IF delta > 0 THEN "rises" ELSE IF delta < 0 THEN "falls" ELSE "flat"
  BY <1>2, <1>5 DEF TrendFacts, Claim
<1>7. /\ c.says = "rises" <=> t.rows[o[2]][m].num > t.rows[o[1]][m].num
      /\ c.says = "falls" <=> t.rows[o[2]][m].num < t.rows[o[1]][m].num
      /\ c.says \in {"rises", "falls", "flat"}
  BY <1>1, <1>3, <1>4, <1>5, <1>6
<1> QED BY <1>3, <1>4, <1>6, <1>7 DEF Holds

\* What the analyst's grounding says holds of the rows it has read.
LEMMA GroundingTrue ==
    ASSUME NEW t \in Tables \cup {NoRows}, NEW q, NEW c \in Grounding(q, t).facts
    PROVE  Holds(c, t, Dimension(q, t), Measure(q, t))
<1>1. PICK m : m = Measure(q, t)
  OBVIOUS
<1>2. PICK d : d = Dimension(q, t)
  OBVIOUS
<1>3. PICK es : es = Entries(t, d, m)
  OBVIOUS
<1>4. /\ Names(t) # {} /\ m # NoColumn /\ d # NoColumn /\ es # {}
      /\ \/ ~Untimed(t, d, es) /\ c \in TrendFacts(t, d, m, es)
         \/ c \in RankingFacts(q, t, m, es)
  <2> DEFINE fallback == \E a \in Names(t) : /\ ~Traits[a].timely
                                             /\ \E i \in Filled(t, a) : i <= TimeRows /\ t.rows[i][a].time = Raises
             timed    == d \in TemporalColumns(t)
             noTime   == timed /\ (FirstUntimed(t, d, es) = Raises \/ Mixed(t, d, es))
             trend    == timed /\ ~Untimed(t, d, es) /\ Monotone(t, d, es)
             empty    == Names(t) = {} \/ t.rows = <<>>
  <2>1. Grounding(q, t) =
          IF empty THEN Analysis("empty", {})
          ELSE IF fallback THEN Analysis("fallback", {})
          ELSE IF m = NoColumn THEN Analysis("categorical", {})
          ELSE IF d = NoColumn THEN Analysis("single_measure", {})
          ELSE IF es = {} THEN Analysis("sparse_measure", {})
          ELSE IF noTime THEN Analysis("fallback", {})
          ELSE IF trend THEN Analysis("trend", TrendFacts(t, d, m, es))
          ELSE Analysis("ranking", RankingFacts(q, t, m, es))
    BY <1>1, <1>2, <1>3 DEF Grounding
  <2>2. /\ empty => Names(t) = {} \/ t.rows = <<>>
        /\ trend => ~Untimed(t, d, es)
        /\ ~empty => Names(t) # {}
    OBVIOUS
  <2>3. c \in Grounding(q, t).facts
    OBVIOUS
  <2>4. \A k, fs : Analysis(k, fs).facts = fs
    BY DEF Analysis
  <2> HIDE DEF fallback, noTime, trend, empty
  <2> QED BY <2>1, <2>2, <2>3, <2>4
<1>5. t \in Tables
  BY <1>4 DEF Names, NoRows
<1>6. m \in Names(t) /\ d \in Names(t)
  BY <1>1, <1>2, <1>4, <1>5, MeasureIsColumn, DimensionIsColumn
<1> QED BY <1>1, <1>2, <1>3, <1>4, <1>5, <1>6, RankingTrue, TrendTrue

-----------------------------------------------------------------------------
(* Answers: charts                                                         *)

\* What the visual agent has warned of is a chart that is asked for.
Warned ==
    stage \in {"ensure", "summary", "deliver"} /\ chart.warn = "visual" =>
        /\ chart.type = "table"
        /\ VisualReads(turn.question.phrase) \notin {"table", "none"}

\* What the orchestrator is asked for and can draw is drawn.
Drawn ==
    stage \in {"summary", "deliver"} =>
        LET requested == OrchestratorReads(turn.question.phrase)
        IN requested \in {"none", chart.type} \/ ~DrawsFromSample(requested, turn.table, TRUE)

\* What the summary says of the chart is what is so of it.
Noted ==
    summary.note # <<>> =>
        /\ stage \in {"deliver", "done"}
        /\ stage = "deliver" => summary.note = Note(chart, turn.question.phrase)
        /\ stage = "done" /\ ReadAlike => (summary.note[1] = "made" <=> chart.type = summary.note[2])

\* And its facts are those of the grounding.
Grounded ==
    /\ turn \in Turns
    /\ summary.facts \subseteq Grounding(turn.question, turn.table).facts
    /\ summary.kind \in {"grounding", "counts"} => ~turn.error

AnswerInv == Warned /\ Drawn /\ Noted /\ Grounded

\* The service reads a question as the others do, except for a pie at its end.
LEMMA ReadersAgree ==
    ASSUME NEW p, p # "pie_last"
    PROVE  ServiceReads(p) \in {"none", OrchestratorReads(p)}
BY DEF ServiceReads, OrchestratorReads

\* Without pound signs it draws what the orchestrator draws.
LEMMA DrawnAlike ==
    ASSUME NEW t, \A i \in DOMAIN t.rows : \A c \in Names(t) : t.rows[i][c] # NoCell => ~t.rows[i][c].pound,
           NEW type
    PROVE  DrawsFromSample(type, t, FALSE) <=> DrawsFromSample(type, t, TRUE)
<1> DEFINE read(c, pounds) == {i \in WithNumber(t, c) : pounds \/ ~t.rows[i][c].pound}
           numeric(pounds) == {c \in Names(t) : Mostly(Among(t, c, ChartRows), read(c, pounds), 60)}
<1>1. ASSUME NEW c \in Names(t)
      PROVE  read(c, FALSE) = read(c, TRUE)
  <2>1. \A i \in WithNumber(t, c) : i \in DOMAIN t.rows /\ t.rows[i][c] # NoCell
    BY DEF WithNumber, Filled
  <2> QED BY <2>1
<1>2. PICK all, some : all = numeric(TRUE) /\ some = numeric(FALSE)
  OBVIOUS
<1>3. all = some
  <2> HIDE DEF read
  <2> QED BY <1>1, <1>2
<1>4. /\ DrawsFromSample(type, t, FALSE) <=>
           some # {} /\ IF type = "scatter" THEN Cardinality(some) >= 2 ELSE Names(t) \ some # {}
      /\ DrawsFromSample(type, t, TRUE) <=>
           all # {} /\ IF type = "scatter" THEN Cardinality(all) >= 2 ELSE Names(t) \ all # {}
  BY <1>2 DEF DrawsFromSample
<1>5. DrawsFromSample(type, t, FALSE) <=> DrawsFromSample(type, t, TRUE)
  BY <1>3, <1>4
<1> QED BY <1>5

LEMMA AnswerStarts == AnswerInit => AnswerInv
<1> SUFFICES ASSUME AnswerInit PROVE AnswerInv
  OBVIOUS
<1>1. turn \in Turns /\ stage = "chart" /\ summary = NoSummary
  BY DEF AnswerInit
<1>2. summary.note = <<>> /\ summary.facts = {} /\ summary.kind = "none"
  BY <1>1 DEF NoSummary
<1> QED BY <1>1, <1>2 DEF AnswerInv, Warned, Drawn, Noted, Grounded

LEMMA VisualizeKeeps == AnswerInv /\ Visualize => AnswerInv'
<1> SUFFICES ASSUME AnswerInv, Visualize PROVE AnswerInv'
  OBVIOUS
<1>1. stage = "chart" /\ stage' = "ensure" /\ turn' = turn /\ summary' = summary
  BY DEF Visualize
<1>2. summary.note = <<>>
  BY <1>1 DEF AnswerInv, Noted
<1>3. Warned'
  <2>1. CASE chart' = NoChart
    BY <2>1 DEF Warned, NoChart
  <2>2. ASSUME NEW c \in Chosen(turn.table), chart' = Settled(c, VisualReads(turn.question.phrase), turn.table)
        PROVE  Warned'
    <3>1. c.warn \in {"no", "llm"}
      BY DEF Chosen, ChartSpec
    <3>2. chart'.warn = "visual" => /\ chart'.type = "table"
                                    /\ VisualReads(turn.question.phrase) \notin {"table", "none"}
      BY <2>2, <3>1 DEF Settled, ChartSpec
    <3> QED BY <1>1, <3>2 DEF Warned
  <2> QED BY <2>1, <2>2 DEF Visualize
<1>4. Grounded'
  BY <1>1 DEF AnswerInv, Grounded
<1> QED BY <1>1, <1>2, <1>3, <1>4 DEF AnswerInv, Drawn, Noted

LEMMA EnsureKeeps == AnswerInv /\ EnsureChart => AnswerInv'
<1> SUFFICES ASSUME AnswerInv, EnsureChart PROVE AnswerInv'
  OBVIOUS
<1>1. stage = "ensure" /\ stage' = "summary" /\ turn' = turn /\ summary' = summary
  BY DEF EnsureChart
<1>2. summary.note = <<>>
  BY <1>1 DEF AnswerInv, Noted
<1>3. PICK requested : requested = OrchestratorReads(turn.question.phrase)
  OBVIOUS
<1>4. chart' = IF requested \notin {"none", chart.type} /\ DrawsFromSample(requested, turn.table, TRUE)
               THEN ChartSpec(requested, "no") ELSE chart
  BY <1>3 DEF EnsureChart, Ensured
<1>5. Warned'
  BY <1>1, <1>4 DEF AnswerInv, Warned, ChartSpec
<1>6. requested \in {"none", chart'.type} \/ ~DrawsFromSample(requested, turn.table, TRUE)
  BY <1>4 DEF ChartSpec
<1>7. Drawn'
  BY <1>1, <1>3, <1>6 DEF Drawn
<1>8. Grounded'
  BY <1>1 DEF AnswerInv, Grounded
<1> QED BY <1>1, <1>2, <1>5, <1>7, <1>8 DEF AnswerInv, Noted

LEMMA SummarizeKeeps == AnswerInv /\ Summarize => AnswerInv'
<1> SUFFICES ASSUME AnswerInv, Summarize PROVE AnswerInv'
  OBVIOUS
<1>1. stage = "summary" /\ stage' = "deliver" /\ turn' = turn /\ chart' = chart
  BY DEF Summarize
<1>2. /\ summary'.facts \subseteq Grounding(turn.question, turn.table).facts
      /\ summary'.kind \in {"grounding", "counts"} => ~turn.error
      /\ summary'.note \in {<<>>, Note(chart, turn.question.phrase)}
  <2>1. ASSUME NEW k \in {"clarify", "blocked", "llm", "research", "web", "failure"}, summary' = [NoSummary EXCEPT !.kind = k]
        PROVE  summary'.facts = {} /\ summary'.kind = k /\ summary'.note = <<>>
    BY <2>1 DEF NoSummary
  <2>2. CASE \E k \in {"clarify", "blocked", "llm", "research", "web", "failure"} : summary' = [NoSummary EXCEPT !.kind = k]
    BY <2>1, <2>2
  <2>3. CASE ~turn.error /\ summary' = [NoSummary EXCEPT !.kind = "counts"]
    BY <2>3 DEF NoSummary
  <2>4. CASE ~turn.error /\ summary' = [kind |-> "grounding", facts |-> Grounding(turn.question, turn.table).facts,
                                        note |-> Note(chart, turn.question.phrase)]
    BY <2>4
  <2>5. \/ \E k \in {"clarify", "blocked", "llm"} : summary' = [NoSummary EXCEPT !.kind = k]
        \/ summary' = Fallback
    BY DEF Summarize
  <2>6. CASE summary' = Fallback
    <3>1. CASE turn.research
      BY <2>2, <2>6, <3>1 DEF Fallback
    <3>2. CASE ~turn.research /\ turn.web /\ turn.table = NoRows
      BY <2>2, <2>6, <3>2 DEF Fallback
    <3>3. CASE ~turn.research /\ ~(turn.web /\ turn.table = NoRows)
      BY <2>2, <2>3, <2>4, <2>6, <3>3 DEF Fallback
    <3> QED BY <3>1, <3>2, <3>3
  <2> QED BY <2>2, <2>5, <2>6
<1>3. Noted'
  BY <1>1, <1>2 DEF Noted
<1>4. Grounded'
  BY <1>1, <1>2 DEF AnswerInv, Grounded
<1>5. Warned' /\ Drawn'
  BY <1>1 DEF AnswerInv, Warned, Drawn
<1> QED BY <1>3, <1>4, <1>5 DEF AnswerInv

LEMMA DeliverKeeps == AnswerInv /\ Deliver => AnswerInv'
<1> SUFFICES ASSUME AnswerInv, Deliver PROVE AnswerInv'
  OBVIOUS
<1>1. stage = "deliver" /\ stage' = "done" /\ turn' = turn /\ summary' = summary
  BY DEF Deliver
<1>2. PICK p, t : p = turn.question.phrase /\ t = turn.table
  OBVIOUS
<1>3. PICK asked : asked = OrchestratorReads(p)
  OBVIOUS
<1>4. PICK served : served = ServiceReads(p)
  OBVIOUS
<1>5. ASSUME ReadAlike, summary.note # <<>>
      PROVE  summary.note[1] = "made" <=> chart'.type = summary.note[2]
  <2>1. served \in {"none", asked}
    BY <1>2, <1>3, <1>4, <1>5, ReadersAgree DEF ReadAlike
  <2>2. DrawsFromSample(served, t, FALSE) <=> DrawsFromSample(served, t, TRUE)
    BY <1>2, <1>5, DrawnAlike DEF ReadAlike
  <2>3. asked \in {"none", chart.type} \/ ~DrawsFromSample(asked, t, TRUE)
    BY <1>1, <1>2, <1>3 DEF AnswerInv, Drawn
  <2>4. chart' = IF served \notin {"none", chart.type} /\ DrawsFromSample(served, t, FALSE)
                 THEN ChartSpec(served, "no") ELSE chart
    BY <1>2, <1>4 DEF Deliver, Ensured
  <2>5. chart' = chart
    BY <2>1, <2>2, <2>3, <2>4
  <2>6. summary.note = Note(chart, p) /\ Note(chart, p) # <<>>
    BY <1>1, <1>2, <1>5 DEF AnswerInv, Noted
  <2>7. chart.warn = "visual" => chart.type = "table" /\ VisualReads(p) # "table"
    BY <1>1, <1>2 DEF AnswerInv, Warned
  <2>8. CASE chart = NoChart
    BY <1>3, <2>5, <2>6, <2>8 DEF Note, NoChart
  <2>9. CASE chart # NoChart /\ chart.warn = "visual"
    BY <2>5, <2>6, <2>7, <2>9 DEF Note
  <2>10. CASE chart # NoChart /\ chart.warn # "visual"
    BY <1>3, <2>5, <2>6, <2>10 DEF Note
  <2> QED BY <2>8, <2>9, <2>10
<1>6. ReadAlike' => ReadAlike
  BY <1>1 DEF ReadAlike
<1>7. Noted'
  BY <1>1, <1>5, <1>6 DEF Noted
<1>8. Grounded'
  BY <1>1 DEF AnswerInv, Grounded
<1> QED BY <1>1, <1>7, <1>8 DEF AnswerInv, Warned, Drawn

LEMMA AnswerSteps == AnswerInv /\ [AnswerNext]_answerVars => AnswerInv'
<1>1. ASSUME AnswerInv, UNCHANGED answerVars
      PROVE  AnswerInv'
  BY <1>1 DEF AnswerInv, Warned, Drawn, Noted, Grounded, ReadAlike, answerVars
<1> QED BY <1>1, VisualizeKeeps, EnsureKeeps, SummarizeKeeps, DeliverKeeps DEF AnswerNext

LEMMA GroundedIsTrue == AnswerInv => AnswerTrue
<1> SUFFICES ASSUME AnswerInv PROVE AnswerTrue
  OBVIOUS
<1>1. PICK q, t : q = turn.question /\ t = turn.table
  OBVIOUS
<1>2. t \in Tables \cup {NoRows}
  BY <1>1 DEF AnswerInv, Grounded, Turns
<1>3. ASSUME NEW c \in summary.facts
      PROVE  Holds(c, turn.table, Dimension(turn.question, turn.table), Measure(turn.question, turn.table))
  <2>1. PICK c1 : c1 = c
    OBVIOUS
  <2>2. c1 \in Grounding(q, t).facts
    BY <1>1, <2>1 DEF AnswerInv, Grounded
  <2>3. Holds(c1, t, Dimension(q, t), Measure(q, t))
    BY <1>2, <2>2, GroundingTrue
  <2> QED BY <1>1, <2>1, <2>3
<1> QED BY <1>3 DEF AnswerTrue, AnswerInv, Grounded, Noted

\* An answer that the language model did not write is true of the rows it is
\* read from, and of the chart that is delivered with it
\* (build_analyst_grounding, ResponseFormatter._fallback_summary).
THEOREM AnswersAreTrue == AnswerSpec => []AnswerTrue
<1>1. AnswerSpec => []AnswerInv
  BY AnswerStarts, AnswerSteps, PTL DEF AnswerSpec
<1> QED BY <1>1, GroundedIsTrue, PTL

-----------------------------------------------------------------------------
(* Research: orders                                                        *)

\* A stable sort has each position once.
LEMMA EachInOrder ==
    ASSUME NEW S, IsFiniteSet(S), S \subseteq Nat, NEW score, \A i \in S : score[i] \in Int
    PROVE  /\ Cardinality(S) \in Nat /\ InOrder(score, S) \in [1..Cardinality(S) -> S]
           /\ \A i \in S : \E k \in 1..Cardinality(S) : InOrder(score, S)[k] = i
           /\ \A k, l \in 1..Cardinality(S) : k # l => InOrder(score, S)[k] # InOrder(score, S)[l]
<1> DEFINE R == {e \in S \X S : Outranks(score, e[1], e[2])}
<1>1. \A i, j \in S : <<i, j>> \in R <=> Outranks(score, i, j)
  OBVIOUS
<1>2. R \in SUBSET (S \X S)
  OBVIOUS
<1>3. \A i \in S : {j \in S : <<j, i>> \in R} = {j \in S : Outranks(score, j, i)}
  BY <1>1
<1> HIDE DEF R
<1>4. /\ \A i \in S : <<i, i>> \notin R
      /\ \A i, j, k \in S : <<i, j>> \in R /\ <<j, k>> \in R => <<i, k>> \in R
      /\ \A i, j \in S : i # j => <<i, j>> \in R \/ <<j, i>> \in R
  <2>1. \A i, j \in S : <<i, j>> \in R <=> score[i] > score[j] \/ (score[i] = score[j] /\ i < j)
    BY <1>1 DEF Outranks
  <2>2. \A i \in S : <<i, i>> \notin R
    BY <2>1
  <2>3. \A i, j \in S : i # j => <<i, j>> \in R \/ <<j, i>> \in R
    BY <2>1
  <2>4. ASSUME NEW i \in S, NEW j \in S, NEW k \in S, <<i, j>> \in R, <<j, k>> \in R
        PROVE  <<i, k>> \in R
    BY <2>1, <2>4
  <2> QED BY <2>2, <2>3, <2>4
<1>5. PICK r : r = InOrder(score, S)
  OBVIOUS
<1>6. /\ Cardinality(S) \in Nat
      /\ \A k \in 1..Cardinality(S) : \E i \in S : Cardinality({j \in S : <<j, i>> \in R}) = k - 1
  BY <1>2, <1>4, OrderNumbers
<1>7. ASSUME NEW k \in 1..Cardinality(S)
      PROVE  r[k] \in S /\ Cardinality({j \in S : <<j, r[k]>> \in R}) = k - 1
  <2>1. PICK e \in S : Cardinality({j \in S : Outranks(score, j, e)}) = k - 1
    BY <1>3, <1>6
  <2>2. r[k] = CHOOSE i \in S : Cardinality({j \in S : Outranks(score, j, i)}) = k - 1
    BY <1>5 DEF InOrder
  <2>3. r[k] \in S /\ Cardinality({j \in S : Outranks(score, j, r[k])}) = k - 1
    BY <2>1, <2>2
  <2> QED BY <1>3, <2>3
<1>8. r \in [1..Cardinality(S) -> S]
  BY <1>5, <1>7 DEF InOrder
<1>9. /\ Cardinality(S) \in Nat /\ r \in Seq(S) /\ Len(r) = Cardinality(S)
      /\ \A i \in S : \E k \in 1..Cardinality(S) : r[k] = i
      /\ \A k, l \in 1..Cardinality(S) : <<r[k], r[l]>> \in R <=> k < l
  <2>1. \A k \in 1..Cardinality(S) : Cardinality({j \in S : <<j, r[k]>> \in R}) = k - 1
    BY <1>7
  <2> QED BY <1>2, <1>4, <1>8, <2>1, OrderedSequence
<1>10. ASSUME NEW k \in 1..Cardinality(S), NEW l \in 1..Cardinality(S), r[k] = r[l]
       PROVE  k = l
  <2>1. ~(k < l) /\ ~(l < k)
    BY <1>4, <1>8, <1>9, <1>10
  <2> QED BY <1>6, <2>1
<1> QED BY <1>5, <1>6, <1>8, <1>9, <1>10

\* So a sequence that is put in order is one of the same things.
LEMMA SortedSame ==
    ASSUME NEW X, NEW s \in Seq(X), NEW S \in SUBSET (DOMAIN s), NEW score, \A i \in S : score[i] \in Int
    PROVE  /\ ByScore(s, score, S) \in Seq(X)
           /\ Len(ByScore(s, score, S)) = Cardinality(S) /\ Cardinality(S) \in Nat
           /\ \A k \in 1..Cardinality(S) : ByScore(s, score, S)[k] \in {s[i] : i \in S}
           /\ (\A i, j \in S : i # j => s[i] # s[j]) =>
                 \A k, l \in 1..Cardinality(S) : k # l => ByScore(s, score, S)[k] # ByScore(s, score, S)[l]
<1>1. IsFiniteSet(S) /\ S \subseteq Nat
  <2>1. PICK n \in Nat : DOMAIN s = 1..n
    OBVIOUS
  <2>2. IsFiniteSet(1..n)
    BY <2>1, FS_Interval
  <2> QED BY <2>1, <2>2, FS_Subset
<1>2. PICK order : order = InOrder(score, S)
  OBVIOUS
<1>3. PICK n : n = Cardinality(S)
  OBVIOUS
<1>4. /\ n \in Nat /\ order \in [1..n -> S]
      /\ \A k, l \in 1..n : k # l => order[k] # order[l]
  BY <1>1, <1>2, <1>3, EachInOrder
<1>5. ByScore(s, score, S) = [k \in 1..n |-> s[order[k]]]
  BY <1>2, <1>3 DEF ByScore
<1>6. \A k \in 1..n : s[order[k]] \in X
  BY <1>4
<1>7. PICK sorted : sorted = ByScore(s, score, S)
  OBVIOUS
<1>8. sorted \in Seq(X) /\ Len(sorted) = n
  BY <1>4, <1>5, <1>6, <1>7
<1>9. \A k \in 1..n : sorted[k] \in {s[i] : i \in S}
  BY <1>4, <1>5, <1>7
<1>10. ASSUME \A i, j \in S : i # j => s[i] # s[j]
       PROVE  \A k, l \in 1..n : k # l => sorted[k] # sorted[l]
  <2>1. ASSUME NEW k \in 1..n, NEW l \in 1..n, k # l
        PROVE  sorted[k] # sorted[l]
    <3>1. order[k] \in S /\ order[l] \in S /\ order[k] # order[l]
      BY <1>4, <2>1
    <3>2. sorted[k] = s[order[k]] /\ sorted[l] = s[order[l]]
      BY <1>5, <1>7
    <3> QED BY <1>10, <3>1, <3>2
  <2> QED BY <2>1
<1> QED BY <1>3, <1>4, <1>7, <1>8, <1>9, <1>10

-----------------------------------------------------------------------------
(* Research: pages                                                         *)

\* Lists of pages without repetitions, and what a query adds to them.
PageLists == {s \in Seq(DOMAIN Facts) : \A k, l \in DOMAIN s : k # l => s[k] # s[l]}
Additions == [pages : PageLists, full : BOOLEAN]

LEMMA AddKeeps ==
    ASSUME NEW acc \in Additions, NEW page \in DOMAIN Facts
    PROVE  AddPage(acc, page) \in Additions
<1>1. CASE acc.full \/ page \in ToSet(acc.pages)
  BY <1>1 DEF AddPage
<1>2. CASE ~acc.full /\ page \notin ToSet(acc.pages)
  <2>1. PICK list : list = acc.pages
    OBVIOUS
  <2>2. list \in Seq(DOMAIN Facts) /\ \A k, l \in DOMAIN list : k # l => list[k] # list[l]
    BY <2>1 DEF Additions, PageLists
  <2>3. PICK more : more = Append(list, page)
    OBVIOUS
  <2>4. /\ more \in Seq(DOMAIN Facts) /\ Len(more) = Len(list) + 1
        /\ \A k \in 1..Len(list) : more[k] = list[k]
        /\ more[Len(list) + 1] = page /\ Len(list) \in Nat
    BY <2>2, <2>3
  <2>5. \A k \in 1..Len(list) : list[k] # page
    BY <1>2, <2>1, <2>2 DEF ToSet
  <2>6. ASSUME NEW k \in DOMAIN more, NEW l \in DOMAIN more, k # l
        PROVE  more[k] # more[l]
    <3>1. /\ k \in 1..Len(list) \/ k = Len(list) + 1
          /\ l \in 1..Len(list) \/ l = Len(list) + 1
      BY <2>4
    <3> QED BY <2>2, <2>4, <2>5, <2>6, <3>1
  <2>7. AddPage(acc, page) = [pages |-> more, full |-> Len(list) + 1 >= 2 * MaxResults]
    BY <1>2, <2>1, <2>3 DEF AddPage
  <2>8. (Len(list) + 1 >= 2 * MaxResults) \in BOOLEAN
    OBVIOUS
  <2>9. more \in PageLists
    BY <2>4, <2>6 DEF PageLists
  <2> QED BY <2>7, <2>8, <2>9 DEF Additions
<1> QED BY <1>1, <1>2

LEMMA PagesAdded ==
    ASSUME NEW base \in Additions, NEW s \in Seq(DOMAIN Facts)
    PROVE  FoldLeft(AddPage, base, s) \in Additions
<1> DEFINE n == Len(s)
           G == [p \in (1..n) \X Additions |-> AddPage(p[2], s[p[1]])]
           Eq(i) == i = [t \in SUBSET DOMAIN s |->
                           IF t = {} THEN base ELSE AddPage(i[t \ {Max(t)}], s[Max(t)])]
           c == CHOOSE i : Eq(i)
<1>1. n \in Nat /\ DOMAIN s = 1..n /\ \A k \in 1..n : s[k] \in DOMAIN Facts
  OBVIOUS
<1> HIDE DEF n
<1>2. G \in [(1..n) \X Additions -> Additions]
  BY <1>1, AddKeeps
<1>3. PICK it : IsFoldTable(it, Additions, base, n, G)
  <2> HIDE DEF G
  <2> QED BY <1>1, <1>2, FoldTableExists, Zenon
<1>4. ASSUME NEW t \in SUBSET (1..n), t # {}
      PROVE  it[t] = AddPage(it[t \ {Max(t)}], s[Max(t)])
  <2>1. PICK top : top = Max(t)
    OBVIOUS
  <2>2. top \in 1..n
    BY <1>1, <1>4, <2>1, GreatestUpTo
  <2>3. it[t \ {top}] \in Additions /\ it[t] = G[<<top, it[t \ {top}]>>]
    <3> HIDE DEF G
    <3> QED BY <1>3, <1>4, <2>1 DEF IsFoldTable
  <2> QED BY <2>1, <2>2, <2>3
<1>5. it \in [SUBSET (1..n) -> Additions] /\ it[{}] = base
  BY <1>3 DEF IsFoldTable
<1>6. Eq(it)
  BY <1>1, <1>4, <1>5
<1>7. Eq(c)
  <2> HIDE DEF Eq
  <2> QED BY <1>6, Zenon
<1>8. FoldLeft(AddPage, base, s) = c[DOMAIN s]
  BY Zenon DEF FoldLeft, MapThenFoldSet
<1> HIDE DEF c
<1>9. c[{}] = base /\ \A k \in 1..n : c[1..k] = AddPage(c[1..(k - 1)], s[k])
  <2>1. \A t \in SUBSET (1..n) : c[t] = IF t = {} THEN base ELSE AddPage(c[t \ {Max(t)}], s[Max(t)])
    BY <1>1, <1>7
  <2>2. ASSUME NEW k \in 1..n
        PROVE  c[1..k] = AddPage(c[1..(k - 1)], s[k])
    <3>1. Max(1..k) = k /\ (1..k) \ {k} = 1..(k - 1) /\ 1..k # {}
      <4>1. k \in Nat /\ k # 0
        BY <1>1
      <4> QED BY <4>1, LastOfInterval
    <3>2. 1..k \in SUBSET (1..n)
      BY <1>1
    <3> QED BY <2>1, <3>1, <3>2
  <2> QED BY <2>1, <2>2
<1>10. c[1..n] \in Additions
  <2>1. c[{}] \in Additions
    BY <1>9
  <2>2. \A k \in 1..n : c[1..(k - 1)] \in Additions => c[1..k] \in Additions
    BY <1>1, <1>9, AddKeeps
  <2> QED BY <1>1, <2>1, <2>2, FoldStays
<1> QED BY <1>1, <1>8, <1>10

LEMMA ProviderLists ==
    ASSUME NEW query \in Queries
    PROVE  Provider(query) \in Seq(DOMAIN Facts)
<1>1. PICK pages : pages = IF Instant(query) # <<>> THEN Instant(query) ELSE Lite(query)
  OBVIOUS
<1>2. pages \in Seq(DOMAIN Facts) /\ Len(pages) \in Nat
  <2>1. Instant(query) \in Seq(DOMAIN Facts) /\ Lite(query) \in Seq(DOMAIN Facts)
    BY ResearchBounds
  <2> QED BY <1>1, <2>1
<1>3. PICK n : n = Least(Len(pages), Least(MaxResults, 8))
  OBVIOUS
<1>4. n \in 0..Len(pages)
  BY <1>2, <1>3, ResearchBounds DEF Least
<1>5. Provider(query) = SubSeq(pages, 1, n)
  BY <1>1, <1>3 DEF Provider
<1> QED BY <1>2, <1>4, <1>5

\* What the queries of a search list, without repetitions.
LEMMA CollectedOnce ==
    ASSUME NEW queries \in Seq(Queries), NEW lost
    PROVE  Collected(queries, lost) \in PageLists
<1> DEFINE n == Len(queries)
           Grown(acc, query) ==
              IF query \in lost THEN acc
              ELSE FoldLeft(AddPage, [pages |-> acc, full |-> FALSE], Provider(query)).pages
           G == [p \in (1..n) \X PageLists |-> Grown(p[2], queries[p[1]])]
           Eq(i) == i = [t \in SUBSET DOMAIN queries |->
                           IF t = {} THEN <<>> ELSE Grown(i[t \ {Max(t)}], queries[Max(t)])]
           c == CHOOSE i : Eq(i)
<1>1. n \in Nat /\ DOMAIN queries = 1..n /\ \A k \in 1..n : queries[k] \in Queries
  OBVIOUS
<1> HIDE DEF n
<1>2. <<>> \in PageLists
  BY DEF PageLists
<1>3. ASSUME NEW acc \in PageLists, NEW query \in Queries
      PROVE  Grown(acc, query) \in PageLists
  <2>1. [pages |-> acc, full |-> FALSE] \in Additions
    BY DEF Additions
  <2>2. FoldLeft(AddPage, [pages |-> acc, full |-> FALSE], Provider(query)) \in Additions
    BY <2>1, PagesAdded, ProviderLists
  <2>3. \A e \in Additions : e.pages \in PageLists
    BY DEF Additions
  <2> QED BY <2>2, <2>3
<1>4. G \in [(1..n) \X PageLists -> PageLists]
  <2> HIDE DEF Grown
  <2> QED BY <1>1, <1>3
<1>5. PICK it : IsFoldTable(it, PageLists, <<>>, n, G)
  <2> HIDE DEF G
  <2> QED BY <1>1, <1>2, <1>4, FoldTableExists, Zenon
<1>6. ASSUME NEW t \in SUBSET (1..n), t # {}
      PROVE  it[t] = Grown(it[t \ {Max(t)}], queries[Max(t)])
  <2>1. PICK top : top = Max(t)
    OBVIOUS
  <2>2. top \in 1..n
    BY <1>1, <1>6, <2>1, GreatestUpTo
  <2>3. it[t \ {top}] \in PageLists /\ it[t] = G[<<top, it[t \ {top}]>>]
    <3> HIDE DEF G
    <3> QED BY <1>5, <1>6, <2>1 DEF IsFoldTable
  <2> HIDE DEF Grown
  <2> QED BY <2>1, <2>2, <2>3
<1>7. it \in [SUBSET (1..n) -> PageLists] /\ it[{}] = <<>>
  BY <1>5 DEF IsFoldTable
<1>8. Eq(it)
  <2> HIDE DEF Grown
  <2> QED BY <1>1, <1>6, <1>7
<1>9. Eq(c)
  <2> HIDE DEF Eq
  <2> QED BY <1>8, Zenon
<1>10. Collected(queries, lost) = c[DOMAIN queries]
  BY Zenon DEF Collected, FoldLeft, MapThenFoldSet
<1> HIDE DEF c, Grown
<1>11. c[{}] = <<>> /\ \A k \in 1..n : c[1..k] = Grown(c[1..(k - 1)], queries[k])
  <2>1. \A t \in SUBSET (1..n) : c[t] = IF t = {} THEN <<>> ELSE Grown(c[t \ {Max(t)}], queries[Max(t)])
    BY <1>1, <1>9
  <2>2. ASSUME NEW k \in 1..n
        PROVE  c[1..k] = Grown(c[1..(k - 1)], queries[k])
    <3>1. Max(1..k) = k /\ (1..k) \ {k} = 1..(k - 1) /\ 1..k # {}
      <4>1. k \in Nat /\ k # 0
        BY <1>1
      <4> QED BY <4>1, LastOfInterval
    <3>2. 1..k \in SUBSET (1..n)
      BY <1>1
    <3> QED BY <2>1, <3>1, <3>2
  <2> QED BY <2>1, <2>2
<1>12. c[1..n] \in PageLists
  <2>1. c[{}] \in PageLists
    BY <1>2, <1>11
  <2>2. \A k \in 1..n : c[1..(k - 1)] \in PageLists => c[1..k] \in PageLists
    BY <1>1, <1>3, <1>11
  <2> QED BY <1>1, <2>1, <2>2, FoldStays
<1> QED BY <1>1, <1>10, <1>12

\* A search keeps pages that it saw, each once, and some if it saw any.
LEMMA TriageKeeps ==
    ASSUME NEW question \in Queries, NEW list \in PageLists
    PROVE  /\ Triage(question, list) \in PageLists
           /\ Triage(question, list) = <<>> => list = <<>>
           /\ ToSet(Triage(question, list)) \subseteq ToSet(list)
<1> DEFINE score == [k \in DOMAIN list |-> WebFit(question, list[k])]
           fit   == {k \in DOMAIN list : score[k] >= 18}
           S     == IF fit = {} THEN DOMAIN list ELSE fit
<1>1. /\ list \in Seq(DOMAIN Facts) /\ DOMAIN list = 1..Len(list) /\ Len(list) \in Nat
      /\ \A k, l \in DOMAIN list : k # l => list[k] # list[l]
  BY DEF PageLists
<1>2. S \in SUBSET (DOMAIN list) /\ \A k \in S : score[k] \in Int
  <2>1. \A k \in DOMAIN list : list[k] \in DOMAIN Facts
    BY <1>1
  <2>2. \A k \in DOMAIN list : score[k] \in Int
    BY <2>1, ResearchBounds
  <2>3. fit \in SUBSET (DOMAIN list)
    OBVIOUS
  <2> HIDE DEF fit, score
  <2> QED BY <2>2, <2>3
<1>3. S = {} => list = <<>>
  <2> HIDE DEF fit
  <2>1. S = {} => DOMAIN list = {}
    OBVIOUS
  <2> HIDE DEF S
  <2> QED BY <1>1, <2>1
<1>4. PICK best : best = ByScore(list, score, S)
  OBVIOUS
<1>5. PICK kept : kept = SubSeq(best, 1, Least(MaxResults, Len(best)))
  OBVIOUS
<1>6. Triage(question, list) = kept
  BY <1>4, <1>5 DEF Triage
<1> HIDE DEF S, score
<1>7. /\ best \in Seq(DOMAIN Facts) /\ Len(best) = Cardinality(S) /\ Cardinality(S) \in Nat
      /\ \A k \in 1..Cardinality(S) : best[k] \in {list[i] : i \in S}
      /\ \A k, l \in 1..Cardinality(S) : k # l => best[k] # best[l]
  <2>1. \A i, j \in S : i # j => list[i] # list[j]
    BY <1>1, <1>2
  <2> QED BY <1>1, <1>2, <1>4, <2>1, SortedSame
<1>8. PICK n : n = Least(MaxResults, Len(best))
  OBVIOUS
<1>9. n \in 0..Len(best) /\ (n = 0 => Cardinality(S) = 0)
  BY <1>7, <1>8, ResearchBounds DEF Least
<1>10. /\ kept \in Seq(DOMAIN Facts) /\ Len(kept) = n /\ DOMAIN kept = 1..n
       /\ \A k \in 1..n : kept[k] = best[k] /\ k \in 1..Cardinality(S)
  BY <1>5, <1>7, <1>8, <1>9
<1>11. kept \in PageLists
  BY <1>7, <1>10 DEF PageLists
<1>12. ToSet(kept) \subseteq ToSet(list)
  BY <1>2, <1>7, <1>10 DEF ToSet
<1>13. ASSUME kept = <<>>
       PROVE  list = <<>>
  <2>1. Cardinality(S) = 0
    BY <1>9, <1>10, <1>13
  <2>2. IsFiniteSet(S)
    <3>1. PICK m \in Nat : DOMAIN list = 1..m
      BY <1>1
    <3>2. IsFiniteSet(1..m)
      BY <3>1, FS_Interval
    <3> QED BY <1>2, <3>1, <3>2, FS_Subset
  <2> QED BY <1>3, <2>1, <2>2, FS_EmptySet
<1> QED BY <1>6, <1>11, <1>12, <1>13

LEMMA TriedAreQueries ==
    ASSUME NEW question \in Queries, NEW refined \in Seq(Queries)
    PROVE  QueriesTried(question, refined) \in Seq(Queries)
<1>1. PICK all : all = IF question \in ToSet(refined) THEN refined ELSE Append(refined, question)
  OBVIOUS
<1>2. all \in Seq(Queries) /\ Len(all) \in Nat
  BY <1>1
<1>3. PICK n : n = Least(3, Len(all))
  OBVIOUS
<1>4. n \in 0..Len(all)
  BY <1>2, <1>3 DEF Least
<1>5. QueriesTried(question, refined) = SubSeq(all, 1, n)
  BY <1>1, <1>3 DEF QueriesTried
<1> QED BY <1>2, <1>4, <1>5

LEMMA FoundOnce ==
    ASSUME NEW question \in Queries, NEW refined \in Seq(Queries), NEW lost
    PROVE  LET seen == Collected(QueriesTried(question, refined), lost)
           IN /\ Found(question, refined, lost) \in PageLists
              /\ Found(question, refined, lost) = <<>> => seen = <<>>
              /\ ToSet(Found(question, refined, lost)) \subseteq ToSet(seen)
<1>1. PICK seen : seen = Collected(QueriesTried(question, refined), lost)
  OBVIOUS
<1>2. seen \in PageLists
  BY <1>1, CollectedOnce, TriedAreQueries
<1>3. Found(question, refined, lost) = Triage(question, seen)
  BY <1>1 DEF Found
<1> QED BY <1>1, <1>2, <1>3, TriageKeeps

-----------------------------------------------------------------------------
(* Research: evidence                                                      *)

Evidence == {Scored(q, i) : q \in Queries, i \in DOMAIN Facts}

LEMMA EvidenceTyped ==
    ASSUME NEW q \in Queries, NEW i \in DOMAIN Facts
    PROVE  Scored(q, i) \in Evidence /\ Scored(q, i).score \in Nat
<1>1. Fit(q, i) \in Nat /\ Facts[i].kind \in {"internal", "sql", "web", "memory"}
  BY ResearchBounds
<1>2. Quality(i) \in Nat
  <2>1. (CASE Facts[i].kind = "internal" -> 35 [] Facts[i].kind = "sql" -> 32
           [] Facts[i].kind = "web" -> 22 [] Facts[i].kind = "memory" -> 12) \in Nat
    BY <1>1
  <2>2. PICK base : base = CASE Facts[i].kind = "internal" -> 35 [] Facts[i].kind = "sql" -> 32
                             [] Facts[i].kind = "web" -> 22 [] Facts[i].kind = "memory" -> 12
    OBVIOUS
  <2>3. PICK named, long : named = (IF Facts[i].ref # NoRef THEN 12 ELSE 0) /\ long = IF Facts[i].long THEN 10 ELSE 0
    OBVIOUS
  <2>4. Quality(i) = 25 + base + named + 8 + long
    BY <2>2, <2>3, Zenon DEF Quality
  <2>5. base \in Nat
    BY <2>1, <2>2, Zenon
  <2>6. named \in Nat /\ long \in Nat
    BY <2>3
  <2> QED BY <2>4, <2>5, <2>6
<1> QED BY <1>1, <1>2 DEF Evidence, Scored

LEMMA GatheredTyped ==
    ASSUME given \in Seq(DOMAIN Facts), NEW pages \in Seq(DOMAIN Facts), NEW question \in Queries
    PROVE  Gathered(question, pages) \in Seq(DOMAIN Facts)
<1> DEFINE OfKind(kinds) == {k \in DOMAIN given : Facts[given[k]].kind \in kinds}
           fit           == {k \in OfKind({"internal", "memory"}) : Fit(question, given[k]) >= 18}
           InTurn(S)     == ByScore(given, [k \in S |-> 0], S)
<1>1. ASSUME NEW S \in SUBSET (DOMAIN given)
      PROVE  InTurn(S) \in Seq(DOMAIN Facts)
  <2>1. PICK even : even = [k \in S |-> 0]
    OBVIOUS
  <2>2. \A k \in S : even[k] \in Int
    BY <2>1
  <2>3. ByScore(given, even, S) \in Seq(DOMAIN Facts)
    BY <2>2, SortedSame
  <2> QED BY <2>1, <2>3
<1>2. fit \in SUBSET (DOMAIN given) /\ OfKind({"sql"}) \in SUBSET (DOMAIN given)
  OBVIOUS
<1>3. Gathered(question, pages) =
        InTurn(fit) \o (IF "web_search" \in agenda.tools THEN pages ELSE <<>>)
                    \o (IF "sql" \in agenda.tools THEN InTurn(OfKind({"sql"})) ELSE <<>>)
  BY DEF Gathered
<1> HIDE DEF fit, OfKind, InTurn
<1>4. InTurn(fit) \in Seq(DOMAIN Facts) /\ InTurn(OfKind({"sql"})) \in Seq(DOMAIN Facts)
  BY <1>1, <1>2
<1>5. PICK web, sql : /\ web = IF "web_search" \in agenda.tools THEN pages ELSE <<>>
                      /\ sql = IF "sql" \in agenda.tools THEN InTurn(OfKind({"sql"})) ELSE <<>>
  OBVIOUS
<1>6. web \in Seq(DOMAIN Facts) /\ sql \in Seq(DOMAIN Facts)
  <2>1. <<>> \in Seq(DOMAIN Facts)
    OBVIOUS
  <2>2. web \in {pages, <<>>} /\ sql \in {InTurn(OfKind({"sql"})), <<>>}
    BY <1>5
  <2> QED BY <1>4, <2>1, <2>2
<1>7. Gathered(question, pages) = InTurn(fit) \o web \o sql
  BY <1>3, <1>5
<1> QED BY <1>4, <1>6, <1>7

LEMMA RankTyped ==
    ASSUME NEW items \in Seq(DOMAIN Facts), NEW question \in Queries
    PROVE  Rank(question, items) \in Seq(Evidence)
<1>1. PICK scored : scored = [k \in DOMAIN items |-> Scored(question, items[k])]
  OBVIOUS
<1>2. DOMAIN items = 1..Len(items) /\ Len(items) \in Nat /\ \A k \in DOMAIN items : items[k] \in DOMAIN Facts
  OBVIOUS
<1>3. \A k \in DOMAIN items : scored[k] \in Evidence /\ scored[k].score \in Nat
  BY <1>1, <1>2, EvidenceTyped
<1>4. scored \in Seq(Evidence) /\ DOMAIN scored = DOMAIN items
  BY <1>1, <1>2, <1>3
<1>5. PICK score : score = [k \in DOMAIN items |-> scored[k].score]
  OBVIOUS
<1>6. \A k \in DOMAIN items : score[k] \in Int
  BY <1>3, <1>5
<1>7. ByScore(scored, score, DOMAIN items) \in Seq(Evidence)
  BY <1>4, <1>6, SortedSame
<1> QED BY <1>1, <1>5, <1>7 DEF Rank

\* Lists of evidence of which no two pieces say the same, and those that do
\* not repeat what is there already.
Distinct  == {s \in Seq(Evidence) : \A k, l \in DOMAIN s : k # l => ~NearDuplicate(s[k].item, s[l].item)}
NewTo(old) == {s \in Distinct : \A k \in DOMAIN s : \A f \in ToSet(old) : ~NearDuplicate(s[k].item, f.item)}

LEMMA DuplicatesMutual ==
    ASSUME NEW i, NEW j, NearDuplicate(i, j)
    PROVE  NearDuplicate(j, i)
<1>1. {i, j} = {j, i}
  OBVIOUS
<1> QED BY <1>1 DEF NearDuplicate

LEMMA EvidenceAdded ==
    ASSUME NEW old, NEW kept \in NewTo(old), NEW e \in Evidence
    PROVE  (IF \E f \in ToSet(old) \cup ToSet(kept) : NearDuplicate(e.item, f.item)
            THEN kept ELSE Append(kept, e)) \in NewTo(old)
<1>1. CASE \E f \in ToSet(old) \cup ToSet(kept) : NearDuplicate(e.item, f.item)
  BY <1>1
<1>2. CASE ~\E f \in ToSet(old) \cup ToSet(kept) : NearDuplicate(e.item, f.item)
  <2>1. /\ kept \in Seq(Evidence) /\ Len(kept) \in Nat /\ DOMAIN kept = 1..Len(kept)
        /\ \A k, l \in DOMAIN kept : k # l => ~NearDuplicate(kept[k].item, kept[l].item)
        /\ \A k \in DOMAIN kept : \A f \in ToSet(old) : ~NearDuplicate(kept[k].item, f.item)
    BY DEF NewTo, Distinct
  <2>2. PICK more : more = Append(kept, e)
    OBVIOUS
  <2>3. /\ more \in Seq(Evidence) /\ Len(more) = Len(kept) + 1 /\ DOMAIN more = 1..Len(more)
        /\ \A k \in 1..Len(kept) : more[k] = kept[k]
        /\ more[Len(kept) + 1] = e
    BY <2>1, <2>2
  <2>4. \A k \in 1..Len(kept) : ~NearDuplicate(e.item, kept[k].item) /\ ~NearDuplicate(kept[k].item, e.item)
    <3>1. \A k \in 1..Len(kept) : ~NearDuplicate(e.item, kept[k].item)
      BY <1>2, <2>1 DEF ToSet
    <3> QED BY <3>1, DuplicatesMutual
  <2>5. ASSUME NEW k \in DOMAIN more, NEW l \in DOMAIN more, k # l
        PROVE  ~NearDuplicate(more[k].item, more[l].item)
    <3>1. /\ k \in 1..Len(kept) \/ k = Len(kept) + 1
          /\ l \in 1..Len(kept) \/ l = Len(kept) + 1
      BY <2>1, <2>3
    <3> QED BY <2>1, <2>3, <2>4, <2>5, <3>1
  <2>6. ASSUME NEW k \in DOMAIN more, NEW f \in ToSet(old)
        PROVE  ~NearDuplicate(more[k].item, f.item)
    <3>1. k \in 1..Len(kept) \/ k = Len(kept) + 1
      BY <2>1, <2>3
    <3> QED BY <1>2, <2>1, <2>3, <3>1
  <2>7. more \in NewTo(old)
    BY <2>3, <2>5, <2>6 DEF NewTo, Distinct
  <2> QED BY <1>2, <2>2, <2>7
<1> QED BY <1>1, <1>2

LEMMA DedupeNew ==
    ASSUME NEW ranked \in Seq(Evidence), NEW old
    PROVE  Dedupe(ranked, old) \in NewTo(old)
<1> DEFINE n == Len(ranked)
           A == NewTo(old)
           Grown(kept, e) ==
              IF \E f \in ToSet(old) \cup ToSet(kept) : NearDuplicate(e.item, f.item)
              THEN kept ELSE Append(kept, e)
           G == [p \in (1..n) \X A |-> Grown(p[2], ranked[p[1]])]
           Eq(i) == i = [t \in SUBSET DOMAIN ranked |->
                           IF t = {} THEN <<>> ELSE Grown(i[t \ {Max(t)}], ranked[Max(t)])]
           c == CHOOSE i : Eq(i)
<1>1. n \in Nat /\ DOMAIN ranked = 1..n /\ \A k \in 1..n : ranked[k] \in Evidence
  OBVIOUS
<1>2. <<>> \in A
  BY DEF NewTo, Distinct
<1>3. \A kept \in A, e \in Evidence : Grown(kept, e) \in A
  BY EvidenceAdded
<1> HIDE DEF n, A
<1>4. G \in [(1..n) \X A -> A]
  <2> HIDE DEF Grown
  <2> QED BY <1>1, <1>3
<1>5. PICK it : IsFoldTable(it, A, <<>>, n, G)
  <2> HIDE DEF G
  <2> QED BY <1>1, <1>2, <1>4, FoldTableExists, Zenon
<1>6. ASSUME NEW t \in SUBSET (1..n), t # {}
      PROVE  it[t] = Grown(it[t \ {Max(t)}], ranked[Max(t)])
  <2>1. PICK top : top = Max(t)
    OBVIOUS
  <2>2. top \in 1..n
    BY <1>1, <1>6, <2>1, GreatestUpTo
  <2>3. it[t \ {top}] \in A /\ it[t] = G[<<top, it[t \ {top}]>>]
    <3> HIDE DEF G
    <3> QED BY <1>5, <1>6, <2>1 DEF IsFoldTable
  <2> HIDE DEF Grown
  <2> QED BY <2>1, <2>2, <2>3
<1>7. it \in [SUBSET (1..n) -> A] /\ it[{}] = <<>>
  BY <1>5 DEF IsFoldTable
<1>8. Eq(it)
  <2> HIDE DEF Grown
  <2> QED BY <1>1, <1>6, <1>7
<1>9. Eq(c)
  <2> HIDE DEF Eq
  <2> QED BY <1>8, Zenon
<1>10. Dedupe(ranked, old) = c[DOMAIN ranked]
  BY Zenon DEF Dedupe, FoldLeft, MapThenFoldSet
<1> HIDE DEF c, Grown
<1>11. c[{}] = <<>> /\ \A k \in 1..n : c[1..k] = Grown(c[1..(k - 1)], ranked[k])
  <2>1. \A t \in SUBSET (1..n) : c[t] = IF t = {} THEN <<>> ELSE Grown(c[t \ {Max(t)}], ranked[Max(t)])
    BY <1>1, <1>9
  <2>2. ASSUME NEW k \in 1..n
        PROVE  c[1..k] = Grown(c[1..(k - 1)], ranked[k])
    <3>1. Max(1..k) = k /\ (1..k) \ {k} = 1..(k - 1) /\ 1..k # {}
      <4>1. k \in Nat /\ k # 0
        BY <1>1
      <4> QED BY <4>1, LastOfInterval
    <3>2. 1..k \in SUBSET (1..n)
      BY <1>1
    <3> QED BY <2>1, <3>1, <3>2
  <2> QED BY <2>1, <2>2
<1>12. c[1..n] \in A
  <2>1. c[{}] \in A
    BY <1>2, <1>11
  <2>2. \A k \in 1..n : c[1..(k - 1)] \in A => c[1..k] \in A
    BY <1>1, <1>3, <1>11
  <2> QED BY <1>1, <2>1, <2>2, FoldStays
<1> QED BY <1>1, <1>10, <1>12 DEF A

\* The pool stays distinct.
LEMMA PoolGrows ==
    ASSUME NEW old \in Distinct, NEW new \in NewTo(old), NEW m \in 0..Len(new)
    PROVE  old \o SubSeq(new, 1, m) \in Distinct
<1>1. /\ old \in Seq(Evidence) /\ Len(old) \in Nat /\ DOMAIN old = 1..Len(old)
      /\ \A k, l \in DOMAIN old : k # l => ~NearDuplicate(old[k].item, old[l].item)
  BY DEF Distinct
<1>2. /\ new \in Seq(Evidence) /\ Len(new) \in Nat /\ DOMAIN new = 1..Len(new)
      /\ \A k, l \in DOMAIN new : k # l => ~NearDuplicate(new[k].item, new[l].item)
      /\ \A k \in DOMAIN new : \A f \in ToSet(old) : ~NearDuplicate(new[k].item, f.item)
  BY DEF NewTo, Distinct
<1>3. PICK all : all = old \o SubSeq(new, 1, m)
  OBVIOUS
<1>4. /\ all \in Seq(Evidence) /\ DOMAIN all = 1..(Len(old) + m) /\ m \in Nat
      /\ \A k \in 1..Len(old) : all[k] = old[k]
      /\ \A k \in 1..m : all[Len(old) + k] = new[k] /\ k \in DOMAIN new
  BY <1>1, <1>2, <1>3
<1>5. \A k \in 1..Len(old), l \in 1..m : /\ ~NearDuplicate(new[l].item, old[k].item)
                                         /\ ~NearDuplicate(old[k].item, new[l].item)
  <2>1. \A k \in 1..Len(old), l \in 1..m : ~NearDuplicate(new[l].item, old[k].item)
    BY <1>1, <1>2, <1>4 DEF ToSet
  <2> QED BY <2>1, DuplicatesMutual
<1>6. ASSUME NEW k \in DOMAIN all, NEW l \in DOMAIN all, k # l
      PROVE  ~NearDuplicate(all[k].item, all[l].item)
  <2>1. /\ k \in 1..Len(old) \/ \E x \in 1..m : k = Len(old) + x
        /\ l \in 1..Len(old) \/ \E x \in 1..m : l = Len(old) + x
    <3>1. ASSUME NEW j \in DOMAIN all
          PROVE  j \in 1..Len(old) \/ \E x \in 1..m : j = Len(old) + x
      <4>1. CASE j <= Len(old)
        BY <1>1, <1>4, <4>1
      <4>2. CASE ~(j <= Len(old))
        <5>1. j - Len(old) \in 1..m /\ j = Len(old) + (j - Len(old))
          BY <1>1, <1>4, <4>2
        <5> QED BY <5>1
      <4> QED BY <4>1, <4>2
    <3> QED BY <3>1
  <2>2. CASE k \in 1..Len(old) /\ l \in 1..Len(old)
    BY <1>1, <1>4, <1>6, <2>2
  <2>3. ASSUME k \in 1..Len(old), NEW x \in 1..m, l = Len(old) + x
        PROVE  ~NearDuplicate(all[k].item, all[l].item)
    BY <1>4, <1>5, <2>3
  <2>4. ASSUME l \in 1..Len(old), NEW x \in 1..m, k = Len(old) + x
        PROVE  ~NearDuplicate(all[k].item, all[l].item)
    BY <1>4, <1>5, <2>4
  <2>5. ASSUME NEW x \in 1..m, k = Len(old) + x, NEW y \in 1..m, l = Len(old) + y
        PROVE  ~NearDuplicate(all[k].item, all[l].item)
    <3>1. x # y
      BY <1>6, <2>5
    <3>2. all[k] = new[x] /\ all[l] = new[y] /\ x \in DOMAIN new /\ y \in DOMAIN new
      BY <1>4, <2>5
    <3> QED BY <1>2, <3>1, <3>2
  <2> QED BY <2>1, <2>2, <2>3, <2>4, <2>5
<1> QED BY <1>3, <1>4, <1>6 DEF Distinct

-----------------------------------------------------------------------------
(* Research: questions                                                     *)

LEMMA NextIsQuery ==
    ASSUME open \in Seq(Queries)
    PROVE  NextSubquestion \in Queries
<1>1. PICK questions : questions = open
  OBVIOUS
<1>2. PICK left : left = {k \in DOMAIN questions : questions[k] \notin ToSet(answered)}
  OBVIOUS
<1>3. NextSubquestion = IF left = {} THEN Subject ELSE questions[Min(left)]
  BY <1>1, <1>2 DEF NextSubquestion
<1>4. Subject \in Queries
  BY ResearchBounds
<1>5. CASE left # {}
  <2> DEFINE f == [k \in left |-> -k]
  <2>1. questions \in Seq(Queries) /\ DOMAIN questions = 1..Len(questions) /\ Len(questions) \in Nat
    BY <1>1
  <2>2. left \in SUBSET (1..Len(questions))
    BY <1>2, <2>1
  <2>3. IsFiniteSet(left)
    <3>1. PICK n \in Nat : n = Len(questions)
      BY <2>1
    <3>2. IsFiniteSet(1..n)
      BY FS_Interval
    <3> QED BY <2>2, <3>1, <3>2, FS_Subset
  <2>4. f \in [left -> Int]
    BY <2>1, <2>2
  <2>5. \E x \in left : \A y \in left : f[y] <= f[x]
    <3> HIDE DEF f
    <3> QED BY <1>5, <2>3, <2>4, GreatestBy
  <2>6. \E x \in left : \A y \in left : x <= y
    BY <2>1, <2>2, <2>5
  <2>7. Min(left) \in left
    BY <2>6 DEF Min
  <2>8. PICK first \in 1..Len(questions) : first = Min(left)
    BY <2>2, <2>7
  <2>9. questions[first] \in Queries
    BY <2>1
  <2> QED BY <1>3, <1>5, <2>8, <2>9
<1> QED BY <1>3, <1>4, <1>5

LEMMA RemovalTyped ==
    ASSUME NEW questions \in Seq(Queries), NEW e
    PROVE  RemoveFirst(questions, e) \in Seq(Queries)
<1> DEFINE at == SelectInSeq(questions, LAMBDA v : v = e)
           I  == {i \in 1..Len(questions) : questions[i] = e}
           n  == Len(questions)
<1>1. n \in Nat
  OBVIOUS
<1>2. CASE I = {}
  <2>1. ~\E i \in 1..Len(questions) : questions[i] = e
    BY <1>2
  <2> QED BY <2>1 DEF RemoveFirst
<1>3. CASE I # {}
  <2>1. at = Min(I)
    BY <1>3 DEF SelectInSeq
  <2>2. I \in SUBSET (1..n) /\ IsFiniteSet(I)
    <3>1. IsFiniteSet(1..n)
      <4> HIDE DEF n
      <4> QED BY <1>1, FS_Interval
    <3>2. I \in SUBSET (1..n)
      OBVIOUS
    <3> HIDE DEF I, n
    <3> QED BY <3>1, <3>2, FS_Subset
  <2> DEFINE f == [k \in I |-> -k]
  <2>3. f \in [I -> Int]
    <3> HIDE DEF I, n
    <3> QED BY <1>1, <2>2
  <2>4. \E x \in I : \A y \in I : f[y] <= f[x]
    <3> HIDE DEF f, I
    <3> QED BY <1>3, <2>2, <2>3, GreatestBy
  <2>5. \E x \in I : \A y \in I : x <= y
    <3> HIDE DEF I, n
    <3> QED BY <1>1, <2>2, <2>4
  <2>6. at \in I
    <3> HIDE DEF I, at
    <3> QED BY <2>1, <2>5 DEF Min
  <2>7. PICK k \in 1..n : k = at
    BY <2>6
  <2>8. RemoveFirst(questions, e) = SubSeq(questions, 1, k - 1) \o SubSeq(questions, k + 1, n)
    <3>1. \E i \in 1..Len(questions) : questions[i] = e
      BY <1>3
    <3> QED BY <2>7, <3>1 DEF RemoveFirst, RemoveAt
  <2>9. SubSeq(questions, 1, k - 1) \in Seq(Queries) /\ SubSeq(questions, k + 1, n) \in Seq(Queries)
    OBVIOUS
  <2> QED BY <2>8, <2>9
<1> QED BY <1>2, <1>3

LEMMA FollowUpsTyped ==
    ASSUME NEW questions \in Seq(Queries), NEW more \in Seq(Queries), NEW done
    PROVE  WithFollowUps(questions, done, more) \in Seq(Queries)
<1> DEFINE n == Len(more)
           A == Seq(Queries)
           Grown(acc, q) == IF q \in ToSet(acc) \cup ToSet(done) THEN acc ELSE Append(acc, q)
           G == [p \in (1..n) \X A |-> Grown(p[2], more[p[1]])]
           Eq(i) == i = [t \in SUBSET DOMAIN more |->
                           IF t = {} THEN questions ELSE Grown(i[t \ {Max(t)}], more[Max(t)])]
           c == CHOOSE i : Eq(i)
<1>1. n \in Nat /\ DOMAIN more = 1..n /\ \A k \in 1..n : more[k] \in Queries
  OBVIOUS
<1>2. questions \in A
  OBVIOUS
<1>3. \A acc \in A, q \in Queries : Grown(acc, q) \in A
  OBVIOUS
<1> HIDE DEF n, A
<1>4. G \in [(1..n) \X A -> A]
  <2> HIDE DEF Grown
  <2> QED BY <1>1, <1>3
<1>5. PICK it : IsFoldTable(it, A, questions, n, G)
  <2> HIDE DEF G
  <2> QED BY <1>1, <1>2, <1>4, FoldTableExists, Zenon
<1>6. ASSUME NEW t \in SUBSET (1..n), t # {}
      PROVE  it[t] = Grown(it[t \ {Max(t)}], more[Max(t)])
  <2>1. PICK top : top = Max(t)
    OBVIOUS
  <2>2. top \in 1..n
    BY <1>1, <1>6, <2>1, GreatestUpTo
  <2>3. it[t \ {top}] \in A /\ it[t] = G[<<top, it[t \ {top}]>>]
    <3> HIDE DEF G
    <3> QED BY <1>5, <1>6, <2>1 DEF IsFoldTable
  <2> HIDE DEF Grown
  <2> QED BY <2>1, <2>2, <2>3
<1>7. it \in [SUBSET (1..n) -> A] /\ it[{}] = questions
  BY <1>5 DEF IsFoldTable
<1>8. Eq(it)
  <2> HIDE DEF Grown
  <2> QED BY <1>1, <1>6, <1>7
<1>9. Eq(c)
  <2> HIDE DEF Eq
  <2> QED BY <1>8, Zenon
<1>10. WithFollowUps(questions, done, more) = c[DOMAIN more]
  BY Zenon DEF WithFollowUps, FoldLeft, MapThenFoldSet
<1> HIDE DEF c, Grown
<1>11. c[{}] = questions /\ \A k \in 1..n : c[1..k] = Grown(c[1..(k - 1)], more[k])
  <2>1. \A t \in SUBSET (1..n) : c[t] = IF t = {} THEN questions ELSE Grown(c[t \ {Max(t)}], more[Max(t)])
    BY <1>1, <1>9
  <2>2. ASSUME NEW k \in 1..n
        PROVE  c[1..k] = Grown(c[1..(k - 1)], more[k])
    <3>1. Max(1..k) = k /\ (1..k) \ {k} = 1..(k - 1) /\ 1..k # {}
      <4>1. k \in Nat /\ k # 0
        BY <1>1
      <4> QED BY <4>1, LastOfInterval
    <3>2. 1..k \in SUBSET (1..n)
      BY <1>1
    <3> QED BY <2>1, <3>1, <3>2
  <2> QED BY <2>1, <2>2
<1>12. c[1..n] \in A
  <2>1. c[{}] \in A
    BY <1>2, <1>11
  <2>2. \A k \in 1..n : c[1..(k - 1)] \in A => c[1..k] \in A
    BY <1>1, <1>3, <1>11
  <2> QED BY <1>1, <2>1, <2>2, FoldStays
<1> QED BY <1>1, <1>10, <1>12 DEF A

-----------------------------------------------------------------------------
(* Research: steps                                                         *)

LEMMA EachOnceCounts ==
    ASSUME NEW list \in PageLists
    PROVE  Cardinality(ToSet(list)) = Len(list)
<1>1. PICK n : n = Len(list)
  OBVIOUS
<1>2. /\ n \in Nat /\ DOMAIN list = 1..n
      /\ \A k, l \in 1..n : k # l => list[k] # list[l]
  BY <1>1 DEF PageLists
<1>3. PICK T : T = ToSet(list)
  OBVIOUS
<1> DEFINE b == [k \in 1..n |-> list[k]]
<1>4. b \in [1..n -> T] /\ \A e \in T : \E k \in 1..n : b[k] = e
  BY <1>2, <1>3 DEF ToSet
<1>5. \A k, l \in 1..n : b[k] = b[l] => k = l
  BY <1>2
<1> HIDE DEF b
<1>6. b \in Bijection(1..n, T)
  BY <1>4, <1>5 DEF Bijection, Injection, IsInjective, Surjection
<1>7. IsFiniteSet(1..n) /\ Cardinality(1..n) = n
  BY <1>2, FS_Interval
<1>8. Cardinality(T) = Cardinality(1..n)
  <2>1. ExistsBijection(1..n, T)
    BY <1>6 DEF ExistsBijection
  <2> QED BY <1>7, <2>1, FS_Bijection
<1> QED BY <1>1, <1>3, <1>7, <1>8

Reported ==
    job = "done" =>
        /\ \A f \in outcome.findings : f.ids # {} /\ f.ids \subseteq {e.item : e \in ToSet(pool)}
        /\ ~outcome.weak =>
            /\ outcome.findings # {} /\ Len(pool) >= 3
            /\ Cardinality(Domains(pool)) >= Diversity

Kept ==
    job = "found" =>
        /\ outcome.pages = <<>> => outcome.seen = <<>>
        /\ ToSet(outcome.pages) \subseteq ToSet(outcome.seen)
        /\ Cardinality(ToSet(outcome.pages)) = Len(outcome.pages)
        /\ Len(outcome.pages) = 1 /\ MaxResults > 1 => outcome.weak

ResearchInv ==
    /\ given \in Seq(DOMAIN Facts) /\ open \in Seq(Queries) /\ pool \in Distinct
    /\ Reported
    /\ Kept

LEMMA ResearchStarts == ResearchInit => ResearchInv
<1> SUFFICES ASSUME ResearchInit PROVE ResearchInv
  OBVIOUS
<1>1. given \in Seq(DOMAIN Facts) /\ open = <<>> /\ pool = <<>> /\ job \in {"plan", "search"}
  BY ResearchBounds DEF ResearchInit
<1>2. <<>> \in Distinct /\ <<>> \in Seq(Queries)
  BY DEF Distinct
<1> QED BY <1>1, <1>2 DEF ResearchInv, Reported, Kept

LEMMA SearchKeeps ==
    ASSUME ResearchInv, NEW refined \in Refinements(Subject), NEW lost, NEW llm, Search(refined, lost, llm)
    PROVE  ResearchInv'
<1>1. PICK seen : seen = Collected(QueriesTried(Subject, refined), lost)
  OBVIOUS
<1>2. PICK pages : pages = Found(Subject, refined, lost)
  OBVIOUS
<1>3. /\ outcome' = [findings |-> {}, pages |-> pages, seen |-> seen,
                     weak |-> SearchAnswer(pages, llm).weak \/ Len(pages) < Least(2, MaxResults)]
      /\ job' = "found" /\ UNCHANGED <<given, open, pool>>
  BY <1>1, <1>2 DEF Search
<1>4. Subject \in Queries /\ refined \in Seq(Queries) /\ MaxResults \in Nat
  BY ResearchBounds
<1>5. pages \in PageLists /\ (pages = <<>> => seen = <<>>) /\ ToSet(pages) \subseteq ToSet(seen)
  BY <1>1, <1>2, <1>4, FoundOnce
<1>6. Cardinality(ToSet(pages)) = Len(pages)
  BY <1>5, EachOnceCounts
<1>7. Len(pages) = 1 /\ MaxResults > 1 => Len(pages) < Least(2, MaxResults)
  BY <1>4 DEF Least
<1> QED BY <1>3, <1>5, <1>6, <1>7 DEF ResearchInv, Reported, Kept

LEMMA PlanKeeps ==
    ASSUME ResearchInv, NEW llm \in LlmPlans \cup {Fails}, Plan(llm)
    PROVE  ResearchInv'
<1>1. PICK plan : plan = IF llm = Fails \/ llm.subs = <<>> THEN FallbackPlan ELSE llm
  OBVIOUS
<1>2. open' = plan.subs /\ job' = "gather" /\ UNCHANGED <<given, pool>>
  BY <1>1 DEF Plan
<1>3. plan.subs \in Seq(Queries)
  BY <1>1, ResearchBounds DEF FallbackPlan
<1> QED BY <1>2, <1>3 DEF ResearchInv, Reported, Kept

LEMMA GatherKeeps ==
    ASSUME ResearchInv, NEW refined \in Refinements(NextSubquestion), NEW lost,
           NEW more \in {<<>>} \cup {<<q>> : q \in ToSet(SubQuestions)}, GatherStep(refined, lost, more)
    PROVE  ResearchInv'
<1>1. PICK question, old, questions : question = NextSubquestion /\ old = pool /\ questions = open
  OBVIOUS
<1>2. /\ question \in Queries /\ old \in Distinct /\ given \in Seq(DOMAIN Facts)
      /\ questions \in Seq(Queries)
  BY <1>1, NextIsQuery DEF ResearchInv
<1>3. PICK pages : pages = IF "web_search" \in agenda.tools THEN Found(question, refined, lost) ELSE <<>>
  OBVIOUS
<1>4. pages \in Seq(DOMAIN Facts)
  <2>1. refined \in Seq(Queries)
    BY <1>1, <1>2, ResearchBounds
  <2>2. Found(question, refined, lost) \in Seq(DOMAIN Facts)
    BY <1>2, <2>1, FoundOnce DEF PageLists
  <2>3. <<>> \in Seq(DOMAIN Facts)
    OBVIOUS
  <2>4. pages \in {Found(question, refined, lost), <<>>}
    BY <1>3
  <2> QED BY <2>2, <2>3, <2>4
<1>5. PICK items : items = Gathered(question, pages)
  OBVIOUS
<1>6. PICK new : new = Dedupe(Rank(question, items), old)
  OBVIOUS
<1>7. new \in NewTo(old) /\ Len(new) \in Nat
  <2>1. items \in Seq(DOMAIN Facts)
    BY <1>2, <1>4, <1>5, GatheredTyped
  <2>2. Rank(question, items) \in Seq(Evidence)
    BY <1>2, <2>1, RankTyped
  <2>3. new \in NewTo(old)
    BY <1>6, <2>2, DedupeNew
  <2> QED BY <2>3 DEF NewTo, Distinct
<1>8. PICK m : m = Least(PerStep, Len(new))
  OBVIOUS
<1>9. m \in 0..Len(new)
  BY <1>7, <1>8, ResearchBounds DEF Least
<1>10. old \o SubSeq(new, 1, m) \in Distinct
  BY <1>2, <1>7, <1>9, PoolGrows
<1>11. PICK done : done = IF question \in ToSet(answered) THEN answered ELSE Append(answered, question)
  OBVIOUS
<1>12. /\ pool' = old \o SubSeq(new, 1, m)
       /\ open' = WithFollowUps(RemoveFirst(questions, question), done, more)
       /\ job = "gather" /\ UNCHANGED <<job, given>>
  BY <1>1, <1>3, <1>5, <1>6, <1>8, <1>11 DEF GatherStep
<1>13. more \in Seq(Queries)
  <2>1. \A q \in ToSet(SubQuestions) : q \in Queries
    BY ResearchBounds DEF ToSet
  <2>2. ASSUME NEW q \in Queries
        PROVE  <<q>> \in Seq(Queries)
    OBVIOUS
  <2>3. <<>> \in Seq(Queries)
    OBVIOUS
  <2>4. more = <<>> \/ \E q \in Queries : more = <<q>>
    BY <2>1
  <2> QED BY <2>2, <2>3, <2>4
<1>14. open' \in Seq(Queries)
  BY <1>2, <1>12, <1>13, RemovalTyped, FollowUpsTyped
<1> QED BY <1>2, <1>10, <1>12, <1>14 DEF ResearchInv, Reported, Kept

LEMMA ReportKeeps ==
    ASSUME ResearchInv, NEW findings, Report(findings)
    PROVE  ResearchInv'
<1>1. PICK known : known = {e.item : e \in ToSet(pool)}
  OBVIOUS
<1>2. PICK kept : kept = {f \cap known : f \in findings} \ {{}}
  OBVIOUS
<1>3. PICK weak : weak = \/ Cardinality(Domains(pool)) < Diversity
                         \/ Len(pool) < 3
                         \/ kept = {}
  OBVIOUS
<1>4. /\ outcome' = [findings |-> {[ids |-> f, cites |-> {Citation(i) : i \in f}] : f \in kept},
                     pages |-> <<>>, seen |-> <<>>, weak |-> weak]
      /\ job' = "done" /\ UNCHANGED <<given, open, pool>>
  BY <1>1, <1>2, <1>3 DEF Report, Validated
<1>5. \A f \in outcome'.findings : f.ids # {} /\ f.ids \subseteq known
  BY <1>2, <1>4
<1>6. PICK spread, size : spread = Cardinality(Domains(pool)) /\ size = Len(pool)
  OBVIOUS
<1>7. spread \in Nat /\ size \in Nat /\ Diversity \in Nat
  <2>1. PICK s : s = pool
    OBVIOUS
  <2>2. s \in Seq(Evidence)
    BY <2>1 DEF ResearchInv, Distinct
  <2>3. PICK n \in Nat : DOMAIN s = 1..n /\ n = Len(s)
    BY <2>2
  <2>4. PICK T : T = Domains(s)
    OBVIOUS
  <2> DEFINE b == [k \in 1..n |-> Facts[s[k].item].domain]
  <2>5. b \in [1..n -> T] /\ \A x \in T : \E k \in 1..n : b[k] = x
    BY <2>3, <2>4 DEF Domains, ToSet
  <2>6. b \in Surjection(1..n, T)
    <3> HIDE DEF b
    <3> QED BY <2>5 DEF Surjection
  <2>7. IsFiniteSet(1..n)
    BY FS_Interval
  <2>8. IsFiniteSet(T) /\ Cardinality(T) \in Nat
    <3> HIDE DEF b
    <3> QED BY <2>6, <2>7, FS_Surjection, FS_CardinalityType
  <2> QED BY <1>6, <2>1, <2>3, <2>4, <2>8, ResearchBounds
<1>8. ~weak => spread >= Diversity /\ size >= 3 /\ kept # {}
  BY <1>3, <1>6, <1>7
<1>9. kept # {} => outcome'.findings # {}
  BY <1>4
<1>10. Reported'
  BY <1>1, <1>4, <1>5, <1>6, <1>8, <1>9 DEF Reported, Domains
<1> QED BY <1>4, <1>10 DEF ResearchInv, Kept

LEMMA ResearchSteps == ResearchInv /\ [ResearchNext]_researchVars => ResearchInv'
<1> SUFFICES ASSUME ResearchInv, [ResearchNext]_researchVars PROVE ResearchInv'
  OBVIOUS
<1>1. CASE UNCHANGED researchVars
  BY <1>1 DEF ResearchInv, Reported, Kept, Domains, researchVars
<1>2. CASE TimeUp
  BY <1>2 DEF TimeUp, ResearchInv, Reported, Kept
<1> QED BY <1>1, <1>2, SearchKeeps, PlanKeeps, GatherKeeps, ReportKeeps DEF ResearchNext

LEMMA InvIsGrounded == ResearchInv => ReportGrounded
BY DEF ResearchInv, Reported, Kept, Distinct, ReportGrounded

\* A report rests on evidence that was gathered, of which no two pieces say the
\* same, and a search keeps pages that it saw, each once
\* (deep_research _validate_report and dedupe_evidence, web_search _triage_results).
THEOREM ReportsRestOnEvidence == ResearchSpec => []ReportGrounded
<1>1. ResearchSpec => []ResearchInv
  BY ResearchStarts, ResearchSteps, PTL DEF ResearchSpec
<1> QED BY <1>1, InvIsGrounded, PTL
=============================================================================
