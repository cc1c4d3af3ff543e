---------------------------- MODULE QueriesProofs ----------------------------
(***************************************************************************)
(* Theorems about what computes an answer, for any number of queries,      *)
(* jobs, datasets, rows and versions: the executor's cache labels and      *)
(* inputs (FederationExec), the plan of a federated query                  *)
(* (FederationPlan), what the names in a query stand for (QueryPath), and  *)
(* the jobs that write datasets (DatasetJobs).                             *)
(***************************************************************************)
EXTENDS FederationExec, FederationPlan, QueryPath, DatasetJobs, SequenceLemmas, TLAPS

TaskType == [pc : TaskPhases, attempts : Nat, data : Versions]
RunType  == [pc : {"idle", "running", "done", "failed"}, bound : Versions,
             ready : SUBSET Stages]
ManifestType == [file : {"absent", "whole", "torn"}, label : Versions, data : Versions]

USE DEF TaskType, RunType, ManifestType

(* The empty values and the one-scan versions have their types. *)
LEMMA ConstantTypes ==
    /\ Nothing \in Versions
    /\ \A s \in Scans, v \in Nat : Only(s, v) \in Versions /\ Only(s, v)[s] = v
    /\ NoTask \in TaskType
    /\ IdleRun \in RunType
    /\ NoManifest \in ManifestType
  BY DEF Nothing, Only, Versions, NoTask, TaskPhases, IdleRun, NoManifest

(* The label of a stage is a function from scans to revisions. *)
LEMMA LabelType ==
    ASSUME TypeOK, NEW r \in Runs, NEW s \in Stages
    PROVE  Label(r, s) \in Versions
  <1>1. CASE s \in Volatile
    BY <1>1, ConstantTypes DEF Label
  <1>2. CASE s \notin Volatile /\ s \in Scans
    <2>1. run[r].bound[s] \in Nat
      BY <1>2 DEF TypeOK, Versions
    <2> QED
      BY <1>2, <2>1, ConstantTypes DEF Label
  <1>3. CASE s \notin Volatile /\ s \notin Scans
    <2>1. \A t \in Scans : manifest[t].label[t] \in Nat
      BY StagesAssumption DEF TypeOK, Versions
    <2> QED
      BY <1>3, <2>1 DEF Label, Versions
  <1> QED
    BY <1>1, <1>2, <1>3

(* What a local stage computes is a function from scans to versions. *)
LEMMA ComputedType ==
    ASSUME TypeOK
    PROVE  ComputedData \in Versions
  BY StagesAssumption DEF TypeOK, ComputedData, Versions

(* Storing a stage's output keeps the store well typed. *)
LEMMA WriteType ==
    ASSUME TypeOK, NEW s \in Stages, NEW label \in Versions, NEW data \in Versions,
           WriteStageOutput(s, label, data)
    PROVE  /\ manifest' \in [Stages -> ManifestType]
           /\ whole' \subseteq Artifacts
  <1>1. <<s, data>> \in Artifacts
    BY DEF Artifacts
  <1>2. whole' \subseteq Artifacts
    BY <1>1 DEF TypeOK, WriteStageOutput
  <1>3. [file |-> "whole", label |-> label, data |-> data] \in ManifestType
    OBVIOUS
  <1>4. manifest' \in [Stages -> ManifestType]
    BY <1>3 DEF TypeOK, WriteStageOutput
  <1> QED
    BY <1>2, <1>4

(* Replacing one task of one query keeps the tasks well typed. *)
LEMMA TaskUpdate ==
    ASSUME TypeOK, NEW r \in Runs, NEW s \in Stages, NEW v \in TaskType
    PROVE  [task EXCEPT ![r][s] = v] \in [Runs -> [Stages -> TaskType]]
  BY DEF TypeOK

(* A failed attempt keeps tasks and queries well typed. *)
LEMMA AttemptType ==
    ASSUME TypeOK, NEW r \in Runs, NEW s \in Stages, AttemptFails(r, s)
    PROVE  /\ task' \in [Runs -> [Stages -> TaskType]]
           /\ run' \in [Runs -> RunType]
  <1> DEFINE retried == [NoTask EXCEPT !.pc = "created",
                                       !.attempts = task[r][s].attempts + 1]
  <1>1. retried \in TaskType
    <2>1. task[r][s].attempts + 1 \in Nat
      BY DEF TypeOK
    <2> QED
      BY <2>1, ConstantTypes DEF NoTask, TaskPhases
  <1>2. CASE task[r][s].attempts < RetryLimit
    <2>1. task' \in [Runs -> [Stages -> TaskType]]
      <3>1. task' = [task EXCEPT ![r][s] = retried]
        BY <1>2 DEF AttemptFails
      <3> HIDE DEF retried
      <3> QED BY <1>1, <3>1, TaskUpdate
    <2>2. run' \in [Runs -> RunType]
      BY <1>2 DEF AttemptFails, TypeOK
    <2> QED
      BY <2>1, <2>2
  <1>3. CASE ~(task[r][s].attempts < RetryLimit)
    <2>1. task' \in [Runs -> [Stages -> TaskType]]
      BY <1>3, ConstantTypes, TaskUpdate DEF AttemptFails
    <2>2. run \in [Runs -> RunType] /\ run' = [run EXCEPT ![r].pc = "failed"]
      BY <1>3 DEF AttemptFails, TypeOK
    <2>3. run' \in [Runs -> RunType]
      BY <2>2
    <2> QED
      BY <2>1, <2>3
  <1> QED
    BY <1>2, <1>3

(* A finished task is well typed. *)
LEMMA FinishedType ==
    ASSUME TypeOK, NEW r \in Runs, NEW s \in Stages, NEW data \in Versions,
           Finished(r, s, data)
    PROVE  task' \in [Runs -> [Stages -> TaskType]]
  <1>1. [pc |-> "finished", attempts |-> 0, data |-> data] \in TaskType
    BY DEF TaskPhases
  <1> QED
    BY <1>1, TaskUpdate DEF Finished

(* The initial state is well typed. *)
LEMMA InitTypeOK == Init => TypeOK
  <1> SUFFICES ASSUME Init PROVE TypeOK
    OBVIOUS
  <1>1. content \in Versions /\ published \in Versions
    BY DEF Init, Versions
  <1>2. manifest \in [Stages -> ManifestType]
    BY ConstantTypes DEF Init
  <1>3. run \in [Runs -> RunType] /\ task \in [Runs -> [Stages -> TaskType]]
    BY ConstantTypes DEF Init
  <1>4. whole = {} /\ torn = {} /\ faults = 0 /\ crashes = 0
    BY DEF Init
  <1> QED
    BY <1>1, <1>2, <1>3, <1>4 DEF TypeOK

(* Every step of the federation executor keeps its state well typed. *)
LEMMA NextTypeOK == TypeOK /\ [Next]_vars => TypeOK'
  <1> SUFFICES ASSUME TypeOK, [Next]_vars PROVE TypeOK'
    OBVIOUS
  <1>1. CASE UNCHANGED vars
    BY <1>1 DEF TypeOK, vars
  <1>2. ASSUME NEW t \in Scans, Rewrite(t) PROVE TypeOK'
    <2>1. content' \in Versions
      BY <1>2 DEF Rewrite, TypeOK, Versions
    <2> QED
      BY <1>2, <2>1 DEF Rewrite, TypeOK
  <1>3. ASSUME NEW t \in Scans, Publish(t) PROVE TypeOK'
    <2>1. published' \in Versions
      BY <1>3 DEF Publish, TypeOK, Versions
    <2> QED
      BY <1>3, <2>1 DEF Publish, TypeOK
  <1>4. ASSUME NEW r \in Runs, Execute(r) PROVE TypeOK'
    <2>1. [t \in Scans |-> IF t \in Volatile THEN content[t] ELSE published[t]] \in Versions
      BY DEF TypeOK, Versions
    <2>2. run' \in [Runs -> RunType]
      BY <1>4, <2>1 DEF Execute, TypeOK
    <2>3. task' \in [Runs -> [Stages -> TaskType]]
      BY <1>4, ConstantTypes DEF Execute, TypeOK
    <2> QED
      BY <1>4, <2>2, <2>3 DEF Execute, TypeOK
  <1>5. ASSUME NEW r \in Runs, NextBatch(r) PROVE TypeOK'
    <2>1. PICK batch \in Chunks(Ready(r)) :
             /\ run' = [run EXCEPT ![r].ready = Ready(r) \ batch]
             /\ task' = [task EXCEPT ![r] =
                   [s \in Stages |-> IF s \in batch THEN [NoTask EXCEPT !.pc = "created"]
                                     ELSE task[r][s]]]
      BY <1>5 DEF NextBatch
    <2>2. Ready(r) \ batch \in SUBSET Stages
      BY DEF Ready, Left, TypeOK
    <2>3. run' \in [Runs -> RunType]
      BY <2>1, <2>2 DEF TypeOK
    <2>4. [NoTask EXCEPT !.pc = "created"] \in TaskType
      BY ConstantTypes DEF NoTask, TaskPhases
    <2>5. task' \in [Runs -> [Stages -> TaskType]]
      BY <2>1, <2>4 DEF TypeOK
    <2> QED
      BY <1>5, <2>3, <2>5 DEF NextBatch, TypeOK
  <1>6. ASSUME NEW r \in Runs, Complete(r) PROVE TypeOK'
    <2>1. run' \in [Runs -> RunType]
      BY <1>6 DEF Complete, TypeOK
    <2> QED
      BY <1>6, <2>1 DEF Complete, TypeOK
  <1>7. ASSUME NEW r \in Runs, NEW s \in Stages, CacheHit(r, s) PROVE TypeOK'
    <2>1. manifest[s].data \in Versions
      BY DEF TypeOK
    <2>2. task' \in [Runs -> [Stages -> TaskType]]
      BY <1>7, <2>1, FinishedType DEF CacheHit
    <2> QED
      BY <1>7, <2>2 DEF CacheHit, TypeOK
  <1>8. ASSUME NEW r \in Runs, NEW s \in Stages, ScanFile(r, s) PROVE TypeOK'
    <2>1. Only(s, content[s]) \in Versions
      BY <1>8, ConstantTypes DEF ScanFile, TypeOK, Versions
    <2>2. task' \in [Runs -> [Stages -> TaskType]]
      BY <1>8, <2>1, FinishedType DEF ScanFile
    <2>3. manifest' \in [Stages -> ManifestType] /\ whole' \subseteq Artifacts
      BY <1>8, <2>1, LabelType, WriteType DEF ScanFile
    <2> QED
      BY <1>8, <2>2, <2>3 DEF ScanFile, TypeOK
  <1>9. ASSUME NEW r \in Runs, NEW s \in Stages, Request(r, s) PROVE TypeOK'
    <2> task[r][s] \in TaskType
      BY DEF TypeOK
    <2>1. [task[r][s] EXCEPT !.pc = "requested"] \in TaskType
      BY DEF TaskPhases
    <2>2. task' = [task EXCEPT ![r][s] = [task[r][s] EXCEPT !.pc = "requested"]]
      BY <1>9 DEF Request, TypeOK
    <2>3. task' \in [Runs -> [Stages -> TaskType]]
      BY <2>1, <2>2, TaskUpdate
    <2> QED
      BY <1>9, <2>3 DEF Request, TypeOK
  <1>10. ASSUME NEW r \in Runs, NEW s \in Stages, Answer(r, s) PROVE TypeOK'
    <2>1. content[s] \in Nat \/ s \notin Scans
      BY DEF TypeOK, Versions
    <2>2. Only(s, content[s]) \in Versions
      BY <2>1 DEF Only, Versions
    <2> DEFINE answered == [task[r][s] EXCEPT !.pc = "answered",
                                              !.data = Only(s, content[s])]
    <2> task[r][s] \in TaskType
      BY DEF TypeOK
    <2>3. answered \in TaskType
      BY <2>2 DEF TaskPhases
    <2>4. task' = [task EXCEPT ![r][s] = answered]
      BY <1>10 DEF Answer, TypeOK
    <2>5. task' \in [Runs -> [Stages -> TaskType]]
      <3> HIDE DEF answered
      <3> QED BY <2>3, <2>4, TaskUpdate
    <2> QED
      BY <1>10, <2>5 DEF Answer, TypeOK
  <1>11. ASSUME NEW r \in Runs, NEW s \in Stages, Store(r, s) PROVE TypeOK'
    <2>1. task[r][s].data \in Versions
      BY DEF TypeOK
    <2>2. task' \in [Runs -> [Stages -> TaskType]]
      BY <1>11, <2>1, FinishedType DEF Store
    <2>3. manifest' \in [Stages -> ManifestType] /\ whole' \subseteq Artifacts
      BY <1>11, <2>1, LabelType, WriteType DEF Store
    <2> QED
      BY <1>11, <2>2, <2>3 DEF Store, TypeOK
  <1>12. ASSUME NEW r \in Runs, NEW s \in Stages, Compute(r, s) PROVE TypeOK'
    <2>1. task' \in [Runs -> [Stages -> TaskType]]
      BY <1>12, ComputedType, FinishedType DEF Compute
    <2>2. manifest' \in [Stages -> ManifestType] /\ whole' \subseteq Artifacts
      BY <1>12, ComputedType, LabelType, WriteType DEF Compute
    <2> QED
      BY <1>12, <2>1, <2>2 DEF Compute, TypeOK
  <1>13. ASSUME NEW r \in Runs, NEW s \in Stages, StageFails(r, s) PROVE TypeOK'
    <2>1. task' \in [Runs -> [Stages -> TaskType]] /\ run' \in [Runs -> RunType]
      BY <1>13, AttemptType DEF StageFails
    <2> QED
      BY <1>13, <2>1 DEF StageFails, TypeOK
  <1>14. ASSUME NEW r \in Runs, NEW s \in Stages, StageBroken(r, s) PROVE TypeOK'
    <2>1. task' \in [Runs -> [Stages -> TaskType]] /\ run' \in [Runs -> RunType]
      BY <1>14, AttemptType DEF StageBroken
    <2> QED
      BY <1>14, <2>1 DEF StageBroken, TypeOK
  <1>15. ASSUME Crash PROVE TypeOK'
    <2>1. run' \in [Runs -> RunType] /\ task' \in [Runs -> [Stages -> TaskType]]
      BY <1>15, ConstantTypes DEF Crash
    <2>2. /\ manifest' \in [Stages -> ManifestType]
          /\ whole' \subseteq Artifacts /\ torn' \subseteq Artifacts
      <3>1. CASE UNCHANGED <<manifest, whole, torn>>
        BY <3>1 DEF TypeOK
      <3>2. ASSUME NEW r \in Runs, NEW s \in Stages, NEW data \in Writing(r, s),
                   \/ /\ torn' = torn \cup {<<s, data>>}
                      /\ UNCHANGED <<manifest, whole>>
                   \/ /\ whole' = IF <<s, data>> \in torn THEN whole
                                  ELSE whole \cup {<<s, data>>}
                      /\ manifest' = [manifest EXCEPT ![s] = [NoManifest EXCEPT !.file = "torn"]]
                      /\ UNCHANGED torn
            PROVE  /\ manifest' \in [Stages -> ManifestType]
                   /\ whole' \subseteq Artifacts /\ torn' \subseteq Artifacts
        <4>1. data \in Versions
          <5>1. task[r][s].data \in Versions
            BY DEF TypeOK
          <5>2. s \in Scans => Only(s, content[s]) \in Versions
            BY ConstantTypes DEF TypeOK, Versions
          <5> QED
            BY <5>1, <5>2, ComputedType DEF Writing
        <4>2. <<s, data>> \in Artifacts
          BY <4>1 DEF Artifacts
        <4>3. [NoManifest EXCEPT !.file = "torn"] \in ManifestType
          BY ConstantTypes DEF NoManifest
        <4>4. whole' \subseteq Artifacts /\ torn' \subseteq Artifacts
          BY <3>2, <4>2 DEF TypeOK
        <4>5. manifest' \in [Stages -> ManifestType]
          <5>1. manifest \in [Stages -> ManifestType]
            BY DEF TypeOK
          <5> QED
            BY <3>2, <4>3, <5>1
        <4> QED
          BY <4>4, <4>5
      <3> QED
        BY <1>15, <3>1, <3>2 DEF Crash
    <2> QED
      BY <1>15, <2>1, <2>2 DEF Crash, TypeOK
  <1> QED
    BY <1>1, <1>2, <1>3, <1>4, <1>5, <1>6, <1>7, <1>8, <1>9, <1>10, <1>11, <1>12,
       <1>13, <1>14, <1>15 DEF Next

(* The state of the executor is always well typed. *)
THEOREM TypeCorrect == Spec => []TypeOK
  BY InitTypeOK, NextTypeOK, PTL DEF Spec

-----------------------------------------------------------------------------
(* Labels and freshness                                                    *)

(* Storing an output whose label its data honours keeps every label sound. *)
LEMMA WriteSound ==
    ASSUME TypeOK, LabelSound, NEW s \in Stages, NEW label \in Versions,
           NEW data \in Versions, WriteStageOutput(s, label, data),
           \A t \in Inputs(s) : label[t] <= data[t]
    PROVE  LabelSound'
  <1> SUFFICES ASSUME NEW d \in Stages, manifest'[d].file = "whole",
                      NEW t \in Inputs(d)
               PROVE  manifest'[d].label[t] <= manifest'[d].data[t]
    BY DEF LabelSound, Inputs
  <1>0. manifest \in [Stages -> ManifestType]
    BY DEF TypeOK
  <1>1. CASE d = s
    <2>1. manifest'[d] = [file |-> "whole", label |-> label, data |-> data]
      BY <1>0, <1>1 DEF WriteStageOutput
    <2> QED
      BY <1>1, <2>1
  <1>2. CASE d # s
    <2>1. manifest'[d] = manifest[d]
      BY <1>0, <1>2 DEF WriteStageOutput
    <2> QED
      BY <2>1 DEF LabelSound
  <1> QED
    BY <1>1, <1>2

(* A query that finishes a task with rows no older than its binding keeps  *)
(* the facts about tasks and queries.                                      *)
LEMMA FinishedFresh ==
    ASSUME CacheInv, NEW r \in Runs, NEW s \in Stages, NEW data \in Versions,
           Finished(r, s, data), UNCHANGED run,
           s \in Scans => data[s] >= run[r].bound[s]
    PROVE  WaitingIsLive' /\ ScansFresh' /\ DoneIsFinished'
  <1> DEFINE new == [pc |-> "finished", attempts |-> 0, data |-> data]
  <1>1. task' = [task EXCEPT ![r][s] = new] /\ new.pc = "finished" /\ new.data = data
    BY DEF Finished
  <1>2. task \in [Runs -> [Stages -> TaskType]]
    BY DEF CacheInv, TypeOK
  <1> HIDE DEF new
  <1>3. \A q \in Runs, d \in Stages :
           task'[q][d] = IF q = r /\ d = s THEN new ELSE task[q][d]
    BY <1>1, <1>2
  <1>4. WaitingIsLive'
    BY <1>1, <1>3 DEF WaitingIsLive, CacheInv
  <1>5. ScansFresh'
    BY <1>1, <1>3, StagesAssumption DEF ScansFresh, CacheInv
  <1>6. DoneIsFinished'
    BY <1>1, <1>3 DEF DoneIsFinished, CacheInv
  <1> QED
    BY <1>4, <1>5, <1>6

(* A failed attempt keeps the facts about tasks and queries. *)
LEMMA AttemptFresh ==
    ASSUME CacheInv, NEW r \in Runs, NEW s \in Stages, AttemptFails(r, s),
           task[r][s].pc \in {"created", "requested"}
    PROVE  /\ WaitingIsLive' /\ ScansFresh' /\ DoneIsFinished'
           /\ \A q \in Runs : run'[q].bound = run[q].bound
  <1>1. /\ task \in [Runs -> [Stages -> TaskType]]
        /\ run \in [Runs -> RunType]
    BY DEF CacheInv, TypeOK
  <1>2. PICK new : /\ task' = [task EXCEPT ![r][s] = new]
                   /\ new.pc \in {"none", "created"}
    <2> DEFINE retried == [NoTask EXCEPT !.pc = "created",
                                         !.attempts = task[r][s].attempts + 1]
    <2>1. retried.pc = "created" /\ NoTask.pc = "none"
      BY DEF NoTask
    <2>2. task' = [task EXCEPT ![r][s] = retried] \/ task' = [task EXCEPT ![r][s] = NoTask]
      BY DEF AttemptFails
    <2> HIDE DEF retried
    <2> QED
      BY <2>1, <2>2
  <1>3. \A q \in Runs, d \in Stages :
           task'[q][d] = IF q = r /\ d = s THEN new ELSE task[q][d]
    BY <1>1, <1>2
  <1>4. \A q \in Runs : /\ run'[q].bound = run[q].bound
                        /\ run'[q].pc = "done" => run[q].pc = "done"
    <2>1. UNCHANGED run \/ run' = [run EXCEPT ![r].pc = "failed"]
      BY DEF AttemptFails
    <2>2. CASE UNCHANGED run
      BY <2>2
    <2>3. CASE run' = [run EXCEPT ![r].pc = "failed"]
      BY <1>1, <2>3
    <2> QED
      BY <2>1, <2>2, <2>3
  <1>5. run[r].pc # "done"
    BY DEF CacheInv, DoneIsFinished
  <1>6. WaitingIsLive'
    BY <1>2, <1>3 DEF WaitingIsLive, CacheInv
  <1>7. ScansFresh'
    BY <1>2, <1>3, <1>4, StagesAssumption DEF ScansFresh, CacheInv
  <1>8. DoneIsFinished'
    BY <1>3, <1>4, <1>5 DEF DoneIsFinished, CacheInv
  <1> QED
    BY <1>4, <1>6, <1>7, <1>8

(* Bindings that do not change stay behind content that does not shrink. *)
LEMMA BehindContent ==
    ASSUME TypeOK, RevisionsBehindContent, UNCHANGED <<content, published>>,
           \A q \in Runs : run'[q].bound = run[q].bound
    PROVE  RevisionsBehindContent'
  BY DEF RevisionsBehindContent

(* Both invariants hold initially. *)
LEMMA InitCacheInv == Init => CacheInv
  <1> SUFFICES ASSUME Init PROVE CacheInv
    OBVIOUS
  <1>1. TypeOK
    BY InitTypeOK
  <1>2. RevisionsBehindContent
    BY DEF Init, RevisionsBehindContent, IdleRun, Nothing
  <1>3. LabelSound
    BY DEF Init, LabelSound, NoManifest
  <1>4. WaitingIsLive /\ ScansFresh /\ DoneIsFinished
    BY StagesAssumption DEF Init, WaitingIsLive, ScansFresh, DoneIsFinished, NoTask, IdleRun
  <1> QED
    BY <1>1, <1>2, <1>3, <1>4 DEF CacheInv

(* Every step keeps the inductive invariant. *)
LEMMA NextCacheInv == CacheInv /\ [Next]_vars => CacheInv'
  <1> SUFFICES ASSUME CacheInv, [Next]_vars PROVE CacheInv'
    OBVIOUS
  <1>0. TypeOK /\ TypeOK'
    BY NextTypeOK DEF CacheInv
  <1> USE DEF CacheInv
  <1>1. CASE UNCHANGED vars
    BY <1>0, <1>1 DEF vars, RevisionsBehindContent, WaitingIsLive, LabelSound,
                      ScansFresh, DoneIsFinished, Inputs
  <1>2. ASSUME NEW t \in Scans, Rewrite(t) PROVE CacheInv'
    <2>1. \A u \in Scans : content[u] \in Nat /\ content'[u] >= content[u]
      BY <1>0, <1>2 DEF Rewrite, TypeOK, Versions
    <2>2. \A u \in Scans : /\ published[u] \in Nat
                           /\ \A r \in Runs : run[r].bound[u] \in Nat
      BY <1>0 DEF TypeOK, Versions
    <2>3. \A u \in Scans : content'[u] \in Nat
      BY <1>0 DEF TypeOK, Versions
    <2>4. RevisionsBehindContent'
      <3> SUFFICES ASSUME NEW u \in Scans
                   PROVE  /\ published[u] <= content'[u]
                          /\ \A r \in Runs : run[r].bound[u] <= content'[u]
        BY <1>2 DEF Rewrite, RevisionsBehindContent
      <3>1. /\ published[u] <= content[u]
            /\ \A r \in Runs : run[r].bound[u] <= content[u]
        BY DEF RevisionsBehindContent
      <3>2. content[u] \in Nat /\ content'[u] \in Nat /\ content'[u] >= content[u]
        BY <2>1, <2>3
      <3>3. ASSUME NEW n \in Nat, n <= content[u] PROVE n <= content'[u]
        BY <3>2, <3>3
      <3> QED
        BY <2>2, <3>1, <3>3
    <2> QED
      BY <1>0, <1>2, <2>4 DEF Rewrite, WaitingIsLive, LabelSound, ScansFresh,
                              DoneIsFinished, Inputs
  <1>3. ASSUME NEW t \in Scans, Publish(t) PROVE CacheInv'
    <2>1. RevisionsBehindContent'
      BY <1>0, <1>3 DEF Publish, RevisionsBehindContent, TypeOK, Versions
    <2> QED
      BY <1>0, <1>3, <2>1 DEF Publish, WaitingIsLive, LabelSound, ScansFresh,
                              DoneIsFinished, Inputs
  <1>4. ASSUME NEW r \in Runs, Execute(r) PROVE CacheInv'
    <2>1. \A q \in Runs, s \in Stages :
             task'[q][s] = IF q = r THEN NoTask ELSE task[q][s]
      BY <1>0, <1>4 DEF Execute, TypeOK
    <2>2. \A q \in Runs \ {r} : run'[q] = run[q]
      BY <1>0, <1>4 DEF Execute, TypeOK
    <2>3. /\ run'[r].pc = "running"
          /\ \A t \in Scans : run'[r].bound[t] \in {content[t], published[t]}
      BY <1>0, <1>4 DEF Execute, TypeOK
    <2>4. RevisionsBehindContent'
      BY <1>0, <1>4, <2>2, <2>3 DEF Execute, RevisionsBehindContent, TypeOK, Versions
    <2>5. WaitingIsLive' /\ ScansFresh' /\ DoneIsFinished'
      BY <2>1, <2>2, <2>3, StagesAssumption
         DEF WaitingIsLive, ScansFresh, DoneIsFinished, NoTask
    <2>6. LabelSound'
      BY <1>4 DEF Execute, LabelSound, Inputs
    <2> QED
      BY <1>0, <2>4, <2>5, <2>6
  <1>5. ASSUME NEW r \in Runs, NextBatch(r) PROVE CacheInv'
    <2>1. PICK batch \in Chunks(Ready(r)) :
             /\ run' = [run EXCEPT ![r].ready = Ready(r) \ batch]
             /\ task' = [task EXCEPT ![r] =
                   [s \in Stages |-> IF s \in batch THEN [NoTask EXCEPT !.pc = "created"]
                                     ELSE task[r][s]]]
      BY <1>5 DEF NextBatch
    <2>2. \A q \in Runs : run'[q].bound = run[q].bound /\ run'[q].pc = run[q].pc
      BY <1>0, <2>1 DEF TypeOK
    <2>3. \A q \in Runs, s \in Stages :
             \/ task'[q][s] = task[q][s]
             \/ q = r /\ task'[q][s].pc = "created"
      BY <1>0, <2>1 DEF TypeOK, NoTask
    <2>4. run[r].pc = "running"
      BY <1>5 DEF NextBatch
    <2>5. RevisionsBehindContent'
      BY <1>5, <2>2, BehindContent DEF NextBatch
    <2>6. WaitingIsLive'
      BY <2>3 DEF WaitingIsLive
    <2>7. ScansFresh'
      BY <2>2, <2>3, StagesAssumption DEF ScansFresh
    <2>8. DoneIsFinished'
      BY <2>2, <2>3, <2>4 DEF DoneIsFinished
    <2>9. LabelSound'
      BY <1>5 DEF NextBatch, LabelSound, Inputs
    <2> QED
      BY <1>0, <2>5, <2>6, <2>7, <2>8, <2>9
  <1>6. ASSUME NEW r \in Runs, Complete(r) PROVE CacheInv'
    <2>1. \A q \in Runs : /\ run'[q].bound = run[q].bound
                          /\ q # r => run'[q].pc = run[q].pc
      BY <1>0, <1>6 DEF Complete, TypeOK
    <2>2. \A s \in Stages : task[r][s].pc = "finished"
      BY <1>6 DEF Complete, Left
    <2>3. RevisionsBehindContent'
      BY <1>6, <2>1, BehindContent DEF Complete
    <2>4. WaitingIsLive' /\ ScansFresh' /\ DoneIsFinished'
      BY <1>6, <2>1, <2>2 DEF Complete, WaitingIsLive, ScansFresh, DoneIsFinished
    <2>5. LabelSound'
      BY <1>6 DEF Complete, LabelSound, Inputs
    <2> QED
      BY <1>0, <2>3, <2>4, <2>5
  <1>7. ASSUME NEW r \in Runs, NEW s \in Stages, CacheHit(r, s) PROVE CacheInv'
    <2>1. s \in Scans => manifest[s].data[s] >= run[r].bound[s]
      <3> SUFFICES ASSUME s \in Scans PROVE manifest[s].data[s] >= run[r].bound[s]
        OBVIOUS
      <3>1. /\ manifest[s].file = "whole" /\ manifest[s].label = Label(r, s)
            /\ Cacheable(s, Label(r, s))
        BY <1>7 DEF CacheHit, Hit
      <3>2. s \notin Volatile
        BY <3>1 DEF Cacheable, Label, Inputs, Nothing
      <3>3. /\ run[r].bound[s] \in Nat /\ manifest[s].data[s] \in Nat
        BY <1>0 DEF TypeOK, Versions
      <3>4. manifest[s].label[s] = run[r].bound[s]
        BY <3>1, <3>2, <3>3, ConstantTypes DEF Label
      <3>5. manifest[s].label[s] <= manifest[s].data[s]
        BY <3>1 DEF LabelSound, Inputs
      <3> QED
        BY <3>3, <3>4, <3>5
    <2>2. manifest[s].data \in Versions
      BY <1>0 DEF TypeOK
    <2>3. WaitingIsLive' /\ ScansFresh' /\ DoneIsFinished'
      BY <1>7, <2>1, <2>2, FinishedFresh DEF CacheHit
    <2>4. RevisionsBehindContent' /\ LabelSound'
      BY <1>7 DEF CacheHit, RevisionsBehindContent, LabelSound, Inputs
    <2> QED
      BY <1>0, <2>3, <2>4
  <1>8. ASSUME NEW r \in Runs, NEW s \in Stages, ScanFile(r, s) PROVE CacheInv'
    <2>1. s \in Scans /\ s \notin Volatile
      BY <1>8 DEF ScanFile
    <2>2. /\ Only(s, content[s]) \in Versions
          /\ Only(s, content[s])[s] = content[s]
      BY <1>0, <2>1, ConstantTypes DEF TypeOK, Versions
    <2>3. /\ run[r].bound[s] \in Nat /\ content[s] \in Nat
          /\ run[r].bound[s] <= content[s]
      BY <1>0, <2>1 DEF TypeOK, Versions, RevisionsBehindContent
    <2>4. Label(r, s)[s] = run[r].bound[s]
      BY <2>1, <2>3, ConstantTypes DEF Label
    <2>5. \A t \in Inputs(s) : Label(r, s)[t] <= Only(s, content[s])[t]
      BY <2>1, <2>2, <2>3, <2>4 DEF Inputs
    <2>6. LabelSound'
      BY <1>0, <1>8, <2>2, <2>5, LabelType, WriteSound DEF ScanFile
    <2>7. WaitingIsLive' /\ ScansFresh' /\ DoneIsFinished'
      BY <1>8, <2>2, <2>3, FinishedFresh DEF ScanFile
    <2>8. RevisionsBehindContent'
      BY <1>8 DEF ScanFile, RevisionsBehindContent
    <2> QED
      BY <1>0, <2>6, <2>7, <2>8
  <1>9. ASSUME NEW r \in Runs, NEW s \in Stages, Request(r, s) PROVE CacheInv'
    <2>1. \A q \in Runs, d \in Stages :
             \/ task'[q][d] = task[q][d]
             \/ q = r /\ d = s /\ task'[q][d].pc = "requested"
      BY <1>0, <1>9 DEF Request, TypeOK
    <2>2. s \in Volatile /\ run[r].pc # "done"
      BY <1>9 DEF Request, DoneIsFinished
    <2>3. WaitingIsLive' /\ ScansFresh' /\ DoneIsFinished'
      BY <1>9, <2>1, <2>2, StagesAssumption
         DEF Request, WaitingIsLive, ScansFresh, DoneIsFinished
    <2>4. RevisionsBehindContent' /\ LabelSound'
      BY <1>9 DEF Request, RevisionsBehindContent, LabelSound, Inputs
    <2> QED
      BY <1>0, <2>3, <2>4
  <1>10. ASSUME NEW r \in Runs, NEW s \in Stages, Answer(r, s) PROVE CacheInv'
    <2>1. task[r][s].pc = "requested" /\ s \in Volatile
      BY <1>10 DEF Answer, WaitingIsLive
    <2>2. s \in Scans
      BY <2>1, VolatileAssumption
    <2>3. /\ run[r].bound[s] \in Nat /\ content[s] \in Nat
          /\ run[r].bound[s] <= content[s]
      BY <1>0, <2>2 DEF TypeOK, Versions, RevisionsBehindContent
    <2>4. Only(s, content[s])[s] = content[s]
      BY <2>2, <2>3, ConstantTypes
    <2>5. \A q \in Runs, d \in Stages :
             \/ task'[q][d] = task[q][d]
             \/ /\ q = r /\ d = s /\ task'[q][d].pc = "answered"
                /\ task'[q][d].data = Only(s, content[s])
      BY <1>0, <1>10 DEF Answer, TypeOK
    <2>6. run[r].pc # "done"
      BY <2>1 DEF DoneIsFinished
    <2>7. WaitingIsLive' /\ DoneIsFinished'
      <3>1. WaitingIsLive'
        BY <2>1, <2>5 DEF WaitingIsLive
      <3>2. UNCHANGED run
        BY <1>10 DEF Answer
      <3>3. DoneIsFinished'
        BY <2>5, <2>6, <3>2 DEF DoneIsFinished
      <3> QED
        BY <3>1, <3>3
    <2>8. ScansFresh'
      BY <1>10, <2>3, <2>4, <2>5, StagesAssumption DEF Answer, ScansFresh
    <2>9. RevisionsBehindContent' /\ LabelSound'
      BY <1>10 DEF Answer, RevisionsBehindContent, LabelSound, Inputs
    <2> QED
      BY <1>0, <2>7, <2>8, <2>9
  <1>11. ASSUME NEW r \in Runs, NEW s \in Stages, Store(r, s) PROVE CacheInv'
    <2>1. task[r][s].pc = "answered" /\ s \in Volatile /\ s \in Scans
      BY <1>11, VolatileAssumption DEF Store, WaitingIsLive
    <2>2. task[r][s].data \in Versions
      BY <1>0 DEF TypeOK
    <2>3. \A t \in Inputs(s) : Label(r, s)[t] <= task[r][s].data[t]
      BY <2>1, <2>2 DEF Inputs, Label, Nothing, Versions
    <2>4. LabelSound'
      BY <1>0, <1>11, <2>2, <2>3, LabelType, WriteSound DEF Store
    <2>5. task[r][s].data[s] >= run[r].bound[s]
      BY <2>1 DEF ScansFresh
    <2>6. WaitingIsLive' /\ ScansFresh' /\ DoneIsFinished'
      BY <1>11, <2>2, <2>5, FinishedFresh DEF Store
    <2>7. RevisionsBehindContent'
      BY <1>11 DEF Store, RevisionsBehindContent
    <2> QED
      BY <1>0, <2>4, <2>6, <2>7
  <1>12. ASSUME NEW r \in Runs, NEW s \in Stages, Compute(r, s) PROVE CacheInv'
    <2>1. s \notin Scans /\ s \notin Volatile /\ DepsReadable(s)
      BY <1>12, VolatileAssumption DEF Compute
    <2>2. \A t \in Scans : manifest[t].label[t] <= manifest[t].data[t]
      BY <2>1, StagesAssumption DEF DepsReadable, Deps, LabelSound, Inputs
    <2>3. \A t \in Inputs(s) : Label(r, s)[t] <= ComputedData[t]
      BY <2>1, <2>2 DEF Inputs, Label, ComputedData
    <2>4. LabelSound'
      BY <1>0, <1>12, <2>3, LabelType, ComputedType, WriteSound DEF Compute
    <2>5. WaitingIsLive' /\ ScansFresh' /\ DoneIsFinished'
      BY <1>0, <1>12, <2>1, ComputedType, FinishedFresh DEF Compute
    <2>6. RevisionsBehindContent'
      BY <1>12 DEF Compute, RevisionsBehindContent
    <2> QED
      BY <1>0, <2>4, <2>5, <2>6
  <1>13. ASSUME NEW r \in Runs, NEW s \in Stages, StageFails(r, s) PROVE CacheInv'
    <2>1. /\ WaitingIsLive' /\ ScansFresh' /\ DoneIsFinished'
          /\ \A q \in Runs : run'[q].bound = run[q].bound
      BY <1>13, AttemptFresh DEF StageFails
    <2>2. RevisionsBehindContent' /\ LabelSound'
      BY <1>13, <2>1 DEF StageFails, RevisionsBehindContent, LabelSound, Inputs
    <2> QED
      BY <1>0, <2>1, <2>2
  <1>14. ASSUME NEW r \in Runs, NEW s \in Stages, StageBroken(r, s) PROVE CacheInv'
    <2>1. /\ WaitingIsLive' /\ ScansFresh' /\ DoneIsFinished'
          /\ \A q \in Runs : run'[q].bound = run[q].bound
      BY <1>14, AttemptFresh DEF StageBroken
    <2>2. RevisionsBehindContent' /\ LabelSound'
      BY <1>14, <2>1 DEF StageBroken, RevisionsBehindContent, LabelSound, Inputs
    <2> QED
      BY <1>0, <2>1, <2>2
  <1>15. ASSUME Crash PROVE CacheInv'
    <2>1. /\ \A q \in Runs : run'[q] = IdleRun
          /\ \A q \in Runs, s \in Stages : task'[q][s] = NoTask
      BY <1>15 DEF Crash
    <2>2. WaitingIsLive' /\ ScansFresh' /\ DoneIsFinished'
      BY <2>1, StagesAssumption
         DEF WaitingIsLive, ScansFresh, DoneIsFinished, NoTask, IdleRun
    <2>3. RevisionsBehindContent'
      BY <1>0, <1>15, <2>1 DEF Crash, RevisionsBehindContent, IdleRun, Nothing,
                               TypeOK, Versions
    <2>4. \A s \in Stages : manifest'[s] = manifest[s] \/ manifest'[s].file = "torn"
      <3>1. \/ UNCHANGED manifest
            \/ \E s \in Stages :
                  manifest' = [manifest EXCEPT ![s] = [NoManifest EXCEPT !.file = "torn"]]
        BY <1>15 DEF Crash
      <3> QED
        BY <1>0, <3>1 DEF TypeOK, NoManifest
    <2>5. LabelSound'
      BY <2>4 DEF LabelSound, Inputs
    <2> QED
      BY <1>0, <2>2, <2>3, <2>5
  <1> QED
    BY <1>1, <1>2, <1>3, <1>4, <1>5, <1>6, <1>7, <1>8, <1>9, <1>10, <1>11, <1>12,
       <1>13, <1>14, <1>15 DEF Next

(* Whatever queries, leftover tasks, retries, syncs and crashes interleave,
   the stage cache never stores rows under a revision that they predate. *)
THEOREM CacheLabels == Spec => []LabelSound
  <1>1. CacheInv => LabelSound
    BY DEF CacheInv
  <1> QED
    BY <1>1, InitCacheInv, NextCacheInv, PTL DEF Spec

(* A query whose result is a remote stage (full pushdown) never returns rows
   older than its datasets were when it was planned, however many other
   queries share its manifests.  Plans with a local stage have no such
   guarantee. *)
THEOREM PushdownIsFresh == Result \in Scans => (Spec => []FreshResult)
  <1> SUFFICES ASSUME Result \in Scans PROVE Spec => []FreshResult
    OBVIOUS
  <1>1. CacheInv => FreshResult
    <2> SUFFICES ASSUME CacheInv, NEW r \in Runs, run[r].pc = "done",
                        NEW t \in Inputs(Result)
                 PROVE  task[r][Result].data[t] >= run[r].bound[t]
      BY DEF FreshResult
    <2>1. t = Result
      BY DEF Inputs
    <2>2. task[r][Result].pc = "finished"
      BY StagesAssumption DEF CacheInv, DoneIsFinished
    <2> QED
      BY <2>1, <2>2 DEF CacheInv, ScansFresh
  <1> QED
    BY <1>1, InitCacheInv, NextCacheInv, PTL DEF Spec

-----------------------------------------------------------------------------
(* The outputs a local stage reads                                         *)

\* While the process lives: nothing is torn, a finished stage has left its
\* manifest, a local stage is begun after every scan of its query finished,
\* and what is on a query's ready list was not begun yet.
OutputsKept ==
    crashes = 0 =>
        /\ torn = {}
        /\ \A s \in Stages : manifest[s].file # "torn"
        /\ \A r \in Runs, s \in Stages :
              /\ task[r][s].pc = "finished" => manifest[s].file = "whole"
              /\ s \notin Scans /\ task[r][s].pc # "none"
                    => \A d \in Scans : task[r][d].pc = "finished"
              /\ run[r].pc = "running" /\ s \in run[r].ready
                    => /\ task[r][s].pc = "none"
                       /\ s \notin Scans => \A d \in Scans : task[r][d].pc = "finished"

PresentInv == TypeOK /\ OutputsKept

(* A task that was begun goes on: no stage is begun by that, and none of   *)
(* the finished ones is lost.                                              *)
LEMMA TaskGoesOn ==
    ASSUME PresentInv, TypeOK', NEW r \in Runs, NEW s \in Stages, NEW v \in TaskType,
           task[r][s].pc \notin {"none", "finished"},
           task' = [task EXCEPT ![r][s] = v],
           \A q \in Runs : run'[q].pc = "running" => run'[q] = run[q],
           UNCHANGED <<torn, crashes>>,
           crashes = 0 => \A d \in Stages :
              /\ manifest'[d] = manifest[d] \/ manifest'[d].file = "whole"
              /\ d = s /\ v.pc = "finished" => manifest'[d].file = "whole"
    PROVE  PresentInv'
  <1>1. /\ task \in [Runs -> [Stages -> TaskType]]
        /\ run \in [Runs -> RunType]
    BY DEF PresentInv, TypeOK
  <1>2. \A q \in Runs, d \in Stages :
           task'[q][d] = IF q = r /\ d = s THEN v ELSE task[q][d]
    BY <1>1
  <1>3. OutputsKept'
    <2> SUFFICES ASSUME crashes = 0 PROVE OutputsKept'
      BY DEF OutputsKept
    <2>1. OutputsKept!2
      BY DEF PresentInv, OutputsKept
    <2>2. torn' = {} /\ \A d \in Stages : manifest'[d].file # "torn"
      BY <2>1
    <2> SUFFICES ASSUME NEW q \in Runs, NEW d \in Stages
                 PROVE  /\ task'[q][d].pc = "finished" => manifest'[d].file = "whole"
                        /\ d \notin Scans /\ task'[q][d].pc # "none"
                              => \A e \in Scans : task'[q][e].pc = "finished"
                        /\ run'[q].pc = "running" /\ d \in run'[q].ready
                              => /\ task'[q][d].pc = "none"
                                 /\ d \notin Scans => \A e \in Scans : task'[q][e].pc = "finished"
      BY <2>2 DEF OutputsKept
    <2>3. task'[q][d].pc = "finished" => manifest'[d].file = "whole"
      BY <1>2, <2>1
    <2>4. \A e \in Scans : task[q][e].pc = "finished" => task'[q][e].pc = "finished"
      BY <1>2, StagesAssumption
    <2>5. d \notin Scans /\ task'[q][d].pc # "none"
            => \A e \in Scans : task'[q][e].pc = "finished"
      BY <1>2, <2>1, <2>4
    <2>6. run'[q].pc = "running" /\ d \in run'[q].ready
            => /\ task'[q][d].pc = "none"
               /\ d \notin Scans => \A e \in Scans : task'[q][e].pc = "finished"
      BY <1>2, <2>1, <2>4
    <2> QED
      BY <2>3, <2>5, <2>6
  <1> QED
    BY <1>3 DEF PresentInv

(* A stored output is whole, and the other manifests stay as they are.     *)
LEMMA WriteKeeps ==
    ASSUME TypeOK, NEW s \in Stages, NEW label, NEW data, WriteStageOutput(s, label, data)
    PROVE  \A d \in Stages : /\ manifest'[d] = manifest[d] \/ manifest'[d].file = "whole"
                             /\ d = s => manifest'[d].file = "whole"
  <1>1. manifest \in [Stages -> ManifestType]
    BY DEF TypeOK
  <1> QED
    BY <1>1 DEF WriteStageOutput

(* A failed attempt is tried again or given up with its query.             *)
LEMMA FailureKeeps ==
    ASSUME PresentInv, TypeOK', NEW r \in Runs, NEW s \in Stages, AttemptFails(r, s),
           task[r][s].pc \in {"created", "requested"}, UNCHANGED <<torn, crashes, manifest>>
    PROVE  PresentInv'
  <1>1. CASE task[r][s].attempts < RetryLimit
    <2>1. PICK v : v = [NoTask EXCEPT !.pc = "created", !.attempts = task[r][s].attempts + 1]
      OBVIOUS
    <2>2. task[r][s].attempts + 1 \in Nat
      BY DEF PresentInv, TypeOK
    <2>3. v \in TaskType /\ v.pc = "created"
      BY <2>1, <2>2, ConstantTypes DEF NoTask, TaskPhases
    <2>4. task' = [task EXCEPT ![r][s] = v] /\ run' = run
      BY <1>1, <2>1 DEF AttemptFails
    <2> HIDE DEF TaskType
    <2> QED
      BY <2>3, <2>4, TaskGoesOn
  <1>2. CASE ~(task[r][s].attempts < RetryLimit)
    <2>1. task' = [task EXCEPT ![r][s] = NoTask] /\ run' = [run EXCEPT ![r].pc = "failed"]
      BY <1>2 DEF AttemptFails
    <2>2. NoTask \in TaskType /\ NoTask.pc = "none"
      BY ConstantTypes DEF NoTask
    <2>3. \A q \in Runs : run'[q].pc = "running" => run'[q] = run[q]
      BY <2>1 DEF PresentInv, TypeOK
    <2> HIDE DEF TaskType
    <2> QED
      BY <2>1, <2>2, <2>3, TaskGoesOn
  <1> QED
    BY <1>1, <1>2

(* The next batch: stages that were not begun, after the ones they read.   *)
LEMMA BatchKeeps ==
    ASSUME PresentInv, TypeOK', NEW r \in Runs, NextBatch(r)
    PROVE  PresentInv'
  <1>1. /\ task \in [Runs -> [Stages -> TaskType]]
        /\ run \in [Runs -> RunType]
    BY DEF PresentInv, TypeOK
  <1>2. PICK new : new = [NoTask EXCEPT !.pc = "created"]
    OBVIOUS
  <1>3. new \in TaskType /\ new.pc = "created"
    BY <1>2, ConstantTypes DEF NoTask, TaskPhases
  <1>4. PICK ready : ready = Ready(r)
    OBVIOUS
  <1>5. PICK batch \in Chunks(ready) :
           /\ run' = [run EXCEPT ![r].ready = ready \ batch]
           /\ task' = [task EXCEPT ![r] = [s \in Stages |-> IF s \in batch THEN new ELSE task[r][s]]]
    BY <1>2, <1>4 DEF NextBatch
  <1>6. batch \subseteq ready /\ run[r].pc = "running" /\ UNCHANGED <<manifest, torn, crashes>>
    BY <1>5 DEF Chunks, NextBatch
  <1>7. \A q \in Runs, d \in Stages :
           task'[q][d] = IF q = r /\ d \in batch THEN new ELSE task[q][d]
    BY <1>1, <1>5
  <1>8. /\ \A q \in Runs \ {r} : run'[q] = run[q]
        /\ run'[r].ready = ready \ batch /\ run'[r].pc = "running"
    BY <1>1, <1>5, <1>6
  <1>9. OutputsKept'
    <2> SUFFICES ASSUME crashes = 0 PROVE OutputsKept'
      BY <1>6 DEF OutputsKept
    <2>1. OutputsKept!2
      BY DEF PresentInv, OutputsKept
    <2>2. \A s \in ready \cap Stages :
             /\ task[r][s].pc = "none"
             /\ s \notin Scans => \A d \in Scans : task[r][d].pc = "finished"
      <3>1. CASE run[r].ready # {}
        BY <1>4, <1>6, <2>1, <3>1 DEF Ready
      <3>2. CASE run[r].ready = {}
        <4>1. \A s \in ready : s \in Left(r) /\ Deps(s) \cap Left(r) = {}
          BY <1>4, <3>2 DEF Ready
        <4>2. \A s \in Stages : task[r][s].pc \in {"none", "finished"}
          BY DEF NextBatch, Gathered
        <4> QED
          BY <4>1, <4>2, StagesAssumption DEF Left, Deps
      <3> QED
        BY <3>1, <3>2
    <2>3. torn' = {} /\ \A s \in Stages : manifest'[s].file # "torn"
      BY <1>6, <2>1
    <2> SUFFICES ASSUME NEW q \in Runs, NEW d \in Stages
                 PROVE  /\ task'[q][d].pc = "finished" => manifest'[d].file = "whole"
                        /\ d \notin Scans /\ task'[q][d].pc # "none"
                              => \A e \in Scans : task'[q][e].pc = "finished"
                        /\ run'[q].pc = "running" /\ d \in run'[q].ready
                              => /\ task'[q][d].pc = "none"
                                 /\ d \notin Scans => \A e \in Scans : task'[q][e].pc = "finished"
      BY <2>3 DEF OutputsKept
    <2>4. task'[q][d].pc = "finished" => manifest'[d].file = "whole"
      BY <1>3, <1>6, <1>7, <2>1
    <2>5. \A e \in Scans : task[q][e].pc = "finished" => task'[q][e].pc = "finished"
      BY <1>6, <1>7, <2>2, StagesAssumption
    <2>6. d \notin Scans /\ task'[q][d].pc # "none"
            => \A e \in Scans : task'[q][e].pc = "finished"
      BY <1>6, <1>7, <2>1, <2>2, <2>5
    <2>7. run'[q].pc = "running" /\ d \in run'[q].ready
            => /\ task'[q][d].pc = "none"
               /\ d \notin Scans => \A e \in Scans : task'[q][e].pc = "finished"
      BY <1>7, <1>8, <2>1, <2>2, <2>5
    <2> QED
      BY <2>4, <2>6, <2>7
  <1> QED
    BY <1>9 DEF PresentInv

LEMMA InitPresent == Init => PresentInv
  <1> SUFFICES ASSUME Init PROVE PresentInv
    OBVIOUS
  <1>1. OutputsKept
    BY DEF Init, OutputsKept, NoManifest, NoTask, IdleRun
  <1> QED
    BY <1>1, InitTypeOK DEF PresentInv

LEMMA NextPresent == PresentInv /\ [Next]_vars => PresentInv'
  <1> SUFFICES ASSUME PresentInv, [Next]_vars PROVE PresentInv'
    OBVIOUS
  <1>0. TypeOK /\ TypeOK'
    BY NextTypeOK DEF PresentInv
  <1> USE DEF PresentInv
  <1>1. CASE UNCHANGED vars
    BY <1>0, <1>1 DEF vars, OutputsKept
  <1>2. ASSUME NEW t \in Scans, Rewrite(t) PROVE PresentInv'
    BY <1>0, <1>2 DEF Rewrite, OutputsKept
  <1>3. ASSUME NEW t \in Scans, Publish(t) PROVE PresentInv'
    BY <1>0, <1>3 DEF Publish, OutputsKept
  <1>4. ASSUME NEW r \in Runs, Execute(r) PROVE PresentInv'
    <2>1. \A q \in Runs, s \in Stages :
             task'[q][s] = IF q = r THEN NoTask ELSE task[q][s]
      BY <1>0, <1>4 DEF Execute, TypeOK
    <2>2. /\ \A q \in Runs \ {r} : run'[q] = run[q]
          /\ run'[r].ready = {}
      BY <1>0, <1>4 DEF Execute, TypeOK
    <2>3. OutputsKept'
      BY <1>4, <2>1, <2>2, StagesAssumption DEF Execute, OutputsKept, NoTask
    <2> QED
      BY <1>0, <2>3
  <1>5. ASSUME NEW r \in Runs, NextBatch(r) PROVE PresentInv'
    BY <1>0, <1>5, BatchKeeps
  <1>6. ASSUME NEW r \in Runs, Complete(r) PROVE PresentInv'
    <2>1. \A q \in Runs : run'[q].pc = "running" => run'[q] = run[q]
      BY <1>0, <1>6 DEF Complete, TypeOK
    <2>2. OutputsKept'
      BY <1>6, <2>1 DEF Complete, OutputsKept
    <2> QED
      BY <1>0, <2>2
  <1>7. ASSUME NEW r \in Runs, NEW s \in Stages, CacheHit(r, s) PROVE PresentInv'
    <2>1. PICK v : v = [pc |-> "finished", attempts |-> 0, data |-> manifest[s].data]
      OBVIOUS
    <2>2. v \in TaskType /\ v.pc = "finished"
      BY <1>0, <2>1 DEF TypeOK, TaskPhases
    <2>3. task' = [task EXCEPT ![r][s] = v] /\ manifest[s].file = "whole"
      BY <1>7, <2>1 DEF CacheHit, Hit, Finished
    <2> HIDE DEF TaskType
    <2> QED
      BY <1>0, <1>7, <2>2, <2>3, TaskGoesOn DEF CacheHit
  <1>8. ASSUME NEW r \in Runs, NEW s \in Stages, NEW label, NEW data \in Versions,
               task[r][s].pc \notin {"none", "finished"},
               WriteStageOutput(s, label, data), Finished(r, s, data),
               UNCHANGED <<run, torn, crashes>>
        PROVE  PresentInv'
    <2>1. PICK v : v = [pc |-> "finished", attempts |-> 0, data |-> data]
      OBVIOUS
    <2>2. v \in TaskType /\ task' = [task EXCEPT ![r][s] = v]
      BY <1>8, <2>1 DEF Finished, TaskPhases
    <2>3. \A d \in Stages : /\ manifest'[d] = manifest[d] \/ manifest'[d].file = "whole"
                            /\ d = s => manifest'[d].file = "whole"
      BY <1>0, <1>8, WriteKeeps
    <2> HIDE DEF TaskType
    <2> QED
      BY <1>0, <1>8, <2>2, <2>3, TaskGoesOn
  <1>9. ASSUME NEW r \in Runs, NEW s \in Stages, ScanFile(r, s) PROVE PresentInv'
    <2>1. Only(s, content[s]) \in Versions
      BY <1>0, <1>9, ConstantTypes DEF ScanFile, TypeOK, Versions
    <2> QED
      BY <1>8, <1>9, <2>1 DEF ScanFile
  <1>10. ASSUME NEW r \in Runs, NEW s \in Stages, Store(r, s) PROVE PresentInv'
    <2>1. task[r][s].data \in Versions
      BY <1>0 DEF TypeOK
    <2> QED
      BY <1>8, <1>10, <2>1 DEF Store
  <1>11. ASSUME NEW r \in Runs, NEW s \in Stages, Compute(r, s) PROVE PresentInv'
    BY <1>0, <1>8, <1>11, ComputedType DEF Compute
  <1>12. ASSUME NEW r \in Runs, NEW s \in Stages, Request(r, s) PROVE PresentInv'
    <2>1. PICK v : v = [task[r][s] EXCEPT !.pc = "requested"]
      OBVIOUS
    <2>2. task[r][s] \in TaskType
      BY <1>0 DEF TypeOK
    <2>3. v \in TaskType /\ v.pc = "requested"
      BY <2>1, <2>2 DEF TaskPhases
    <2>4. /\ task' = [task EXCEPT ![r][s] = v]
          /\ task[r][s].pc = "created" /\ UNCHANGED <<run, torn, crashes, manifest>>
      BY <1>0, <1>12, <2>1 DEF Request, TypeOK
    <2> HIDE DEF TaskType
    <2> QED
      BY <1>0, <2>3, <2>4, TaskGoesOn
  <1>13. ASSUME NEW r \in Runs, NEW s \in Stages, Answer(r, s) PROVE PresentInv'
    <2> DEFINE v == [task[r][s] EXCEPT !.pc = "answered", !.data = Only(s, content[s])]
    <2>1. task[r][s] \in TaskType
      BY <1>0 DEF TypeOK
    <2>2. v \in TaskType /\ v.pc = "answered"
      <3>1. task[r][s] \in TaskType /\ (s \in Scans => content[s] \in Nat)
        BY <1>0 DEF TypeOK, Versions
      <3>2. Only(s, content[s]) \in Versions
        BY <3>1 DEF Only, Versions
      <3> QED
        BY <2>1, <3>1, <3>2 DEF TaskPhases
    <2>3. task' = [task EXCEPT ![r][s] = v]
      BY <1>0, <1>13, <2>1 DEF Answer, TypeOK
    <2>4. task[r][s].pc = "requested" /\ UNCHANGED <<run, torn, crashes, manifest>>
      BY <1>13 DEF Answer
    <2> HIDE DEF TaskType, v
    <2> QED
      BY <1>0, <2>2, <2>3, <2>4, TaskGoesOn
  <1>14. ASSUME NEW r \in Runs, NEW s \in Stages, StageFails(r, s) PROVE PresentInv'
    BY <1>0, <1>14, FailureKeeps DEF StageFails
  <1>15. ASSUME NEW r \in Runs, NEW s \in Stages, StageBroken(r, s) PROVE PresentInv'
    BY <1>0, <1>15, FailureKeeps DEF StageBroken
  <1>16. ASSUME Crash PROVE PresentInv'
    <2>1. crashes' # 0
      BY <1>0, <1>16 DEF Crash, TypeOK
    <2> QED
      BY <1>0, <2>1 DEF OutputsKept
  <1> QED
    BY <1>1, <1>2, <1>3, <1>4, <1>5, <1>6, <1>7, <1>9, <1>10, <1>11, <1>12,
       <1>13, <1>14, <1>15, <1>16 DEF Next

(* While the process lives, a local stage finds the outputs of the stages  *)
(* it reads (StageExecutor.execute_stage, ArtifactStore.read_stage_output),*)
(* whatever other queries, leftover tasks and retries do to the manifests. *)
THEOREM OutputsAreThere == Spec => []InputsPresent
  <1>1. PresentInv => InputsPresent
    <2> SUFFICES ASSUME PresentInv, crashes = 0, NEW r \in Runs, NEW s \in Stages,
                        task[r][s].pc = "created"
                 PROVE  Parsable(s) /\ DepsReadable(s)
      BY DEF InputsPresent
    <2>1. \A d \in Deps(s) : d \in Scans /\ task[r][d].pc = "finished"
      BY DEF PresentInv, OutputsKept, Deps
    <2> QED
      BY <2>1, StagesAssumption DEF PresentInv, OutputsKept, Parsable, DepsReadable
  <1> QED
    BY <1>1, InitPresent, NextPresent, PTL DEF Spec

-----------------------------------------------------------------------------
(* DatasetJobs                                                             *)

\* A job's record has its fields; what a name or a row is does not matter here.
Shape(c) ==
    /\ c = [kind |-> c.kind, pc |-> c.pc, todo |-> c.todo, template |-> c.template, name |-> c.name,
            mine |-> c.mine, made |-> c.made, errors |-> c.errors, poisoned |-> c.poisoned,
            row |-> c.row, asked |-> c.asked]
    /\ c.row = [format |-> c.row.format, uri |-> c.row.uri, revision |-> c.row.revision]

\* Bulk creation between its queries: each selection is made, an error or still
\* to do, and what was made is stored or flushed, unless a flush failed.
BulkSound(c, known) ==
    c.kind = "bulk" /\ c.pc # "failed" =>
        /\ c.pc \in {"find", "name", "flush", "commit", "done"}
        /\ c.todo \in Seq(Selections) /\ c.poisoned \in BOOLEAN
        /\ c.pc \in {"find", "name", "flush"} <=> c.todo # <<>>
        /\ c.asked = {d.sel : d \in c.made} \cup c.errors \cup {c.todo[i] : i \in DOMAIN c.todo}
        /\ c.poisoned = FALSE => c.made \subseteq known \cup c.mine
        /\ c.pc = "done" => c.mine = {} /\ c.poisoned = FALSE

\* crossed knows the jobs that run side by side.
OverlapKnown ==
    \A i, j \in Jobs : i # j /\ Active(i) /\ Active(j) => {job[i].kind, job[j].kind} \in crossed

Crossing == crossed \cap {{"ingest"}, {"ingest", "profile"}} # {}

\* What a job on the CSV dataset has read or converted is still so.
FileSound(c) ==
    /\ c.kind = "ingest" /\ c.pc = "write" => c.row.format = fileRow.format
    /\ c.kind = "ingest" /\ c.pc \in {"save", "commit"} => parquet = c.row.uri
    /\ c.kind = "profile" /\ c.pc \in {"save", "commit"} =>
          (c.row.format = "parquet" => parquet = c.row.uri)

JobInv ==
    /\ job = [j \in Jobs |-> job[j]]
    /\ fileRow = [format |-> fileRow.format, uri |-> fileRow.uri, revision |-> fileRow.revision]
    /\ \A j \in Jobs : Shape(job[j]) /\ BulkSound(job[j], tables)
    /\ OverlapKnown
    /\ \/ Crossing
       \/ /\ \A j \in Jobs : FileSound(job[j])
          /\ fileRow.format = "parquet" => parquet = fileRow.uri

\* The record of a call whose next selection is dealt with.
After(c, mine, made, errors, poisoned) ==
    [kind |-> c.kind, pc |-> IF Len(c.todo) = 1 THEN "commit" ELSE "find", todo |-> Tail(c.todo),
     template |-> c.template, name |-> c.name, mine |-> mine, made |-> made, errors |-> errors,
     poisoned |-> poisoned, row |-> c.row, asked |-> c.asked]

(* What the updates of a call make of its record. *)
LEMMA NextCalls ==
    ASSUME NEW c, Shape(c), NEW errors, NEW made, NEW mine
    PROVE  /\ Next1([c EXCEPT !.errors = errors]) = After(c, c.mine, c.made, errors, c.poisoned)
           /\ Next1([c EXCEPT !.made = made]) = After(c, c.mine, made, c.errors, c.poisoned)
           /\ Next1([c EXCEPT !.mine = mine, !.made = made]) = After(c, mine, made, c.errors, c.poisoned)
           /\ Next1([c EXCEPT !.errors = errors, !.mine = {}, !.poisoned = TRUE])
                = After(c, {}, c.made, errors, TRUE)
<1> DEFINE d1 == [c EXCEPT !.errors = errors]
           d2 == [c EXCEPT !.made = made]
           d3 == [c EXCEPT !.mine = mine, !.made = made]
           d4 == [c EXCEPT !.errors = errors, !.mine = {}, !.poisoned = TRUE]
<1>1. Next1(d1) = After(c, c.mine, c.made, errors, c.poisoned)
  <2>1. d1 = [kind |-> c.kind, pc |-> c.pc, todo |-> c.todo, template |-> c.template,
              name |-> c.name, mine |-> c.mine, made |-> c.made, errors |-> errors,
              poisoned |-> c.poisoned, row |-> c.row, asked |-> c.asked]
    BY DEF Shape
  <2> HIDE DEF d1
  <2>2. Next1(d1) = [d1 EXCEPT !.todo = Tail(d1.todo), !.pc = IF Len(d1.todo) = 1 THEN "commit" ELSE "find"]
    BY <2>1 DEF Next1
  <2> QED BY <2>1, <2>2 DEF After
<1>2. Next1(d2) = After(c, c.mine, made, c.errors, c.poisoned)
  <2>1. d2 = [kind |-> c.kind, pc |-> c.pc, todo |-> c.todo, template |-> c.template,
              name |-> c.name, mine |-> c.mine, made |-> made, errors |-> c.errors,
              poisoned |-> c.poisoned, row |-> c.row, asked |-> c.asked]
    BY DEF Shape
  <2> HIDE DEF d2
  <2>2. Next1(d2) = [d2 EXCEPT !.todo = Tail(d2.todo), !.pc = IF Len(d2.todo) = 1 THEN "commit" ELSE "find"]
    BY <2>1 DEF Next1
  <2> QED BY <2>1, <2>2 DEF After
<1>3. Next1(d3) = After(c, mine, made, c.errors, c.poisoned)
  <2>0. PICK e : e = [c EXCEPT !.mine = mine]
    OBVIOUS
  <2>a. d3 = [e EXCEPT !.made = made]
    BY <2>0, Zenon
  <2>b. e = [kind |-> c.kind, pc |-> c.pc, todo |-> c.todo, template |-> c.template,
          name |-> c.name, mine |-> mine, made |-> c.made, errors |-> c.errors,
          poisoned |-> c.poisoned, row |-> c.row, asked |-> c.asked]
    BY <2>0 DEF Shape
  <2>c. [e EXCEPT !.made = made] = [kind |-> c.kind, pc |-> c.pc, todo |-> c.todo, template |-> c.template,
          name |-> c.name, mine |-> mine, made |-> made, errors |-> c.errors,
          poisoned |-> c.poisoned, row |-> c.row, asked |-> c.asked]
    BY ONLY <2>b
  <2>1. d3 = [kind |-> c.kind, pc |-> c.pc, todo |-> c.todo, template |-> c.template,
          name |-> c.name, mine |-> mine, made |-> made, errors |-> c.errors,
          poisoned |-> c.poisoned, row |-> c.row, asked |-> c.asked]
    BY <2>a, <2>c, Zenon
  <2> HIDE DEF d3
  <2>2. Next1(d3) = [d3 EXCEPT !.todo = Tail(d3.todo), !.pc = IF Len(d3.todo) = 1 THEN "commit" ELSE "find"]
    BY <2>1 DEF Next1
  <2> QED BY <2>1, <2>2 DEF After
<1>4. Next1(d4) = After(c, {}, c.made, errors, TRUE)
  <2>0. PICK e : e = [c EXCEPT !.errors = errors]
    OBVIOUS
  <2>p. PICK f : f = [e EXCEPT !.mine = {}]
    OBVIOUS
  <2>t. PICK yes : yes = TRUE
    OBVIOUS
  <2>a. d4 = [f EXCEPT !.poisoned = yes]
    BY <2>0, <2>p, <2>t, Zenon
  <2>b. e = [kind |-> c.kind, pc |-> c.pc, todo |-> c.todo, template |-> c.template,
          name |-> c.name, mine |-> c.mine, made |-> c.made, errors |-> errors,
          poisoned |-> c.poisoned, row |-> c.row, asked |-> c.asked]
    BY <2>0 DEF Shape
  <2>q. f = [kind |-> c.kind, pc |-> c.pc, todo |-> c.todo, template |-> c.template,
          name |-> c.name, mine |-> {}, made |-> c.made, errors |-> errors,
          poisoned |-> c.poisoned, row |-> c.row, asked |-> c.asked]
    BY ONLY <2>p, <2>b
  <2>c. [f EXCEPT !.poisoned = yes] = [kind |-> c.kind, pc |-> c.pc, todo |-> c.todo, template |-> c.template,
          name |-> c.name, mine |-> {}, made |-> c.made, errors |-> errors,
          poisoned |-> yes, row |-> c.row, asked |-> c.asked]
    BY ONLY <2>q
  <2>1. d4 = [kind |-> c.kind, pc |-> c.pc, todo |-> c.todo, template |-> c.template,
          name |-> c.name, mine |-> {}, made |-> c.made, errors |-> errors,
          poisoned |-> TRUE, row |-> c.row, asked |-> c.asked]
    BY <2>a, <2>c, <2>t, Zenon
  <2> HIDE DEF d4
  <2>2. Next1(d4) = [d4 EXCEPT !.todo = Tail(d4.todo), !.pc = IF Len(d4.todo) = 1 THEN "commit" ELSE "find"]
    BY <2>1 DEF Next1
  <2> QED BY <2>1, <2>2 DEF After
<1> QED BY <1>1, <1>2, <1>3, <1>4

LEMMA AfterShape ==
    ASSUME NEW c, Shape(c), NEW mine, NEW made, NEW errors, NEW poisoned
    PROVE  Shape(After(c, mine, made, errors, poisoned))
  BY DEF Shape, After

(* Dealing with a selection keeps the account. *)
LEMMA AfterSound ==
    ASSUME NEW c, Shape(c), NEW known, NEW mine, NEW made, NEW errors, NEW poisoned \in BOOLEAN,
           BulkSound(c, known), c.kind = "bulk", c.pc \in {"find", "name", "flush"},
           {d.sel : d \in made} \cup errors = {d.sel : d \in c.made} \cup c.errors \cup {Head(c.todo)},
           poisoned = FALSE => made \subseteq known \cup mine
    PROVE  /\ Shape(After(c, mine, made, errors, poisoned))
           /\ BulkSound(After(c, mine, made, errors, poisoned), known)
<1> DEFINE a == After(c, mine, made, errors, poisoned)
<1>1. Shape(a)
  BY AfterShape
<1>2. /\ c.todo \in Seq(Selections) /\ c.todo # <<>>
      /\ c.asked = {d.sel : d \in c.made} \cup c.errors \cup {c.todo[i] : i \in DOMAIN c.todo}
  BY DEF BulkSound
<1>3. /\ Tail(c.todo) \in Seq(Selections) /\ (Tail(c.todo) # <<>> <=> Len(c.todo) # 1)
      /\ {c.todo[i] : i \in DOMAIN c.todo} = {Head(c.todo)} \cup {Tail(c.todo)[i] : i \in DOMAIN Tail(c.todo)}
  BY ONLY <1>2, HeadAndTail, Zenon
<1>4. /\ a.todo = Tail(c.todo) /\ a.made = made /\ a.mine = mine /\ a.errors = errors
      /\ a.poisoned = poisoned /\ a.asked = c.asked /\ a.kind = "bulk"
      /\ a.pc = IF Len(c.todo) = 1 THEN "commit" ELSE "find"
  BY DEF After
<1>5. a.asked = {d.sel : d \in a.made} \cup a.errors \cup {a.todo[i] : i \in DOMAIN a.todo}
  BY <1>2, <1>3, <1>4
<1> HIDE DEF a
<1>6. BulkSound(a, known)
  BY <1>3, <1>4, <1>5 DEF BulkSound
<1> QED BY <1>1, <1>6 DEF a

\* A call's record.
Call(kind, pc, todo, template, name, mine, made, errors, poisoned, row, asked) ==
    [kind |-> kind, pc |-> pc, todo |-> todo, template |-> template, name |-> name, mine |-> mine,
     made |-> made, errors |-> errors, poisoned |-> poisoned, row |-> row, asked |-> asked]

(* What the updates of one field make of a call's record. *)
LEMMA FieldUpdates ==
    ASSUME NEW c, Shape(c), NEW v
    PROVE  /\ c = Call(c.kind, c.pc, c.todo, c.template, c.name, c.mine,
               c.made, c.errors, c.poisoned, c.row, c.asked)
           /\ [c EXCEPT !.kind = v] = Call(v, c.pc, c.todo, c.template, c.name, c.mine,
               c.made, c.errors, c.poisoned, c.row, c.asked)
           /\ [c EXCEPT !.pc = v] = Call(c.kind, v, c.todo, c.template, c.name, c.mine,
               c.made, c.errors, c.poisoned, c.row, c.asked)
           /\ [c EXCEPT !.todo = v] = Call(c.kind, c.pc, v, c.template, c.name, c.mine,
               c.made, c.errors, c.poisoned, c.row, c.asked)
           /\ [c EXCEPT !.template = v] = Call(c.kind, c.pc, c.todo, v, c.name, c.mine,
               c.made, c.errors, c.poisoned, c.row, c.asked)
           /\ [c EXCEPT !.name = v] = Call(c.kind, c.pc, c.todo, c.template, v, c.mine,
               c.made, c.errors, c.poisoned, c.row, c.asked)
           /\ [c EXCEPT !.mine = v] = Call(c.kind, c.pc, c.todo, c.template, c.name, v,
               c.made, c.errors, c.poisoned, c.row, c.asked)
           /\ [c EXCEPT !.row = v] = Call(c.kind, c.pc, c.todo, c.template, c.name, c.mine,
               c.made, c.errors, c.poisoned, v, c.asked)
           /\ [c EXCEPT !.asked = v] = Call(c.kind, c.pc, c.todo, c.template, c.name, c.mine,
               c.made, c.errors, c.poisoned, c.row, v)
<1>1. c = Call(c.kind, c.pc, c.todo, c.template, c.name, c.mine,
               c.made, c.errors, c.poisoned, c.row, c.asked)
  BY DEF Shape, Call
<1>2. [c EXCEPT !.kind = v] = Call(v, c.pc, c.todo, c.template, c.name, c.mine,
               c.made, c.errors, c.poisoned, c.row, c.asked)
  BY DEF Shape, Call
<1>3. [c EXCEPT !.pc = v] = Call(c.kind, v, c.todo, c.template, c.name, c.mine,
               c.made, c.errors, c.poisoned, c.row, c.asked)
  BY DEF Shape, Call
<1>4. [c EXCEPT !.todo = v] = Call(c.kind, c.pc, v, c.template, c.name, c.mine,
               c.made, c.errors, c.poisoned, c.row, c.asked)
  BY DEF Shape, Call
<1>5. [c EXCEPT !.template = v] = Call(c.kind, c.pc, c.todo, v, c.name, c.mine,
               c.made, c.errors, c.poisoned, c.row, c.asked)
  BY DEF Shape, Call
<1>6. [c EXCEPT !.name = v] = Call(c.kind, c.pc, c.todo, c.template, v, c.mine,
               c.made, c.errors, c.poisoned, c.row, c.asked)
  BY DEF Shape, Call
<1>7. [c EXCEPT !.mine = v] = Call(c.kind, c.pc, c.todo, c.template, c.name, v,
               c.made, c.errors, c.poisoned, c.row, c.asked)
  BY DEF Shape, Call
<1>8. [c EXCEPT !.row = v] = Call(c.kind, c.pc, c.todo, c.template, c.name, c.mine,
               c.made, c.errors, c.poisoned, v, c.asked)
  BY DEF Shape, Call
<1>9. [c EXCEPT !.asked = v] = Call(c.kind, c.pc, c.todo, c.template, c.name, c.mine,
               c.made, c.errors, c.poisoned, c.row, v)
  BY DEF Shape, Call
<1> QED BY <1>1, <1>2, <1>3, <1>4, <1>5, <1>6, <1>7, <1>8, <1>9

(* The record of a call has its fields. *)
LEMMA CallShape ==
    ASSUME NEW kind, NEW pc, NEW todo, NEW template, NEW name, NEW mine, NEW made, NEW errors,
           NEW poisoned, NEW row, NEW asked,
           row = [format |-> row.format, uri |-> row.uri, revision |-> row.revision]
    PROVE  Shape(Call(kind, pc, todo, template, name, mine, made, errors, poisoned, row, asked))
  BY DEF Shape, Call

(* What the updates of several fields make of it. *)
LEMMA NamedCall ==
    ASSUME NEW c, Shape(c), NEW pc, NEW name
    PROVE  [c EXCEPT !.pc = pc, !.name = name]
             = Call(c.kind, pc, c.todo, c.template, name, c.mine,
               c.made, c.errors, c.poisoned, c.row, c.asked)
<1>1. PICK e1 : e1 = [c EXCEPT !.pc = pc]
  OBVIOUS
<1>2. e1 = Call(c.kind, pc, c.todo, c.template, c.name, c.mine,
               c.made, c.errors, c.poisoned, c.row, c.asked)
  BY <1>1, FieldUpdates DEF Call
<1>3. Shape(e1)
  BY <1>2, CallShape DEF Shape
<1>4. PICK e2 : e2 = [e1 EXCEPT !.name = name]
  OBVIOUS
<1>5. e2 = Call(c.kind, pc, c.todo, c.template, name, c.mine,
               c.made, c.errors, c.poisoned, c.row, c.asked)
  BY <1>4, <1>2, <1>3, FieldUpdates DEF Call
<1>6. [c EXCEPT !.pc = pc, !.name = name] = e2
  BY <1>1, <1>4, Zenon
<1> QED BY <1>6, <1>5

LEMMA EmptiedCall ==
    ASSUME NEW c, Shape(c), NEW pc, NEW mine
    PROVE  [c EXCEPT !.pc = pc, !.mine = mine]
             = Call(c.kind, pc, c.todo, c.template, c.name, mine,
               c.made, c.errors, c.poisoned, c.row, c.asked)
<1>1. PICK e1 : e1 = [c EXCEPT !.pc = pc]
  OBVIOUS
<1>2. e1 = Call(c.kind, pc, c.todo, c.template, c.name, c.mine,
               c.made, c.errors, c.poisoned, c.row, c.asked)
  BY <1>1, FieldUpdates DEF Call
<1>3. Shape(e1)
  BY <1>2, CallShape DEF Shape
<1>4. PICK e2 : e2 = [e1 EXCEPT !.mine = mine]
  OBVIOUS
<1>5. e2 = Call(c.kind, pc, c.todo, c.template, c.name, mine,
               c.made, c.errors, c.poisoned, c.row, c.asked)
  BY <1>4, <1>2, <1>3, FieldUpdates DEF Call
<1>6. [c EXCEPT !.pc = pc, !.mine = mine] = e2
  BY <1>1, <1>4, Zenon
<1> QED BY <1>6, <1>5

LEMMA FileCall ==
    ASSUME NEW c, Shape(c), NEW kind, NEW pc, NEW row,
           row = [format |-> row.format, uri |-> row.uri, revision |-> row.revision]
    PROVE  [c EXCEPT !.kind = kind, !.pc = pc, !.row = row]
             = Call(kind, pc, c.todo, c.template, c.name, c.mine,
               c.made, c.errors, c.poisoned, row, c.asked)
<1>1. PICK e1 : e1 = [c EXCEPT !.kind = kind]
  OBVIOUS
<1>2. e1 = Call(kind, c.pc, c.todo, c.template, c.name, c.mine,
               c.made, c.errors, c.poisoned, c.row, c.asked)
  BY <1>1, FieldUpdates DEF Call
<1>3. Shape(e1)
  BY <1>2, CallShape DEF Shape
<1>4. PICK e2 : e2 = [e1 EXCEPT !.pc = pc]
  OBVIOUS
<1>5. e2 = Call(kind, pc, c.todo, c.template, c.name, c.mine,
               c.made, c.errors, c.poisoned, c.row, c.asked)
  BY <1>4, <1>2, <1>3, FieldUpdates DEF Call
<1>6. Shape(e2)
  BY <1>5, CallShape DEF Shape
<1>7. PICK e3 : e3 = [e2 EXCEPT !.row = row]
  OBVIOUS
<1>8. e3 = Call(kind, pc, c.todo, c.template, c.name, c.mine,
               c.made, c.errors, c.poisoned, row, c.asked)
  BY <1>7, <1>5, <1>6, FieldUpdates DEF Call
<1>9. [c EXCEPT !.kind = kind, !.pc = pc, !.row = row] = e3
  BY <1>1, <1>4, <1>7, Zenon
<1> QED BY <1>9, <1>8

LEMMA BulkCall ==
    ASSUME NEW c, Shape(c), NEW kind, NEW pc, NEW todo, NEW template, NEW asked
    PROVE  [c EXCEPT !.kind = kind, !.pc = pc, !.todo = todo, !.template = template, !.asked = asked]
             = Call(kind, pc, todo, template, c.name, c.mine,
               c.made, c.errors, c.poisoned, c.row, asked)
<1>1. PICK e1 : e1 = [c EXCEPT !.kind = kind]
  OBVIOUS
<1>2. e1 = Call(kind, c.pc, c.todo, c.template, c.name, c.mine,
               c.made, c.errors, c.poisoned, c.row, c.asked)
  BY <1>1, FieldUpdates DEF Call
<1>3. Shape(e1)
  BY <1>2, CallShape DEF Shape
<1>4. PICK e2 : e2 = [e1 EXCEPT !.pc = pc]
  OBVIOUS
<1>5. e2 = Call(kind, pc, c.todo, c.template, c.name, c.mine,
               c.made, c.errors, c.poisoned, c.row, c.asked)
  BY <1>4, <1>2, <1>3, FieldUpdates DEF Call
<1>6. Shape(e2)
  BY <1>5, CallShape DEF Shape
<1>7. PICK e3 : e3 = [e2 EXCEPT !.todo = todo]
  OBVIOUS
<1>8. e3 = Call(kind, pc, todo, c.template, c.name, c.mine,
               c.made, c.errors, c.poisoned, c.row, c.asked)
  BY <1>7, <1>5, <1>6, FieldUpdates DEF Call
<1>9. Shape(e3)
  BY <1>8, CallShape DEF Shape
<1>10. PICK e4 : e4 = [e3 EXCEPT !.template = template]
  OBVIOUS
<1>11. e4 = Call(kind, pc, todo, template, c.name, c.mine,
               c.made, c.errors, c.poisoned, c.row, c.asked)
  BY <1>10, <1>8, <1>9, FieldUpdates DEF Call
<1>12. Shape(e4)
  BY <1>11, CallShape DEF Shape
<1>13. PICK e5 : e5 = [e4 EXCEPT !.asked = asked]
  OBVIOUS
<1>14. e5 = Call(kind, pc, todo, template, c.name, c.mine,
               c.made, c.errors, c.poisoned, c.row, asked)
  BY <1>13, <1>11, <1>12, FieldUpdates DEF Call
<1>15. [c EXCEPT !.kind = kind, !.pc = pc, !.todo = todo, !.template = template, !.asked = asked] = e5
  BY <1>1, <1>4, <1>7, <1>10, <1>13, Zenon
<1> QED BY <1>15, <1>14

LEMMA ConvertedCall ==
    ASSUME NEW c, Shape(c), NEW pc, NEW v
    PROVE  [c EXCEPT !.pc = pc, !.row.format = v]
             = Call(c.kind, pc, c.todo, c.template, c.name, c.mine, c.made, c.errors, c.poisoned,
               [format |-> v, uri |-> c.row.uri, revision |-> c.row.revision], c.asked)
<1>1. PICK e : e = [c EXCEPT !.pc = pc]
  OBVIOUS
<1>2. e = Call(c.kind, pc, c.todo, c.template, c.name, c.mine, c.made, c.errors, c.poisoned,
               c.row, c.asked)
  BY <1>1, FieldUpdates
<1>3. Shape(e) /\ e.row = c.row
  BY <1>2, CallShape DEF Shape, Call
<1>4. PICK r : r = [e.row EXCEPT !.format = v]
  OBVIOUS
<1>5. r = [format |-> v, uri |-> c.row.uri, revision |-> c.row.revision]
  BY <1>3, <1>4 DEF Shape
<1>6. PICK d : d = [e EXCEPT !.row = r]
  OBVIOUS
<1>7. d = Call(e.kind, e.pc, e.todo, e.template, e.name, e.mine, e.made, e.errors, e.poisoned, r, e.asked)
  BY <1>3, <1>6, FieldUpdates
<1>8. d = Call(c.kind, pc, c.todo, c.template, c.name, c.mine, c.made, c.errors, c.poisoned,
               r, c.asked)
  BY <1>2, <1>7 DEF Call
<1>9. [c EXCEPT !.pc = pc, !.row.format = v] = d
  BY <1>1, <1>4, <1>6, Zenon
<1> QED BY <1>5, <1>8, <1>9

LEMMA RevisedCall ==
    ASSUME NEW c, Shape(c), NEW pc, NEW v
    PROVE  [c EXCEPT !.pc = pc, !.row.revision = v]
             = Call(c.kind, pc, c.todo, c.template, c.name, c.mine, c.made, c.errors, c.poisoned,
               [format |-> c.row.format, uri |-> c.row.uri, revision |-> v], c.asked)
<1>1. PICK e : e = [c EXCEPT !.pc = pc]
  OBVIOUS
<1>2. e = Call(c.kind, pc, c.todo, c.template, c.name, c.mine, c.made, c.errors, c.poisoned,
               c.row, c.asked)
  BY <1>1, FieldUpdates
<1>3. Shape(e) /\ e.row = c.row
  BY <1>2, CallShape DEF Shape, Call
<1>4. PICK r : r = [e.row EXCEPT !.revision = v]
  OBVIOUS
<1>5. r = [format |-> c.row.format, uri |-> c.row.uri, revision |-> v]
  BY <1>3, <1>4 DEF Shape
<1>6. PICK d : d = [e EXCEPT !.row = r]
  OBVIOUS
<1>7. d = Call(e.kind, e.pc, e.todo, e.template, e.name, e.mine, e.made, e.errors, e.poisoned, r, e.asked)
  BY <1>3, <1>6, FieldUpdates
<1>8. d = Call(c.kind, pc, c.todo, c.template, c.name, c.mine, c.made, c.errors, c.poisoned,
               r, c.asked)
  BY <1>2, <1>7 DEF Call
<1>9. [c EXCEPT !.pc = pc, !.row.revision = v] = d
  BY <1>1, <1>4, <1>6, Zenon
<1> QED BY <1>5, <1>8, <1>9

(* A step of one call, of a kind that stays, on tables that only grow. *)
LEMMA CallMoves ==
    ASSUME JobInv, NEW j \in Jobs, NEW d, Progress(j, d), crossed' = crossed,
           tables \subseteq tables', Shape(d), BulkSound(d, tables'), d.kind = job[j].kind,
           d.pc \notin Resting => Active(j)
    PROVE  /\ job' = [i \in Jobs |-> job'[i]]
           /\ job'[j] = d /\ \A i \in Jobs \ {j} : job'[i] = job[i]
           /\ \A i \in Jobs : Shape(job'[i]) /\ BulkSound(job'[i], tables')
           /\ OverlapKnown'
<1>1. /\ job' = [i \in Jobs |-> job'[i]]
      /\ job'[j] = d /\ \A i \in Jobs \ {j} : job'[i] = job[i]
  BY DEF JobInv, Progress
<1>2. ASSUME NEW i \in Jobs
      PROVE  Shape(job'[i]) /\ BulkSound(job'[i], tables')
  <2>1. CASE i = j
    BY <2>1, <1>1
  <2>2. CASE i # j
    <3>1. PICK c : c = job[i]
      OBVIOUS
    <3>2. Shape(c) /\ BulkSound(c, tables)
      BY <3>1 DEF JobInv
    <3>3. BulkSound(c, tables')
      BY <3>2 DEF BulkSound
    <3> QED BY <3>1, <3>2, <3>3, <2>2, <1>1
  <2> QED BY <2>1, <2>2
<1>3. OverlapKnown'
  <2> SUFFICES ASSUME NEW i \in Jobs, NEW k \in Jobs, i # k, Active(i)', Active(k)'
               PROVE  {job'[i].kind, job'[k].kind} \in crossed
    BY DEF OverlapKnown
  <2>1. /\ Active(i) /\ job'[i].kind = job[i].kind
        /\ Active(k) /\ job'[k].kind = job[k].kind
    BY <1>1 DEF Active
  <2> QED BY <2>1 DEF JobInv, OverlapKnown
<1> QED BY <1>1, <1>2, <1>3

(* Such a step that leaves the CSV dataset alone keeps the invariant. *)
LEMMA CallKeeps ==
    ASSUME JobInv, NEW j \in Jobs, NEW d, Progress(j, d), crossed' = crossed, FileKept,
           tables \subseteq tables', Shape(d), BulkSound(d, tables'), d.kind = job[j].kind,
           d.pc \notin Resting => Active(j), Crossing \/ FileSound(d)
    PROVE  JobInv'
<1>1. /\ job' = [i \in Jobs |-> job'[i]]
      /\ job'[j] = d /\ \A i \in Jobs \ {j} : job'[i] = job[i]
      /\ \A i \in Jobs : Shape(job'[i]) /\ BulkSound(job'[i], tables')
      /\ OverlapKnown'
  BY CallMoves
<1>2. CASE Crossing
  BY <1>1, <1>2 DEF JobInv, Crossing, FileKept
<1>3. CASE ~Crossing
  <2>1. ASSUME NEW i \in Jobs
        PROVE  FileSound(job[i])'
    <3>1. CASE i = j
      BY <3>1, <1>1, <1>3 DEF FileSound, FileKept
    <3>2. CASE i # j
      BY <3>2, <1>1, <1>3 DEF JobInv, FileSound, FileKept
    <3> QED BY <3>1, <3>2
  <2> QED BY <1>1, <1>3, <2>1 DEF JobInv, FileKept
<1> QED BY <1>2, <1>3

(* A call that begins overlaps those that are active. *)
LEMMA BeginKeeps ==
    ASSUME JobInv, NEW j \in Jobs, NEW d, Begins(j, d), Shape(d), BulkSound(d, tables),
           Crossing \/ FileSound(d)
    PROVE  JobInv'
<1>1. /\ job' = [i \in Jobs |-> job'[i]]
      /\ job'[j] = d /\ \A i \in Jobs \ {j} : job'[i] = job[i]
  BY DEF JobInv, Begins
<1>2. /\ FileKept /\ tables' = tables /\ crossed \subseteq crossed'
      /\ \A i \in Jobs \ {j} : Active(i) => {d.kind, job[i].kind} \in crossed'
  BY DEF Begins, FileKept
<1>3. \A i \in Jobs : Shape(job'[i]) /\ BulkSound(job'[i], tables')
  BY <1>1, <1>2 DEF JobInv
<1>4. OverlapKnown'
  <2> SUFFICES ASSUME NEW i \in Jobs, NEW k \in Jobs, i # k, Active(i)', Active(k)'
               PROVE  {job'[i].kind, job'[k].kind} \in crossed'
    BY DEF OverlapKnown
  <2>1. CASE i = j
    BY <2>1, <1>1, <1>2 DEF Active
  <2>2. CASE k = j
    <3>1. {d.kind, job[i].kind} \in crossed'
      BY <2>2, <1>1, <1>2 DEF Active
    <3>2. {job'[i].kind, job'[k].kind} = {d.kind, job[i].kind}
      BY <2>2, <1>1
    <3> QED BY <3>1, <3>2
  <2>3. CASE i # j /\ k # j
    <3>1. Active(i) /\ Active(k)
      BY <2>3, <1>1 DEF Active
    <3> QED BY <3>1, <2>3, <1>1, <1>2 DEF JobInv, OverlapKnown
  <2> QED BY <2>1, <2>2, <2>3
<1>5. CASE Crossing
  <2>1. Crossing'
    BY <1>5, <1>2 DEF Crossing
  <2> QED BY <2>1, <1>1, <1>2, <1>3, <1>4 DEF JobInv, FileKept
<1>6. CASE ~Crossing
  <2>1. ASSUME NEW i \in Jobs
        PROVE  FileSound(job[i])'
    <3>1. CASE i = j
      BY <3>1, <1>1, <1>2, <1>6 DEF FileSound, FileKept
    <3>2. CASE i # j
      BY <3>2, <1>1, <1>2, <1>6 DEF JobInv, FileSound, FileKept
    <3> QED BY <3>1, <3>2
  <2> QED BY <1>1, <1>2, <1>3, <1>4, <1>6, <2>1 DEF JobInv, FileKept
<1> QED BY <1>5, <1>6

LEMMA BeginBulkKeeps ==
    ASSUME JobInv, NEW j \in Jobs, NEW t \in Templates, NEW r \in Requests, BeginBulk(j, t, r)
    PROVE  JobInv'
<1>1. PICK c : c = Rest
  OBVIOUS
<1>2. Shape(c) /\ c.made = {} /\ c.mine = {} /\ c.errors = {} /\ c.poisoned = FALSE
  BY <1>1 DEF Rest, Shape
<1>3. PICK a : a = {r[i] : i \in DOMAIN r}
  OBVIOUS
<1>4. PICK d : d = Call("bulk", "find", r, t, c.name, c.mine, c.made, c.errors, c.poisoned, c.row, a)
  OBVIOUS
<1>5. Begins(j, d)
  <2>1. Begins(j, [c EXCEPT !.kind = "bulk", !.pc = "find", !.todo = r, !.template = t, !.asked = a])
    BY <1>1, <1>3, Zenon DEF BeginBulk
  <2>2. [c EXCEPT !.kind = "bulk", !.pc = "find", !.todo = r, !.template = t, !.asked = a] = d
    <3>1. Shape(c)
      BY <1>2
    <3> DEFINE U(kind, pc, todo, template, asked) ==
                 [c EXCEPT !.kind = kind, !.pc = pc, !.todo = todo, !.template = template, !.asked = asked]
    <3>2. \A kind, pc, todo, template, asked :
            U(kind, pc, todo, template, asked)
              = Call(kind, pc, todo, template, c.name, c.mine, c.made, c.errors, c.poisoned, c.row, asked)
      BY <3>1, BulkCall, Zenon
    <3>3. [c EXCEPT !.kind = "bulk", !.pc = "find", !.todo = r, !.template = t, !.asked = a]
            = U("bulk", "find", r, t, a)
      OBVIOUS
    <3> HIDE DEF U
    <3>4. U("bulk", "find", r, t, a) = d
      BY <3>2, <1>4
    <3> QED BY <3>3, <3>4, Zenon
  <2> QED BY <2>1, <2>2, Zenon
<1>6. Shape(d)
  BY <1>2, <1>4, CallShape DEF Shape
<1>7. d.kind = "bulk" /\ d.pc = "find" /\ d.todo = r /\ d.asked = a /\ d.made = {} /\ d.errors = {}
      /\ d.poisoned = FALSE
  BY <1>2, <1>4 DEF Call
<1>8. r \in Seq(Selections) /\ r # <<>>
  BY JobsAssumption
<1>9. BulkSound(d, tables)
  <2>1. {e.sel : e \in d.made} = {}
    BY <1>7
  <2> QED BY <1>3, <1>7, <1>8, <2>1 DEF BulkSound
<1>10. FileSound(d)
  BY <1>7 DEF FileSound
<1> QED BY <1>5, <1>6, <1>9, <1>10, BeginKeeps

LEMMA BeginOnFileKeeps ==
    ASSUME JobInv, NEW j \in Jobs, BeginProfile(j) \/ \E u \in Uris : BeginIngest(j, u)
    PROVE  JobInv'
<1>1. PICK c : c = Rest
  OBVIOUS
<1>2. Shape(c)
  BY <1>1 DEF Rest, Shape
<1>3. PICK f : f = fileRow
  OBVIOUS
<1>4. f = [format |-> f.format, uri |-> f.uri, revision |-> f.revision]
  BY <1>3 DEF JobInv
<1>5. \A kind, pc, row : row = [format |-> row.format, uri |-> row.uri, revision |-> row.revision] =>
        [c EXCEPT !.kind = kind, !.pc = pc, !.row = row]
           = Call(kind, pc, c.todo, c.template, c.name, c.mine, c.made, c.errors, c.poisoned, row, c.asked)
  BY <1>2, FileCall, Zenon
<1>6. CASE BeginProfile(j)
  <2>1. PICK d : d = Call("profile", "save", c.todo, c.template, c.name, c.mine, c.made, c.errors,
                          c.poisoned, f, c.asked)
    OBVIOUS
  <2>2. Begins(j, [c EXCEPT !.kind = "profile", !.pc = "save", !.row = f])
    BY <1>1, <1>3, <1>6, Zenon DEF BeginProfile
  <2>3. Begins(j, d)
    BY <2>1, <2>2, <1>4, <1>5, Zenon
  <2>4. Shape(d)
    BY <2>1, <1>4, CallShape
  <2>5. d.kind = "profile" /\ d.pc = "save" /\ d.row = f
    BY <2>1 DEF Call
  <2>6. BulkSound(d, tables)
    BY <2>5 DEF BulkSound
  <2>7. Crossing \/ FileSound(d)
    BY <2>5, <1>3 DEF FileSound, JobInv
  <2> QED BY <2>3, <2>4, <2>6, <2>7, BeginKeeps
<1>7. ASSUME NEW u \in Uris, BeginIngest(j, u)
      PROVE  JobInv'
  <2>0. PICK g : g = [f EXCEPT !.uri = u]
    OBVIOUS
  <2>a. g = [format |-> f.format, uri |-> u, revision |-> f.revision]
    BY <2>0, <1>4
  <2>b. g = [format |-> g.format, uri |-> g.uri, revision |-> g.revision]
    BY <2>a
  <2>1. PICK d : d = Call("ingest", "write", c.todo, c.template, c.name, c.mine, c.made, c.errors,
                          c.poisoned, g, c.asked)
    OBVIOUS
  <2>2. Begins(j, [c EXCEPT !.kind = "ingest", !.pc = "write", !.row = g])
    BY <1>1, <1>3, <1>7, <2>0, Zenon DEF BeginIngest
  <2>3. Begins(j, d)
    BY <2>1, <2>2, <2>b, <1>5, Zenon
  <2>4. Shape(d)
    BY <2>1, <2>b, CallShape
  <2>5. d.kind = "ingest" /\ d.pc = "write" /\ d.row = g
    BY <2>1 DEF Call
  <2>6. BulkSound(d, tables)
    BY <2>5 DEF BulkSound
  <2>7. FileSound(d)
    BY <2>5, <2>a, <1>3 DEF FileSound
  <2> QED BY <2>3, <2>4, <2>6, <2>7, BeginKeeps
<1> QED BY <1>6, <1>7

(* A job that deals with its next selection keeps the account. *)
LEMMA SelectionDone ==
    ASSUME JobInv, NEW j \in Jobs, NEW c, c = job[j], c.kind = "bulk",
           c.pc \in {"find", "name", "flush"}, NEW mine, NEW made, NEW errors,
           NEW poisoned \in BOOLEAN,
           {d.sel : d \in made} \cup errors = {d.sel : d \in c.made} \cup c.errors \cup {Head(c.todo)},
           poisoned = FALSE => made \subseteq tables \cup mine,
           Progress(j, After(c, mine, made, errors, poisoned)), TablesKept, FileKept, JobHistory
    PROVE  JobInv'
<1>1. Shape(c) /\ BulkSound(c, tables)
  BY DEF JobInv
<1>2. PICK d : d = After(c, mine, made, errors, poisoned)
  OBVIOUS
<1>3. Shape(d) /\ BulkSound(d, tables)
  BY <1>1, <1>2, AfterSound
<1>4. d.kind = "bulk"
  BY <1>2 DEF After
<1>5. FileSound(d)
  BY <1>4 DEF FileSound
<1>6. Active(j)
  BY DEF Active, Resting
<1>7. Progress(j, d)
  BY <1>2
<1>8. tables' = tables /\ crossed' = crossed
  BY DEF TablesKept, JobHistory
<1> QED BY <1>3, <1>4, <1>5, <1>6, <1>7, <1>8, CallKeeps

LEMMA FindKeeps ==
    ASSUME JobInv, NEW j \in Jobs, Find(j)
    PROVE  JobInv'
<1>1. PICK c : c = job[j]
  OBVIOUS
<1>2. /\ Shape(c) /\ BulkSound(c, tables) /\ c.kind = "bulk" /\ c.pc = "find"
      /\ TablesKept /\ FileKept /\ JobHistory
  BY <1>1 DEF JobInv, Find
<1>3. c.poisoned \in BOOLEAN
  BY <1>2 DEF BulkSound
<1>4. CASE c.poisoned
  <2>1. PICK e : e = c.errors \cup {Head(c.todo)}
    OBVIOUS
  <2>2. Progress(j, Next1([c EXCEPT !.errors = e]))
    BY <1>1, <1>4, <2>1, Zenon DEF Find
  <2>3. Progress(j, After(c, c.mine, c.made, e, c.poisoned))
    BY <2>2, <1>2, NextCalls, Zenon
  <2>4. {d.sel : d \in c.made} \cup e = {d.sel : d \in c.made} \cup c.errors \cup {Head(c.todo)}
    BY <2>1
  <2>5. c.poisoned = FALSE => c.made \subseteq tables \cup c.mine
    BY <1>4
  <2> QED BY <1>1, <1>2, <1>3, <2>3, <2>4, <2>5, SelectionDone
<1>5. ASSUME ~c.poisoned, NEW f \in {d \in Seen(j) : SameSelection(j, d)},
             Progress(j, Next1([job[j] EXCEPT !.made = @ \cup {f}]))
      PROVE  JobInv'
  <2>1. PICK m : m = c.made \cup {f}
    OBVIOUS
  <2>2. Progress(j, Next1([c EXCEPT !.made = m]))
    BY <1>1, <1>5, <2>1, Zenon
  <2>3. Progress(j, After(c, c.mine, m, c.errors, c.poisoned))
    BY <2>2, <1>2, NextCalls, Zenon
  <2>4. f \in tables \cup c.mine /\ f.sel = Head(c.todo)
    BY <1>1, <1>5 DEF Seen, SameSelection
  <2>5. {d.sel : d \in m} = {d.sel : d \in c.made} \cup {Head(c.todo)}
    BY <2>1, <2>4
  <2>6. {d.sel : d \in m} \cup c.errors = {d.sel : d \in c.made} \cup c.errors \cup {Head(c.todo)}
    BY <2>5
  <2>7. c.poisoned = FALSE => m \subseteq tables \cup c.mine
    BY <2>1, <2>4, <1>2 DEF BulkSound
  <2> QED BY <1>1, <1>2, <1>3, <2>3, <2>6, <2>7, SelectionDone
<1>6. CASE Progress(j, [job[j] EXCEPT !.pc = "name"])
  <2>1. PICK d : d = [c EXCEPT !.pc = "name"]
    OBVIOUS
  <2>2. d = Call(c.kind, "name", c.todo, c.template, c.name, c.mine, c.made, c.errors, c.poisoned,
                 c.row, c.asked)
    BY <1>2, <2>1, FieldUpdates
  <2>3. Shape(d) /\ d.kind = "bulk" /\ d.pc = "name"
    BY <1>2, <2>2, CallShape DEF Shape, Call
  <2>4. BulkSound(d, tables)
    BY <1>2, <2>2, <2>3 DEF BulkSound, Call
  <2>5. FileSound(d)
    BY <2>3 DEF FileSound
  <2>6. Active(j)
    BY <1>1, <1>2 DEF Active, Resting
  <2>7. Progress(j, d)
    BY <1>1, <1>6, <2>1
  <2>8. tables' = tables /\ crossed' = crossed
    BY <1>2 DEF TablesKept, JobHistory
  <2> QED BY <1>1, <1>2, <2>3, <2>4, <2>5, <2>6, <2>7, <2>8, CallKeeps
<1> QED BY <1>1, <1>4, <1>5, <1>6, Zenon DEF Find

LEMMA NameKeeps ==
    ASSUME JobInv, NEW j \in Jobs, Name(j)
    PROVE  JobInv'
<1>1. PICK c : c = job[j]
  OBVIOUS
<1>2. /\ Shape(c) /\ BulkSound(c, tables) /\ c.kind = "bulk" /\ c.pc = "name"
      /\ TablesKept /\ FileKept /\ JobHistory
  BY <1>1 DEF JobInv, Name
<1>3. c.poisoned \in BOOLEAN
  BY <1>2 DEF BulkSound
<1>4. CASE Progress(j, Next1([job[j] EXCEPT !.errors = @ \cup {Head(job[j].todo)}]))
  <2>1. PICK e : e = c.errors \cup {Head(c.todo)}
    OBVIOUS
  <2>2. Progress(j, Next1([c EXCEPT !.errors = e]))
    BY <1>1, <1>4, <2>1, Zenon
  <2>3. Progress(j, After(c, c.mine, c.made, e, c.poisoned))
    BY <2>2, <1>2, NextCalls, Zenon
  <2>4. {d.sel : d \in c.made} \cup e = {d.sel : d \in c.made} \cup c.errors \cup {Head(c.todo)}
    BY <2>1
  <2>5. c.poisoned = FALSE => c.made \subseteq tables \cup c.mine
    BY <1>2 DEF BulkSound
  <2> QED BY <1>1, <1>2, <1>3, <2>3, <2>4, <2>5, SelectionDone
<1>5. CASE Progress(j, [job[j] EXCEPT !.pc = "flush", !.name = UniqueName(j)])
  <2>0. PICK u : u = UniqueName(j)
    OBVIOUS
  <2>p. PICK p : p = "flush"
    OBVIOUS
  <2>1. PICK d : d = [c EXCEPT !.pc = p, !.name = u]
    OBVIOUS
  <2>a. [c EXCEPT !.pc = p, !.name = u]
          = Call(c.kind, p, c.todo, c.template, u, c.mine, c.made, c.errors, c.poisoned, c.row, c.asked)
    BY <1>2, NamedCall, Zenon
  <2>2. d = Call(c.kind, "flush", c.todo, c.template, u, c.mine, c.made, c.errors, c.poisoned,
                 c.row, c.asked)
    BY <2>p, <2>1, <2>a, Zenon
  <2>3. Shape(d) /\ d.kind = "bulk" /\ d.pc = "flush"
    BY <1>2, <2>2, CallShape DEF Shape, Call
  <2>4. BulkSound(d, tables)
    BY <1>2, <2>2, <2>3 DEF BulkSound, Call
  <2>5. FileSound(d)
    BY <2>3 DEF FileSound
  <2>6. Active(j)
    BY <1>1, <1>2 DEF Active, Resting
  <2>7. Progress(j, d)
    BY <1>1, <1>5, <2>0, <2>1, <2>p, Zenon
  <2>8. tables' = tables /\ crossed' = crossed
    BY <1>2 DEF TablesKept, JobHistory
  <2> QED BY <1>1, <1>2, <2>3, <2>4, <2>5, <2>6, <2>7, <2>8, CallKeeps
<1> QED BY <1>4, <1>5 DEF Name

(* A failed flush loses what was flushed and poisons the session. *)
LEMMA FlushFailedKeeps ==
    ASSUME JobInv, NEW j \in Jobs, job[j].kind = "bulk", job[j].pc = "flush",
           Progress(j, FlushFailed(j)), TablesKept, FileKept, JobHistory
    PROVE  JobInv'
<1>1. PICK c : c = job[j]
  OBVIOUS
<1>2. Shape(c) /\ c.kind = "bulk" /\ c.pc = "flush"
  BY <1>1 DEF JobInv
<1>3. PICK e : e = c.errors \cup {Head(c.todo)}
  OBVIOUS
<1>4. Progress(j, Next1([c EXCEPT !.errors = e, !.mine = {}, !.poisoned = TRUE]))
  BY <1>1, <1>3, Zenon DEF FlushFailed
<1>5. Progress(j, After(c, {}, c.made, e, TRUE))
  BY <1>4, <1>2, NextCalls, Zenon
<1>6. {d.sel : d \in c.made} \cup e = {d.sel : d \in c.made} \cup c.errors \cup {Head(c.todo)}
  BY <1>3
<1>7. PICK n : n = {}
  OBVIOUS
<1>8. Progress(j, After(c, n, c.made, e, TRUE))
  BY <1>5, <1>7
<1> QED BY <1>1, <1>2, <1>6, <1>8, SelectionDone

LEMMA FlushKeeps ==
    ASSUME JobInv, NEW j \in Jobs, Flush(j)
    PROVE  JobInv'
<1>1. PICK c : c = job[j]
  OBVIOUS
<1>2. /\ Shape(c) /\ BulkSound(c, tables) /\ c.kind = "bulk" /\ c.pc = "flush"
      /\ TablesKept /\ FileKept /\ JobHistory
  BY <1>1 DEF JobInv, Flush
<1>3. c.poisoned \in BOOLEAN
  BY <1>2 DEF BulkSound
<1>4. CASE Violates(j)
  <2>1. Progress(j, FlushFailed(j))
    BY <1>4, Zenon DEF Flush
  <2> QED BY <2>1, <1>1, <1>2, FlushFailedKeeps
<1>5. CASE ~Violates(j)
  <2>1. PICK f : f = Created(j)
    OBVIOUS
  <2>2. PICK mi : mi = c.mine \cup {f}
    OBVIOUS
  <2>3. PICK ma : ma = c.made \cup {f}
    OBVIOUS
  <2>4. Progress(j, Next1([c EXCEPT !.mine = mi, !.made = ma]))
    BY <1>1, <1>5, <2>1, <2>2, <2>3, Zenon DEF Flush
  <2>5. Progress(j, After(c, mi, ma, c.errors, c.poisoned))
    BY <2>4, <1>2, NextCalls, Zenon
  <2>6. f.sel = Head(c.todo)
    BY <2>1, <1>1 DEF Created
  <2>7. {d.sel : d \in ma} = {d.sel : d \in c.made} \cup {Head(c.todo)}
    BY <2>3, <2>6
  <2>8. {d.sel : d \in ma} \cup c.errors = {d.sel : d \in c.made} \cup c.errors \cup {Head(c.todo)}
    BY <2>7
  <2>9. c.poisoned = FALSE => ma \subseteq tables \cup mi
    BY <2>2, <2>3, <1>2 DEF BulkSound
  <2> QED BY <1>1, <1>2, <1>3, <2>5, <2>8, <2>9, SelectionDone
<1> QED BY <1>4, <1>5

(* A call that ends without a result. *)
LEMMA EndKeeps ==
    ASSUME JobInv, NEW j \in Jobs, Progress(j, [job[j] EXCEPT !.pc = "failed"]),
           TablesKept, FileKept, JobHistory
    PROVE  JobInv'
<1>1. PICK c : c = job[j]
  OBVIOUS
<1>2. Shape(c)
  BY <1>1 DEF JobInv
<1>3. PICK d : d = [c EXCEPT !.pc = "failed"]
  OBVIOUS
<1>4. d = Call(c.kind, "failed", c.todo, c.template, c.name, c.mine, c.made, c.errors, c.poisoned,
               c.row, c.asked)
  BY <1>2, <1>3, FieldUpdates
<1>5. Shape(d) /\ d.kind = c.kind /\ d.pc = "failed"
  BY <1>2, <1>4, CallShape DEF Shape, Call
<1>6. BulkSound(d, tables) /\ FileSound(d) /\ d.pc \in Resting
  BY <1>5 DEF BulkSound, FileSound, Resting
<1>7. Progress(j, d)
  BY <1>1, <1>3
<1>8. tables' = tables /\ crossed' = crossed
  BY DEF TablesKept, JobHistory
<1> QED BY <1>1, <1>5, <1>6, <1>7, <1>8, CallKeeps

LEMMA LockTimeoutKeeps ==
    ASSUME JobInv, NEW j \in Jobs, LockTimeout(j)
    PROVE  JobInv'
<1>1. TablesKept /\ FileKept /\ JobHistory /\ job[j].pc \in {"flush", "save"}
  BY DEF LockTimeout
<1>2. CASE job[j].kind = "bulk"
  <2>1. Progress(j, FlushFailed(j))
    BY <1>2, Zenon DEF LockTimeout
  <2>2. job[j].pc = "flush"
    <3>1. BulkSound(job[j], tables)
      BY DEF JobInv
    <3> QED BY <3>1, <1>1, <1>2 DEF BulkSound
  <2> QED BY <1>1, <1>2, <2>1, <2>2, FlushFailedKeeps
<1>3. CASE job[j].kind # "bulk"
  <2>1. Progress(j, [job[j] EXCEPT !.pc = "failed"])
    BY <1>3, Zenon DEF LockTimeout
  <2> QED BY <1>1, <2>1, EndKeeps
<1> QED BY <1>2, <1>3

LEMMA CommitBulkKeeps ==
    ASSUME JobInv, NEW j \in Jobs, CommitBulk(j)
    PROVE  JobInv'
<1>1. PICK c : c = job[j]
  OBVIOUS
<1>2. /\ Shape(c) /\ BulkSound(c, tables) /\ c.kind = "bulk" /\ c.pc = "commit"
      /\ FileKept /\ JobHistory
      /\ tables' = IF c.poisoned THEN tables ELSE tables \cup c.mine
  BY <1>1 DEF JobInv, CommitBulk
<1>3. PICK p : p = IF c.poisoned THEN "failed" ELSE "done"
  OBVIOUS
<1>4. PICK n : n = {}
  OBVIOUS
<1>5. PICK d : d = [c EXCEPT !.pc = p, !.mine = n]
  OBVIOUS
<1>6. [c EXCEPT !.pc = p, !.mine = n]
        = Call(c.kind, p, c.todo, c.template, c.name, n, c.made, c.errors, c.poisoned, c.row, c.asked)
  BY <1>2, EmptiedCall, Zenon
<1>7. d = Call(c.kind, p, c.todo, c.template, c.name, n, c.made, c.errors, c.poisoned, c.row, c.asked)
  BY <1>5, <1>6, Zenon
<1>8. Shape(d)
  BY <1>2, <1>7, CallShape DEF Shape
<1>9. /\ d.kind = "bulk" /\ d.pc = p /\ d.mine = {} /\ d.made = c.made /\ d.errors = c.errors
      /\ d.todo = c.todo /\ d.poisoned = c.poisoned /\ d.asked = c.asked
  BY <1>2, <1>4, <1>7 DEF Call
<1>10. c.poisoned \in BOOLEAN
  BY <1>2 DEF BulkSound
<1>11. BulkSound(d, tables')
  <2>1. CASE c.poisoned
    BY <2>1, <1>3, <1>9 DEF BulkSound
  <2>2. CASE ~c.poisoned
    <3>1. tables' = tables \cup c.mine /\ c.made \subseteq tables \cup c.mine /\ p = "done"
      BY <2>2, <1>2, <1>3, <1>10 DEF BulkSound
    <3>2. c.todo \in Seq(Selections) /\ c.todo = <<>> /\ c.poisoned = FALSE
          /\ c.asked = {e.sel : e \in c.made} \cup c.errors \cup {c.todo[i] : i \in DOMAIN c.todo}
      BY <2>2, <1>2, <1>10 DEF BulkSound
    <3>3. d.asked = {e.sel : e \in d.made} \cup d.errors \cup {d.todo[i] : i \in DOMAIN d.todo}
      BY <3>2, <1>9
    <3> QED BY <3>1, <3>2, <3>3, <1>9 DEF BulkSound
  <2> QED BY <2>1, <2>2
<1>12. FileSound(d) /\ d.pc \in Resting
  BY <1>3, <1>9 DEF FileSound, Resting
<1>13. Progress(j, d)
  BY <1>1, <1>3, <1>4, <1>5, Zenon DEF CommitBulk
<1>14. tables \subseteq tables' /\ crossed' = crossed
  BY <1>2 DEF JobHistory
<1> QED BY <1>1, <1>2, <1>8, <1>9, <1>11, <1>12, <1>13, <1>14, CallKeeps

LEMMA JobFailsKeeps ==
    ASSUME JobInv, NEW j \in Jobs, JobFails(j)
    PROVE  JobInv'
<1>1. PICK c : c = job[j]
  OBVIOUS
<1>2. Shape(c) /\ TablesKept /\ FileKept /\ JobHistory
  BY <1>1 DEF JobInv, JobFails
<1>3. PICK p : p = "failed"
  OBVIOUS
<1>4. PICK n : n = {}
  OBVIOUS
<1>5. PICK d : d = [c EXCEPT !.pc = p, !.mine = n]
  OBVIOUS
<1>6. [c EXCEPT !.pc = p, !.mine = n]
        = Call(c.kind, p, c.todo, c.template, c.name, n, c.made, c.errors, c.poisoned, c.row, c.asked)
  BY <1>2, EmptiedCall, Zenon
<1>7. d = Call(c.kind, p, c.todo, c.template, c.name, n, c.made, c.errors, c.poisoned, c.row, c.asked)
  BY <1>5, <1>6, Zenon
<1>8. Shape(d) /\ d.kind = c.kind /\ d.pc = "failed"
  BY <1>2, <1>3, <1>7, CallShape DEF Shape, Call
<1>9. BulkSound(d, tables) /\ FileSound(d) /\ d.pc \in Resting
  BY <1>8 DEF BulkSound, FileSound, Resting
<1>10. Progress(j, d)
  BY <1>1, <1>3, <1>4, <1>5, Zenon DEF JobFails
<1>11. tables' = tables /\ crossed' = crossed
  BY <1>2 DEF TablesKept, JobHistory
<1> QED BY <1>1, <1>2, <1>8, <1>9, <1>10, <1>11, CallKeeps

LEMMA CreateElsewhereKeeps ==
    ASSUME JobInv, NEW b \in Bases, CreateElsewhere(b)
    PROVE  JobInv'
<1>1. tables \subseteq tables' /\ job' = job /\ crossed' = crossed /\ FileKept
  BY DEF CreateElsewhere
<1>2. ASSUME NEW i \in Jobs
      PROVE  BulkSound(job[i], tables')
  <2>1. PICK c : c = job[i]
    OBVIOUS
  <2>2. BulkSound(c, tables)
    BY <2>1 DEF JobInv
  <2>3. BulkSound(c, tables')
    BY <2>2, <1>1 DEF BulkSound
  <2> QED BY <2>1, <2>3
<1>3. OverlapKnown' /\ (Crossing' <=> Crossing)
  BY <1>1 DEF JobInv, OverlapKnown, Active, Crossing
<1>4. \A i \in Jobs : FileSound(job[i])' <=> FileSound(job[i])
  BY <1>1 DEF FileSound, FileKept
<1> QED BY <1>1, <1>2, <1>3, <1>4 DEF JobInv, FileKept

LEMMA WriteParquetKeeps ==
    ASSUME JobInv, NEW j \in Jobs, WriteParquet(j)
    PROVE  JobInv'
<1>1. PICK c : c = job[j]
  OBVIOUS
<1>2. /\ Shape(c) /\ c.kind = "ingest" /\ c.pc = "write" /\ Active(j)
      /\ TablesKept /\ JobHistory /\ fileRow' = fileRow /\ revisions' = revisions
  BY <1>1 DEF JobInv, WriteParquet, Active, Resting
<1>3. CASE Progress(j, [job[j] EXCEPT !.pc = "failed"]) /\ UNCHANGED parquet
  <2>1. FileKept
    BY <1>2, <1>3 DEF FileKept
  <2> QED BY <1>2, <1>3, <2>1, EndKeeps
<1>4. CASE /\ Convertible(job[j].row)
           /\ parquet' = job[j].row.uri
           /\ Progress(j, [job[j] EXCEPT !.pc = "save", !.row.format = "parquet"])
  <2>1. PICK p : p = "save"
    OBVIOUS
  <2>2. PICK v : v = "parquet"
    OBVIOUS
  <2>3. PICK d : d = [c EXCEPT !.pc = p, !.row.format = v]
    OBVIOUS
  <2>4. [c EXCEPT !.pc = p, !.row.format = v]
          = Call(c.kind, p, c.todo, c.template, c.name, c.mine, c.made, c.errors, c.poisoned,
                 [format |-> v, uri |-> c.row.uri, revision |-> c.row.revision], c.asked)
    BY <1>2, ConvertedCall, Zenon
  <2>5. d = Call(c.kind, p, c.todo, c.template, c.name, c.mine, c.made, c.errors, c.poisoned,
                 [format |-> v, uri |-> c.row.uri, revision |-> c.row.revision], c.asked)
    BY <2>3, <2>4, Zenon
  <2>6. Shape(d) /\ d.kind = "ingest" /\ d.pc = "save" /\ d.row.uri = c.row.uri
    BY <1>2, <2>1, <2>5 DEF Shape, Call
  <2>7. BulkSound(d, tables')
    BY <2>6 DEF BulkSound
  <2>8. Progress(j, d)
    BY <1>1, <1>4, <2>1, <2>2, <2>3, Zenon
  <2>9. tables \subseteq tables' /\ crossed' = crossed /\ d.kind = job[j].kind
    BY <1>1, <1>2, <2>6 DEF TablesKept, JobHistory
  <2>10. /\ job' = [i \in Jobs |-> job'[i]]
         /\ job'[j] = d /\ \A i \in Jobs \ {j} : job'[i] = job[i]
         /\ \A i \in Jobs : Shape(job'[i]) /\ BulkSound(job'[i], tables')
         /\ OverlapKnown'
    BY <1>2, <2>6, <2>7, <2>8, <2>9, CallMoves
  <2>11. CASE Crossing
    <3>1. Crossing'
      BY <2>9, <2>11 DEF Crossing
    <3> QED BY <3>1, <2>10, <1>2 DEF JobInv
  <2>12. CASE ~Crossing
    <3>1. parquet' = c.row.uri /\ c.row.format = "csv"
      BY <1>1, <1>4 DEF Convertible
    <3>2. fileRow.format = "csv"
      BY <3>1, <1>1, <1>2, <2>12 DEF JobInv, FileSound
    <3>3. ASSUME NEW i \in Jobs
          PROVE  FileSound(job[i])'
      <4>1. CASE i = j
        BY <4>1, <2>6, <2>10, <3>1 DEF FileSound
      <4>2. CASE i # j
        <5>1. PICK e : e = job[i]
          OBVIOUS
        <5>2. e.kind \in {"ingest", "profile"} => e.pc \notin {"save", "commit"}
          <6> SUFFICES ASSUME e.kind \in {"ingest", "profile"}, e.pc \in {"save", "commit"}
                       PROVE  FALSE
            OBVIOUS
          <6>1. Active(i)
            BY <5>1 DEF Active, Resting
          <6>2. {e.kind, "ingest"} \in crossed
            BY <6>1, <5>1, <4>2, <1>1, <1>2 DEF JobInv, OverlapKnown
          <6>3. {e.kind, "ingest"} \in {{"ingest"}, {"ingest", "profile"}}
            <7>1. CASE e.kind = "ingest"
              BY <7>1
            <7>2. CASE e.kind = "profile"
              BY <7>2
            <7> QED BY <7>1, <7>2
          <6> QED BY <6>2, <6>3, <2>12 DEF Crossing
        <5>3. e.kind = "ingest" /\ e.pc = "write" => e.row.format = fileRow'.format
          BY <5>1, <1>2, <2>12 DEF JobInv, FileSound
        <5> QED BY <4>2, <5>1, <5>2, <5>3, <2>10 DEF FileSound
      <4> QED BY <4>1, <4>2
    <3>4. fileRow'.format # "parquet"
      BY <3>2, <1>2
    <3> QED BY <1>2, <2>10, <3>3, <3>4 DEF JobInv
  <2> QED BY <2>11, <2>12
<1> QED BY <1>3, <1>4, Zenon DEF WriteParquet

LEMMA SaveIngestKeeps ==
    ASSUME JobInv, NEW j \in Jobs, SaveIngest(j)
    PROVE  JobInv'
<1>1. PICK c : c = job[j]
  OBVIOUS
<1>2. /\ Shape(c) /\ c.kind = "ingest" /\ c.pc = "save" /\ Active(j)
      /\ TablesKept /\ FileKept /\ JobHistory
  BY <1>1 DEF JobInv, SaveIngest, Active, Resting
<1>3. PICK p : p = "commit"
  OBVIOUS
<1>4. PICK v : v = revisions + 1
  OBVIOUS
<1>5. PICK d : d = [c EXCEPT !.pc = p, !.row.revision = v]
  OBVIOUS
<1>6. [c EXCEPT !.pc = p, !.row.revision = v]
        = Call(c.kind, p, c.todo, c.template, c.name, c.mine, c.made, c.errors, c.poisoned,
               [format |-> c.row.format, uri |-> c.row.uri, revision |-> v], c.asked)
  BY <1>2, RevisedCall, Zenon
<1>7. d = Call(c.kind, p, c.todo, c.template, c.name, c.mine, c.made, c.errors, c.poisoned,
               [format |-> c.row.format, uri |-> c.row.uri, revision |-> v], c.asked)
  BY <1>5, <1>6, Zenon
<1>8. Shape(d) /\ d.kind = "ingest" /\ d.pc = "commit" /\ d.row.uri = c.row.uri
  BY <1>2, <1>3, <1>7 DEF Shape, Call
<1>9. BulkSound(d, tables)
  BY <1>8 DEF BulkSound
<1>10. Crossing \/ FileSound(d)
  BY <1>1, <1>2, <1>8 DEF JobInv, FileSound
<1>11. Progress(j, d)
  BY <1>1, <1>3, <1>4, <1>5, Zenon DEF SaveIngest
<1>12. tables' = tables /\ crossed' = crossed
  BY <1>2 DEF TablesKept, JobHistory
<1> QED BY <1>1, <1>2, <1>8, <1>9, <1>10, <1>11, <1>12, CallKeeps

LEMMA SaveProfileKeeps ==
    ASSUME JobInv, NEW j \in Jobs, SaveProfile(j)
    PROVE  JobInv'
<1>1. PICK c : c = job[j]
  OBVIOUS
<1>2. /\ Shape(c) /\ c.kind = "profile" /\ c.pc = "save" /\ Active(j)
      /\ TablesKept /\ FileKept /\ JobHistory
  BY <1>1 DEF JobInv, SaveProfile, Active, Resting
<1>3. PICK d : d = [c EXCEPT !.pc = "commit"]
  OBVIOUS
<1>4. d = Call(c.kind, "commit", c.todo, c.template, c.name, c.mine, c.made, c.errors, c.poisoned,
               c.row, c.asked)
  BY <1>2, <1>3, FieldUpdates
<1>5. Shape(d) /\ d.kind = "profile" /\ d.pc = "commit" /\ d.row = c.row
  BY <1>2, <1>4, CallShape DEF Shape, Call
<1>6. BulkSound(d, tables)
  BY <1>5 DEF BulkSound
<1>7. Crossing \/ FileSound(d)
  BY <1>1, <1>2, <1>5 DEF JobInv, FileSound
<1>8. Progress(j, d)
  BY <1>1, <1>3 DEF SaveProfile
<1>9. tables' = tables /\ crossed' = crossed
  BY <1>2 DEF TablesKept, JobHistory
<1> QED BY <1>1, <1>2, <1>5, <1>6, <1>7, <1>8, <1>9, CallKeeps

LEMMA CommitFileKeeps ==
    ASSUME JobInv, NEW j \in Jobs, CommitFile(j)
    PROVE  JobInv'
<1>1. PICK c : c = job[j]
  OBVIOUS
<1>2. /\ Shape(c) /\ c.kind \in {"ingest", "profile"} /\ c.pc = "commit" /\ Active(j)
      /\ TablesKept /\ JobHistory /\ fileRow' = c.row /\ parquet' = parquet
  BY <1>1 DEF JobInv, CommitFile, Saving, Active, Resting
<1>3. PICK d : d = [c EXCEPT !.pc = "done"]
  OBVIOUS
<1>4. d = Call(c.kind, "done", c.todo, c.template, c.name, c.mine, c.made, c.errors, c.poisoned,
               c.row, c.asked)
  BY <1>2, <1>3, FieldUpdates
<1>5. Shape(d) /\ d.kind = c.kind /\ d.pc = "done"
  BY <1>2, <1>4, CallShape DEF Shape, Call
<1>6. BulkSound(d, tables')
  BY <1>2, <1>5 DEF BulkSound
<1>7. Progress(j, d)
  BY <1>1, <1>3 DEF CommitFile
<1>8. tables \subseteq tables' /\ crossed' = crossed
  BY <1>2 DEF TablesKept, JobHistory
<1>9. /\ job' = [i \in Jobs |-> job'[i]]
      /\ job'[j] = d /\ \A i \in Jobs \ {j} : job'[i] = job[i]
      /\ \A i \in Jobs : Shape(job'[i]) /\ BulkSound(job'[i], tables')
      /\ OverlapKnown'
  BY <1>1, <1>2, <1>5, <1>6, <1>7, <1>8, CallMoves
<1>10. fileRow' = [format |-> fileRow.format, uri |-> fileRow.uri, revision |-> fileRow.revision]'
  BY <1>2 DEF Shape
<1>11. CASE Crossing
  <2>1. Crossing'
    BY <1>8, <1>11 DEF Crossing
  <2> QED BY <2>1, <1>9, <1>10 DEF JobInv
<1>12. CASE ~Crossing
  <2>1. FileSound(c)
    BY <1>1, <1>12 DEF JobInv
  <2>2. fileRow'.format = "parquet" => parquet' = fileRow'.uri
    BY <2>1, <1>2 DEF FileSound
  <2>3. ASSUME NEW i \in Jobs
        PROVE  FileSound(job[i])'
    <3>1. CASE i = j
      BY <3>1, <1>5, <1>9 DEF FileSound
    <3>2. CASE i # j
      <4>1. PICK e : e = job[i]
        OBVIOUS
      <4>2. FileSound(e)
        BY <4>1, <1>12 DEF JobInv
      <4>3. ~(e.kind = "ingest" /\ e.pc = "write")
        <5> SUFFICES ASSUME e.kind = "ingest", e.pc = "write"
                     PROVE  FALSE
          OBVIOUS
        <5>1. Active(i)
          BY <4>1 DEF Active, Resting
        <5>2. {e.kind, c.kind} \in crossed
          BY <5>1, <4>1, <3>2, <1>1, <1>2 DEF JobInv, OverlapKnown
        <5>3. {e.kind, c.kind} \in {{"ingest"}, {"ingest", "profile"}}
          <6>1. CASE c.kind = "ingest"
            BY <6>1
          <6>2. CASE c.kind = "profile"
            BY <6>2
          <6> QED BY <6>1, <6>2, <1>2
        <5> QED BY <5>2, <5>3, <1>12 DEF Crossing
      <4>4. e.kind = "ingest" /\ e.pc \in {"save", "commit"} => parquet' = e.row.uri
        BY <4>2, <1>2 DEF FileSound
      <4>5. e.kind = "profile" /\ e.pc \in {"save", "commit"} =>
              (e.row.format = "parquet" => parquet' = e.row.uri)
        BY <4>2, <1>2 DEF FileSound
      <4> QED BY <3>2, <4>1, <4>3, <4>4, <4>5, <1>9 DEF FileSound
    <3> QED BY <3>1, <3>2
  <2> QED BY <1>9, <1>10, <2>2, <2>3 DEF JobInv
<1> QED BY <1>11, <1>12

LEMMA InitJobs == JobInit => JobInv
<1> SUFFICES ASSUME JobInit PROVE JobInv
  OBVIOUS
<1>1. PICK c : c = Rest
  OBVIOUS
<1>2. Shape(c) /\ c.kind = "none" /\ c.pc = "idle"
  BY <1>1 DEF Rest, Shape
<1>3. job = [j \in Jobs |-> c]
  BY <1>1 DEF JobInit
<1>4. \A j \in Jobs : job[j] = c
  BY <1>3
<1>5. BulkSound(c, tables) /\ FileSound(c)
  BY <1>2 DEF BulkSound, FileSound
<1>6. OverlapKnown
  BY <1>2, <1>4 DEF OverlapKnown, Active, Resting
<1>7. fileRow \in [format : {"csv"}, uri : Uris, revision : {0}]
  BY DEF JobInit
<1>8. /\ fileRow = [format |-> fileRow.format, uri |-> fileRow.uri, revision |-> fileRow.revision]
      /\ fileRow.format = "csv"
  BY <1>7
<1> QED BY <1>2, <1>3, <1>4, <1>5, <1>6, <1>8 DEF JobInv

LEMMA NextJobs ==
    ASSUME JobInv, [JobNext]_jobVars
    PROVE  JobInv'
<1>1. CASE UNCHANGED jobVars
  BY <1>1 DEF jobVars, JobInv, OverlapKnown, Active, Crossing, FileSound
<1>2. CASE JobNext
  <2>1. ASSUME NEW j \in Jobs, NEW t \in Templates, NEW r \in Requests, BeginBulk(j, t, r)
        PROVE  JobInv'
    BY <2>1, BeginBulkKeeps
  <2>2. ASSUME NEW j \in Jobs, BeginProfile(j) \/ \E u \in Uris : BeginIngest(j, u)
        PROVE  JobInv'
    BY <2>2, BeginOnFileKeeps
  <2>3. ASSUME NEW j \in Jobs, JobStep(j)
        PROVE  JobInv'
    BY <2>3, FindKeeps, NameKeeps, FlushKeeps, LockTimeoutKeeps, CommitBulkKeeps, WriteParquetKeeps,
       SaveIngestKeeps, SaveProfileKeeps, CommitFileKeeps DEF JobStep
  <2>4. ASSUME NEW j \in Jobs, JobFails(j)
        PROVE  JobInv'
    BY <2>4, JobFailsKeeps
  <2>5. ASSUME NEW b \in Bases, CreateElsewhere(b)
        PROVE  JobInv'
    BY <2>5, CreateElsewhereKeeps
  <2> QED BY <1>2, <2>1, <2>2, <2>3, <2>4, <2>5 DEF JobNext
<1> QED BY <1>1, <1>2

(* A bulk creation that returns accounts for each of its selections, as a  *)
(* dataset that is stored or as an error, and a converted dataset's file   *)
(* was made of the file its row names unless jobs on it overlapped         *)
(* (DatasetQueryService._run_bulk_create, _run_csv_ingest, _run_profile).  *)
THEOREM JobsReportTruly == JobSpec => []JobsTrue
<1>1. JobInv => JobsTrue
  <2> SUFFICES ASSUME JobInv PROVE JobsTrue
    OBVIOUS
  <2>1. ASSUME NEW j \in Jobs, job[j].kind = "bulk", job[j].pc = "done"
        PROVE  /\ job[j].made \subseteq tables
               /\ job[j].asked = {d.sel : d \in job[j].made} \cup job[j].errors
    <3>1. PICK c : c = job[j]
      OBVIOUS
    <3>2. /\ c.todo = <<>> /\ c.mine = {} /\ c.made \subseteq tables \cup c.mine
          /\ c.asked = {d.sel : d \in c.made} \cup c.errors \cup {c.todo[i] : i \in DOMAIN c.todo}
      BY <3>1, <2>1 DEF JobInv, BulkSound
    <3>3. {c.todo[i] : i \in DOMAIN c.todo} = {}
      BY <3>2
    <3> QED BY <3>1, <3>2, <3>3
  <2>2. ParquetOfRow
    BY DEF JobInv, Crossing, ParquetOfRow
  <2> QED BY <2>1, <2>2 DEF JobsTrue, BulkReportTrue
<1>2. JobInit /\ [][JobNext]_jobVars => []JobInv
  BY InitJobs, NextJobs, PTL
<1> QED BY <1>1, <1>2, PTL DEF JobSpec

-----------------------------------------------------------------------------
(* FederationPlan                                                          *)

LEMMA QueryFields ==
    ASSUME NEW q \in PlanQueries
    PROVE  /\ q.join \in {"inner", "left", "right", "full", "cross"}
           /\ q.op \in {"one", "and", "or"} /\ q.left \in Predicates /\ q.right \in Predicates
           /\ q.again \in Aliases \cup {"no"} /\ q.select \subseteq ColumnRefs
  BY QueriesAssumption DEF QueryShapes

(* A row of the result passes each predicate of the conjunction. *)
LEMMA WherePasses ==
    ASSUME NEW q \in PlanQueries, NEW p, Where(q, p), NEW f \in SplitConjunctive(q)
    PROVE  True(f, p)
<1>1. CASE q.op = "one"
  BY <1>1 DEF Where, SplitConjunctive
<1>2. CASE q.op = "and"
  BY <1>2 DEF Where, SplitConjunctive
<1>3. CASE q.op = "or"
  <2>1. True(q.left, p) \/ True(q.right, p)
    BY <1>3 DEF Where
  <2>2. f.holds = q.left.holds \cup q.right.holds
    BY <1>3 DEF SplitConjunctive, Or
  <2> QED BY <2>1, <2>2 DEF True
<1> QED BY <1>1, <1>2, <1>3, QueryFields

(* Nor does a conjunct depend on a table of which it has no column. *)
LEMMA Independent ==
    ASSUME NEW q \in PlanQueries, NEW f \in SplitConjunctive(q),
           NEW x \in Values \cup {Null}, NEW y \in Values \cup {Null}, NEW z \in Values \cup {Null},
           <<x, y>> \in f.holds
    PROVE  /\ Mentioned(f) \subseteq {"a"} => <<x, z>> \in f.holds
           /\ Mentioned(f) \subseteq {"b"} => <<z, y>> \in f.holds
<1>1. ASSUME NEW g \in {q.left, q.right}, <<x, y>> \in g.holds
      PROVE  /\ Mentioned(g) \subseteq {"a"} => <<x, z>> \in g.holds
             /\ Mentioned(g) \subseteq {"b"} => <<z, y>> \in g.holds
  BY <1>1, PredicatesAssumption
<1>2. CASE f \in {q.left, q.right}
  BY <1>1, <1>2
<1>3. CASE q.op = "or" /\ f = Or(q.left, q.right)
  <2>1. /\ f.holds = q.left.holds \cup q.right.holds
        /\ Mentioned(f) = Mentioned(q.left) \cup Mentioned(q.right)
    BY <1>3 DEF Or, Mentioned
  <2>2. PICK g \in {q.left, q.right} : <<x, y>> \in g.holds
    BY <2>1
  <2>3. g.holds \subseteq f.holds /\ Mentioned(g) \subseteq Mentioned(f)
    BY <2>1, <2>2
  <2>4. /\ Mentioned(g) \subseteq {"a"} => <<x, z>> \in g.holds
        /\ Mentioned(g) \subseteq {"b"} => <<z, y>> \in g.holds
    BY <2>2, <1>1
  <2> QED BY <2>3, <2>4
<1> QED BY <1>2, <1>3, QueryFields DEF SplitConjunctive

\* The rows of the table of x that its scan returns.
Scanned(q, t, x) ==
    {r \in t[x] : \A p \in PushedFilters(q, x) :
        True(p, IF x = "a" THEN <<r, NullRow>> ELSE <<NullRow, r>>)}

\* The filters of x's scan mention nothing else.
Scannable(q, x) == \A p \in PushedFilters(q, x) : Mentioned(p) \subseteq {x}

(* The values of a row are in the domain of the predicates. *)
LEMMA RowValues ==
    ASSUME NEW t \in [Aliases -> PlanTables], NEW x \in Aliases, NEW r \in t[x]
    PROVE  r.v \in Values \cup {Null}
<1>1. t[x] \in PlanTables
  OBVIOUS
<1> QED BY <1>1, TablesAssumption

(* A scan keeps each row of its table that appears in the result. *)
LEMMA ScanKeeps ==
    ASSUME NEW q \in PlanQueries, NEW t \in [Aliases -> PlanTables], NEW p, Where(q, p),
           p = <<p[1], p[2]>>,
           p[1].v \in Values \cup {Null}, p[2].v \in Values \cup {Null}
    PROVE  /\ Scannable(q, "a") /\ p[1] \in t["a"] => p[1] \in Scanned(q, t, "a")
           /\ Scannable(q, "b") /\ p[2] \in t["b"] => p[2] \in Scanned(q, t, "b")
<1>1. ASSUME Scannable(q, "a"), p[1] \in t["a"]
      PROVE  p[1] \in Scanned(q, t, "a")
  <2> SUFFICES ASSUME NEW f \in PushedFilters(q, "a")
               PROVE  <<p[1].v, Null>> \in f.holds
    BY <1>1 DEF Scanned, True, NullRow
  <2>1. f \in SplitConjunctive(q) /\ Mentioned(f) \subseteq {"a"}
    BY <1>1 DEF PushedFilters, Scannable
  <2>2. <<p[1].v, p[2].v>> \in f.holds
    BY <2>1, WherePasses DEF True
  <2> QED BY <2>1, <2>2, Independent
<1>2. ASSUME Scannable(q, "b"), p[2] \in t["b"]
      PROVE  p[2] \in Scanned(q, t, "b")
  <2> SUFFICES ASSUME NEW f \in PushedFilters(q, "b")
               PROVE  <<Null, p[2].v>> \in f.holds
    BY <1>2 DEF Scanned, True, NullRow
  <2>1. f \in SplitConjunctive(q) /\ Mentioned(f) \subseteq {"b"}
    BY <1>2 DEF PushedFilters, Scannable
  <2>2. <<p[1].v, p[2].v>> \in f.holds
    BY <2>1, WherePasses DEF True
  <2> QED BY <2>1, <2>2, Independent
<1> QED BY <1>1, <1>2

\* The pairs with equal keys, and the rows without one.
Match(kind, a, b) == {p \in a \X b : kind = "cross" \/ p[1].k = p[2].k}
LoneA(kind, a, b) == {<<r, NullRow>> : r \in {x \in a : \A p \in Match(kind, a, b) : p[1] # x}}
LoneB(kind, a, b) == {<<NullRow, r>> : r \in {x \in b : \A p \in Match(kind, a, b) : p[2] # x}}

LEMMA JoinParts ==
    ASSUME NEW kind, NEW a, NEW b, NEW p
    PROVE  p \in Joined(kind, a, b) <=>
              \/ p \in Match(kind, a, b)
              \/ kind \in {"left", "full"} /\ p \in LoneA(kind, a, b)
              \/ kind \in {"right", "full"} /\ p \in LoneB(kind, a, b)
  BY Zenon DEF Joined, Match, LoneA, LoneB

(* No row of the result is lost when both sides of a join are scanned. *)
LEMMA NoRowLost ==
    ASSUME NEW q \in PlanQueries, NEW t \in [Aliases -> PlanTables], \A x \in Aliases : Scannable(q, x),
           NEW p \in Joined(q.join, t["a"], t["b"]), Where(q, p)
    PROVE  p \in Joined(q.join, Scanned(q, t, "a"), Scanned(q, t, "b"))
<1> DEFINE SA == Scanned(q, t, "a")
           SB == Scanned(q, t, "b")
<1>0. Scannable(q, "a") /\ Scannable(q, "b")
  BY DEF Aliases
<1>1. SA \subseteq t["a"] /\ SB \subseteq t["b"] /\ Match(q.join, SA, SB) \subseteq Match(q.join, t["a"], t["b"])
  BY DEF Scanned, Match
<1>2. /\ \A r \in t["a"] : r.v \in Values \cup {Null}
      /\ \A r \in t["b"] : r.v \in Values \cup {Null}
  BY RowValues DEF Aliases
<1>3. NullRow.v \in Values \cup {Null}
  BY DEF NullRow
<1> HIDE DEF SA, SB
<1>4. CASE p \in Match(q.join, t["a"], t["b"])
  <2>1. p = <<p[1], p[2]>> /\ p[1] \in t["a"] /\ p[2] \in t["b"] /\ (q.join = "cross" \/ p[1].k = p[2].k)
    BY <1>4 DEF Match
  <2>2. p[1] \in SA /\ p[2] \in SB
    BY <2>1, <1>0, <1>2, ScanKeeps DEF SA, SB
  <2>3. p \in Match(q.join, SA, SB)
    BY <2>1, <2>2 DEF Match
  <2> QED BY <2>3, JoinParts DEF SA, SB
<1>5. CASE q.join \in {"left", "full"} /\ p \in LoneA(q.join, t["a"], t["b"])
  <2>1. PICK r \in t["a"] : p = <<r, NullRow>> /\ \A m \in Match(q.join, t["a"], t["b"]) : m[1] # r
    BY <1>5 DEF LoneA
  <2>2. p[1] = r /\ p[2] = NullRow /\ p = <<p[1], p[2]>>
    BY <2>1
  <2>3. r \in SA
    BY <2>2, <1>0, <1>2, <1>3, ScanKeeps DEF SA
  <2>4. p \in LoneA(q.join, SA, SB)
    BY <2>1, <2>3, <1>1 DEF LoneA
  <2> QED BY <2>4, <1>5, JoinParts DEF SA, SB
<1>6. CASE q.join \in {"right", "full"} /\ p \in LoneB(q.join, t["a"], t["b"])
  <2>1. PICK r \in t["b"] : p = <<NullRow, r>> /\ \A m \in Match(q.join, t["a"], t["b"]) : m[2] # r
    BY <1>6 DEF LoneB
  <2>2. p[1] = NullRow /\ p[2] = r /\ p = <<p[1], p[2]>>
    BY <2>1
  <2>3. r \in SB
    BY <2>2, <1>0, <1>2, <1>3, ScanKeeps DEF SB
  <2>4. p \in LoneB(q.join, SA, SB)
    BY <2>1, <2>3, <1>1 DEF LoneB
  <2> QED BY <2>4, <1>6, JoinParts DEF SA, SB
<1> QED BY <1>4, <1>5, <1>6, JoinParts

(* Nor is one added, but where NULLs pass a filter below an outer join. *)
LEMMA NoRowAdded ==
    ASSUME NEW q \in PlanQueries, NEW t \in [Aliases -> PlanTables], \A x \in Aliases : Scannable(q, x),
           ~NullsPass(q),
           NEW p \in Joined(q.join, Scanned(q, t, "a"), Scanned(q, t, "b")), Where(q, p)
    PROVE  p \in Joined(q.join, t["a"], t["b"])
<1> DEFINE SA == Scanned(q, t, "a")
           SB == Scanned(q, t, "b")
<1>1. SA \subseteq t["a"] /\ SB \subseteq t["b"] /\ Match(q.join, SA, SB) \subseteq Match(q.join, t["a"], t["b"])
  BY DEF Scanned, Match
<1>2. /\ \A r \in t["a"] : r.v \in Values \cup {Null}
      /\ \A r \in t["b"] : r.v \in Values \cup {Null}
  BY RowValues DEF Aliases
<1>3. NullRow.v = Null /\ Null \in Values \cup {Null}
  BY DEF NullRow
<1>a. PushedFilters(q, "a") = {} => SA = t["a"]
  BY DEF Scanned
<1>b. PushedFilters(q, "b") = {} => SB = t["b"]
  BY DEF Scanned
<1> HIDE DEF SA, SB
<1>4. CASE p \in Match(q.join, SA, SB)
  BY <1>1, <1>4, JoinParts
<1>5. CASE q.join \in {"left", "full"} /\ p \in LoneA(q.join, SA, SB)
  <2>1. PICK r \in SA : p = <<r, NullRow>> /\ \A m \in Match(q.join, SA, SB) : m[1] # r
    BY <1>5 DEF LoneA
  <2>2. PushedFilters(q, "b") = {}
    <3> SUFFICES ASSUME NEW f \in PushedFilters(q, "b")
                 PROVE  FALSE
      OBVIOUS
    <3>1. f \in SplitConjunctive(q) /\ Mentioned(f) \subseteq {"b"}
      BY DEF PushedFilters, Scannable, Aliases
    <3>2. <<r.v, Null>> \in f.holds
      <4>1. True(f, p)
        BY <3>1, WherePasses
      <4>2. p[1] = r /\ p[2] = NullRow
        BY <2>1
      <4> QED BY <4>1, <4>2, <1>3 DEF True
    <3>3. <<Null, Null>> \in f.holds
      BY <3>1, <3>2, <1>1, <1>2, <1>3, <2>1, Independent
    <3>4. Nullable(q, "b")
      BY <1>5 DEF Nullable
    <3> QED BY <3>3, <3>4 DEF NullsPass, Aliases
  <2>3. \A m \in Match(q.join, t["a"], t["b"]) : m[1] # r
    <3> SUFFICES ASSUME NEW m \in Match(q.join, t["a"], t["b"]), m[1] = r
                 PROVE  FALSE
      OBVIOUS
    <3>1. m = <<m[1], m[2]>> /\ m[1] \in SA /\ m[2] \in SB /\ (q.join = "cross" \/ m[1].k = m[2].k)
      BY <2>1, <2>2, <1>b DEF Match
    <3> QED BY <3>1, <2>1 DEF Match
  <2>4. p \in LoneA(q.join, t["a"], t["b"])
    BY <2>1, <2>3, <1>1 DEF LoneA
  <2> QED BY <2>4, <1>5, JoinParts
<1>6. CASE q.join \in {"right", "full"} /\ p \in LoneB(q.join, SA, SB)
  <2>1. PICK r \in SB : p = <<NullRow, r>> /\ \A m \in Match(q.join, SA, SB) : m[2] # r
    BY <1>6 DEF LoneB
  <2>2. PushedFilters(q, "a") = {}
    <3> SUFFICES ASSUME NEW f \in PushedFilters(q, "a")
                 PROVE  FALSE
      OBVIOUS
    <3>1. f \in SplitConjunctive(q) /\ Mentioned(f) \subseteq {"a"}
      BY DEF PushedFilters, Scannable, Aliases
    <3>2. <<Null, r.v>> \in f.holds
      <4>1. True(f, p)
        BY <3>1, WherePasses
      <4>2. p[1] = NullRow /\ p[2] = r
        BY <2>1
      <4> QED BY <4>1, <4>2, <1>3 DEF True
    <3>3. <<Null, Null>> \in f.holds
      BY <3>1, <3>2, <1>1, <1>2, <1>3, <2>1, Independent
    <3>4. Nullable(q, "a")
      BY <1>6 DEF Nullable
    <3> QED BY <3>3, <3>4 DEF NullsPass, Aliases
  <2>3. \A m \in Match(q.join, t["a"], t["b"]) : m[2] # r
    <3> SUFFICES ASSUME NEW m \in Match(q.join, t["a"], t["b"]), m[2] = r
                 PROVE  FALSE
      OBVIOUS
    <3>1. m = <<m[1], m[2]>> /\ m[1] \in SA /\ m[2] \in SB /\ (q.join = "cross" \/ m[1].k = m[2].k)
      BY <2>1, <2>2, <1>a DEF Match
    <3> QED BY <3>1, <2>1 DEF Match
  <2>4. p \in LoneB(q.join, t["a"], t["b"])
    BY <2>1, <2>3, <1>1 DEF LoneB
  <2> QED BY <2>4, <1>6, JoinParts
<1> QED BY <1>4, <1>5, <1>6, JoinParts DEF SA, SB

(* A column that no scan returns is written behind the table's name. *)
LEMMA ColumnsReturned ==
    ASSUME NEW q \in PlanQueries, NEW x \in Aliases, NEW c \in ReadColumns(q, x),
           c \notin RequiredColumns(q, x)
    PROVE  \/ \E r \in q.select : r.by = "name"
           \/ q.left.names # {} \/ q.right.names # {}
<1> SUFFICES ASSUME q.left.names = {}, q.right.names = {}
             PROVE  \E r \in q.select : r.by = "name"
  OBVIOUS
<1>1. c \in Columns
  BY DEF ReadColumns
<1>2. /\ ~q.star /\ ~HasUnqualified(q)
      /\ ~(c = "k" /\ q.join # "cross")
      /\ ~(c = "v" /\ \E p \in SplitConjunctive(q) : x \in p.refs)
      /\ ~\E r \in q.select : r.of = x /\ r.col = c /\ r.by = "alias"
  BY <1>1 DEF RequiredColumns
<1>3. ASSUME NEW p \in SplitConjunctive(q)
      PROVE  p.names = {} /\ p.bare = {}
  <2>1. p.names = {}
    BY <1>3, QueryFields DEF SplitConjunctive, Or
  <2>2. p.bare = {}
    BY <1>2, <1>3 DEF HasUnqualified
  <2> QED BY <2>1, <2>2
<1>4. ~(c = "v" /\ \E p \in SplitConjunctive(q) : x \in Mentioned(p))
  BY <1>2, <1>3 DEF Mentioned
<1>5. PICK r \in q.select : r.of = x /\ r.col = c
  BY <1>2, <1>4 DEF ReadColumns
<1>6. r.by \in {"alias", "name", "none"} /\ r.by # "alias" /\ r.by # "none"
  BY <1>2, <1>5, QueryFields DEF ColumnRefs, HasUnqualified
<1> QED BY <1>5, <1>6

\* The plan is that of the query, and the scans that have run could.
PlanInv ==
    /\ query \in PlanQueries /\ table \in [Aliases -> PlanTables]
    /\ stages.made => \A x \in Aliases : /\ stages.filters[x] = PushedFilters(query, x)
                                         /\ stages.columns[x] = RequiredColumns(query, x)
    /\ answer = NoAnswer => \A x \in scanned : Scannable(query, x)
    /\ PlanComputesQuery

LEMMA InitPlan == PlanInit => PlanInv
  BY DEF PlanInit, PlanInv, NoStages, NoAnswer, PlanComputesQuery

LEMMA RemoteScanKeeps ==
    ASSUME PlanInv, NEW x \in Aliases, RemoteScan(x)
    PROVE  PlanInv'
<1>1. /\ query' = query /\ table' = table /\ stages' = stages /\ stages.made
      /\ stages.filters[x] = PushedFilters(query, x) /\ scanned' = scanned \cup {x}
      /\ answer = NoAnswer
      /\ answer' = IF \E p \in stages.filters[x] : ~(Mentioned(p) \subseteq {x})
                   THEN [NoAnswer EXCEPT !.state = "error"] ELSE NoAnswer
  BY DEF RemoteScan, PlanInv
<1>2. CASE Scannable(query, x)
  <2>1. answer' = NoAnswer
    BY <1>1, <1>2, Zenon DEF Scannable
  <2>2. \A y \in scanned' : Scannable(query, y)
    BY <1>1, <1>2 DEF PlanInv
  <2>3. answer'.state = "none"
    BY <2>1 DEF NoAnswer
  <2>4. PlanComputesQuery'
    BY <2>3 DEF PlanComputesQuery
  <2>5. \A y \in scanned' : Scannable(query', y)
    BY <2>2, <1>1
  <2> QED BY <1>1, <2>4, <2>5 DEF PlanInv
<1>3. CASE ~Scannable(query, x)
  <2>1. answer' = [NoAnswer EXCEPT !.state = "error"]
    BY <1>1, <1>3, Zenon DEF Scannable
  <2>2. answer'.state = "error" /\ answer' # NoAnswer
    BY <2>1 DEF NoAnswer
  <2>3. PICK p \in PushedFilters(query, x) : ~(Mentioned(p) \subseteq {x})
    BY <1>3 DEF Scannable
  <2>4. p \in SplitConjunctive(query) /\ p.refs = {x}
    BY <2>3 DEF PushedFilters
  <2>5. \/ ~(p.bare \subseteq {x})
        \/ query.left.names # {} \/ query.right.names # {}
    <3>1. p.names # {} => query.left.names # {} \/ query.right.names # {}
      BY <2>4, QueryFields DEF SplitConjunctive, Or, PlanInv
    <3>2. p.names # {} \/ ~(p.bare \subseteq {x})
      BY <2>3, <2>4 DEF Mentioned
    <3> QED BY <3>1, <3>2
  <2>6. PlanComputesQuery'
    BY <1>1, <2>2, <2>3, <2>5 DEF PlanComputesQuery
  <2> QED BY <1>1, <2>2, <2>6 DEF PlanInv
<1> QED BY <1>2, <1>3

LEMMA LocalStageKeeps ==
    ASSUME PlanInv, LocalStage
    PROVE  PlanInv'
<1>1. PICK q \in PlanQueries : q = query
  BY DEF PlanInv
<1>2. PICK t \in [Aliases -> PlanTables] : t = table
  BY DEF PlanInv
<1>3. /\ query' = q /\ table' = t /\ stages' = stages /\ scanned' = scanned /\ answer = NoAnswer
      /\ \A x \in Aliases : /\ stages.filters[x] = PushedFilters(q, x)
                            /\ stages.columns[x] = RequiredColumns(q, x)
                            /\ Scannable(q, x)
  BY <1>1, <1>2 DEF LocalStage, PlanInv
<1>4. \A x \in Aliases : ScanRows(x) = Scanned(q, t, x)
  BY <1>2, <1>3 DEF ScanRows, Scanned
<1>5. answer' # NoAnswer /\ PlanComputesQuery' => PlanInv'
  BY <1>1, <1>2, <1>3 DEF PlanInv
<1>6. CASE \E x \in Aliases : ~(ReadColumns(q, x) \subseteq RequiredColumns(q, x))
  <2>1. answer' = [NoAnswer EXCEPT !.state = "error"]
    BY <1>1, <1>3, <1>6 DEF LocalStage
  <2>2. answer'.state = "error" /\ answer' # NoAnswer
    BY <2>1 DEF NoAnswer
  <2>3. \/ \E r \in q.select : r.by = "name"
        \/ q.left.names # {} \/ q.right.names # {}
    BY <1>6, ColumnsReturned
  <2>4. PlanComputesQuery'
    BY <2>2, <2>3, <1>3 DEF PlanComputesQuery
  <2> QED BY <2>2, <2>4, <1>5
<1>7. CASE ~\E x \in Aliases : ~(ReadColumns(q, x) \subseteq RequiredColumns(q, x))
  <2>1. PICK s : s = [x \in Aliases |-> Scanned(q, t, x)]
    OBVIOUS
  <2>2. answer' = Evaluate(q, s)
    <3>1. s = [x \in Aliases |-> ScanRows(x)]
      BY <1>4, <2>1
    <3> QED BY <1>1, <1>3, <1>7, <3>1 DEF LocalStage
  <2>3. PICK e : e = answer'
    OBVIOUS
  <2>4. e = Evaluate(q, s)
    BY <2>2, <2>3
  <2>5. s["a"] = Scanned(q, t, "a") /\ s["b"] = Scanned(q, t, "b")
    BY <2>1 DEF Aliases
  <2>6. /\ e.state = "rows"
        /\ e.rows = {p \in Joined(q.join, Scanned(q, t, "a"), Scanned(q, t, "b")) : Where(q, p)}
        /\ e.again = IF q.again = "no" THEN {} ELSE s[q.again]
    BY <2>4, <2>5 DEF Evaluate
  <2>7. PICK w : w = Evaluate(q, t)
    OBVIOUS
  <2>8. /\ w.rows = {p \in Joined(q.join, t["a"], t["b"]) : Where(q, p)}
        /\ w.again = IF q.again = "no" THEN {} ELSE t[q.again]
    BY <2>7 DEF Evaluate
  <2>9. w.rows \subseteq e.rows
    BY <2>6, <2>8, <1>3, NoRowLost
  <2>10. e.rows = w.rows \/ NullsPass(q)
    BY <2>6, <2>8, <2>9, <1>3, NoRowAdded
  <2>11. e.again = w.again \/ PushedFilters(q, q.again) # {}
    <3> SUFFICES ASSUME q.again # "no", PushedFilters(q, q.again) = {}
                 PROVE  s[q.again] = t[q.again]
      BY <2>6, <2>8
    <3>1. q.again \in Aliases
      BY QueryFields
    <3> QED BY <3>1, <2>1 DEF Scanned
  <2>12. e # NoAnswer
    BY <2>6 DEF NoAnswer
  <2>13. PlanComputesQuery'
    BY <2>3, <2>6, <2>7, <2>9, <2>10, <2>11, <1>3 DEF PlanComputesQuery
  <2> QED BY <2>3, <2>12, <2>13, <1>5
<1> QED BY <1>6, <1>7

LEMMA NextPlan ==
    ASSUME PlanInv, [PlanNext]_planVars
    PROVE  PlanInv'
<1>1. CASE UNCHANGED planVars
  BY <1>1 DEF planVars, PlanInv, PlanComputesQuery
<1>2. CASE Optimize
  BY <1>2 DEF Optimize, PlanInv, PlanComputesQuery
<1>3. CASE RemoteFullQuery
  <2>1. /\ query' = query /\ table' = table /\ stages' = stages /\ scanned' = scanned
        /\ answer' = Evaluate(query, table)
    BY <1>3 DEF RemoteFullQuery
  <2>2. answer'.state = "rows"
    BY <2>1 DEF Evaluate
  <2>3. answer' # NoAnswer
    BY <2>2 DEF NoAnswer
  <2>4. PlanComputesQuery'
    BY <2>1, <2>2 DEF PlanComputesQuery
  <2> QED BY <2>1, <2>3, <2>4 DEF PlanInv
<1>4. CASE \E x \in Aliases : RemoteScan(x)
  BY <1>4, RemoteScanKeeps
<1>5. CASE LocalStage
  BY <1>5, LocalStageKeeps
<1> QED BY <1>1, <1>2, <1>3, <1>4, <1>5 DEF PlanNext

(* Split into scans and a local stage, a query returns each of its rows,   *)
(* and no other row unless NULLs pass a filter below an outer join; another*)
(* reading of an alias returns the same rows unless the alias is filtered; *)
(* and it fails only for how it writes a column                            *)
(* (FederatedOptimizer.optimize, render_local_stage_sql).                  *)
THEOREM PlanIsTheQuery == PlanSpec => []PlanComputesQuery
<1>1. PlanInv => PlanComputesQuery
  BY DEF PlanInv
<1> QED BY <1>1, InitPlan, NextPlan, PTL DEF PlanSpec

-----------------------------------------------------------------------------
(* QueryPath                                                               *)

\* The aliases of the datasets at positions t, where each keeps its own.
OwnEntry(i) == [key |-> OwnAlias[SqlDatasets[i]], of |-> SqlDatasets[i]]
OwnEntries(scope, t) == {OwnEntry(i) : i \in {j \in t : SqlDatasets[j] \in scope}}

\* One dataset of the fold.
AddAlias(scope, done, d) ==
    IF d \notin scope THEN done
    ELSE done \cup {[key |-> NextAlias(OwnAlias[d], {t.key : t \in done}), of |-> d]}

(* An alias that is free is not numbered. *)
LEMMA FreeAlias ==
    ASSUME NEW base, NEW used, IsFiniteSet(used), base \notin used
    PROVE  NextAlias(base, used) = base
<1> DEFINE free == {i \in 1..(Cardinality(used) + 1) : Suffixed(base, i) \notin used}
           first == CHOOSE i \in free : \A j \in free : i <= j
<1>1. Cardinality(used) \in Nat
  BY FS_CardinalityType
<1>2. Suffixed(base, 1) = base
  BY DEF Suffixed
<1>3. 1 \in free
  BY <1>1, <1>2
<1>4. \A j \in free : 1 <= j
  BY <1>1
<1>5. first \in free /\ \A j \in free : first <= j
  BY <1>3, <1>4
<1>6. first = 1
  BY <1>1, <1>3, <1>5
<1> QED BY <1>2, <1>6 DEF NextAlias

(* Where no two datasets share an alias, each that is added keeps its own. *)
LEMMA AddKeepsOwn ==
    ASSUME NEW scope \in SUBSET Ids, \A d, e \in scope : d # e => OwnAlias[d] # OwnAlias[e],
           NEW t \in SUBSET (1..Len(SqlDatasets)), NEW i \in 1..Len(SqlDatasets), i \notin t,
           NEW done, done \subseteq OwnEntries(scope, t)
    PROVE  AddAlias(scope, done, SqlDatasets[i]) \subseteq OwnEntries(scope, t \cup {i})
<1>1. done \subseteq OwnEntries(scope, t \cup {i})
  BY DEF OwnEntries
<1>2. CASE SqlDatasets[i] \notin scope
  BY <1>1, <1>2 DEF AddAlias
<1>3. CASE SqlDatasets[i] \in scope
  <2> DEFINE used == {u.key : u \in done}
             d == SqlDatasets[i]
  <2>1. OwnAlias[d] \notin used
    <3> SUFFICES ASSUME NEW u \in done, u.key = OwnAlias[d]
                 PROVE  FALSE
      OBVIOUS
    <3>1. PICK j \in t : SqlDatasets[j] \in scope /\ u = OwnEntry(j)
      BY DEF OwnEntries
    <3>2. u.key = OwnAlias[SqlDatasets[j]]
      BY <3>1 DEF OwnEntry
    <3>3. SqlDatasets[j] # SqlDatasets[i]
      <4>1. i # j /\ i \in DOMAIN SqlDatasets /\ j \in DOMAIN SqlDatasets
        BY <3>1, QueryPathAssumption
      <4> QED BY <4>1, QueryPathAssumption DEF IsInjective
    <3> QED BY <1>3, <3>1, <3>2, <3>3
  <2>2. IsFiniteSet(used)
    <3> DEFINE I == 1..Len(SqlDatasets)
               W == {OwnAlias[SqlDatasets[j]] : j \in I}
               g == [j \in I |-> OwnAlias[SqlDatasets[j]]]
    <3>1. IsFiniteSet(I)
      <4>1. Len(SqlDatasets) \in Nat
        BY QueryPathAssumption
      <4> QED BY <4>1, FS_Interval
    <3>2. g \in Surjection(I, W)
      BY DEF Surjection
    <3>3. used \subseteq W
      <4> SUFFICES ASSUME NEW u \in done
                   PROVE  u.key \in W
        OBVIOUS
      <4>1. PICK j \in t : u = OwnEntry(j)
        BY DEF OwnEntries
      <4> QED BY <4>1 DEF OwnEntry
    <3> HIDE DEF I, W, g, used
    <3>4. IsFiniteSet(W)
      BY <3>1, <3>2, FS_Surjection
    <3> QED BY <3>3, <3>4, FS_Subset
  <2>3. NextAlias(OwnAlias[d], used) = OwnAlias[d]
    BY <2>1, <2>2, FreeAlias
  <2>4. AddAlias(scope, done, d) = done \cup {OwnEntry(i)}
    BY <1>3, <2>3 DEF AddAlias, OwnEntry
  <2>5. OwnEntry(i) \in OwnEntries(scope, t \cup {i})
    BY <1>3 DEF OwnEntries
  <2> QED BY <1>1, <2>4, <2>5
<1> QED BY <1>2, <1>3

(* So does each of a table whose step is the fold's. *)
LEMMA TableKeepsOwn ==
    ASSUME NEW scope \in SUBSET Ids, \A d, e \in scope : d # e => OwnAlias[d] # OwnAlias[e],
           NEW f, f[{}] = {},
           \A t \in SUBSET (1..Len(SqlDatasets)) : t # {} =>
              LET a == AddAlias(scope, f[t \ {Max(t)}], SqlDatasets[Max(t)])
              IN  a \in SUBSET OwnEntries(scope, 1..Len(SqlDatasets)) => f[t] = a
    PROVE  \A t \in SUBSET (1..Len(SqlDatasets)) : f[t] \subseteq OwnEntries(scope, t)
<1> DEFINE n == Len(SqlDatasets)
           Holds(m) == \A t \in SUBSET (1..n) : t \subseteq 1..m => f[t] \subseteq OwnEntries(scope, t)
           Good == {m \in Nat : Holds(m)}
<1>0. n \in Nat
  BY QueryPathAssumption
<1>1. 0 \in Good
  <2>1. 1..0 = {}
    OBVIOUS
  <2>2. \A t \in SUBSET (1..n) : t \subseteq 1..0 => t = {}
    BY <2>1
  <2> QED BY <2>2
<1>2. ASSUME NEW m \in Nat, m \in Good
      PROVE  m + 1 \in Good
  <2>0. SUFFICES Holds(m + 1)
    <3> HIDE DEF Holds
    <3> QED OBVIOUS
  <2> SUFFICES ASSUME NEW t \in SUBSET (1..n), t \subseteq 1..(m + 1)
               PROVE  f[t] \subseteq OwnEntries(scope, t)
    OBVIOUS
  <2>1. CASE t = {}
    BY <2>1
  <2>2. CASE t # {}
    <3> DEFINE x == Max(t)
    <3>1. x \in t /\ \A y \in t : y <= x
      BY <1>0, <2>2, GreatestUpTo
    <3> HIDE DEF x
    <3>2. t \ {x} \in SUBSET (1..n) /\ t \ {x} \subseteq 1..m
      <4>1. ASSUME NEW y \in t, y # x
            PROVE  y \in 1..m
        BY <3>1, <4>1
      <4> QED BY <4>1
    <3>3. f[t \ {x}] \subseteq OwnEntries(scope, t \ {x})
      BY <1>2, <3>2
    <3>4. PICK a : a = AddAlias(scope, f[t \ {x}], SqlDatasets[x])
      OBVIOUS
    <3>5. a \subseteq OwnEntries(scope, (t \ {x}) \cup {x})
      BY <3>1, <3>2, <3>3, <3>4, AddKeepsOwn
    <3>6. (t \ {x}) \cup {x} = t
      BY <3>1
    <3>7. a \subseteq OwnEntries(scope, t)
      BY <3>5, <3>6
    <3>8. a \in SUBSET OwnEntries(scope, 1..n)
      BY <3>7 DEF OwnEntries
    <3>9. f[t] = a
      BY <2>2, <3>4, <3>8 DEF x
    <3> QED BY <3>7, <3>9
  <2> QED BY <2>1, <2>2
<1>3. n \in Good
  <2>1. \A m \in Nat : m \in Good => m + 1 \in Good
    BY <1>2
  <2> HIDE DEF Good
  <2> QED BY <1>0, <1>1, <2>1, SetInduction
<1> QED BY <1>3

(* Where no two datasets share an alias, a query knows each by its own.    *)
LEMMA DeriveKeepsOwn ==
    ASSUME NEW scope \in SUBSET Ids, \A d, e \in scope : d # e => OwnAlias[d] # OwnAlias[e]
    PROVE  \A t \in DeriveAliases(scope) : t.key = OwnAlias[t.of]
<1> DEFINE n == Len(SqlDatasets)
           A == SUBSET OwnEntries(scope, 1..n)
           Step(i, done) == AddAlias(scope, done, SqlDatasets[i])
           G == [p \in (1..n) \X A |-> IF Step(p[1], p[2]) \in A THEN Step(p[1], p[2]) ELSE {}]
           Add(done, d) ==
              IF d \notin scope THEN done
              ELSE done \cup {[key |-> NextAlias(OwnAlias[d], {t.key : t \in done}), of |-> d]}
           Eq(i) == i = [t \in SUBSET DOMAIN SqlDatasets |->
                           IF t = {} THEN {} ELSE Add(i[t \ {Max(t)}], SqlDatasets[Max(t)])]
           c == CHOOSE i : Eq(i)
<1>1. n \in Nat /\ DOMAIN SqlDatasets = 1..n
  BY QueryPathAssumption
<1>2. {} \in A /\ G \in [(1..n) \X A -> A]
  <2> HIDE DEF Step
  <2> QED OBVIOUS
<1>a. PICK it : IsFoldTable(it, A, {}, n, G)
  <2> HIDE DEF A, G, n
  <2> QED BY <1>1, <1>2, FoldTableExists, Zenon
<1>3. /\ it \in [SUBSET (1..n) -> A]
      /\ \A t \in SUBSET (1..n) :
            it[t] = IF t = {} THEN {} ELSE G[<<Max(t), it[t \ {Max(t)}]>>]
  <2> HIDE DEF A, G, n
  <2> QED BY <1>a, Zenon DEF IsFoldTable
<1>4. ASSUME NEW t \in SUBSET (1..n), t # {}
      PROVE  /\ Max(t) \in 1..n
             /\ Step(Max(t), it[t \ {Max(t)}]) \in A => it[t] = Step(Max(t), it[t \ {Max(t)}])
  <2>1. Max(t) \in 1..n
    <3>1. Max(t) \in t
      BY <1>1, <1>4, GreatestUpTo
    <3> QED BY <3>1
  <2>2. PICK x : x = Max(t)
    OBVIOUS
  <2>3. it[t \ {x}] \in A
    BY <1>3
  <2>4. <<x, it[t \ {x}]>> \in (1..n) \X A
    BY <2>1, <2>2, <2>3
  <2>5. it[t] = G[<<x, it[t \ {x}]>>]
    BY <1>3, <1>4, <2>2
  <2>6. G[<<x, it[t \ {x}]>>] = IF Step(x, it[t \ {x}]) \in A THEN Step(x, it[t \ {x}]) ELSE {}
    <3> HIDE DEF Step, A, n
    <3> QED BY <2>4
  <2> QED BY <2>1, <2>2, <2>5, <2>6
<1>5. it[{}] = {}
  BY <1>3
<1>6. \A t \in SUBSET (1..n) : it[t] \subseteq OwnEntries(scope, t)
  BY <1>4, <1>5, TableKeepsOwn
<1>7. ASSUME NEW t \in SUBSET (1..n), t # {}
      PROVE  it[t] = Add(it[t \ {Max(t)}], SqlDatasets[Max(t)])
  <2>1. PICK x : x = Max(t)
    OBVIOUS
  <2>2. x \in t /\ x \in 1..n
    BY <1>1, <1>7, <2>1, GreatestUpTo
  <2>3. t \ {x} \in SUBSET (1..n) /\ x \notin t \ {x} /\ (t \ {x}) \cup {x} = t
    BY <2>2
  <2>4. Step(x, it[t \ {x}]) \subseteq OwnEntries(scope, t)
    BY <2>2, <2>3, <1>6, AddKeepsOwn
  <2>5. Step(x, it[t \ {x}]) \in A
    BY <2>4 DEF OwnEntries
  <2>6. it[t] = Step(x, it[t \ {x}])
    BY <1>4, <1>7, <2>1, <2>5
  <2> QED BY <2>1, <2>6 DEF AddAlias
<1>8. Eq(it)
  <2> HIDE DEF Add
  <2> QED BY <1>1, <1>3, <1>5, <1>7
<1>9. Eq(c)
  <2> HIDE DEF Eq
  <2> QED BY <1>8, Zenon
<1>10. DeriveAliases(scope) = c[DOMAIN SqlDatasets]
  BY Zenon DEF DeriveAliases, FoldLeft, MapThenFoldSet
<1>11. \A t \in SUBSET (1..n) :
          c[t] = IF t = {} THEN {} ELSE Add(c[t \ {Max(t)}], SqlDatasets[Max(t)])
  <2> HIDE DEF Add, c
  <2> QED BY <1>1, <1>9
<1>12. \A t \in SUBSET (1..n) : c[t] \subseteq OwnEntries(scope, t)
  <2>1. c[{}] = {}
    BY <1>11
  <2>2. \A t \in SUBSET (1..n) : t # {} =>
          c[t] = AddAlias(scope, c[t \ {Max(t)}], SqlDatasets[Max(t)])
    <3> HIDE DEF c
    <3> QED BY <1>11 DEF AddAlias
  <2> HIDE DEF c
  <2> QED BY <2>1, <2>2, TableKeepsOwn
<1>13. DeriveAliases(scope) \subseteq OwnEntries(scope, 1..n)
  BY <1>1, <1>10, <1>12
<1> QED BY <1>13 DEF OwnEntries, OwnEntry

\* A query's record, and that a value is one.
QueryRecord(pc, request, left, plan, todo, second, known, bound, ran, reply) ==
    [pc |-> pc, request |-> request, left |-> left, plan |-> plan, todo |-> todo,
     second |-> second, known |-> known, bound |-> bound, ran |-> ran, answer |-> reply]
IsQuery(c) == c = QueryRecord(c.pc, c.request, c.left, c.plan, c.todo,
                              c.second, c.known, c.bound, c.ran, c.answer)

LEMMA RecordIsQuery ==
    ASSUME NEW pc, NEW request, NEW left, NEW plan, NEW todo, NEW second, NEW known, NEW bound,
           NEW ran, NEW reply
    PROVE  IsQuery(QueryRecord(pc, request, left, plan, todo, second, known, bound, ran, reply))
  BY DEF IsQuery, QueryRecord

(* What the updates of a query make of its record. *)
LEMMA QueryField ==
    ASSUME NEW c, IsQuery(c), NEW v
    PROVE  /\ [c EXCEPT !.pc = v]
                = QueryRecord(v, c.request, c.left, c.plan, c.todo,
                      c.second, c.known, c.bound, c.ran, c.answer)
           /\ [c EXCEPT !.request = v]
                = QueryRecord(c.pc, v, c.left, c.plan, c.todo,
                      c.second, c.known, c.bound, c.ran, c.answer)
           /\ [c EXCEPT !.left = v]
                = QueryRecord(c.pc, c.request, v, c.plan, c.todo,
                      c.second, c.known, c.bound, c.ran, c.answer)
           /\ [c EXCEPT !.plan = v]
                = QueryRecord(c.pc, c.request, c.left, v, c.todo,
                      c.second, c.known, c.bound, c.ran, c.answer)
           /\ [c EXCEPT !.todo = v]
                = QueryRecord(c.pc, c.request, c.left, c.plan, v,
                      c.second, c.known, c.bound, c.ran, c.answer)
           /\ [c EXCEPT !.second = v]
                = QueryRecord(c.pc, c.request, c.left, c.plan, c.todo,
                      v, c.known, c.bound, c.ran, c.answer)
           /\ [c EXCEPT !.known = v]
                = QueryRecord(c.pc, c.request, c.left, c.plan, c.todo,
                      c.second, v, c.bound, c.ran, c.answer)
           /\ [c EXCEPT !.bound = v]
                = QueryRecord(c.pc, c.request, c.left, c.plan, c.todo,
                      c.second, c.known, v, c.ran, c.answer)
           /\ [c EXCEPT !.ran = v]
                = QueryRecord(c.pc, c.request, c.left, c.plan, c.todo,
                      c.second, c.known, c.bound, v, c.answer)
           /\ [c EXCEPT !.answer = v]
                = QueryRecord(c.pc, c.request, c.left, c.plan, c.todo,
                      c.second, c.known, c.bound, c.ran, v)
<1>1. [c EXCEPT !.pc = v] = QueryRecord(v, c.request, c.left, c.plan, c.todo,
                      c.second, c.known, c.bound, c.ran, c.answer)
  BY DEF IsQuery, QueryRecord
<1>2. [c EXCEPT !.request = v] = QueryRecord(c.pc, v, c.left, c.plan, c.todo,
                      c.second, c.known, c.bound, c.ran, c.answer)
  BY DEF IsQuery, QueryRecord
<1>3. [c EXCEPT !.left = v] = QueryRecord(c.pc, c.request, v, c.plan, c.todo,
                      c.second, c.known, c.bound, c.ran, c.answer)
  BY DEF IsQuery, QueryRecord
<1>4. [c EXCEPT !.plan = v] = QueryRecord(c.pc, c.request, c.left, v, c.todo,
                      c.second, c.known, c.bound, c.ran, c.answer)
  BY DEF IsQuery, QueryRecord
<1>5. [c EXCEPT !.todo = v] = QueryRecord(c.pc, c.request, c.left, c.plan, v,
                      c.second, c.known, c.bound, c.ran, c.answer)
  BY DEF IsQuery, QueryRecord
<1>6. [c EXCEPT !.second = v] = QueryRecord(c.pc, c.request, c.left, c.plan, c.todo,
                      v, c.known, c.bound, c.ran, c.answer)
  BY DEF IsQuery, QueryRecord
<1>7. [c EXCEPT !.known = v] = QueryRecord(c.pc, c.request, c.left, c.plan, c.todo,
                      c.second, v, c.bound, c.ran, c.answer)
  BY DEF IsQuery, QueryRecord
<1>8. [c EXCEPT !.bound = v] = QueryRecord(c.pc, c.request, c.left, c.plan, c.todo,
                      c.second, c.known, v, c.ran, c.answer)
  BY DEF IsQuery, QueryRecord
<1>9. [c EXCEPT !.ran = v] = QueryRecord(c.pc, c.request, c.left, c.plan, c.todo,
                      c.second, c.known, c.bound, v, c.answer)
  BY DEF IsQuery, QueryRecord
<1>10. [c EXCEPT !.answer = v] = QueryRecord(c.pc, c.request, c.left, c.plan, c.todo,
                      c.second, c.known, c.bound, c.ran, v)
  BY DEF IsQuery, QueryRecord
<1> QED BY <1>1, <1>2, <1>3, <1>4, <1>5, <1>6, <1>7, <1>8, <1>9, <1>10

LEMMA SentQuery ==
    ASSUME NEW c, IsQuery(c), NEW pc, NEW request, NEW left
    PROVE  [c EXCEPT !.pc = pc, !.request = request, !.left = left]
             = QueryRecord(pc, request, left, c.plan, c.todo,
                      c.second, c.known, c.bound, c.ran, c.answer)
<1>1. PICK e1 : e1 = [c EXCEPT !.pc = pc]
  OBVIOUS
<1>2. e1 = QueryRecord(pc, c.request, c.left, c.plan, c.todo,
                      c.second, c.known, c.bound, c.ran, c.answer)
  BY <1>1, QueryField DEF QueryRecord
<1>3. IsQuery(e1)
  BY <1>2, RecordIsQuery
<1>4. PICK e2 : e2 = [e1 EXCEPT !.request = request]
  OBVIOUS
<1>5. e2 = QueryRecord(pc, request, c.left, c.plan, c.todo,
                      c.second, c.known, c.bound, c.ran, c.answer)
  BY <1>4, <1>2, <1>3, QueryField DEF QueryRecord
<1>6. IsQuery(e2)
  BY <1>5, RecordIsQuery
<1>7. PICK e3 : e3 = [e2 EXCEPT !.left = left]
  OBVIOUS
<1>8. e3 = QueryRecord(pc, request, left, c.plan, c.todo,
                      c.second, c.known, c.bound, c.ran, c.answer)
  BY <1>7, <1>5, <1>6, QueryField DEF QueryRecord
<1>9. [c EXCEPT !.pc = pc, !.request = request, !.left = left] = e3
  BY <1>1, <1>4, <1>7, Zenon
<1> QED BY <1>9, <1>8

LEMMA BoundQuery ==
    ASSUME NEW c, IsQuery(c), NEW pc, NEW bound
    PROVE  [c EXCEPT !.pc = pc, !.bound = bound]
             = QueryRecord(pc, c.request, c.left, c.plan, c.todo,
                      c.second, c.known, bound, c.ran, c.answer)
<1>1. PICK e1 : e1 = [c EXCEPT !.pc = pc]
  OBVIOUS
<1>2. e1 = QueryRecord(pc, c.request, c.left, c.plan, c.todo,
                      c.second, c.known, c.bound, c.ran, c.answer)
  BY <1>1, QueryField DEF QueryRecord
<1>3. IsQuery(e1)
  BY <1>2, RecordIsQuery
<1>4. PICK e2 : e2 = [e1 EXCEPT !.bound = bound]
  OBVIOUS
<1>5. e2 = QueryRecord(pc, c.request, c.left, c.plan, c.todo,
                      c.second, c.known, bound, c.ran, c.answer)
  BY <1>4, <1>2, <1>3, QueryField DEF QueryRecord
<1>6. [c EXCEPT !.pc = pc, !.bound = bound] = e2
  BY <1>1, <1>4, Zenon
<1> QED BY <1>6, <1>5

LEMMA VirtualQuery ==
    ASSUME NEW c, IsQuery(c), NEW pc, NEW todo
    PROVE  [c EXCEPT !.pc = pc, !.todo = todo]
             = QueryRecord(pc, c.request, c.left, c.plan, todo,
                      c.second, c.known, c.bound, c.ran, c.answer)
<1>1. PICK e1 : e1 = [c EXCEPT !.pc = pc]
  OBVIOUS
<1>2. e1 = QueryRecord(pc, c.request, c.left, c.plan, c.todo,
                      c.second, c.known, c.bound, c.ran, c.answer)
  BY <1>1, QueryField DEF QueryRecord
<1>3. IsQuery(e1)
  BY <1>2, RecordIsQuery
<1>4. PICK e2 : e2 = [e1 EXCEPT !.todo = todo]
  OBVIOUS
<1>5. e2 = QueryRecord(pc, c.request, c.left, c.plan, todo,
                      c.second, c.known, c.bound, c.ran, c.answer)
  BY <1>4, <1>2, <1>3, QueryField DEF QueryRecord
<1>6. [c EXCEPT !.pc = pc, !.todo = todo] = e2
  BY <1>1, <1>4, Zenon
<1> QED BY <1>6, <1>5

LEMMA ModelQuery ==
    ASSUME NEW c, IsQuery(c), NEW pc, NEW left, NEW todo, NEW plan
    PROVE  [c EXCEPT !.pc = pc, !.left = left, !.todo = todo, !.plan = plan]
             = QueryRecord(pc, c.request, left, plan, todo,
                      c.second, c.known, c.bound, c.ran, c.answer)
<1>1. PICK e1 : e1 = [c EXCEPT !.pc = pc]
  OBVIOUS
<1>2. e1 = QueryRecord(pc, c.request, c.left, c.plan, c.todo,
                      c.second, c.known, c.bound, c.ran, c.answer)
  BY <1>1, QueryField DEF QueryRecord
<1>3. IsQuery(e1)
  BY <1>2, RecordIsQuery
<1>4. PICK e2 : e2 = [e1 EXCEPT !.left = left]
  OBVIOUS
<1>5. e2 = QueryRecord(pc, c.request, left, c.plan, c.todo,
                      c.second, c.known, c.bound, c.ran, c.answer)
  BY <1>4, <1>2, <1>3, QueryField DEF QueryRecord
<1>6. IsQuery(e2)
  BY <1>5, RecordIsQuery
<1>7. PICK e3 : e3 = [e2 EXCEPT !.todo = todo]
  OBVIOUS
<1>8. e3 = QueryRecord(pc, c.request, left, c.plan, todo,
                      c.second, c.known, c.bound, c.ran, c.answer)
  BY <1>7, <1>5, <1>6, QueryField DEF QueryRecord
<1>9. IsQuery(e3)
  BY <1>8, RecordIsQuery
<1>10. PICK e4 : e4 = [e3 EXCEPT !.plan = plan]
  OBVIOUS
<1>11. e4 = QueryRecord(pc, c.request, left, plan, todo,
                      c.second, c.known, c.bound, c.ran, c.answer)
  BY <1>10, <1>8, <1>9, QueryField DEF QueryRecord
<1>12. [c EXCEPT !.pc = pc, !.left = left, !.todo = todo, !.plan = plan] = e4
  BY <1>1, <1>4, <1>7, <1>10, Zenon
<1> QED BY <1>12, <1>11

LEMMA LoadQuery ==
    ASSUME NEW c, IsQuery(c), NEW todo, NEW known
    PROVE  [c EXCEPT !.todo = todo, !.known = known]
             = QueryRecord(c.pc, c.request, c.left, c.plan, todo,
                      c.second, known, c.bound, c.ran, c.answer)
<1>1. PICK e1 : e1 = [c EXCEPT !.todo = todo]
  OBVIOUS
<1>2. e1 = QueryRecord(c.pc, c.request, c.left, c.plan, todo,
                      c.second, c.known, c.bound, c.ran, c.answer)
  BY <1>1, QueryField DEF QueryRecord
<1>3. IsQuery(e1)
  BY <1>2, RecordIsQuery
<1>4. PICK e2 : e2 = [e1 EXCEPT !.known = known]
  OBVIOUS
<1>5. e2 = QueryRecord(c.pc, c.request, c.left, c.plan, todo,
                      c.second, known, c.bound, c.ran, c.answer)
  BY <1>4, <1>2, <1>3, QueryField DEF QueryRecord
<1>6. [c EXCEPT !.todo = todo, !.known = known] = e2
  BY <1>1, <1>4, Zenon
<1> QED BY <1>6, <1>5

LEMMA SecondPass ==
    ASSUME NEW c, IsQuery(c), NEW second, NEW todo
    PROVE  [c EXCEPT !.second = second, !.todo = todo]
             = QueryRecord(c.pc, c.request, c.left, c.plan, todo,
                      second, c.known, c.bound, c.ran, c.answer)
<1>1. PICK e1 : e1 = [c EXCEPT !.second = second]
  OBVIOUS
<1>2. e1 = QueryRecord(c.pc, c.request, c.left, c.plan, c.todo,
                      second, c.known, c.bound, c.ran, c.answer)
  BY <1>1, QueryField DEF QueryRecord
<1>3. IsQuery(e1)
  BY <1>2, RecordIsQuery
<1>4. PICK e2 : e2 = [e1 EXCEPT !.todo = todo]
  OBVIOUS
<1>5. e2 = QueryRecord(c.pc, c.request, c.left, c.plan, todo,
                      second, c.known, c.bound, c.ran, c.answer)
  BY <1>4, <1>2, <1>3, QueryField DEF QueryRecord
<1>6. [c EXCEPT !.second = second, !.todo = todo] = e2
  BY <1>1, <1>4, Zenon
<1> QED BY <1>6, <1>5

LEMMA PlannedQuery ==
    ASSUME NEW c, IsQuery(c), NEW pc, NEW ran
    PROVE  [c EXCEPT !.pc = pc, !.ran = ran]
             = QueryRecord(pc, c.request, c.left, c.plan, c.todo,
                      c.second, c.known, c.bound, ran, c.answer)
<1>1. PICK e1 : e1 = [c EXCEPT !.pc = pc]
  OBVIOUS
<1>2. e1 = QueryRecord(pc, c.request, c.left, c.plan, c.todo,
                      c.second, c.known, c.bound, c.ran, c.answer)
  BY <1>1, QueryField DEF QueryRecord
<1>3. IsQuery(e1)
  BY <1>2, RecordIsQuery
<1>4. PICK e2 : e2 = [e1 EXCEPT !.ran = ran]
  OBVIOUS
<1>5. e2 = QueryRecord(pc, c.request, c.left, c.plan, c.todo,
                      c.second, c.known, c.bound, ran, c.answer)
  BY <1>4, <1>2, <1>3, QueryField DEF QueryRecord
<1>6. [c EXCEPT !.pc = pc, !.ran = ran] = e2
  BY <1>1, <1>4, Zenon
<1> QED BY <1>6, <1>5

LEMMA AnsweredQuery ==
    ASSUME NEW c, IsQuery(c), NEW pc, NEW reply
    PROVE  [c EXCEPT !.pc = pc, !.answer = reply]
             = QueryRecord(pc, c.request, c.left, c.plan, c.todo,
                      c.second, c.known, c.bound, c.ran, reply)
<1>1. PICK e1 : e1 = [c EXCEPT !.pc = pc]
  OBVIOUS
<1>2. e1 = QueryRecord(pc, c.request, c.left, c.plan, c.todo,
                      c.second, c.known, c.bound, c.ran, c.answer)
  BY <1>1, QueryField DEF QueryRecord
<1>3. IsQuery(e1)
  BY <1>2, RecordIsQuery
<1>4. PICK e2 : e2 = [e1 EXCEPT !.answer = reply]
  OBVIOUS
<1>5. e2 = QueryRecord(pc, c.request, c.left, c.plan, c.todo,
                      c.second, c.known, c.bound, c.ran, reply)
  BY <1>4, <1>2, <1>3, QueryField DEF QueryRecord
<1>6. [c EXCEPT !.pc = pc, !.answer = reply] = e2
  BY <1>1, <1>4, Zenon
<1> QED BY <1>6, <1>5

\* A query over the datasets of the workspace knows each by its own alias, and
\* one that has been planned has a table for each name of its text.
OwnTables(S) == \A t \in S : t.key = OwnAlias[t.of]
QuerySound(c) ==
    c.request.kind = "sql" =>
        /\ c.pc \notin {"load", "direct"}
        /\ c.pc \in {"sources", "plan", "run"} => OwnTables(c.bound)
        /\ c.pc = "run" => OwnTables(c.ran) /\ \A n \in c.request.names : \E t \in c.ran : t.key = n
        /\ c.pc = "done" /\ ~c.request.explain =>
              OwnTables(c.answer) /\ \A n \in c.request.names : \E t \in c.answer : t.key = n

PathInv ==
    /\ queries = [q \in QueryIds |-> queries[q]]
    /\ \A q \in QueryIds : IsQuery(queries[q]) /\ queries[q].request \in QueryRequests \cup {NoRequest}
    /\ dsRow \in [Ids -> RowKinds \cup {"gone"}]
    /\ catalogStore = "sql" => /\ AliasesUnique(dsRow)
                               /\ \A q \in QueryIds : QuerySound(queries[q])

LEMMA QueryMoves ==
    ASSUME PathInv, NEW q \in QueryIds, NEW d, Goes(q, d), CatalogKept,
           IsQuery(d), d.request \in QueryRequests \cup {NoRequest},
           catalogStore = "sql" => QuerySound(d)
    PROVE  PathInv'
<1>1. /\ queries' = [p \in QueryIds |-> queries'[p]]
      /\ queries'[q] = d /\ \A p \in QueryIds \ {q} : queries'[p] = queries[p]
  BY DEF PathInv, Goes
<1>2. dsRow' = dsRow /\ catalogStore' = catalogStore
  BY DEF CatalogKept
<1>3. \A p \in QueryIds : IsQuery(queries'[p]) /\ queries'[p].request \in QueryRequests \cup {NoRequest}
  BY <1>1 DEF PathInv
<1>4. catalogStore = "sql" => \A p \in QueryIds : QuerySound(queries'[p])
  BY <1>1 DEF PathInv
<1> QED BY <1>1, <1>2, <1>3, <1>4 DEF PathInv

(* A query that fails starts no other. *)
LEMMA FailMoves ==
    ASSUME PathInv, NEW q \in QueryIds, FailsWith(q), CatalogKept
    PROVE  PathInv'
<1>1. PICK c : c = Fresh
  OBVIOUS
<1>2. IsQuery(c) /\ c.request.kind = "none" /\ c.request = NoRequest
  BY <1>1 DEF Fresh, IsQuery, QueryRecord, NoRequest
<1>3. PICK d : d = [c EXCEPT !.pc = "failed"]
  OBVIOUS
<1>4. d = QueryRecord("failed", c.request, c.left, c.plan, c.todo, c.second, c.known, c.bound,
                      c.ran, c.answer)
  BY <1>2, <1>3, QueryField
<1>5. IsQuery(d) /\ d.request = c.request
  BY <1>4, RecordIsQuery DEF QueryRecord
<1>6. QuerySound(d)
  BY <1>2, <1>5 DEF QuerySound
<1>7. Goes(q, d)
  BY <1>1, <1>3, Zenon DEF FailsWith
<1> QED BY <1>2, <1>5, <1>6, <1>7, QueryMoves

LEMMA SendMoves ==
    ASSUME PathInv, NEW q \in QueryIds, NEW r \in QueryRequests, Send(q, r)
    PROVE  PathInv'
<1>1. PICK c : c = Fresh
  OBVIOUS
<1>2. IsQuery(c)
  BY <1>1 DEF Fresh, IsQuery, QueryRecord
<1>3. PICK p : p = IF r.kind = "direct" THEN "direct" ELSE "resolve"
  OBVIOUS
<1>4. PICK l : l = IF r.kind \in {"semantic", "unified"} THEN r.of ELSE {}
  OBVIOUS
<1>5. PICK d : d = [c EXCEPT !.pc = p, !.request = r, !.left = l]
  OBVIOUS
<1>6. [c EXCEPT !.pc = p, !.request = r, !.left = l]
        = QueryRecord(p, r, l, c.plan, c.todo, c.second, c.known, c.bound, c.ran, c.answer)
  BY <1>2, SentQuery, Zenon
<1>7. d = QueryRecord(p, r, l, c.plan, c.todo, c.second, c.known, c.bound, c.ran, c.answer)
  BY <1>5, <1>6, Zenon
<1>8. IsQuery(d) /\ d.request = r /\ d.pc = p
  BY <1>7, RecordIsQuery DEF QueryRecord
<1>9. QuerySound(d)
  BY <1>3, <1>8 DEF QuerySound
<1>10. Goes(q, d) /\ CatalogKept
  BY <1>1, <1>3, <1>4, <1>5, Zenon DEF Send
<1> QED BY <1>8, <1>9, <1>10, QueryMoves

LEMMA ResolveSqlMoves ==
    ASSUME PathInv, NEW q \in QueryIds, ResolveSql(q)
    PROVE  PathInv'
<1> DEFINE r        == queries[q].request
           listed   == IF r.of # {} THEN {d \in r.of : Stored(d)} ELSE {d \in Ids : Stored(d)}
           eligible == {d \in listed : Eligible(d)}
<1>1. CatalogKept
  BY DEF ResolveSql
<1>2. CASE FailsWith(q)
  BY <1>1, <1>2, FailMoves
<1>3. CASE /\ r.of # {} => listed = r.of /\ eligible = listed
           /\ Goes(q, [queries[q] EXCEPT
                 !.pc = "sources",
                 !.bound = {Bound(t.key, t.of, dsRow[t.of]) :
                               t \in {u \in DeriveAliases(eligible) : Bindable(dsRow[u.of])}}])
  <2>1. PICK c : c = queries[q]
    OBVIOUS
  <2>2. IsQuery(c) /\ c.request \in QueryRequests \cup {NoRequest}
    BY <2>1 DEF PathInv
  <2>3. PICK b : b = {Bound(t.key, t.of, dsRow[t.of]) :
                        t \in {u \in DeriveAliases(eligible) : Bindable(dsRow[u.of])}}
    OBVIOUS
  <2>4. PICK p : p = "sources"
    OBVIOUS
  <2>5. PICK d : d = [c EXCEPT !.pc = p, !.bound = b]
    OBVIOUS
  <2>6. [c EXCEPT !.pc = p, !.bound = b]
          = QueryRecord(p, c.request, c.left, c.plan, c.todo, c.second, c.known, b, c.ran, c.answer)
    BY <2>2, BoundQuery, Zenon
  <2>7. d = QueryRecord(p, c.request, c.left, c.plan, c.todo, c.second, c.known, b, c.ran, c.answer)
    BY <2>5, <2>6, Zenon
  <2>8. IsQuery(d) /\ d.request = c.request /\ d.pc = "sources" /\ d.bound = b
    BY <2>4, <2>7, RecordIsQuery DEF QueryRecord
  <2>9. Goes(q, d)
    BY <1>3, <2>1, <2>3, <2>4, <2>5, Zenon
  <2>10. ASSUME catalogStore = "sql"
         PROVE  QuerySound(d)
    <3>1. eligible \in SUBSET Ids
      <4>1. r.kind = "sql"
        BY DEF ResolveSql
      <4>2. r.of \subseteq Ids
        BY <4>1, QueryPathAssumption DEF PathInv, Ids, NoRequest
      <4> QED BY <4>2
    <3>2. \A d1, e1 \in eligible : d1 # e1 => OwnAlias[d1] # OwnAlias[e1]
      <4> SUFFICES ASSUME NEW d1 \in eligible, NEW e1 \in eligible, d1 # e1, OwnAlias[d1] = OwnAlias[e1]
                   PROVE  FALSE
        OBVIOUS
      <4>1. dsRow[d1] # "gone" /\ dsRow[e1] # "gone" /\ d1 \in Ids /\ e1 \in Ids
        BY <3>1 DEF Eligible
      <4>2. AliasesUnique(dsRow)
        BY <2>10 DEF PathInv
      <4> QED BY <4>1, <4>2 DEF AliasesUnique, SameAlias
    <3>3. PICK e : e = eligible
      OBVIOUS
    <3>4. \A t \in DeriveAliases(e) : t.key = OwnAlias[t.of]
      BY <3>1, <3>2, <3>3, DeriveKeepsOwn
    <3>5. b = {Bound(t.key, t.of, dsRow[t.of]) : t \in {u \in DeriveAliases(e) : Bindable(dsRow[u.of])}}
      BY <2>3, <3>3, Zenon
    <3>6. OwnTables(b)
      BY <3>4, <3>5 DEF OwnTables, Bound
    <3> QED BY <2>8, <3>6 DEF QuerySound
  <2> QED BY <1>1, <2>2, <2>8, <2>9, <2>10, QueryMoves
<1> QED BY <1>2, <1>3, Zenon DEF ResolveSql

(* The other kinds of query do not matter here. *)
LEMMA OtherMoves ==
    ASSUME PathInv, NEW q \in QueryIds, NEW d, Goes(q, d), CatalogKept,
           IsQuery(d), d.request = queries[q].request,
           catalogStore = "sql" => queries[q].request.kind # "sql"
    PROVE  PathInv'
<1>1. PICK c : c = queries[q]
  OBVIOUS
<1>2. c.request \in QueryRequests \cup {NoRequest}
  BY <1>1 DEF PathInv
<1>3. d.request \in QueryRequests \cup {NoRequest}
  BY <1>1, <1>2
<1>4. catalogStore = "sql" => QuerySound(d)
  BY DEF QuerySound
<1> QED BY <1>3, <1>4, QueryMoves

LEMMA ResolvePreviewMoves ==
    ASSUME PathInv, NEW q \in QueryIds, ResolvePreview(q)
    PROVE  PathInv'
<1>1. PICK c : c = queries[q]
  OBVIOUS
<1>2. IsQuery(c) /\ c.request.kind = "preview" /\ CatalogKept
  BY <1>1 DEF PathInv, ResolvePreview
<1>4. CASE Goes(q, [queries[q] EXCEPT !.pc = "load", !.todo = VirtualTables])
  <2>1. PICK p : p = "load"
    OBVIOUS
  <2>2. PICK e : e = [c EXCEPT !.pc = p, !.todo = VirtualTables]
    OBVIOUS
  <2>3. [c EXCEPT !.pc = p, !.todo = VirtualTables]
          = QueryRecord(p, c.request, c.left, c.plan, VirtualTables, c.second, c.known, c.bound,
                        c.ran, c.answer)
    BY <1>2, VirtualQuery, Zenon
  <2>4. e = QueryRecord(p, c.request, c.left, c.plan, VirtualTables, c.second, c.known, c.bound,
                        c.ran, c.answer)
    BY <2>2, <2>3, Zenon
  <2>5. IsQuery(e) /\ e.request = c.request
    BY <2>4, RecordIsQuery DEF QueryRecord
  <2>6. Goes(q, e)
    BY <1>1, <1>4, <2>1, <2>2, Zenon
  <2> QED BY <1>1, <1>2, <2>5, <2>6, OtherMoves
<1>5. ASSUME NEW b, Goes(q, [queries[q] EXCEPT !.pc = "sources", !.bound = b])
      PROVE  PathInv'
  <2>1. PICK p : p = "sources"
    OBVIOUS
  <2>2. PICK e : e = [c EXCEPT !.pc = p, !.bound = b]
    OBVIOUS
  <2>3. [c EXCEPT !.pc = p, !.bound = b]
          = QueryRecord(p, c.request, c.left, c.plan, c.todo, c.second, c.known, b, c.ran, c.answer)
    BY <1>2, BoundQuery, Zenon
  <2>4. e = QueryRecord(p, c.request, c.left, c.plan, c.todo, c.second, c.known, b, c.ran, c.answer)
    BY <2>2, <2>3, Zenon
  <2>5. IsQuery(e) /\ e.request = c.request
    BY <2>4, RecordIsQuery DEF QueryRecord
  <2>6. Goes(q, e)
    BY <1>1, <1>5, <2>1, <2>2, Zenon
  <2> QED BY <1>1, <1>2, <2>5, <2>6, OtherMoves
<1>6. CASE Goes(q, [Fresh EXCEPT !.pc = "failed"])
  BY <1>2, <1>6, FailMoves DEF FailsWith
<1>7. \/ Goes(q, [queries[q] EXCEPT !.pc = "load", !.todo = VirtualTables])
      \/ \E b : Goes(q, [queries[q] EXCEPT !.pc = "sources", !.bound = b])
      \/ Goes(q, [Fresh EXCEPT !.pc = "failed"])
  <2> DEFINE x == CHOOSE x \in queries[q].request.of : TRUE
  <2>1. CASE dsRow[x] = "virtual"
    BY <2>1, Zenon DEF ResolvePreview
  <2>2. CASE dsRow[x] # "virtual" /\ Bindable(dsRow[x])
    <3>1. Goes(q, [queries[q] EXCEPT !.pc = "sources", !.bound = {Bound(OwnAlias[x], x, dsRow[x])}])
      BY <2>2, Zenon DEF ResolvePreview
    <3> QED BY <3>1, Zenon
  <2>3. CASE dsRow[x] # "virtual" /\ ~Bindable(dsRow[x])
    BY <2>3, Zenon DEF ResolvePreview
  <2> QED BY <2>1, <2>2, <2>3
<1> QED BY <1>4, <1>5, <1>6, <1>7, Zenon

LEMMA ReadModelMoves ==
    ASSUME PathInv, NEW q \in QueryIds, ReadModel(q)
    PROVE  PathInv'
<1>1. PICK c : c = queries[q]
  OBVIOUS
<1>2. IsQuery(c) /\ c.request.kind \in {"semantic", "unified"} /\ CatalogKept
  BY <1>1 DEF PathInv, ReadModel
<1>3. PICK l, f, p, n : n = "load" /\ Goes(q, [c EXCEPT !.pc = n, !.left = l, !.todo = f, !.plan = p])
  <2>1. PICK m \in c.left :
          LET form == [i \in DOMAIN models[m] |-> [models[m][i] EXCEPT !.key = <<m>> \o @]]
          IN  Goes(q, [c EXCEPT !.pc = "load", !.left = c.left \ {m}, !.todo = form,
                                !.plan = c.plan \o form])
    BY <1>1, Zenon DEF ReadModel
  <2> QED BY <2>1, Zenon
<1>4. PICK e : e = [c EXCEPT !.pc = n, !.left = l, !.todo = f, !.plan = p]
  OBVIOUS
<1>5. [c EXCEPT !.pc = n, !.left = l, !.todo = f, !.plan = p]
        = QueryRecord(n, c.request, l, p, f, c.second, c.known, c.bound, c.ran, c.answer)
  <2> DEFINE U(pc, left, todo, plan) ==
               [c EXCEPT !.pc = pc, !.left = left, !.todo = todo, !.plan = plan]
  <2>1. \A pc, left, todo, plan :
          U(pc, left, todo, plan)
            = QueryRecord(pc, c.request, left, plan, todo, c.second, c.known, c.bound, c.ran, c.answer)
    BY <1>2, ModelQuery, Zenon
  <2>2. [c EXCEPT !.pc = n, !.left = l, !.todo = f, !.plan = p] = U(n, l, f, p)
    OBVIOUS
  <2> HIDE DEF U
  <2>3. U(n, l, f, p)
          = QueryRecord(n, c.request, l, p, f, c.second, c.known, c.bound, c.ran, c.answer)
    BY <2>1
  <2> QED BY <2>2, <2>3, Zenon
<1>6. e = QueryRecord(n, c.request, l, p, f, c.second, c.known, c.bound, c.ran, c.answer)
  BY <1>4, <1>5, Zenon
<1>7. IsQuery(e) /\ e.request = c.request
  BY <1>6, RecordIsQuery DEF QueryRecord
<1>8. Goes(q, e)
  BY <1>3, <1>4, Zenon
<1> QED BY <1>1, <1>2, <1>7, <1>8, OtherMoves

LEMMA LoadMoves ==
    ASSUME PathInv, NEW q \in QueryIds, Load(q)
    PROVE  PathInv'
<1>1. PICK c : c = queries[q]
  OBVIOUS
<1>2. IsQuery(c) /\ c.pc = "load" /\ CatalogKept
  BY <1>1 DEF PathInv, Load
<1>3. catalogStore = "sql" => c.request.kind # "sql"
  BY <1>1, <1>2 DEF PathInv, QuerySound
<1>4. PICK t, k : t = Tail(c.todo) /\ k = Remembered(q, Head(c.todo).of)
  OBVIOUS
<1>5. PICK e : e = [c EXCEPT !.todo = t, !.known = k]
  OBVIOUS
<1>6. [c EXCEPT !.todo = t, !.known = k]
        = QueryRecord(c.pc, c.request, c.left, c.plan, t, c.second, k, c.bound, c.ran, c.answer)
  BY <1>2, LoadQuery, Zenon
<1>7. e = QueryRecord(c.pc, c.request, c.left, c.plan, t, c.second, k, c.bound, c.ran, c.answer)
  BY <1>5, <1>6, Zenon
<1>8. IsQuery(e) /\ e.request = c.request
  BY <1>7, RecordIsQuery DEF QueryRecord
<1>9. CASE Goes(q, e)
  BY <1>1, <1>2, <1>3, <1>8, <1>9, OtherMoves
<1>10. ASSUME NEW b, Goes(q, [e EXCEPT !.bound = b])
       PROVE  PathInv'
  <2>1. PICK d : d = [e EXCEPT !.bound = b]
    OBVIOUS
  <2>2. d = QueryRecord(e.pc, e.request, e.left, e.plan, e.todo, e.second, e.known, b, e.ran, e.answer)
    BY <1>8, <2>1, QueryField
  <2>3. IsQuery(d) /\ d.request = c.request
    BY <1>8, <2>2, RecordIsQuery DEF QueryRecord
  <2>4. Goes(q, d)
    BY <1>10, <2>1
  <2> QED BY <1>1, <1>2, <1>3, <2>3, <2>4, OtherMoves
<1>11. CASE FailsWith(q)
  BY <1>2, <1>11, FailMoves
<1>12. FailsWith(q) \/ Goes(q, e) \/ \E b : Goes(q, [e EXCEPT !.bound = b])
  <2> DEFINE x     == Head(c.todo)
             kind  == SeenKind(q, x.of)
             binds == c.request.kind = "unified" => c.second
  <2>1. CASE kind # "gone" /\ binds /\ Bindable(kind)
    <3>1. Goes(q, [e EXCEPT !.bound = e.bound \cup {Bound(x.key, x.of, kind)}])
      BY <2>1, <1>1, <1>4, <1>5, Zenon DEF Load
    <3> QED BY <3>1, Zenon
  <2>2. CASE kind = "gone"
    BY <2>2, <1>1, <1>4, <1>5, Zenon DEF Load, Bindable
  <2>3. CASE kind # "gone" /\ ~binds
    BY <2>3, <1>1, <1>4, <1>5, Zenon DEF Load
  <2>4. CASE kind # "gone" /\ binds /\ ~Bindable(kind)
    BY <2>4, <1>1, <1>4, <1>5, Zenon DEF Load
  <2> QED BY <2>1, <2>2, <2>3, <2>4
<1> QED BY <1>9, <1>10, <1>11, <1>12, Zenon

LEMMA LoadedMoves ==
    ASSUME PathInv, NEW q \in QueryIds, Loaded(q)
    PROVE  PathInv'
<1>1. PICK c : c = queries[q]
  OBVIOUS
<1>2. IsQuery(c) /\ c.pc = "load" /\ CatalogKept
  BY <1>1 DEF PathInv, Loaded
<1>3. catalogStore = "sql" => c.request.kind # "sql"
  BY <1>1, <1>2 DEF PathInv, QuerySound
<1>4. ASSUME NEW p, Goes(q, [c EXCEPT !.pc = p])
      PROVE  PathInv'
  <2>1. PICK e : e = [c EXCEPT !.pc = p]
    OBVIOUS
  <2>2. e = QueryRecord(p, c.request, c.left, c.plan, c.todo, c.second, c.known, c.bound, c.ran, c.answer)
    BY <1>2, <2>1, QueryField
  <2>3. IsQuery(e) /\ e.request = c.request
    BY <2>2, RecordIsQuery DEF QueryRecord
  <2>4. Goes(q, e)
    BY <1>4, <2>1
  <2> QED BY <1>1, <1>2, <1>3, <2>3, <2>4, OtherMoves
<1>5. CASE Goes(q, [c EXCEPT !.second = TRUE, !.todo = c.plan])
  <2>1. PICK s, t : s = TRUE /\ t = c.plan
    OBVIOUS
  <2>2. PICK e : e = [c EXCEPT !.second = s, !.todo = t]
    OBVIOUS
  <2>3. [c EXCEPT !.second = s, !.todo = t]
          = QueryRecord(c.pc, c.request, c.left, c.plan, t, s, c.known, c.bound, c.ran, c.answer)
    BY <1>2, SecondPass, Zenon
  <2>4. e = QueryRecord(c.pc, c.request, c.left, c.plan, t, s, c.known, c.bound, c.ran, c.answer)
    BY <2>2, <2>3, Zenon
  <2>5. IsQuery(e) /\ e.request = c.request
    BY <2>4, RecordIsQuery DEF QueryRecord
  <2>6. Goes(q, e)
    BY <1>5, <2>1, <2>2, Zenon
  <2> QED BY <1>1, <1>2, <1>3, <2>5, <2>6, OtherMoves
<1>6. CASE FailsWith(q)
  BY <1>2, <1>6, FailMoves
<1>7. \/ FailsWith(q)
      \/ Goes(q, [c EXCEPT !.second = TRUE, !.todo = c.plan])
      \/ Goes(q, [c EXCEPT !.pc = "resolve"]) \/ Goes(q, [c EXCEPT !.pc = "sources"])
  BY <1>1, Zenon DEF Loaded
<1> QED BY <1>4, <1>5, <1>6, <1>7, Zenon

LEMMA BuildSourcesMoves ==
    ASSUME PathInv, NEW q \in QueryIds, BuildSources(q)
    PROVE  PathInv'
<1>1. PICK c : c = queries[q]
  OBVIOUS
<1>2. IsQuery(c) /\ c.pc = "sources" /\ CatalogKept /\ c.request \in QueryRequests \cup {NoRequest}
  BY <1>1 DEF PathInv, BuildSources
<1>3. CASE FailsWith(q)
  BY <1>2, <1>3, FailMoves
<1>4. CASE Goes(q, [c EXCEPT !.pc = "plan"])
  <2>1. PICK e : e = [c EXCEPT !.pc = "plan"]
    OBVIOUS
  <2>2. e = QueryRecord("plan", c.request, c.left, c.plan, c.todo, c.second, c.known, c.bound,
                        c.ran, c.answer)
    BY <1>2, <2>1, QueryField
  <2>3. IsQuery(e) /\ e.request = c.request /\ e.pc = "plan" /\ e.bound = c.bound
    BY <2>2, RecordIsQuery DEF QueryRecord
  <2>4. Goes(q, e)
    BY <1>4, <2>1
  <2>5. catalogStore = "sql" => QuerySound(e)
    BY <1>1, <1>2, <2>3 DEF PathInv, QuerySound
  <2> QED BY <1>2, <2>3, <2>4, <2>5, QueryMoves
<1> QED BY <1>1, <1>3, <1>4, Zenon DEF BuildSources

LEMMA PlanMoves ==
    ASSUME PathInv, NEW q \in QueryIds, Plan(q)
    PROVE  PathInv'
<1>1. PICK c : c = queries[q]
  OBVIOUS
<1>2. IsQuery(c) /\ c.pc = "plan" /\ CatalogKept /\ c.request \in QueryRequests \cup {NoRequest}
  BY <1>1 DEF PathInv, Plan
<1>3. CASE FailsWith(q)
  BY <1>2, <1>3, FailMoves
<1>4. PICK p : p = IF c.request.explain THEN "done" ELSE "run"
  OBVIOUS
<1>5. PICK r : r = {t \in c.bound : t.key \in Named(c)}
  OBVIOUS
<1>6. CASE /\ Named(c) \subseteq {t.key : t \in c.bound}
           /\ Goes(q, [c EXCEPT !.pc = p, !.ran = r])
  <2>1. PICK e : e = [c EXCEPT !.pc = p, !.ran = r]
    OBVIOUS
  <2>2. [c EXCEPT !.pc = p, !.ran = r]
          = QueryRecord(p, c.request, c.left, c.plan, c.todo, c.second, c.known, c.bound, r, c.answer)
    BY <1>2, PlannedQuery, Zenon
  <2>3. e = QueryRecord(p, c.request, c.left, c.plan, c.todo, c.second, c.known, c.bound, r, c.answer)
    BY <2>1, <2>2, Zenon
  <2>4. IsQuery(e) /\ e.request = c.request /\ e.pc = p /\ e.bound = c.bound /\ e.ran = r
    BY <2>3, RecordIsQuery DEF QueryRecord
  <2>5. Goes(q, e)
    BY <1>6, <2>1
  <2>6. ASSUME catalogStore = "sql", c.request.kind = "sql"
        PROVE  /\ OwnTables(c.bound) /\ OwnTables(r)
               /\ \A n \in c.request.names : \E t \in r : t.key = n
    <3>1. OwnTables(c.bound)
      BY <1>1, <1>2, <2>6 DEF PathInv, QuerySound
    <3>2. Named(c) = c.request.names
      BY <2>6 DEF Named
    <3> QED BY <3>1, <3>2, <1>5, <1>6 DEF OwnTables
  <2>7. p \in {"done", "run"} /\ (p = "done" => c.request.explain)
    BY <1>4
  <2>8. catalogStore = "sql" => QuerySound(e)
    BY <2>4, <2>6, <2>7 DEF QuerySound
  <2> QED BY <1>2, <2>4, <2>5, <2>8, QueryMoves
<1>7. \/ FailsWith(q)
      \/ /\ Named(c) \subseteq {t.key : t \in c.bound}
         /\ Goes(q, [c EXCEPT !.pc = p, !.ran = r])
  BY <1>1, <1>4, <1>5, Zenon DEF Plan, PlanOf
<1> QED BY <1>3, <1>6, <1>7

LEMMA RunMoves ==
    ASSUME PathInv, NEW q \in QueryIds, Run(q)
    PROVE  PathInv'
<1>1. PICK c : c = queries[q]
  OBVIOUS
<1>2. IsQuery(c) /\ c.pc = "run" /\ CatalogKept /\ c.request \in QueryRequests \cup {NoRequest}
  BY <1>1 DEF PathInv, Run
<1>3. CASE FailsWith(q)
  BY <1>2, <1>3, FailMoves
<1>4. CASE Goes(q, [c EXCEPT !.pc = "done", !.answer = c.ran])
  <2>1. PICK p, a : p = "done" /\ a = c.ran
    OBVIOUS
  <2>2. PICK e : e = [c EXCEPT !.pc = p, !.answer = a]
    OBVIOUS
  <2>3. [c EXCEPT !.pc = p, !.answer = a]
          = QueryRecord(p, c.request, c.left, c.plan, c.todo, c.second, c.known, c.bound, c.ran, a)
    BY <1>2, AnsweredQuery, Zenon
  <2>4. e = QueryRecord(p, c.request, c.left, c.plan, c.todo, c.second, c.known, c.bound, c.ran, a)
    BY <2>2, <2>3, Zenon
  <2>5. IsQuery(e) /\ e.request = c.request /\ e.pc = "done" /\ e.answer = c.ran
    BY <2>1, <2>4, RecordIsQuery DEF QueryRecord
  <2>6. Goes(q, e)
    BY <1>4, <2>1, <2>2, Zenon
  <2>7. catalogStore = "sql" => QuerySound(e)
    BY <1>1, <1>2, <2>5 DEF PathInv, QuerySound
  <2> QED BY <1>2, <2>5, <2>6, <2>7, QueryMoves
<1> QED BY <1>1, <1>3, <1>4, Zenon DEF Run

LEMMA RunDirectMoves ==
    ASSUME PathInv, NEW q \in QueryIds, RunDirect(q)
    PROVE  PathInv'
<1>1. PICK c : c = queries[q]
  OBVIOUS
<1>2. IsQuery(c) /\ c.pc = "direct" /\ CatalogKept
  BY <1>1 DEF PathInv, RunDirect
<1>3. CASE FailsWith(q)
  BY <1>2, <1>3, FailMoves
<1>4. CASE Goes(q, [c EXCEPT !.pc = "done"])
  <2>1. PICK e : e = [c EXCEPT !.pc = "done"]
    OBVIOUS
  <2>2. e = QueryRecord("done", c.request, c.left, c.plan, c.todo, c.second, c.known, c.bound,
                        c.ran, c.answer)
    BY <1>2, <2>1, QueryField
  <2>3. IsQuery(e) /\ e.request = c.request
    BY <2>2, RecordIsQuery DEF QueryRecord
  <2>4. catalogStore = "sql" => c.request.kind # "sql"
    BY <1>1, <1>2 DEF PathInv, QuerySound
  <2>5. Goes(q, e)
    BY <1>4, <2>1
  <2> QED BY <1>1, <1>2, <2>3, <2>4, <2>5, OtherMoves
<1> QED BY <1>1, <1>3, <1>4, Zenon DEF RunDirect

LEMMA ChangeDatasetMoves ==
    ASSUME PathInv, NEW d \in Ids, NEW k \in RowKinds \cup {"gone"}, ChangeDataset(d, k)
    PROVE  PathInv'
<1>1. /\ dsRow' = [dsRow EXCEPT ![d] = k] /\ queries' = queries /\ catalogStore' = catalogStore
      /\ dsRow[d] = "gone" /\ k # "gone" => \A e \in Ids : SameAlias(d, e) => ~Stored(e)
  BY DEF ChangeDataset, Stored
<1>2. dsRow' \in [Ids -> RowKinds \cup {"gone"}]
  BY <1>1 DEF PathInv
<1>3. ASSUME AliasesUnique(dsRow)
      PROVE  AliasesUnique(dsRow')
  <2> SUFFICES ASSUME NEW e \in Ids, NEW f \in Ids, SameAlias(e, f)
               PROVE  dsRow'[e] = "gone" \/ dsRow'[f] = "gone"
    BY DEF AliasesUnique
  <2>1. dsRow[e] = "gone" \/ dsRow[f] = "gone"
    BY <1>3 DEF AliasesUnique
  <2>2. /\ dsRow'[e] = IF e = d THEN k ELSE dsRow[e]
        /\ dsRow'[f] = IF f = d THEN k ELSE dsRow[f]
    BY <1>1 DEF PathInv
  <2>3. SameAlias(f, e)
    BY DEF SameAlias
  <2> QED BY <1>1, <2>1, <2>2, <2>3 DEF SameAlias, Stored
<1> QED BY <1>1, <1>2, <1>3 DEF PathInv

LEMMA InitPath == QueryInit => PathInv
<1> SUFFICES ASSUME QueryInit PROVE PathInv
  OBVIOUS
<1>1. PICK c : c = Fresh
  OBVIOUS
<1>2. IsQuery(c) /\ c.request = NoRequest /\ c.request.kind = "none"
  BY <1>1 DEF Fresh, IsQuery, QueryRecord, NoRequest
<1>3. queries = [q \in QueryIds |-> c]
  BY <1>1 DEF QueryInit
<1>4. \A q \in QueryIds : queries[q] = c
  BY <1>3
<1>5. QuerySound(c)
  BY <1>2 DEF QuerySound
<1>6. dsRow \in [Ids -> RowKinds \cup {"gone"}] /\ (catalogStore = "sql" => AliasesUnique(dsRow))
  BY QueryPathAssumption DEF QueryInit, Ids
<1> QED BY <1>2, <1>3, <1>4, <1>5, <1>6 DEF PathInv

LEMMA NextPath ==
    ASSUME PathInv, [QueryNext]_queryVars
    PROVE  PathInv'
<1>1. CASE UNCHANGED queryVars
  BY <1>1 DEF queryVars, PathInv
<1>2. CASE QueryNext
  <2>1. ASSUME NEW q \in QueryIds, NEW r \in QueryRequests, Send(q, r)
        PROVE  PathInv'
    BY <2>1, SendMoves
  <2>2. ASSUME NEW q \in QueryIds, QueryStep(q)
        PROVE  PathInv'
    BY <2>2, ResolveSqlMoves, ResolvePreviewMoves, ReadModelMoves, LoadMoves, LoadedMoves,
       BuildSourcesMoves, PlanMoves, RunMoves, RunDirectMoves DEF QueryStep
  <2>3. ASSUME NEW d \in Ids, NEW k \in RowKinds \cup {"gone"}, ChangeDataset(d, k)
        PROVE  PathInv'
    BY <2>3, ChangeDatasetMoves
  <2>4. CASE \E c \in QueryConns : DropConnector(c)
    BY <2>4 DEF DropConnector, PathInv
  <2>5. CASE \E m \in ModelIds, f \in ModelForms : ChangeModel(m, f)
    BY <2>5 DEF ChangeModel, PathInv
  <2> QED BY <1>2, <2>1, <2>2, <2>3, <2>4, <2>5 DEF QueryNext
<1> QED BY <1>1, <1>2

(* With a SQL metadata store a federated query reads, under each alias of  *)
(* its text, the dataset of that alias, however the catalogue changes and  *)
(* whatever other queries register (SqlQueryService, uq_datasets_workspace_*)
(* sql_alias).                                                             *)
THEOREM NamesDenoteDatasets == QuerySpec => []AliasDenotes
<1>1. PathInv => AliasDenotes
  <2> SUFFICES ASSUME PathInv, NEW q \in QueryIds, queries[q].pc = "done",
                      queries[q].request.kind = "sql", ~queries[q].request.explain,
                      catalogStore = "sql", NEW n \in queries[q].request.names
               PROVE  \E t \in queries[q].answer : t.key = n /\ OwnAlias[t.of] = n
    BY DEF AliasDenotes
  <2>1. PICK c : c = queries[q]
    OBVIOUS
  <2>2. QuerySound(c)
    BY <2>1 DEF PathInv
  <2> QED BY <2>1, <2>2 DEF QuerySound, OwnTables
<1> QED BY <1>1, InitPath, NextPath, PTL DEF QuerySpec
=============================================================================
