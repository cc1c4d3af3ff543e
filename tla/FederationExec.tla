--------------------------- MODULE FederationExec ---------------------------
(***************************************************************************)
(* Execution of one federated query plan by concurrent queries: the stage  *)
(* scheduler, the stage executor and the artifact store.                   *)
(*                                                                         *)
(* A physical plan is a set of remote scans and one local stage that       *)
(* depends on all of them, or a single remote stage (full pushdown).  The  *)
(* plan id is a hash of the logical plan, so every query with the same SQL *)
(* shares one manifest per stage, whatever dataset revisions it runs on.   *)
(*                                                                         *)
(* Data abstraction: a scan's data is the version of its dataset that it   *)
(* read, a stage's data the versions that went into it.  A stage label is  *)
(* the cache key: the dataset revision of each input, 0 where the input    *)
(* has none.  A revision is numbered by the version that it published.     *)
(***************************************************************************)
EXTENDS Naturals, FiniteSets

CONSTANTS
    Stages,       \* stages of the plan
    Scans,        \* the remote stages among them
    Result,       \* result_stage_id
    Volatile,     \* scans of live datasets
    Runs,         \* queries that may be in flight at the same time
    Parallelism,  \* stage_parallelism
    RetryLimit,   \* retry_limit of a stage
    MaxVersion,   \* bound: versions of a dataset
    MaxFaults,    \* bound: failed stage attempts
    MaxCrashes    \* bound: crashes of the process

ASSUME StagesAssumption   == Scans \subseteq Stages /\ Result \in Stages
ASSUME VolatileAssumption == Volatile \subseteq Scans
ASSUME LimitsAssumption   == Parallelism \in Nat \ {0} /\ RetryLimit \in Nat
ASSUME BoundsAssumption   == /\ MaxVersion \in Nat \ {0}
                             /\ MaxFaults \in Nat /\ MaxCrashes \in Nat

VARIABLES
    content,    \* version of the rows each scan would read now
    published,  \* version of the committed revision of each synced dataset
    manifest,   \* the stage manifests on disk
    whole,      \* artifact files that hold their content
    torn,       \* artifact files that a crash left half written
    run,        \* the queries; bound: the dataset versions they are planned on
    task,       \* the stage tasks of each query
    faults,     \* failed attempts so far
    crashes     \* crashes so far

vars == <<content, published, manifest, whole, torn, run, task, faults, crashes>>

Versions == [Scans -> Nat]
Nothing  == [t \in Scans |-> 0]
Only(s, v) == [t \in Scans |-> IF t = s THEN v ELSE 0]

\* The stages whose outputs a stage reads: a local stage depends on every
\* scan of the plan, a remote stage on none.
Deps(s)   == IF s \in Scans THEN {} ELSE Scans
Inputs(s) == IF s \in Scans THEN {s} ELSE Scans

Artifacts == Stages \X Versions
NoManifest == [file |-> "absent", label |-> Nothing, data |-> Nothing]

\* created: waiting for its next attempt; requested and answered: a live
\* source has the request, has answered; finished: it has its artifact.
TaskPhases == {"none", "created", "requested", "answered", "finished"}
NoTask  == [pc |-> "none", attempts |-> 0, data |-> Nothing]
IdleRun == [pc |-> "idle", bound |-> Nothing, ready |-> {}]

TypeOK ==
    /\ content \in Versions
    /\ published \in Versions
    /\ manifest \in [Stages -> [file : {"absent", "whole", "torn"},
                                label : Versions, data : Versions]]
    /\ whole \subseteq Artifacts
    /\ torn \subseteq Artifacts
    /\ run \in [Runs -> [pc : {"idle", "running", "done", "failed"},
                         bound : Versions, ready : SUBSET Stages]]
    /\ task \in [Runs -> [Stages -> [pc : TaskPhases, attempts : Nat,
                                     data : Versions]]]
    /\ faults \in Nat
    /\ crashes \in Nat

Init ==
    /\ content = [t \in Scans |-> 1]
    /\ published = [t \in Scans |-> IF t \in Volatile THEN 0 ELSE 1]
    /\ manifest = [s \in Stages |-> NoManifest]
    /\ whole = {}
    /\ torn = {}
    /\ run = [r \in Runs |-> IdleRun]
    /\ task = [r \in Runs |-> [s \in Stages |-> NoTask]]
    /\ faults = 0
    /\ crashes = 0

-----------------------------------------------------------------------------
(* The datasets                                                            *)

\* A sync rewrites the dataset's file, or the rows of a live source change.
Rewrite(t) ==
    /\ content[t] < MaxVersion
    /\ content' = [content EXCEPT ![t] = @ + 1]
    /\ UNCHANGED <<published, manifest, whole, torn, run, task, faults, crashes>>

\* Mutant of Publish: the revision is committed before the file is written.
PublishEarly(t) ==
    /\ t \notin Volatile
    /\ published[t] = content[t] /\ content[t] < MaxVersion
    /\ published' = [published EXCEPT ![t] = @ + 1]
    /\ UNCHANGED <<content, manifest, whole, torn, run, task, faults, crashes>>

\* The sync commits the dataset's new revision.
Publish(t) ==
    /\ t \notin Volatile
    /\ published[t] < content[t]
    /\ published' = [published EXCEPT ![t] = content[t]]
    /\ UNCHANGED <<content, manifest, whole, torn, run, task, faults, crashes>>

-----------------------------------------------------------------------------
(* Cache labels                                                            *)

\* describe_stage: a remote stage is labelled with the revision in the
\* query's binding; a local stage with the labels in the manifests of its
\* dependencies, as they are on disk now.
Label(r, s) ==
    IF s \in Volatile THEN Nothing
    ELSE IF s \in Scans THEN Only(s, run[r].bound[s])
    ELSE [t \in Scans |-> manifest[t].label[t]]

\* from_inputs: cacheable when every input has a freshness key.
Cacheable(s, label) == \A t \in Inputs(s) : label[t] # 0

\* Mutant of Hit: the cache keys are not compared.
HitAnyRevision(r, s) == manifest[s].file = "whole" /\ Cacheable(s, Label(r, s))

\* get_cached_stage_output returns the manifest's artifact.
Hit(r, s) ==
    /\ manifest[s].file = "whole"
    /\ Cacheable(s, Label(r, s))
    /\ manifest[s].label = Label(r, s)

\* The manifests that describing s and looking up its cache parse: json.loads
\* raises on a torn one.
Parsable(s) == \A d \in Deps(s) \cup {s} : manifest[d].file # "torn"

\* read_stage_output of every dependency succeeds.
DepsReadable(s) ==
    \A d \in Deps(s) : manifest[d].file = "whole" /\ <<d, manifest[d].data>> \notin torn

-----------------------------------------------------------------------------
(* Scheduler                                                               *)

Gathered(r) == \A s \in Stages : task[r][s].pc \in {"none", "finished"}

\* The stages that are not completed.
Left(r) == {s \in Stages : task[r][s].pc # "finished"}

\* Mutant of Ready: dependencies are not waited for.
ReadyAtOnce(r) == IF run[r].ready # {} THEN run[r].ready ELSE Left(r)

\* The rest of the ready list, or when it is used up the stages whose
\* dependencies are completed.
Ready(r) == IF run[r].ready # {} THEN run[r].ready
            ELSE {s \in Left(r) : Deps(s) \cap Left(r) = {}}

\* A query is planned on the bindings of the datasets as they are now.  A live
\* dataset has no revision; its version is kept for FreshResult only.
Execute(r) ==
    /\ run[r].pc # "running"
    /\ Gathered(r)
    /\ run' = [run EXCEPT ![r] =
                 [pc |-> "running", ready |-> {},
                  bound |-> [t \in Scans |-> IF t \in Volatile THEN content[t]
                                                               ELSE published[t]]]]
    /\ task' = [task EXCEPT ![r] = [s \in Stages |-> NoTask]]
    /\ UNCHANGED <<content, published, manifest, whole, torn, faults, crashes>>

\* _chunk: the next stage_parallelism stages of the ready list, in any order.
Chunks(ready) ==
    {batch \in SUBSET ready :
        Cardinality(batch) = IF Cardinality(ready) < Parallelism
                             THEN Cardinality(ready) ELSE Parallelism}

NextBatch(r) ==
    /\ run[r].pc = "running"
    /\ Gathered(r)
    /\ Left(r) # {}
    /\ \E batch \in Chunks(Ready(r)) :
          /\ run' = [run EXCEPT ![r].ready = Ready(r) \ batch]
          /\ task' = [task EXCEPT ![r] =
                [s \in Stages |-> IF s \in batch THEN [NoTask EXCEPT !.pc = "created"]
                                  ELSE task[r][s]]]
    /\ UNCHANGED <<content, published, manifest, whole, torn, faults, crashes>>

\* The scheduler returns and fetch_arrow reads the artifact of the result.
Complete(r) ==
    /\ run[r].pc = "running"
    /\ Gathered(r)
    /\ Left(r) = {}
    /\ run' = [run EXCEPT ![r].pc = IF <<Result, task[r][Result].data>> \in torn
                                    THEN "failed" ELSE "done"]
    /\ UNCHANGED <<content, published, manifest, whole, torn, task, faults, crashes>>

\* Mutant of AttemptFails: attempts are not counted.
AttemptFailsForever(r, s) ==
    /\ task' = [task EXCEPT ![r][s] = [NoTask EXCEPT !.pc = "created"]]
    /\ UNCHANGED run

\* _execute_with_retry: after the last attempt the task raises.  gather passes
\* that on at once: the query fails while the other tasks of its batch run on.
AttemptFails(r, s) ==
    IF task[r][s].attempts < RetryLimit
    THEN /\ task' = [task EXCEPT ![r][s] = [NoTask EXCEPT !.pc = "created",
                                                          !.attempts = task[r][s].attempts + 1]]
         /\ UNCHANGED run
    ELSE /\ task' = [task EXCEPT ![r][s] = NoTask]
         /\ run' = [run EXCEPT ![r].pc = "failed"]

Finished(r, s, data) ==
    task' = [task EXCEPT ![r][s] = [pc |-> "finished", attempts |-> 0, data |-> data]]

-----------------------------------------------------------------------------
(* Stage executor                                                          *)

\* write_stage_output: an artifact file that exists is not written again.
WriteStageOutput(s, label, data) ==
    /\ whole' = IF <<s, data>> \in torn THEN whole ELSE whole \cup {<<s, data>>}
    /\ manifest' = [manifest EXCEPT ![s] = [file |-> "whole", label |-> label,
                                            data |-> data]]

CacheHit(r, s) ==
    /\ task[r][s].pc = "created"
    /\ Parsable(s)
    /\ Hit(r, s)
    /\ Finished(r, s, manifest[s].data)
    /\ UNCHANGED <<content, published, manifest, whole, torn, run, faults, crashes>>

\* A synced dataset is a local file: DuckDbFileRemoteSource reads it and the
\* output is stored without suspending.
ScanFile(r, s) ==
    LET data == Only(s, content[s]) IN
    /\ s \in Scans \ Volatile
    /\ task[r][s].pc = "created"
    /\ Parsable(s)
    /\ ~Hit(r, s)
    /\ WriteStageOutput(s, Label(r, s), data)
    /\ Finished(r, s, data)
    /\ UNCHANGED <<content, published, torn, run, faults, crashes>>

\* A live source is asked ...
Request(r, s) ==
    /\ s \in Volatile
    /\ task[r][s].pc = "created"
    /\ Parsable(s)
    /\ task' = [task EXCEPT ![r][s].pc = "requested"]
    /\ UNCHANGED <<content, published, manifest, whole, torn, run, faults, crashes>>

\* ... computes its answer ...
Answer(r, s) ==
    /\ task[r][s].pc = "requested"
    /\ task' = [task EXCEPT ![r][s].pc = "answered", ![r][s].data = Only(s, content[s])]
    /\ UNCHANGED <<content, published, manifest, whole, torn, run, faults, crashes>>

\* ... and the answer arrives and is stored.
Store(r, s) ==
    /\ task[r][s].pc = "answered"
    /\ WriteStageOutput(s, Label(r, s), task[r][s].data)
    /\ Finished(r, s, task[r][s].data)
    /\ UNCHANGED <<content, published, torn, run, faults, crashes>>

\* A local stage reads what the manifests of its dependencies name now, and
\* stores its output under their labels, without suspending.
ComputedData == [t \in Scans |-> manifest[t].data[t]]

Compute(r, s) ==
    /\ s \notin Scans
    /\ task[r][s].pc = "created"
    /\ Parsable(s)
    /\ ~Hit(r, s)
    /\ DepsReadable(s)
    /\ WriteStageOutput(s, Label(r, s), ComputedData)
    /\ Finished(r, s, ComputedData)
    /\ UNCHANGED <<content, published, torn, run, faults, crashes>>

-----------------------------------------------------------------------------
(* Failures                                                                *)

\* The source or the engine raises.
StageFails(r, s) ==
    /\ task[r][s].pc \in {"created", "requested"}
    /\ faults < MaxFaults
    /\ faults' = faults + 1
    /\ AttemptFails(r, s)
    /\ UNCHANGED <<content, published, manifest, whole, torn, crashes>>

\* A torn manifest or artifact raises in every attempt.
StageBroken(r, s) ==
    /\ task[r][s].pc = "created"
    /\ \/ ~Parsable(s)
       \/ ~Hit(r, s) /\ ~DepsReadable(s)
    /\ AttemptFails(r, s)
    /\ UNCHANGED <<content, published, manifest, whole, torn, faults, crashes>>

\* What write_stage_output is about to store for a task.
Writing(r, s) ==
    CASE task[r][s].pc = "answered" -> {task[r][s].data}
      [] task[r][s].pc = "created" /\ s \in Scans \ Volatile /\ ~Hit(r, s)
           -> {Only(s, content[s])}
      [] task[r][s].pc = "created" /\ s \notin Scans /\ ~Hit(r, s) /\ DepsReadable(s)
           -> {ComputedData}
      [] OTHER -> {}

\* The process dies and restarts.  Neither the artifact nor the manifest is
\* written atomically.
Crash ==
    /\ crashes < MaxCrashes
    /\ crashes' = crashes + 1
    /\ run' = [r \in Runs |-> IdleRun]
    /\ task' = [r \in Runs |-> [s \in Stages |-> NoTask]]
    /\ \/ UNCHANGED <<manifest, whole, torn>>
       \/ \E r \in Runs, s \in Stages : \E data \in Writing(r, s) :
             \/ /\ <<s, data>> \notin whole
                /\ torn' = torn \cup {<<s, data>>}
                /\ UNCHANGED <<manifest, whole>>
             \/ /\ whole' = IF <<s, data>> \in torn THEN whole
                            ELSE whole \cup {<<s, data>>}
                /\ manifest' = [manifest EXCEPT ![s] = [NoManifest EXCEPT !.file = "torn"]]
                /\ UNCHANGED torn
    /\ UNCHANGED <<content, published, faults>>

-----------------------------------------------------------------------------

Next ==
    \/ \E t \in Scans : Rewrite(t)
    \/ \E t \in Scans : Publish(t)
    \/ \E r \in Runs : Execute(r)
    \/ \E r \in Runs : NextBatch(r)
    \/ \E r \in Runs : Complete(r)
    \/ \E r \in Runs, s \in Stages : CacheHit(r, s)
    \/ \E r \in Runs, s \in Stages : ScanFile(r, s)
    \/ \E r \in Runs, s \in Stages : Request(r, s)
    \/ \E r \in Runs, s \in Stages : Answer(r, s)
    \/ \E r \in Runs, s \in Stages : Store(r, s)
    \/ \E r \in Runs, s \in Stages : Compute(r, s)
    \/ \E r \in Runs, s \in Stages : StageFails(r, s)
    \/ \E r \in Runs, s \in Stages : StageBroken(r, s)
    \/ Crash

Spec == Init /\ [][Next]_vars

\* The event loop drives every task and every query that is not waiting, and
\* a live source answers a request (or fails: its client has a timeout).
TaskStep(r, s) == \/ CacheHit(r, s) \/ ScanFile(r, s) \/ Request(r, s) \/ Answer(r, s)
                  \/ Store(r, s) \/ Compute(r, s) \/ StageBroken(r, s)

Fairness ==
    \A r \in Runs : /\ WF_vars(NextBatch(r))
                    /\ WF_vars(Complete(r))
                    /\ \A s \in Stages : WF_vars(TaskStep(r, s))

FairSpec == Spec /\ Fairness

-----------------------------------------------------------------------------
(* Properties                                                              *)

\* The rows behind a cache key are at least as new as the revision in it:
\* a stage is never stored under a revision that its rows predate.
LabelSound ==
    \A s \in Stages : manifest[s].file = "whole" =>
        \A t \in Inputs(s) : manifest[s].label[t] <= manifest[s].data[t]

\* The result of a query is not older than the datasets were when the query
\* was planned.
FreshResult ==
    \A r \in Runs : run[r].pc = "done" =>
        \A t \in Inputs(Result) : task[r][Result].data[t] >= run[r].bound[t]

\* While the process lives, a local stage finds the output of every stage it
\* reads, though other queries and leftover tasks rewrite the manifests.
InputsPresent ==
    crashes = 0 =>
        \A r \in Runs, s \in Stages :
            task[r][s].pc = "created" => Parsable(s) /\ (Hit(r, s) \/ DepsReadable(s))

\* Every query ends.
QueriesEnd ==
    \A r \in Runs : run[r].pc = "running" ~> run[r].pc # "running"

-----------------------------------------------------------------------------
(* The inductive strengthening of LabelSound, and of FreshResult for plans *)
(* whose result is a remote stage (full pushdown).                         *)

\* No revision and no query is ahead of the rows of its datasets.
RevisionsBehindContent ==
    \A t \in Scans : /\ published[t] <= content[t]
                     /\ \A r \in Runs : run[r].bound[t] <= content[t]

\* Only live sources are waited for.
WaitingIsLive ==
    \A r \in Runs, s \in Stages :
        task[r][s].pc \in {"requested", "answered"} => s \in Volatile

\* What a query has read of a dataset is not older than its binding.
ScansFresh ==
    \A r \in Runs, s \in Scans :
        task[r][s].pc \in {"answered", "finished"}
          => task[r][s].data[s] >= run[r].bound[s]

DoneIsFinished ==
    \A r \in Runs : run[r].pc = "done" => \A s \in Stages : task[r][s].pc = "finished"

CacheInv == /\ TypeOK /\ RevisionsBehindContent /\ WaitingIsLive /\ LabelSound
            /\ ScansFresh /\ DoneIsFinished
=============================================================================
