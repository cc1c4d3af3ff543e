-------------------------- MODULE BackgroundTasks --------------------------
(***************************************************************************)
(* RuntimeBackgroundTaskManager: the in-process scheduler that runs        *)
(* dataset syncs and semantic vector refreshes.                            *)
(*                                                                         *)
(* A task is executed at startup, by a tick of the scheduler or on demand  *)
(* (start_task).  Executions that the manager creates itself are asyncio   *)
(* tasks in _active_tasks; executions of the scheduler are not.  One lock  *)
(* per task name makes an execution skip its handler while another one is  *)
(* running.  stop() cancels and awaits the active tasks, forgets the locks *)
(* and shuts the scheduler down without waiting.                           *)
(***************************************************************************)
EXTENDS Naturals, FiniteSets

CONSTANTS
    Tasks,      \* task names
    Scheduled,  \* tasks with a schedule
    OnStartup,  \* tasks with run_on_startup
    Execs,      \* bound: executions that exist at the same time
    MaxStops,   \* bound: completed calls of stop()
    Nothing        \* no execution

ASSUME TasksAssumption == Scheduled \subseteq Tasks /\ OnStartup \subseteq Tasks
ASSUME NoneAssumption  == Nothing \notin Execs
ASSUME StopsAssumption == MaxStops \in Nat

VARIABLES
    registered,  \* names in _default_tasks and _custom_tasks
    tasksPhase,  \* where start() and stop() are
    raised,      \* the last start() raised
    jobs,        \* tasks with a job in the running scheduler
    active,      \* _active_tasks: name -> execution that is not done
    epoch,       \* generation of _task_locks: stop() clears the dictionary
    exec,        \* the executions
    awaited,     \* executions that start() or stop() is gathering
    ran          \* startup tasks whose handler ran since the last start()

tasksVars == <<registered, tasksPhase, raised, jobs, active, epoch, exec, awaited, ran>>

\* created: the coroutine has not taken its first step.
\* cancelling: cancelled inside the handler, which is unwinding.
ExecPhases == {"free", "created", "running", "cancelling"}
Kinds == {"managed", "scheduled"}
Free == [pc |-> "free", task |-> Nothing, kind |-> "managed", lock |-> 0]

TasksTypeOK ==
    /\ registered \subseteq Tasks
    /\ tasksPhase \in {"stopped", "starting", "started", "stopping"}
    /\ raised \in BOOLEAN
    /\ jobs \subseteq Tasks
    /\ active \in [Tasks -> Execs \cup {Nothing}]
    /\ epoch \in Nat
    /\ exec \in [Execs -> [pc : ExecPhases, task : Tasks \cup {Nothing},
                           kind : Kinds, lock : Nat]]
    /\ awaited \subseteq Execs
    /\ ran \subseteq Tasks

TasksInit ==
    /\ registered = {}
    /\ tasksPhase = "stopped"
    /\ raised = FALSE
    /\ jobs = {}
    /\ active = [t \in Tasks |-> Nothing]
    /\ epoch = 0
    /\ exec = [e \in Execs |-> Free]
    /\ awaited = {}
    /\ ran = {}

Started == tasksPhase # "stopped"

FreeExecs == {e \in Execs : exec[e].pc = "free"}

\* Handlers under way: a cancelled handler runs until it has unwound.
InHandler(e) == exec[e].pc \in {"running", "cancelling"}

\* Mutant of Locked: executions of the scheduler do not take the lock.
LockedManaged(t) ==
    \E e \in Execs : /\ InHandler(e) /\ exec[e].task = t /\ exec[e].lock = epoch
                     /\ exec[e].kind = "managed"

\* Mutant of Locked: an execution that has not begun counts as running.
LockedByCreated(t) == \E e \in Execs : exec[e].pc # "free" /\ exec[e].task = t

\* task_lock.locked() for the lock that is in the dictionary now.
Locked(t) == \E e \in Execs : InHandler(e) /\ exec[e].task = t /\ exec[e].lock = epoch

Created(t, k) == [pc |-> "created", task |-> t, kind |-> k, lock |-> 0]

\* Injections from a set of tasks to free executions.
Placements(S) == {f \in [S -> FreeExecs] : \A s, t \in S : f[s] = f[t] => s = t}

\* _run_definition_as_task for every task of f's domain.
CreateManaged(f) ==
    /\ exec' = [e \in Execs |->
                  IF \E t \in DOMAIN f : f[t] = e
                  THEN Created(CHOOSE t \in DOMAIN f : f[t] = e, "managed")
                  ELSE exec[e]]
    /\ active' = [t \in Tasks |-> IF t \in DOMAIN f THEN f[t] ELSE active[t]]

-----------------------------------------------------------------------------
(* Registration and on-demand execution                                    *)

\* _register_definition: a known name is refused; a started manager schedules
\* the task and runs it at once if it is a startup task.
Register(t) ==
    /\ t \notin registered
    /\ registered' = registered \cup {t}
    /\ jobs' = IF Started /\ t \in Scheduled THEN jobs \cup {t} ELSE jobs
    /\ IF Started /\ t \in OnStartup /\ active[t] = Nothing
       THEN \E f \in Placements({t}) : CreateManaged(f)
       ELSE UNCHANGED <<exec, active>>
    /\ UNCHANGED <<tasksPhase, raised, epoch, awaited, ran>>

\* start_task refuses a name that has an active task, started or not.
StartTask(t) ==
    /\ active[t] = Nothing
    /\ \E f \in Placements({t}) : CreateManaged(f)
    /\ UNCHANGED <<registered, tasksPhase, raised, jobs, epoch, awaited, ran>>

-----------------------------------------------------------------------------
(* start()                                                                 *)

StartupTasks == registered \cap OnStartup

Start ==
    /\ tasksPhase = "stopped"
    /\ \A t \in StartupTasks : active[t] = Nothing
    /\ jobs' = registered \cap Scheduled
    /\ \E f \in Placements(StartupTasks) :
          /\ CreateManaged(f)
          /\ awaited' = {f[t] : t \in StartupTasks}
    /\ tasksPhase' = "starting"
    /\ raised' = FALSE
    /\ ran' = {}
    /\ UNCHANGED <<registered, epoch>>

\* A startup task that is already active makes start() raise half-way: the
\* tasks before it in the list are running and the manager counts as started.
StartRefused ==
    /\ tasksPhase = "stopped"
    /\ \E t \in StartupTasks : active[t] # Nothing
    /\ \E S \in SUBSET {t \in StartupTasks : active[t] = Nothing} :
          \E f \in Placements(S) : CreateManaged(f)
    /\ jobs' = registered \cap Scheduled
    /\ tasksPhase' = "started"
    /\ raised' = TRUE
    /\ ran' = {}
    /\ UNCHANGED <<registered, epoch, awaited>>

StartReturns ==
    /\ tasksPhase = "starting"
    /\ awaited = {}
    /\ tasksPhase' = "started"
    /\ UNCHANGED <<registered, raised, jobs, active, epoch, exec, awaited, ran>>

-----------------------------------------------------------------------------
(* Executions                                                              *)

\* The scheduler fires; max_instances = 1 counts its own executions only, and
\* a scheduler created after stop() counts from zero.
Tick(t) ==
    /\ t \in jobs
    /\ ~\E e \in Execs : /\ exec[e].pc # "free" /\ exec[e].task = t
                         /\ exec[e].kind = "scheduled"
                         /\ exec[e].pc # "cancelling"
    /\ \E e \in FreeExecs : exec' = [exec EXCEPT ![e] = Created(t, "scheduled")]
    /\ UNCHANGED <<registered, tasksPhase, raised, jobs, active, epoch, awaited, ran>>

\* The runner's finally: _active_tasks.pop(name), whatever is stored there.
PopActive(e) ==
    IF exec[e].kind = "managed" THEN [active EXCEPT ![exec[e].task] = Nothing]
                                ELSE active

\* First step of _execute_handler when the lock is free: the handler starts.
Run(e) ==
    /\ exec[e].pc = "created"
    /\ ~Locked(exec[e].task)
    /\ exec' = [exec EXCEPT ![e].pc = "running", ![e].lock = epoch]
    /\ ran' = ran \cup {exec[e].task}
    /\ UNCHANGED <<registered, tasksPhase, raised, jobs, active, epoch, awaited>>

\* ... and when it is held: the execution returns without running the handler.
Skip(e) ==
    /\ exec[e].pc = "created"
    /\ Locked(exec[e].task)
    /\ exec' = [exec EXCEPT ![e] = Free]
    /\ active' = PopActive(e)
    /\ awaited' = awaited \ {e}
    /\ UNCHANGED <<registered, tasksPhase, raised, jobs, epoch, ran>>

\* Mutant of Finish: who gathers the execution is not woken up.
FinishUnnoticed(e) ==
    /\ InHandler(e)
    /\ exec' = [exec EXCEPT ![e] = Free]
    /\ active' = PopActive(e)
    /\ UNCHANGED <<registered, tasksPhase, raised, jobs, epoch, awaited, ran>>

\* The handler returns, or a cancelled one has unwound.
Finish(e) ==
    /\ InHandler(e)
    /\ exec' = [exec EXCEPT ![e] = Free]
    /\ active' = PopActive(e)
    /\ awaited' = awaited \ {e}
    /\ UNCHANGED <<registered, tasksPhase, raised, jobs, epoch, ran>>

\* The handler raises.  gather() without return_exceptions passes the first
\* failure of a startup task on: start() raises, its siblings run on.
Fails(e) ==
    /\ exec[e].pc = "running"
    /\ exec' = [exec EXCEPT ![e] = Free]
    /\ active' = PopActive(e)
    /\ IF tasksPhase = "starting" /\ e \in awaited
       THEN tasksPhase' = "started" /\ raised' = TRUE /\ awaited' = {}
       ELSE awaited' = awaited \ {e} /\ UNCHANGED <<tasksPhase, raised>>
    /\ UNCHANGED <<registered, jobs, epoch, ran>>

-----------------------------------------------------------------------------
(* stop()                                                                  *)

\* Cancelling an execution that has not taken its first step ends it.
Cancelled(E) ==
    [e \in Execs |-> IF e \notin E THEN exec[e]
                     ELSE IF exec[e].pc = "created" THEN Free
                     ELSE [exec[e] EXCEPT !.pc = "cancelling"]]

\* Cancel the active tasks and start to gather them.  A start() that is still
\* gathering its startup tasks ends with their CancelledError.
Stop ==
    /\ tasksPhase \in {"starting", "started"}
    /\ epoch < MaxStops
    /\ LET tracked == {active[t] : t \in Tasks} \ {Nothing} IN
       /\ exec' = Cancelled(tracked)
       /\ awaited' = {e \in tracked : InHandler(e)}
       /\ active' = [t \in Tasks |-> IF active[t] # Nothing /\ InHandler(active[t])
                                     THEN active[t] ELSE Nothing]
    /\ tasksPhase' = "stopping"
    /\ raised' = (raised \/ (tasksPhase = "starting" /\ awaited # {}))
    /\ UNCHANGED <<registered, jobs, epoch, ran>>

\* The gathered tasks are done.  The dictionaries are cleared, and shutting
\* the scheduler down cancels its executions without waiting for them.
StopReturns ==
    /\ tasksPhase = "stopping"
    /\ awaited = {}
    /\ active' = [t \in Tasks |-> Nothing]
    /\ epoch' = epoch + 1
    /\ jobs' = {}
    /\ exec' = Cancelled({e \in Execs : exec[e].kind = "scheduled" /\ exec[e].pc # "free"})
    /\ tasksPhase' = "stopped"
    /\ UNCHANGED <<registered, raised, awaited, ran>>

-----------------------------------------------------------------------------

TasksNext ==
    \/ \E t \in Tasks : Register(t)
    \/ \E t \in Tasks : StartTask(t)
    \/ Start
    \/ StartRefused
    \/ StartReturns
    \/ \E t \in Tasks : Tick(t)
    \/ \E e \in Execs : Run(e)
    \/ \E e \in Execs : Skip(e)
    \/ \E e \in Execs : Finish(e)
    \/ \E e \in Execs : Fails(e)
    \/ Stop
    \/ StopReturns

TasksSpec == TasksInit /\ [][TasksNext]_tasksVars

\* The event loop runs every execution, handlers return (each has its own
\* timeouts), and start() and stop() resume when what they await is done.
Fairness ==
    /\ \A e \in Execs : WF_tasksVars(Run(e) \/ Skip(e)) /\ WF_tasksVars(Finish(e))
    /\ WF_tasksVars(StartReturns)
    /\ WF_tasksVars(StopReturns)

FairSpec == TasksSpec /\ Fairness

-----------------------------------------------------------------------------
(* Properties                                                              *)

\* Two executions of one task run their handlers at the same time only if
\* stop() has replaced the lock between them.
ExclusivePerLock ==
    \A d, e \in Execs :
        d # e /\ InHandler(d) /\ InHandler(e) /\ exec[d].task = exec[e].task
          => exec[d].lock # exec[e].lock

\* Every task that the first start() runs gets its handler run, whatever its
\* siblings and the scheduler do, unless the manager is stopped first.
StartupTasksRun ==
    \A t \in Tasks :
        (epoch = 0 /\ tasksPhase = "starting" /\ \E e \in awaited : exec[e].task = t)
          ~> (t \in ran \/ tasksPhase = "stopping")

\* start() and stop() come to an end, also when a handler fails or ignores
\* its cancellation for a while, and a start runs the startup tasks.
StartAndStopEnd ==
    /\ tasksPhase \in {"starting", "stopping"} ~> tasksPhase \in {"started", "stopped"}
    /\ StartupTasksRun
=============================================================================
