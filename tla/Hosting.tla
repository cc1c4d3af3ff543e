------------------------------ MODULE Hosting -------------------------------
(***************************************************************************)
(* The lifespan of the runtime's HTTP application around the two ways into *)
(* it: the handlers of LocalAuth and the connections of OdbcEndpoint.      *)
(* Startup runs ODBC server, registration of background tasks and task     *)
(* manager one after the other, outside the try whose finally undoes them; *)
(* shutdown undoes tasks, ODBC server and host, and stops where one step   *)
(* raises.  HTTP handlers and ODBC share no state, so a behaviour is about *)
(* one of them.                                                            *)
(***************************************************************************)
EXTENDS LocalAuth, OdbcEndpoint

CONSTANTS
    Fronts,       \* which front a behaviour exercises: "http", "odbc"
    MaxCalls,     \* bound: HTTP calls
    MaxMessages,  \* bound: ODBC messages
    MaxStarts     \* bound: starts of the process

ASSUME HostingAssumption ==
    /\ AuthStores \subseteq {"sql", "memory"}
    /\ Fronts \subseteq {"http", "odbc"}
    /\ MaxActors \in Nat \ {0} /\ MaxSecrets \in Nat \ {0}
    /\ MaxCalls \in Nat /\ MaxMessages \in Nat /\ MaxStarts \in Nat
    /\ None \notin Usernames
    /\ NoQuery \notin Queries \cup Statements

VARIABLES
    front,        \* the front that is used
    waits,        \* wait_closed waits for the connections (Python 3.12.1 on)
    phase,        \* where the lifespan is
    server,       \* the endpoint holds its server
    tasksRunning, \* the task manager is started
    hostOpen,     \* the runtime host is not closed
    calls, messages, starts

lifeVars == <<front, waits, phase, server, tasksRunning, hostOpen, calls, messages, starts>>
vars     == <<authVars, odbcVars, lifeVars>>

TypeOK ==
    /\ AuthTypeOK /\ OdbcTypeOK
    /\ front \in Fronts /\ waits \in BOOLEAN
    /\ phase \in {"down", "odbc", "register", "tasks", "serving",
                  "stopping", "closing", "waiting", "host", "closed", "failed"}
    /\ server \in BOOLEAN /\ tasksRunning \in BOOLEAN /\ hostOpen \in BOOLEAN
    /\ calls \in 0..MaxCalls /\ messages \in 0..MaxMessages /\ starts \in 0..MaxStarts

Init ==
    /\ AuthInit
    /\ OdbcInit
    /\ front \in Fronts
    /\ front = "odbc" => configured    \* it does not use the accounts
    /\ waits \in IF front = "odbc" THEN BOOLEAN ELSE {TRUE}
    /\ phase = "down"
    /\ server = FALSE
    /\ tasksRunning = FALSE
    /\ hostOpen = FALSE
    /\ calls = 0
    /\ messages = 0
    /\ starts = 0

Connected == {c \in OdbcClients : conn[c].pc # "gone"}
Idle      == \A h \in Handlers : call[h].pc = "ready"
Bounds    == UNCHANGED <<calls, messages, starts>>
Settings  == UNCHANGED <<front, waits>>

-----------------------------------------------------------------------------
(* Lifespan                                                                *)

\* The process starts: create_runtime_api_app builds the host.
Boot ==
    /\ phase = "down"
    /\ starts < MaxStarts
    /\ starts' = starts + 1
    /\ phase' = "odbc"
    /\ hostOpen' = TRUE
    /\ UNCHANGED <<authVars, odbcVars, server, tasksRunning, calls, messages>>
    /\ Settings

\* A step of the startup raises: nothing that was started is undone.
StartupRaises ==
    /\ phase \in {"odbc", "register", "tasks"}
    /\ phase' = "failed"
    /\ tasksRunning' \in IF phase = "tasks" THEN BOOLEAN ELSE {tasksRunning}
    /\ UNCHANGED <<authVars, odbcVars, server, hostOpen>>
    /\ Settings /\ Bounds

\* odbc_server.start
StartOdbc ==
    /\ phase = "odbc"
    /\ phase' = "register"
    /\ listening' = (front = "odbc")
    /\ server' = (front = "odbc")
    /\ UNCHANGED <<authVars, conn, tasksRunning, hostOpen>>
    /\ Settings /\ Bounds

\* _register_runtime_dataset_background_tasks
RegisterTasks ==
    /\ phase = "register"
    /\ phase' = "tasks"
    /\ UNCHANGED <<authVars, odbcVars, server, tasksRunning, hostOpen>>
    /\ Settings /\ Bounds

\* task_manager.start, the startup tasks included.
StartTasks ==
    /\ phase = "tasks"
    /\ phase' = "serving"
    /\ tasksRunning' = TRUE
    /\ UNCHANGED <<authVars, odbcVars, server, hostOpen>>
    /\ Settings /\ Bounds

\* The web server shuts the lifespan down once its requests have ended.
BeginStop ==
    /\ phase = "serving"
    /\ Idle
    /\ phase' = "stopping"
    /\ UNCHANGED <<authVars, odbcVars, server, tasksRunning, hostOpen>>
    /\ Settings /\ Bounds

\* task_manager.stop; if it raises, the rest of the finally is skipped.
StopTasks(ok) ==
    /\ phase = "stopping"
    /\ phase' = IF ok THEN "closing" ELSE "failed"
    /\ tasksRunning' = IF ok THEN FALSE ELSE tasksRunning
    /\ UNCHANGED <<authVars, odbcVars, server, hostOpen>>
    /\ Settings /\ Bounds

\* odbc_server.close: no new connections, then wait_closed.
CloseServer ==
    /\ phase = "closing"
    /\ phase' = IF server THEN "waiting" ELSE "host"
    /\ listening' = FALSE
    /\ UNCHANGED <<authVars, conn, server, tasksRunning, hostOpen>>
    /\ Settings /\ Bounds

\* Mutant of WaitClosed: the connections are always waited for.
WaitClosedAlways ==
    /\ phase = "waiting"
    /\ Connected = {}
    /\ phase' = "host"
    /\ server' = FALSE
    /\ UNCHANGED <<authVars, odbcVars, tasksRunning, hostOpen>>
    /\ Settings /\ Bounds

WaitClosed ==
    /\ phase = "waiting"
    /\ waits => Connected = {}
    /\ phase' = "host"
    /\ server' = FALSE
    /\ UNCHANGED <<authVars, odbcVars, tasksRunning, hostOpen>>
    /\ Settings /\ Bounds

\* Mutant of CloseHost: the host is not closed.
CloseHostNot ==
    /\ phase = "host"
    /\ phase' = "closed"
    /\ UNCHANGED <<authVars, odbcVars, server, tasksRunning, hostOpen>>
    /\ Settings /\ Bounds

\* _close_runtime_host
CloseHost ==
    /\ phase = "host"
    /\ phase' = "closed"
    /\ hostOpen' = FALSE
    /\ UNCHANGED <<authVars, odbcVars, server, tasksRunning>>
    /\ Settings /\ Bounds

\* The process ends, by itself after the lifespan or by a crash at any time.
ProcessGone ==
    /\ phase # "down"
    /\ phase' = "down"
    /\ server' = FALSE
    /\ tasksRunning' = FALSE
    /\ hostOpen' = FALSE
    /\ listening' = FALSE
    /\ conn' = [c \in OdbcClients |-> Gone]
    /\ AuthLost
    /\ Settings /\ Bounds

-----------------------------------------------------------------------------
(* Requests                                                                *)

Http(h) ==
    /\ front = "http"
    /\ phase = "serving"
    /\ \/ AuthBegin(h) /\ calls < MaxCalls /\ calls' = calls + 1
       \/ AuthStep(h) /\ UNCHANGED calls
    /\ UNCHANGED <<odbcVars, phase, server, tasksRunning, hostOpen, messages, starts>>
    /\ Settings

\* Connections are served by the event loop whatever the lifespan does.
Odbc(c) ==
    /\ phase \notin {"down", "closed", "failed"}
    /\ \/ OdbcMessage(c) /\ messages < MaxMessages /\ messages' = messages + 1
       \/ (OdbcRuns(c) \/ Disconnect(c)) /\ UNCHANGED messages
    /\ UNCHANGED <<authVars, phase, server, tasksRunning, hostOpen, calls, starts>>
    /\ Settings

Lifespan ==
    \/ Boot \/ StartupRaises \/ StartOdbc \/ RegisterTasks \/ StartTasks
    \/ BeginStop \/ StopTasks(TRUE) \/ StopTasks(FALSE)
    \/ CloseServer \/ WaitClosed \/ CloseHost \/ ProcessGone

Next ==
    \/ Lifespan
    \/ \E h \in Handlers : Http(h)
    \/ \E c \in OdbcClients : Odbc(c)

\* The lifespan's coroutine and the queries run by the event loop; clients,
\* signals and crashes come when they like.
Spec ==
    /\ Init /\ [][Next]_vars
    /\ WF_vars(StopTasks(TRUE) \/ StopTasks(FALSE))
    /\ WF_vars(CloseServer)
    /\ WF_vars(WaitClosed)
    /\ WF_vars(CloseHost)
    /\ \A c \in OdbcClients : WF_vars(OdbcRuns(c) /\ Odbc(c))

-----------------------------------------------------------------------------
(* Properties                                                              *)

\* When the lifespan has ended without an error everything it started is
\* undone: no server, no task manager, no host, and no ODBC connection where
\* wait_closed waits for them.
CleanEnd ==
    phase = "closed" =>
       /\ ~listening /\ ~server /\ ~tasksRunning /\ ~hostOpen
       /\ waits => Connected = {}

\* A shutdown that has begun ends, if the ODBC clients go away or wait_closed
\* does not wait for them: no step of it waits for anything else.
ShutdownEnds ==
    (waits => []<>(Connected = {}))
       => (phase \in {"stopping", "closing", "waiting", "host"}
              ~> phase \in {"closed", "failed", "down"})
=============================================================================
