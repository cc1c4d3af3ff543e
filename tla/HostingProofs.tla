---------------------------- MODULE HostingProofs ----------------------------
(***************************************************************************)
(* Theorems about Hosting, the two fronts it serves, LocalAuth and         *)
(* OdbcEndpoint, and the tasks that run beside them (BackgroundTasks), for *)
(* any number of handlers, accounts, connections, messages, tasks,         *)
(* executions and restarts of the process.                                 *)
(***************************************************************************)
EXTENDS Hosting, BackgroundTasks, TLAPS

-----------------------------------------------------------------------------
(* OdbcEndpoint: what a connection holds                                   *)

PortalType == [statement : Statements \cup {NoQuery}, query : Queries \cup {NoQuery},
               stale : BOOLEAN]
ConnType   == [pc : {"gone", "startup", "open", "simple", "extended"},
               statements : [Statements -> Queries \cup {NoQuery}],
               portals : [Portals -> PortalType],
               running : Queries \cup {NoQuery},
               wanted : Queries \cup {NoQuery}]

\* A portal whose statement was not parsed again still names the query it was
\* bound to, unless the statement was closed: then executing it is an error.
PortalHolds(k, x) ==
    x.statement \in Statements /\ ~x.stale => k.statements[x.statement] \in {NoQuery, x.query}

ConnHolds(k) ==
    /\ k \in ConnType
    /\ \A p \in Portals : PortalHolds(k, k.portals[p])
    /\ k.running = k.wanted

\* RunsWhatWasBound with the facts that make it inductive.
ConnInv ==
    /\ conn \in [OdbcClients -> ConnType]
    /\ \A c \in OdbcClients : ConnHolds(conn[c])

(* A connection that is gone or has just started holds nothing. *)
LEMMA NewConnections ==
    ConnHolds(Gone) /\ ConnHolds(Fresh) /\ ConnHolds([Gone EXCEPT !.pc = "startup"])
  BY HostingAssumption DEF ConnHolds, ConnType, PortalType, PortalHolds, Gone, Fresh, NoPortal

(* Replacing a connection by one that holds keeps the invariant. *)
LEMMA SetHolds ==
    ASSUME ConnInv, NEW c \in OdbcClients, NEW new, ConnHolds(new), Set(c, new)
    PROVE  ConnInv'
  BY DEF ConnInv, ConnHolds, Set

(* No message, and no query that ends, makes a connection run another query *)
(* than the one that was meant.                                             *)
LEMMA OdbcKeeps ==
    ASSUME ConnInv, NEW c \in OdbcClients, OdbcMessage(c) \/ OdbcRuns(c) \/ Disconnect(c)
    PROVE  ConnInv'
  <1> DEFINE k == conn[c]
  <1>1. k \in ConnType /\ ConnHolds(k)
    BY DEF ConnInv
  <1>2. ASSUME NEW new, ConnHolds(new), Set(c, new)  PROVE ConnInv'
    BY <1>2, SetHolds
  <1>3. CASE Connect(c) \/ Startup(c) \/ Disconnect(c)
    BY <1>2, <1>3, NewConnections DEF Connect, Startup, Disconnect
  <1>4. ASSUME NEW q \in Queries, SimpleQuery(c, q)  PROVE ConnInv'
    <2> DEFINE new == [k EXCEPT !.pc = "simple", !.running = q, !.wanted = q]
    <2>1. ConnHolds(new)
      BY <1>1 DEF ConnHolds, ConnType, PortalHolds
    <2> QED
      BY <1>2, <1>4, <2>1 DEF SimpleQuery
  <1>5. ASSUME NEW s \in Statements, NEW q \in Queries, Parse(c, s, q)  PROVE ConnInv'
    <2> DEFINE new == [k EXCEPT
          !.statements[s] = q,
          !.portals = [p \in Portals |-> IF @[p].statement = s THEN [@[p] EXCEPT !.stale = TRUE]
                                         ELSE @[p]]]
    <2>1. ConnHolds(new)
      <3>1. new \in ConnType
        <4> DEFINE x(p) == IF k.portals[p].statement = s THEN [k.portals[p] EXCEPT !.stale = TRUE]
                           ELSE k.portals[p]
        <4>1. ASSUME NEW p \in Portals  PROVE x(p) \in PortalType
          BY <1>1 DEF ConnType, PortalType
        <4>2. [p \in Portals |-> x(p)] \in [Portals -> PortalType]
          BY <4>1
        <4>3. [k.statements EXCEPT ![s] = q] \in [Statements -> Queries \cup {NoQuery}]
          BY <1>1 DEF ConnType
        <4> QED
          BY <1>1, <4>2, <4>3 DEF ConnType
      <3>2. ASSUME NEW p \in Portals  PROVE PortalHolds(new, new.portals[p])
        <4>1. CASE k.portals[p].statement = s
          BY <1>1, <4>1 DEF ConnType, PortalType, PortalHolds
        <4>2. CASE k.portals[p].statement # s
          BY <1>1, <4>2 DEF ConnHolds, ConnType, PortalType, PortalHolds
        <4> QED
          BY <4>1, <4>2
      <3>3. new.running = new.wanted
        BY <1>1 DEF ConnHolds, ConnType
      <3> QED
        BY <3>1, <3>2, <3>3 DEF ConnHolds
    <2> QED
      BY <1>2, <1>5, <2>1 DEF Parse
  <1>6. ASSUME NEW p \in Portals, NEW s \in Statements, Bind(c, p, s)  PROVE ConnInv'
    <2> DEFINE new == [k EXCEPT !.portals[p] =
          [statement |-> s, query |-> k.statements[s], stale |-> FALSE]]
    <2>1. ConnHolds(new)
      BY <1>1 DEF ConnHolds, ConnType, PortalType, PortalHolds
    <2> QED
      BY <1>2, <1>6, <2>1 DEF Bind
  <1>7. ASSUME NEW p \in Portals, Execute(c, p)  PROVE ConnInv'
    <2>1. CASE StatementOf(c, p) = NoQuery
      BY <1>2, <1>7, <2>1, NewConnections DEF Execute
    <2>2. CASE StatementOf(c, p) # NoQuery
      <3> DEFINE q   == StatementOf(c, p)
                 new == [k EXCEPT !.pc = "extended", !.running = q,
                            !.wanted = IF k.portals[p].stale THEN q ELSE k.portals[p].query]
      <3>1. /\ k.portals[p] \in PortalType
            /\ k.portals[p].statement \in Statements
            /\ q = k.statements[k.portals[p].statement]
            /\ q \in Queries
        BY <1>1, <2>2 DEF ConnType, PortalType, StatementOf
      <3>2. ~k.portals[p].stale => k.portals[p].query = q
        BY <1>1, <2>2, <3>1 DEF ConnHolds, PortalHolds
      <3>3. new.running = new.wanted /\ new \in ConnType
        BY <1>1, <3>1, <3>2 DEF ConnType, PortalType
      <3>4. \A r \in Portals : PortalHolds(new, new.portals[r])
        BY <1>1 DEF ConnHolds, ConnType, PortalHolds
      <3>5. Set(c, new)
        BY <1>7, <2>2 DEF Execute
      <3> QED
        BY <1>2, <3>3, <3>4, <3>5 DEF ConnHolds
    <2> QED
      BY <2>1, <2>2
  <1>8. ASSUME NEW ok \in BOOLEAN, QueryEnds(c, ok)  PROVE ConnInv'
    <2> DEFINE new == [k EXCEPT !.pc = "open", !.running = NoQuery, !.wanted = NoQuery]
    <2>1. ConnHolds(new)
      BY <1>1 DEF ConnHolds, ConnType, PortalHolds
    <2> QED
      BY <1>2, <1>8, <2>1, NewConnections DEF QueryEnds
  <1>9. ASSUME NEW s \in Statements, CloseStatement(c, s)  PROVE ConnInv'
    <2> DEFINE new == [k EXCEPT !.statements[s] = NoQuery]
    <2>1. ConnHolds(new)
      BY <1>1 DEF ConnHolds, ConnType, PortalType, PortalHolds
    <2> QED
      BY <1>2, <1>9, <2>1 DEF CloseStatement
  <1>10. ASSUME NEW p \in Portals, ClosePortal(c, p)  PROVE ConnInv'
    <2> DEFINE new == [k EXCEPT !.portals[p] = NoPortal]
    <2>1. NoPortal \in PortalType /\ NoPortal.statement \notin Statements
      BY HostingAssumption DEF NoPortal, PortalType
    <2>2. ConnHolds(new)
      BY <1>1, <2>1 DEF ConnHolds, ConnType, PortalHolds
    <2> QED
      BY <1>2, <1>10, <2>2 DEF ClosePortal
  <1> QED
    BY <1>3, <1>4, <1>5, <1>6, <1>7, <1>8, <1>9, <1>10 DEF OdbcMessage, OdbcRuns

(* The connections stay well typed and hold what was bound. *)
LEMMA ConnectionsHold == Spec => []ConnInv
  <1>1. Init => ConnInv
    BY NewConnections DEF Init, OdbcInit, ConnInv, ConnHolds
  <1>2. ConnInv /\ [Next]_vars => ConnInv'
    <2> SUFFICES ASSUME ConnInv, [Next]_vars  PROVE ConnInv'
      OBVIOUS
    <2>1. CASE conn' = conn
      BY <2>1 DEF ConnInv
    <2>2. CASE conn' = [c \in OdbcClients |-> Gone]
      BY <2>2, NewConnections DEF ConnInv, ConnHolds
    <2>3. ASSUME NEW c \in OdbcClients, Odbc(c)  PROVE ConnInv'
      BY <2>3, OdbcKeeps DEF Odbc
    <2>4. ASSUME Lifespan  PROVE \/ conn' = conn
                                 \/ conn' = [c \in OdbcClients |-> Gone]
      BY <2>4 DEF Lifespan, Boot, StartupRaises, StartOdbc, RegisterTasks, StartTasks, BeginStop,
                  StopTasks, CloseServer, WaitClosed, CloseHost, ProcessGone, odbcVars
    <2>5. ASSUME NEW h \in Handlers, Http(h)  PROVE conn' = conn
      BY <2>5 DEF Http, odbcVars
    <2>6. ASSUME UNCHANGED vars  PROVE conn' = conn
      BY <2>6 DEF vars, odbcVars
    <2> QED
      BY <2>1, <2>2, <2>3, <2>4, <2>5, <2>6 DEF Next
  <1> QED
    BY <1>1, <1>2, PTL DEF Spec

(* A query that an ODBC connection runs is the one its message meant, for  *)
(* any statements, portals and queries and any number of connections.      *)
THEOREM QueriesMeant == Spec => []RunsWhatWasBound
  <1>1. ConnInv => RunsWhatWasBound
    BY DEF ConnInv, ConnHolds, RunsWhatWasBound
  <1> QED
    BY <1>1, ConnectionsHold, PTL

-----------------------------------------------------------------------------
(* Hosting: the lifespan                                                   *)

\* No connection is there before the endpoint listens, and none is added once
\* it no longer does.
NoneConnected == \A c \in OdbcClients : conn[c].pc = "gone"

Up   == {"register", "tasks", "serving", "stopping", "closing"}
Late == {"closing", "waiting", "host", "closed"}

\* CleanEnd with the facts that make it inductive: the endpoint listens while
\* it has its server, the task manager runs between its start and its stop,
\* and a lifespan whose endpoint never listened has no connections.
LifeInv ==
    /\ phase \in {"down", "odbc"} => ~listening /\ ~server /\ ~tasksRunning /\ NoneConnected
    /\ phase \in {"register", "tasks"} => ~tasksRunning
    /\ phase \in Up => listening = server
    /\ phase \in Up /\ ~server => NoneConnected
    /\ phase \in Late => ~tasksRunning
    /\ phase \in {"waiting", "host", "closed"} => ~listening
    /\ phase \in {"host", "closed"} => ~server /\ (waits => NoneConnected)
    /\ phase = "closed" => ~hostOpen

(* What serving the connections can change of the lifespan's facts. *)
LEMMA OdbcSteps ==
    ASSUME NEW c \in OdbcClients, Odbc(c), ConnInv
    PROVE  /\ UNCHANGED <<listening, phase, server, tasksRunning, hostOpen, waits>>
           /\ phase # "closed"
           /\ NoneConnected /\ ~listening => NoneConnected'
  <1>1. UNCHANGED <<phase, server, tasksRunning, hostOpen, waits>> /\ phase # "closed"
    BY DEF Odbc, Settings
  <1>2. OdbcMessage(c) \/ OdbcRuns(c) \/ Disconnect(c)
    BY DEF Odbc
  <1>3. UNCHANGED listening
    BY <1>2 DEF OdbcMessage, OdbcRuns, Disconnect, Connect, Startup, SimpleQuery, Parse, Bind,
                Execute, QueryEnds, CloseStatement, ClosePortal, Set
  <1>4. ASSUME NoneConnected, ~listening  PROVE FALSE
    BY <1>2, <1>4 DEF NoneConnected, OdbcMessage, OdbcRuns, Disconnect, Connect, Startup,
                SimpleQuery, Parse, Bind, Execute, QueryEnds, CloseStatement, ClosePortal
  <1> QED
    BY <1>1, <1>3, <1>4

(* A lifespan that ends without an error leaves nothing running: no server, *)
(* no task manager, no host, and no connection where wait_closed waits.     *)
THEOREM EndsClean == Spec => []CleanEnd
  <1>1. Init => LifeInv
    BY NewConnections
       DEF Init, OdbcInit, LifeInv, NoneConnected, Up, Late, ConnHolds, Gone, Fresh
  <1>2. LifeInv /\ ConnInv /\ [Next]_vars => LifeInv'
    <2> SUFFICES ASSUME LifeInv, ConnInv, [Next]_vars  PROVE LifeInv'
      OBVIOUS
    <2> USE DEF LifeInv, NoneConnected, Up, Late
    <2>1. CASE Boot
      BY <2>1 DEF Boot, odbcVars, Settings
    <2>2. CASE StartupRaises
      BY <2>2 DEF StartupRaises, odbcVars, Settings
    <2>3. CASE StartOdbc
      BY <2>3 DEF StartOdbc, Settings
    <2>4. CASE RegisterTasks \/ StartTasks
      BY <2>4 DEF RegisterTasks, StartTasks, odbcVars, Settings
    <2>5. CASE BeginStop \/ StopTasks(TRUE) \/ StopTasks(FALSE)
      BY <2>5 DEF BeginStop, StopTasks, odbcVars, Settings
    <2>6. CASE CloseServer
      BY <2>6 DEF CloseServer, Settings
    <2>7. CASE WaitClosed
      BY <2>7 DEF WaitClosed, Connected, odbcVars, Settings
    <2>8. CASE CloseHost
      BY <2>8 DEF CloseHost, odbcVars, Settings
    <2>9. CASE ProcessGone
      <3>1. Gone \in ConnType /\ Gone.pc = "gone"
        BY NewConnections DEF ConnHolds, Gone, Fresh
      <3> QED
        BY <2>9, <3>1 DEF ProcessGone, Settings
    <2>10. ASSUME NEW h \in Handlers, Http(h)  PROVE LifeInv'
      BY <2>10 DEF Http, odbcVars, Settings
    <2>11. ASSUME NEW c \in OdbcClients, Odbc(c)  PROVE LifeInv'
      BY <2>11, OdbcSteps
    <2>12. CASE UNCHANGED vars
      BY <2>12 DEF vars, odbcVars, lifeVars
    <2> QED
      BY <2>1, <2>2, <2>3, <2>4, <2>5, <2>6, <2>7, <2>8, <2>9, <2>10, <2>11, <2>12
         DEF Next, Lifespan
  <1>3. LifeInv => CleanEnd
    BY DEF LifeInv, CleanEnd, Connected, NoneConnected, Up, Late
  <1> QED
    BY <1>1, <1>2, <1>3, ConnectionsHold, PTL DEF Spec

-----------------------------------------------------------------------------
(* LocalAuth: accounts, handlers and sessions                              *)

AccountType == [name : Usernames \cup {None}, admin : BOOLEAN, active : BOOLEAN]
ChangeType  == [admin : {"keep", "yes", "no"}, active : {"keep", "yes", "no"}]
CallType    == [kind : {"none", "bootstrap", "login", "read", "create", "update"},
                pc : {"ready", "create", "sync", "token", "secret", "check", "count", "update"},
                actor : 0..MaxActors, admin : BOOLEAN, name : Usernames \cup {None},
                change : ChangeType, next : AccountType, secret : 0..MaxSecrets]

\* Ids are given out once, and a stored account has a name.
AccountsTyped ==
    /\ accounts \in [Actors -> AccountType]
    /\ \A i \in Actors : accounts[i].name = None => accounts[i] = NoAccount
    /\ \A i \in Actors : i > actors => accounts[i] = NoAccount
    /\ actors \in 0..MaxActors
    /\ \A t \in tokens : t.actor \in 1..actors

\* What a handler goes on with: a stored account, or the account to create.
CallSound(c) ==
    /\ c \in CallType
    /\ c.pc \in {"sync", "token", "secret", "check", "count", "update"} => c.actor \in Existing
    /\ c.pc = "create" => /\ c.name \in Usernames
                          /\ \/ c.kind = "bootstrap" /\ c.admin
                             \/ c.kind = "create" /\ c.actor \in Existing
    /\ c.pc = "sync" /\ c.kind = "bootstrap" => c.admin

CallsSound ==
    /\ call \in [Handlers -> CallType]
    /\ \A h \in Handlers : CallSound(call[h])

\* The history holds the overlap of any two handlers that use what they read.
OverlapsSeen ==
    \A g, h \in Handlers :
        g # h /\ Exposure(call[g]) # "none" /\ Exposure(call[h]) # "none"
           => {Exposure(call[g]), Exposure(call[h])} \in mixed

RolesMixed   == Mixed({"update"}, {"update", "sync"})
SecretsMixed == Mixed({"secret"}, {"secret"})

\* What a handler has read about roles is what is stored.
RolesRead(c) ==
    /\ c.pc = "sync" => accounts[c.actor].active /\ accounts[c.actor].admin = c.admin
    /\ c.pc = "count" => c.next = Applied(c.change, accounts[c.actor])
    /\ c.pc = "update" => ActiveAdminRemains(c.actor, Applied(c.change, accounts[c.actor]))

RolesInv ==
    ~RolesMixed => /\ Existing # {} => HasAdmin
                   /\ \A h \in Handlers : RolesRead(call[h])

\* A handler that found no secret still finds none when it stores its own.
SecretsInv ==
    /\ configured \in BOOLEAN
    /\ secret \in 0..EnvSecret /\ secrets \in 0..MaxSecrets
    /\ tokens \subseteq [actor : Actors, secret : 1..EnvSecret]
    /\ configured => \A t \in tokens : t.secret = EnvSecret
    /\ \A h \in Handlers : call[h].pc = "secret" => ~configured /\ call[h].secret # 0
    /\ ~SecretsMixed => /\ \A t \in tokens : t.actor \in Existing => t.secret = secret
                        /\ \A h \in Handlers : call[h].pc = "secret" => secret = 0

\* AccountsUsable with the facts that make it inductive.
AuthInv == AccountsTyped /\ CallsSound /\ OverlapsSeen /\ RolesInv /\ SecretsInv

(* A handler that goes on is recorded with all it overlaps.                *)
LEMMA BecomesSeen ==
    ASSUME call \in [Handlers -> CallType], OverlapsSeen, NEW h \in Handlers, NEW c, Becomes(h, c)
    PROVE  /\ OverlapsSeen'
           /\ RolesMixed => RolesMixed'
           /\ SecretsMixed => SecretsMixed'
           /\ \A g \in Handlers : call'[g] = IF g = h THEN c ELSE call[g]
           /\ \A g \in Handlers \ {h} : Exposure(c) # "none" /\ Exposure(call[g]) # "none"
                 => {Exposure(c), Exposure(call[g])} \in mixed'
  <1>1. \A g \in Handlers : call'[g] = IF g = h THEN c ELSE call[g]
    BY DEF Becomes
  <1>2. mixed \subseteq mixed'
    BY DEF Becomes
  <1>3. \A g \in Handlers \ {h} : Exposure(c) # "none" /\ Exposure(call[g]) # "none"
           => {Exposure(c), Exposure(call[g])} \in mixed'
    BY DEF Becomes
  <1>4. OverlapsSeen'
    <2> SUFFICES ASSUME NEW f \in Handlers, NEW g \in Handlers, f # g,
                        Exposure(call'[f]) # "none", Exposure(call'[g]) # "none"
                 PROVE  {Exposure(call'[f]), Exposure(call'[g])} \in mixed'
      BY DEF OverlapsSeen
    <2>1. CASE f # h /\ g # h
      BY <1>1, <1>2, <2>1 DEF OverlapsSeen
    <2>2. CASE f = h
      BY <1>1, <1>3, <2>2
    <2>3. CASE g = h
      <3>1. {Exposure(call'[f]), Exposure(call'[g])} = {Exposure(call'[g]), Exposure(call'[f])}
        OBVIOUS
      <3> QED
        BY <1>1, <1>3, <2>3, <3>1
    <2> QED
      BY <2>1, <2>2, <2>3
  <1>5. (RolesMixed => RolesMixed') /\ (SecretsMixed => SecretsMixed')
    BY <1>2 DEF RolesMixed, SecretsMixed, Mixed
  <1> QED
    BY <1>1, <1>3, <1>4, <1>5

(* Two handlers that use what they have read: which overlaps are recorded.  *)
LEMMA Overlaps ==
    ASSUME OverlapsSeen, NEW g \in Handlers, NEW h \in Handlers, g # h
    PROVE  /\ call[g].pc \in {"count", "update"} /\ call[h].pc \in {"sync", "count", "update"}
                 => RolesMixed
           /\ call[g].pc = "secret" /\ call[h].pc = "secret" => SecretsMixed
  <1>1. \A c : c.pc \in {"count", "update"} => Exposure(c) = "update"
    BY DEF Exposure
  <1>2. \A c : c.pc = "sync" => Exposure(c) = "sync"
    BY DEF Exposure
  <1>3. \A c : c.pc = "secret" => Exposure(c) = "secret"
    BY DEF Exposure
  <1> QED
    BY <1>1, <1>2, <1>3 DEF OverlapsSeen, RolesMixed, SecretsMixed, Mixed

(* A handler that goes on with what it has read, nothing stored.           *)
LEMMA CallMoves ==
    ASSUME AuthInv, NEW h \in Handlers, NEW c, Becomes(h, c), CallSound(c),
           RolesMixed \/ RolesRead(c), c.pc # "secret",
           UNCHANGED <<configured, accounts, actors, secret, secrets, tokens>>
    PROVE  AuthInv'
  <1>1. call \in [Handlers -> CallType] /\ c \in CallType
    BY DEF AuthInv, CallsSound, CallSound
  <1>2. /\ OverlapsSeen'
        /\ RolesMixed => RolesMixed'
        /\ SecretsMixed => SecretsMixed'
        /\ \A g \in Handlers : call'[g] = IF g = h THEN c ELSE call[g]
    BY <1>1, BecomesSeen DEF AuthInv
  <1>3. AccountsTyped'
    BY DEF AuthInv, AccountsTyped
  <1>4. CallsSound'
    <2>1. call' \in [Handlers -> CallType]
      BY <1>1 DEF Becomes
    <2>2. Existing' = Existing
      BY DEF Existing
    <2>3. ASSUME NEW d, CallSound(d)  PROVE CallSound(d)'
      BY <2>2, <2>3 DEF CallSound
    <2> QED
      BY <1>2, <2>1, <2>3 DEF AuthInv, CallsSound
  <1>5. RolesInv'
    <2>1. Existing' = Existing /\ HasAdmin' = HasAdmin
      BY DEF Existing, HasAdmin
    <2>2. ASSUME NEW d, RolesRead(d)  PROVE RolesRead(d)'
      BY <2>2 DEF RolesRead, ActiveAdminRemains
    <2> QED
      BY <1>2, <2>1, <2>2 DEF AuthInv, RolesInv
  <1>6. SecretsInv'
    <2>1. Existing' = Existing
      BY DEF Existing
    <2> QED
      BY <1>2, <2>1 DEF AuthInv, SecretsInv
  <1> QED
    BY <1>2, <1>3, <1>4, <1>5, <1>6 DEF AuthInv

(* A handler that is ready again, and a fresh one, are sound. *)
LEMMA ReadyIsSound ==
    CallSound(Ready) /\ RolesRead(Ready) /\ Ready.pc = "ready" /\ Ready \in CallType
  BY HostingAssumption
     DEF CallSound, RolesRead, Ready, CallType, ChangeType, AccountType, NoChange, NoAccount

(* Every start of a handler keeps the invariant. *)
LEMMA BeginKeeps ==
    ASSUME AuthInv, NEW h \in Handlers, AuthBegin(h)
    PROVE  AuthInv'
  <1>1. Actors = 1..MaxActors /\ MaxActors \in Nat
    BY HostingAssumption DEF Actors
  <1>2. Ready \in CallType
    BY ReadyIsSound
  <1>3. ASSUME NEW n \in Usernames, BeginBootstrap(h, n)  PROVE AuthInv'
    <2> DEFINE c == [Ready EXCEPT !.kind = "bootstrap", !.pc = "create", !.name = n, !.admin = TRUE]
    <2>1. CallSound(c) /\ RolesRead(c) /\ c.pc # "secret"
      BY <1>2 DEF CallSound, RolesRead, CallType, Ready
    <2> QED
      BY <1>3, <2>1, CallMoves DEF BeginBootstrap
  <1>4. ASSUME NEW i \in Actors, NEW kind \in {"login", "read", "create", "update"},
               accounts[i].active,
               Becomes(h, [Ready EXCEPT !.kind = kind, !.pc = "sync", !.actor = i,
                                        !.admin = accounts[i].admin]),
               UNCHANGED <<configured, accounts, actors, secret, secrets, tokens>>
        PROVE  AuthInv'
    <2> DEFINE c == [Ready EXCEPT !.kind = kind, !.pc = "sync", !.actor = i,
                                  !.admin = accounts[i].admin]
    <2>1. accounts[i] \in AccountType /\ i \in Existing
      BY <1>4 DEF AuthInv, AccountsTyped, Existing, NoAccount
    <2>2. /\ c \in CallType
          /\ c.kind = kind /\ c.pc = "sync" /\ c.actor = i /\ c.admin = accounts[i].admin
      <3>1. i \in 0..MaxActors /\ accounts[i].admin \in BOOLEAN
        BY <1>1, <2>1 DEF AccountType
      <3>2. kind \in {"none", "bootstrap", "login", "read", "create", "update"}
        OBVIOUS
      <3> QED
        BY <1>2, <3>1, <3>2 DEF CallType
    <2> HIDE DEF c
    <2>3. CallSound(c) /\ RolesRead(c) /\ c.pc # "secret"
      BY <1>4, <2>1, <2>2 DEF CallSound, RolesRead
    <2> QED
      BY <1>4, <2>3, CallMoves DEF c
  <1>5. ASSUME NEW i \in Actors, BeginLogin(h, i)  PROVE AuthInv'
    BY <1>4, <1>5 DEF BeginLogin
  <1>6. ASSUME NEW t \in tokens, NEW kind \in {"read", "create", "update"}, BeginRequest(h, t, kind)
        PROVE  AuthInv'
    <2>1. t.actor \in Actors
      BY DEF AuthInv, SecretsInv
    <2> QED
      BY <1>4, <1>6, <2>1 DEF BeginRequest
  <1> QED
    BY <1>3, <1>5, <1>6 DEF AuthBegin

(* Applying a change keeps the account's type and name. *)
LEMMA AppliedTyped ==
    ASSUME NEW a \in AccountType, NEW change \in ChangeType
    PROVE  Applied(change, a) \in AccountType /\ Applied(change, a).name = a.name
  BY DEF Applied, AccountType, ChangeType

(* When accounts are only added or changed under their name, the handlers  *)
(* stay sound, if the one that steps is.                                    *)
LEMMA AccountsGrow ==
    ASSUME AuthInv, NEW h \in Handlers, NEW c, Becomes(h, c), Existing \subseteq Existing',
           c \in CallType, CallSound(c)'
    PROVE  CallsSound'
  <1>1. call \in [Handlers -> CallType]
    BY DEF AuthInv, CallsSound
  <1>2. call' \in [Handlers -> CallType]
    BY <1>1 DEF Becomes
  <1>3. ASSUME NEW d, CallSound(d)  PROVE CallSound(d)'
    BY <1>3 DEF CallSound
  <1>4. \A g \in Handlers : call'[g] = IF g = h THEN c ELSE call[g]
    BY <1>1 DEF Becomes
  <1> QED
    BY <1>2, <1>3, <1>4 DEF AuthInv, CallsSound

(* A new account gets an id that no account, handler or session has. *)
LEMMA CreateKeeps ==
    ASSUME AuthInv, NEW h \in Handlers, CreateAccount(h)
    PROVE  AuthInv'
  <1> DEFINE c == call[h]
             i == actors + 1
             a == [name |-> c.name, admin |-> c.admin, active |-> TRUE]
  <1>0. PICK d : d = IF c.kind = "bootstrap" THEN [c EXCEPT !.pc = "sync", !.actor = i] ELSE Ready
    OBVIOUS
  <1>1. /\ Becomes(h, d) /\ actors' = i /\ accounts' = [accounts EXCEPT ![i] = a]
        /\ UNCHANGED <<configured, secret, secrets, tokens>>
        /\ c.pc = "create" /\ actors < MaxActors
    BY <1>0 DEF CreateAccount
  <1>2. Actors = 1..MaxActors /\ MaxActors \in Nat /\ actors \in 0..MaxActors
    BY HostingAssumption DEF Actors, AuthInv, AccountsTyped
  <1>3. i \in Actors /\ accounts[i] = NoAccount
    BY <1>1, <1>2 DEF AuthInv, AccountsTyped
  <1>4. c \in CallType /\ CallSound(c) /\ c.name \in Usernames
    BY <1>1 DEF AuthInv, CallsSound, CallSound
  <1>5. a \in AccountType /\ a.name # None /\ a # NoAccount /\ a.active /\ a.admin = c.admin
    BY <1>4, HostingAssumption DEF AccountType, CallType, NoAccount
  <1>6. /\ accounts' \in [Actors -> AccountType]
        /\ accounts'[i] = a
        /\ \A j \in Actors \ {i} : accounts'[j] = accounts[j]
        /\ Existing' = Existing \cup {i} /\ i \notin Existing
    BY <1>1, <1>3, <1>5 DEF AuthInv, AccountsTyped, Existing
  <1>7. AccountsTyped'
    BY <1>1, <1>2, <1>5, <1>6 DEF AuthInv, AccountsTyped
  <1>8. d \in CallType /\ CallSound(d)'
    <2>1. CASE c.kind = "bootstrap"
      <3>1. c.admin
        BY <1>1, <1>4, <2>1 DEF CallSound
      <3>2. /\ d \in CallType
            /\ d.kind = "bootstrap" /\ d.pc = "sync" /\ d.actor = i /\ d.admin = c.admin
        <4>1. i \in 0..MaxActors
          BY <1>2, <1>3
        <4> QED
          BY <1>0, <1>4, <2>1, <4>1 DEF CallType
      <3> QED
        BY <1>6, <3>1, <3>2 DEF CallSound
    <2>2. CASE c.kind # "bootstrap"
      BY <1>0, <2>2, ReadyIsSound DEF CallSound, Ready
    <2> QED
      BY <2>1, <2>2
  <1>9. CallsSound'
    BY <1>1, <1>6, <1>8, AccountsGrow
  <1>10. /\ OverlapsSeen'
         /\ RolesMixed => RolesMixed'
         /\ SecretsMixed => SecretsMixed'
         /\ \A g \in Handlers : call'[g] = IF g = h THEN d ELSE call[g]
    <2>1. call \in [Handlers -> CallType]
      BY DEF AuthInv, CallsSound
    <2> QED
      BY <1>1, <2>1, BecomesSeen DEF AuthInv
  <1>11. d.pc # "secret" /\ d.pc # "count" /\ d.pc # "update"
    BY <1>0, <1>4, ReadyIsSound DEF CallType
  <1> HIDE DEF c, i, a
  <1>12. RolesInv'
    <2> SUFFICES ASSUME ~RolesMixed'  PROVE (Existing' # {} => HasAdmin') /\ \A g \in Handlers : RolesRead(call[g])'
      BY DEF RolesInv
    <2>1. /\ Existing # {} => HasAdmin
          /\ \A g \in Handlers : RolesRead(call[g])
      BY <1>10 DEF AuthInv, RolesInv
    <2>2. HasAdmin => HasAdmin'
      BY <1>3, <1>6 DEF HasAdmin, ActiveAdmin, NoAccount
    <2>3. HasAdmin'
      <3>1. CASE c.kind = "bootstrap"
        <4>1. a.admin
          BY <1>1, <1>4, <1>5, <3>1 DEF CallSound
        <4> QED
          BY <1>3, <1>5, <1>6, <4>1 DEF HasAdmin, ActiveAdmin
      <3>2. CASE c.kind # "bootstrap"
        <4>1. c.actor \in Existing
          BY <1>1, <1>4, <3>2 DEF CallSound
        <4> QED
          BY <2>1, <2>2, <4>1
      <3> QED
        BY <3>1, <3>2
    <2>4. ASSUME NEW g \in Handlers, g # h  PROVE RolesRead(call[g])'
      <3>1. RolesRead(call[g]) /\ CallSound(call[g]) /\ call'[g] = call[g]
        BY <1>10, <2>1, <2>4 DEF AuthInv, CallsSound
      <3>2. CASE call[g].pc \in {"sync", "count", "update"}
        <4>1. call[g].actor \in Existing /\ accounts'[call[g].actor] = accounts[call[g].actor]
          BY <1>6, <3>1, <3>2 DEF CallSound, Existing
        <4>2. \A j \in Actors : ActiveAdmin(accounts[j]) => ActiveAdmin(accounts'[j])
          BY <1>3, <1>6 DEF ActiveAdmin, NoAccount
        <4> QED
          BY <3>1, <4>1, <4>2 DEF RolesRead, ActiveAdminRemains
      <3>3. CASE call[g].pc \notin {"sync", "count", "update"}
        BY <3>1, <3>3 DEF RolesRead
      <3> QED
        BY <3>2, <3>3
    <2>5. RolesRead(d)'
      <3>1. CASE c.kind = "bootstrap"
        <4>1. d.pc = "sync" /\ d.actor = i /\ d.admin = c.admin
          BY <1>0, <1>4, <3>1 DEF CallType
        <4> QED
          BY <1>5, <1>6, <4>1 DEF RolesRead
      <3>2. CASE c.kind # "bootstrap"
        BY <1>0, <3>2 DEF RolesRead, Ready
      <3> QED
        BY <3>1, <3>2
    <2> QED
      BY <1>10, <2>3, <2>4, <2>5
  <1>13. SecretsInv'
    <2>1. \A t \in tokens : t.actor \in Existing' => t.actor \in Existing
      BY <1>2, <1>6 DEF AuthInv, AccountsTyped, i
    <2> QED
      BY <1>1, <1>10, <1>11, <2>1 DEF AuthInv, SecretsInv
  <1> QED
    BY <1>7, <1>9, <1>10, <1>12, <1>13 DEF AuthInv

(* Writing the session back changes nothing as long as what it read is what *)
(* is stored.                                                               *)
LEMMA SyncKeeps ==
    ASSUME AuthInv, NEW h \in Handlers, SyncSession(h)
    PROVE  AuthInv'
  <1> DEFINE c == call[h]
             a == [accounts[c.actor] EXCEPT !.admin = c.admin, !.active = TRUE]
  <1>1. /\ c.pc = "sync" /\ c \in CallType /\ CallSound(c) /\ c.actor \in Existing
        /\ call \in [Handlers -> CallType]
    BY DEF SyncSession, AuthInv, CallsSound, CallSound
  <1>2. PICK d : /\ Becomes(h, d)
                 /\ d \in CallType /\ d.pc \in {"ready", "create", "token", "check"}
                 /\ CallSound(d)
    <2>1. ASSUME c.kind \in {"bootstrap", "login"}, Becomes(h, [c EXCEPT !.pc = "token"])
          PROVE  \E d : /\ Becomes(h, d)
                        /\ d \in CallType /\ d.pc \in {"ready", "create", "token", "check"}
                        /\ CallSound(d)
      <3>1. [c EXCEPT !.pc = "token"] \in CallType
        BY <1>1 DEF CallType
      <3> QED
        BY <1>1, <2>1, <3>1 DEF CallSound, CallType
    <2>2. ASSUME NEW n \in Usernames, NEW admin \in BOOLEAN, c.kind = "create",
                 Becomes(h, [c EXCEPT !.pc = "create", !.name = n, !.admin = admin])
          PROVE  \E d : /\ Becomes(h, d)
                        /\ d \in CallType /\ d.pc \in {"ready", "create", "token", "check"}
                        /\ CallSound(d)
      <3>1. [c EXCEPT !.pc = "create", !.name = n, !.admin = admin] \in CallType
        BY <1>1 DEF CallType
      <3> QED
        BY <1>1, <2>2, <3>1 DEF CallSound, CallType
    <2>3. ASSUME c.kind = "update", Becomes(h, [c EXCEPT !.pc = "check"])
          PROVE  \E d : /\ Becomes(h, d)
                        /\ d \in CallType /\ d.pc \in {"ready", "create", "token", "check"}
                        /\ CallSound(d)
      <3>1. [c EXCEPT !.pc = "check"] \in CallType
        BY <1>1 DEF CallType
      <3> QED
        BY <1>1, <2>3, <3>1 DEF CallSound, CallType
    <2> QED
      BY <2>1, <2>2, <2>3, ReadyIsSound DEF SyncSession
  <1>3. UNCHANGED <<configured, actors, secret, secrets, tokens>>
    BY DEF SyncSession
  <1>4. CASE accounts' = accounts
    BY <1>2, <1>3, <1>4, CallMoves DEF RolesRead
  <1>5. CASE accounts' # accounts
    <2>1. accounts' = [accounts EXCEPT ![c.actor] = a]
      BY <1>5 DEF SyncSession
    <2>2. c.actor \in Actors /\ accounts[c.actor] \in AccountType /\ accounts[c.actor].name # None
      BY <1>1 DEF AuthInv, AccountsTyped, Existing
    <2>3. a \in AccountType /\ a.name = accounts[c.actor].name /\ a # NoAccount
      BY <1>1, <2>2 DEF AccountType, CallType, NoAccount
    <2>4. /\ accounts' \in [Actors -> AccountType]
          /\ accounts'[c.actor] = a
          /\ \A j \in Actors \ {c.actor} : accounts'[j] = accounts[j]
      BY <2>1, <2>2, <2>3 DEF AuthInv, AccountsTyped
    <2>5. Existing' = Existing
      BY <1>1, <2>3, <2>4 DEF Existing
    <2>6. AccountsTyped'
      <3>1. \A i \in Actors : accounts'[i].name = None => accounts'[i] = NoAccount
        BY <2>2, <2>3, <2>4 DEF AuthInv, AccountsTyped
      <3>2. \A i \in Actors : i > actors => accounts'[i] = NoAccount
        BY <1>1, <2>4 DEF AuthInv, AccountsTyped, Existing
      <3> QED
        BY <1>3, <2>4, <3>1, <3>2 DEF AuthInv, AccountsTyped
    <2>7. CallSound(d)'
      BY <1>2, <2>5 DEF CallSound
    <2>8. CallsSound'
      BY <1>2, <2>5, <2>7, AccountsGrow
    <2>9. /\ OverlapsSeen'
          /\ RolesMixed => RolesMixed'
          /\ SecretsMixed => SecretsMixed'
          /\ \A g \in Handlers : call'[g] = IF g = h THEN d ELSE call[g]
      BY <1>1, <1>2, BecomesSeen DEF AuthInv
    <2>10. RolesMixed
      <3> SUFFICES ASSUME ~RolesMixed  PROVE FALSE
        OBVIOUS
      <3>1. accounts[c.actor].active /\ accounts[c.actor].admin = c.admin
        BY <1>1 DEF AuthInv, RolesInv, RolesRead
      <3>2. a = accounts[c.actor]
        BY <2>2, <3>1 DEF AccountType
      <3> QED
        BY <1>5, <2>1, <2>2, <3>2 DEF AuthInv, AccountsTyped
    <2>11. RolesInv'
      BY <2>9, <2>10 DEF RolesInv
    <2>12. SecretsInv'
      BY <1>2, <1>3, <2>5, <2>9 DEF AuthInv, SecretsInv
    <2> QED
      BY <2>6, <2>8, <2>9, <2>11, <2>12 DEF AuthInv
  <1> QED
    BY <1>4, <1>5

(* Sessions are issued under the secret that is stored from then on. *)
LEMMA TokenKeeps ==
    ASSUME AuthInv, NEW h \in Handlers, IssueToken(h) \/ SaveSecret(h)
    PROVE  AuthInv'
  <1> DEFINE c == call[h]
  <1>1. /\ c.pc \in {"token", "secret"} /\ c \in CallType /\ CallSound(c) /\ c.actor \in Existing
        /\ call \in [Handlers -> CallType]
        /\ UNCHANGED <<configured, accounts, actors>>
    BY DEF IssueToken, SaveSecret, AuthInv, CallsSound, CallSound
  <1>2. MaxSecrets \in Nat \ {0} /\ EnvSecret = MaxSecrets + 1
    BY HostingAssumption DEF EnvSecret
  <1>3. PICK d : /\ Becomes(h, d)
                 /\ \/ d = Ready
                    \/ /\ d = [c EXCEPT !.pc = "secret", !.secret = secrets + 1]
                       /\ IssueToken(h) /\ StoredSecret = 0 /\ secrets < MaxSecrets
                       /\ secrets' = secrets + 1 /\ UNCHANGED <<secret, tokens>>
    BY DEF IssueToken, SaveSecret
  <1>4. d \in CallType /\ CallSound(d) /\ d.pc \in {"ready", "secret"}
    <2>1. CASE d = Ready
      BY <2>1, ReadyIsSound
    <2>2. CASE d # Ready
      <3>1. secrets + 1 \in 0..MaxSecrets
        BY <1>2, <1>3, <2>2 DEF AuthInv, SecretsInv
      <3>2. d \in CallType /\ d.pc = "secret" /\ d.actor = c.actor
        BY <1>1, <1>3, <2>2, <3>1 DEF CallType
      <3> QED
        BY <1>1, <3>2 DEF CallSound
    <2> QED
      BY <2>1, <2>2
  <1>5. Existing' = Existing /\ HasAdmin' = HasAdmin
    BY <1>1 DEF Existing, HasAdmin
  <1>6. CallsSound'
    <2>1. CallSound(d)'
      BY <1>4, <1>5 DEF CallSound
    <2> QED
      BY <1>3, <1>4, <1>5, <2>1, AccountsGrow
  <1>7. /\ OverlapsSeen'
        /\ RolesMixed => RolesMixed'
        /\ SecretsMixed => SecretsMixed'
        /\ \A g \in Handlers : call'[g] = IF g = h THEN d ELSE call[g]
    BY <1>1, <1>3, BecomesSeen DEF AuthInv
  <1>8. RolesInv'
    <2>1. RolesRead(d)
      BY <1>4 DEF RolesRead
    <2>2. ASSUME NEW e, RolesRead(e)  PROVE RolesRead(e)'
      BY <1>1, <2>2 DEF RolesRead, ActiveAdminRemains
    <2> QED
      BY <1>5, <1>7, <2>1, <2>2 DEF AuthInv, RolesInv
  <1>9. c.actor \in Actors /\ c.actor \in 1..actors
    BY <1>1 DEF AuthInv, AccountsTyped, Existing, Actors
  <1>10. ASSUME d # Ready  PROVE AccountsTyped' /\ SecretsInv'
    <2>1. ~configured /\ secret = 0
      BY <1>2, <1>3, <1>10 DEF StoredSecret, AuthInv, SecretsInv
    <2>2. d.pc = "secret" /\ d.secret = secrets + 1 /\ secrets + 1 # 0 /\ secrets' \in 0..MaxSecrets
      <3>1. d.pc = "secret" /\ d.secret = secrets + 1
        BY <1>1, <1>3, <1>10 DEF CallType
      <3>2. secrets \in 0..MaxSecrets /\ secrets < MaxSecrets /\ secrets' = secrets + 1
        BY <1>3, <1>10 DEF AuthInv, SecretsInv
      <3> QED
        BY <1>2, <3>1, <3>2
    <2>3. UNCHANGED <<configured, accounts, actors, secret, tokens>>
      BY <1>1, <1>3, <1>10
    <2> QED
      BY <1>5, <1>7, <2>1, <2>2, <2>3 DEF AuthInv, AccountsTyped, SecretsInv
  <1>11. ASSUME NEW s \in 1..EnvSecret, d = Ready, secret' = s, secrets' = secrets,
                tokens' = tokens \cup {[actor |-> c.actor, secret |-> s]},
                configured => s = EnvSecret,
                SecretsMixed \/ s = secret \/ secret = 0 \/ configured,
                \A g \in Handlers \ {h} : call[g].pc = "secret" => SecretsMixed \/ s = secret
         PROVE  AccountsTyped' /\ SecretsInv'
    <2>1. AccountsTyped'
      BY <1>1, <1>9, <1>11 DEF AuthInv, AccountsTyped
    <2>2. \A g \in Handlers : call'[g].pc = "secret" => g # h /\ call'[g] = call[g]
      BY <1>7, <1>11, ReadyIsSound
    <2>3. /\ configured' \in BOOLEAN /\ secret' \in 0..EnvSecret /\ secrets' \in 0..MaxSecrets
          /\ tokens' \subseteq [actor : Actors, secret : 1..EnvSecret]
      BY <1>1, <1>2, <1>9, <1>11 DEF AuthInv, SecretsInv
    <2>4. /\ configured' => \A t \in tokens' : t.secret = EnvSecret
          /\ \A g \in Handlers : call'[g].pc = "secret" => ~configured' /\ call'[g].secret # 0
      BY <1>1, <1>11, <2>2 DEF AuthInv, SecretsInv
    <2>5. ASSUME ~SecretsMixed'
          PROVE  /\ \A t \in tokens' : t.actor \in Existing' => t.secret = secret'
                 /\ \A g \in Handlers : call'[g].pc = "secret" => secret' = 0
      <3>1. /\ ~SecretsMixed
            /\ \A t \in tokens : t.actor \in Existing => t.secret = secret
            /\ \A g \in Handlers : call[g].pc = "secret" => secret = 0
        BY <1>7, <2>5 DEF AuthInv, SecretsInv
      <3>2. \A t \in tokens : t.actor \in Existing => t.secret = s
        <4>1. CASE configured
          BY <1>11, <4>1 DEF AuthInv, SecretsInv
        <4>2. CASE ~configured
          BY <1>2, <1>11, <3>1, <4>2 DEF AuthInv, SecretsInv
        <4> QED
          BY <4>1, <4>2
      <3> QED
        BY <1>5, <1>11, <2>2, <3>1, <3>2
    <2> QED
      BY <2>1, <2>3, <2>4, <2>5 DEF SecretsInv
  <1>12. ASSUME d = Ready  PROVE AccountsTyped' /\ SecretsInv'
    <2>1. d.pc # "secret"
      BY <1>12, ReadyIsSound
    <2>2. CASE SaveSecret(h)
      <3>1. /\ c.pc = "secret" /\ secret' = c.secret /\ secrets' = secrets
            /\ tokens' = tokens \cup {[actor |-> c.actor, secret |-> c.secret]}
        BY <2>2 DEF SaveSecret
      <3>2. ~configured /\ c.secret \in 1..EnvSecret /\ (SecretsMixed \/ secret = 0)
        BY <1>1, <1>2, <3>1 DEF AuthInv, SecretsInv, CallType
      <3>3. \A g \in Handlers \ {h} : call[g].pc = "secret" => SecretsMixed
        BY <3>1, Overlaps DEF AuthInv
      <3> QED
        BY <1>11, <1>12, <3>1, <3>2, <3>3
    <2>3. CASE IssueToken(h)
      <3>1. StoredSecret # 0 /\ secret' = StoredSecret /\ secrets' = secrets
            /\ tokens' = tokens \cup {[actor |-> c.actor, secret |-> StoredSecret]}
        <4>1. ~Becomes(h, [c EXCEPT !.pc = "secret", !.secret = secrets + 1])
          <5>1. [c EXCEPT !.pc = "secret", !.secret = secrets + 1].pc = "secret"
            BY <1>1 DEF CallType
          <5>2. \A e : Becomes(h, e) => call'[h] = e
            BY <1>1 DEF Becomes
          <5> QED
            BY <1>3, <2>1, <5>1, <5>2
        <4> QED
          BY <2>3, <4>1 DEF IssueToken
      <3>2. StoredSecret \in 1..EnvSecret
        BY <1>2, <3>1 DEF StoredSecret, AuthInv, SecretsInv
      <3>3. (configured => StoredSecret = EnvSecret) /\ (~configured => StoredSecret = secret)
        BY DEF StoredSecret
      <3>4. \A g \in Handlers \ {h} : call[g].pc = "secret" => StoredSecret = secret
        BY <3>3 DEF AuthInv, SecretsInv
      <3> QED
        BY <1>11, <1>12, <3>1, <3>2, <3>3, <3>4
    <2> QED
      BY <2>2, <2>3
  <1> QED
    BY <1>6, <1>7, <1>8, <1>10, <1>12 DEF AuthInv

(* An update keeps an active administrator unless it overlapped another one *)
(* or a session that was written back.                                      *)
LEMMA UpdateKeeps ==
    ASSUME AuthInv, NEW h \in Handlers, UpdateAccount(h)
    PROVE  AuthInv'
  <1> DEFINE c == call[h]
             a == Applied(c.change, accounts[c.actor])
  <1>1. /\ c.pc = "update" /\ c \in CallType /\ CallSound(c) /\ c.actor \in Existing
        /\ call \in [Handlers -> CallType]
        /\ Becomes(h, Ready) /\ accounts' = [accounts EXCEPT ![c.actor] = a]
        /\ UNCHANGED <<configured, actors, secret, secrets, tokens>>
    BY DEF UpdateAccount, AuthInv, CallsSound, CallSound
  <1>2. c.actor \in Actors /\ accounts[c.actor] \in AccountType /\ accounts[c.actor].name # None
    BY <1>1 DEF AuthInv, AccountsTyped, Existing
  <1>3. a \in AccountType /\ a.name = accounts[c.actor].name /\ a # NoAccount
    <2>1. c.change \in ChangeType
      BY <1>1 DEF CallType
    <2>2. a \in AccountType /\ a.name = accounts[c.actor].name
      BY <1>2, <2>1, AppliedTyped
    <2> QED
      BY <1>2, <2>2 DEF NoAccount
  <1>4. /\ accounts' \in [Actors -> AccountType]
        /\ accounts'[c.actor] = a
        /\ \A j \in Actors \ {c.actor} : accounts'[j] = accounts[j]
    BY <1>1, <1>2, <1>3 DEF AuthInv, AccountsTyped
  <1>5. Existing' = Existing
    BY <1>1, <1>3, <1>4 DEF Existing
  <1>6. AccountsTyped'
    <2>1. \A i \in Actors : accounts'[i].name = None => accounts'[i] = NoAccount
      BY <1>2, <1>3, <1>4 DEF AuthInv, AccountsTyped
    <2>2. \A i \in Actors : i > actors => accounts'[i] = NoAccount
      BY <1>1, <1>4 DEF AuthInv, AccountsTyped, Existing
    <2> QED
      BY <1>1, <1>4, <2>1, <2>2 DEF AuthInv, AccountsTyped
  <1>7. CallsSound'
    <2>1. CallSound(Ready)'
      BY ReadyIsSound DEF CallSound, Ready
    <2> QED
      BY <1>1, <1>5, <2>1, ReadyIsSound, AccountsGrow
  <1>8. /\ OverlapsSeen'
        /\ RolesMixed => RolesMixed'
        /\ SecretsMixed => SecretsMixed'
        /\ \A g \in Handlers : call'[g] = IF g = h THEN Ready ELSE call[g]
    BY <1>1, BecomesSeen DEF AuthInv
  <1> HIDE DEF a
  <1>9. RolesInv'
    <2> SUFFICES ASSUME ~RolesMixed'
                 PROVE  HasAdmin' /\ \A g \in Handlers : RolesRead(call[g])'
      BY DEF RolesInv
    <2>1. ~RolesMixed /\ \A g \in Handlers : RolesRead(call[g])
      BY <1>8 DEF AuthInv, RolesInv
    <2>2. HasAdmin'
      <3>1. ActiveAdminRemains(c.actor, a)
        BY <1>1, <2>1 DEF RolesRead, a
      <3> QED
        BY <1>2, <1>4, <3>1 DEF ActiveAdminRemains, HasAdmin
    <2>3. \A g \in Handlers \ {h} : call[g].pc \notin {"sync", "count", "update"}
      BY <1>1, <2>1, Overlaps DEF AuthInv
    <2>4. \A g \in Handlers : call'[g].pc \notin {"sync", "count", "update"}
      BY <1>8, <2>3, ReadyIsSound
    <2> QED
      BY <2>2, <2>4 DEF RolesRead
  <1>10. SecretsInv'
    BY <1>1, <1>5, <1>8, ReadyIsSound DEF AuthInv, SecretsInv
  <1> QED
    BY <1>6, <1>7, <1>8, <1>9, <1>10 DEF AuthInv

(* Every step of a handler keeps the invariant. *)
LEMMA AuthStepKeeps ==
    ASSUME AuthInv, NEW h \in Handlers, AuthStep(h)
    PROVE  AuthInv'
  <1> DEFINE c == call[h]
  <1>1. c \in CallType /\ CallSound(c) /\ (RolesMixed \/ RolesRead(c))
    BY DEF AuthInv, CallsSound, RolesInv
  <1>2. ASSUME NEW i \in Actors, NEW change \in Changes, ReadAccount(h, i, change)  PROVE AuthInv'
    <2>1. PICK d : d = [c EXCEPT !.pc = "count", !.actor = i, !.change = change,
                                 !.next = Applied(change, accounts[i])]
      OBVIOUS
    <2>2. Changes \subseteq ChangeType
      BY DEF Changes, ChangeType, NoChange
    <2>3. Applied(change, accounts[i]) \in AccountType
      BY <2>2, AppliedTyped DEF AuthInv, AccountsTyped
    <2>4. i \in 0..MaxActors /\ i \in Existing
      BY <1>2, HostingAssumption DEF Actors, ReadAccount
    <2>5. /\ d \in CallType /\ d.pc = "count" /\ d.actor = i /\ d.change = change
          /\ d.next = Applied(change, accounts[i])
      BY <1>1, <2>1, <2>2, <2>3, <2>4 DEF CallType
    <2>6. CallSound(d) /\ RolesRead(d)
      BY <2>4, <2>5 DEF CallSound, RolesRead
    <2> QED
      BY <1>2, <2>1, <2>5, <2>6, CallMoves DEF ReadAccount
  <1>3. CASE CountAdmins(h)
    <2>1. PICK d : d = [c EXCEPT !.pc = "update", !.next = NoAccount]
      OBVIOUS
    <2>2. c.pc = "count" /\ ActiveAdminRemains(c.actor, c.next)
      BY <1>3 DEF CountAdmins
    <2>3. NoAccount \in AccountType
      BY DEF NoAccount, AccountType
    <2>4. d \in CallType /\ d.pc = "update" /\ d.actor = c.actor /\ d.change = c.change
      BY <1>1, <2>1, <2>3 DEF CallType
    <2>5. CallSound(d) /\ (RolesMixed \/ RolesRead(d))
      BY <1>1, <2>2, <2>4 DEF CallSound, RolesRead
    <2> QED
      BY <1>3, <2>1, <2>4, <2>5, CallMoves DEF CountAdmins
  <1>4. CASE Refuse(h)
    BY <1>4, ReadyIsSound, CallMoves DEF Refuse
  <1> QED
    BY <1>2, <1>3, <1>4, CreateKeeps, SyncKeeps, TokenKeeps, UpdateKeeps DEF AuthStep

(* A process that is gone takes the handlers with it, and an in-memory      *)
(* store its accounts and its secret.                                       *)
LEMMA LostKeeps ==
    ASSUME AuthInv, AuthLost
    PROVE  AuthInv'
  <1>1. /\ call' = [h \in Handlers |-> Ready] /\ Ready \in CallType
        /\ UNCHANGED <<configured, actors, secrets, tokens, mixed>>
    BY ReadyIsSound DEF AuthLost
  <1>2. CallsSound' /\ OverlapsSeen' /\ \A h \in Handlers : RolesRead(call[h])'
    BY <1>1 DEF CallsSound, CallSound, OverlapsSeen, Exposure, RolesRead, Ready
  <1>3. CASE accounts' = [i \in Actors |-> NoAccount] /\ secret' = 0
    <2>1. Existing' = {} /\ NoAccount \in AccountType
      BY <1>3 DEF Existing, NoAccount, AccountType
    <2>2. AccountsTyped'
      BY <1>1, <1>3, <2>1 DEF AuthInv, AccountsTyped
    <2>3. SecretsInv'
      <3>1. 0 \in 0..EnvSecret
        BY HostingAssumption DEF EnvSecret
      <3> QED
        BY <1>1, <1>3, <2>1, <3>1 DEF AuthInv, SecretsInv, Ready
    <2> QED
      BY <1>2, <2>1, <2>2, <2>3 DEF AuthInv, RolesInv
  <1>4. CASE UNCHANGED <<accounts, secret>>
    <2>1. Existing' = Existing /\ HasAdmin' = HasAdmin /\ RolesMixed' = RolesMixed
          /\ SecretsMixed' = SecretsMixed
      BY <1>1, <1>4 DEF Existing, HasAdmin, RolesMixed, SecretsMixed, Mixed
    <2>2. AccountsTyped' /\ SecretsInv'
      BY <1>1, <1>4, <2>1 DEF AuthInv, AccountsTyped, SecretsInv, Ready
    <2> QED
      BY <1>2, <2>1, <2>2 DEF AuthInv, RolesInv
  <1> QED
    BY <1>3, <1>4 DEF AuthLost

(* Whatever handlers overlap and whenever the process restarts, there is an *)
(* active administrator once there are accounts, and a session of a stored  *)
(* account is accepted, but for the two races that the history records.     *)
THEOREM AccountsStayUsable == Spec => []AccountsUsable
  <1>1. Init => AuthInv
    <2> SUFFICES ASSUME Init  PROVE AuthInv
      OBVIOUS
    <2>1. /\ accounts = [i \in Actors |-> NoAccount] /\ NoAccount \in AccountType
          /\ actors = 0 /\ secret = 0 /\ secrets = 0 /\ tokens = {} /\ configured \in BOOLEAN
          /\ call = [h \in Handlers |-> Ready] /\ Ready \in CallType
      BY ReadyIsSound DEF Init, AuthInit, NoAccount, AccountType
    <2>2. 0 \in 0..EnvSecret /\ 0 \in 0..MaxSecrets /\ 0 \in 0..MaxActors
      BY HostingAssumption DEF EnvSecret
    <2>3. Existing = {}
      BY <2>1 DEF Existing
    <2> QED
      BY <2>1, <2>2, <2>3
         DEF AuthInv, AccountsTyped, CallsSound, CallSound, OverlapsSeen, Exposure, RolesInv,
             RolesRead, SecretsInv, Ready
  <1>2. AuthInv /\ [Next]_vars => AuthInv'
    <2> SUFFICES ASSUME AuthInv, [Next]_vars  PROVE AuthInv'
      OBVIOUS
    <2>1. CASE UNCHANGED authVars
      <3>1. UNCHANGED <<configured, accounts, actors, secret, secrets, tokens, call, mixed>>
        BY <2>1 DEF authVars
      <3> QED
        BY <3>1 DEF AuthInv, AccountsTyped, CallsSound, CallSound, OverlapsSeen, RolesInv,
                    RolesRead, SecretsInv, Existing, HasAdmin, ActiveAdminRemains, RolesMixed,
                    SecretsMixed, Mixed
    <2>2. ASSUME NEW h \in Handlers, Http(h)  PROVE AuthInv'
      BY <2>2, BeginKeeps, AuthStepKeeps DEF Http
    <2>3. CASE ProcessGone
      BY <2>3, LostKeeps DEF ProcessGone
    <2>4. ASSUME NEW c \in OdbcClients, Odbc(c)  PROVE UNCHANGED authVars
      BY <2>4 DEF Odbc
    <2>5. ASSUME Lifespan, ~ProcessGone  PROVE UNCHANGED authVars
      BY <2>5 DEF Lifespan, Boot, StartupRaises, StartOdbc, RegisterTasks, StartTasks, BeginStop,
                  StopTasks, CloseServer, WaitClosed, CloseHost
    <2> QED
      BY <2>1, <2>2, <2>3, <2>4, <2>5 DEF Next, vars
  <1>3. AuthInv => AccountsUsable
    BY DEF AuthInv, RolesInv, SecretsInv, AccountsUsable, AdminRemains, TokensHonoured,
           RolesMixed, SecretsMixed
  <1> QED
    BY <1>1, <1>2, <1>3, PTL DEF Spec

-----------------------------------------------------------------------------
(* The background task manager                                             *)

ExecType == [pc : ExecPhases, task : Tasks \cup {Nothing}, kind : Kinds, lock : Nat]

\* The part of the type invariant that the lock argument needs.
ExecsTyped == exec \in [Execs -> ExecType] /\ epoch \in Nat

\* _active_tasks holds, under a task's name, a managed execution of the task
\* that is not done: what stop() cancels is never a free slot.
ActiveSound ==
    /\ active \in [Tasks -> Execs \cup {Nothing}]
    /\ \A t \in Tasks : active[t] # Nothing =>
          /\ exec[active[t]].pc # "free"
          /\ exec[active[t]].task = t
          /\ exec[active[t]].kind = "managed"

\* ExclusivePerLock with the facts that make it inductive.
LockInv == ExecsTyped /\ ActiveSound /\ ExclusivePerLock

\* A step that neither lets an execution enter a handler nor changes the task
\* or the lock of one that is in it.
NoNewHandler ==
    \A e \in Execs :
        exec'[e].pc \in {"running", "cancelling"}
          => /\ InHandler(e)
             /\ exec'[e].task = exec[e].task
             /\ exec'[e].lock = exec[e].lock

(* Such a step cannot break mutual exclusion per lock. *)
LEMMA NoNewHandlerKeeps ==
    ASSUME ExclusivePerLock, NoNewHandler
    PROVE  ExclusivePerLock'
  BY DEF ExclusivePerLock, NoNewHandler, InHandler

(* Free and freshly created executions are well typed and in no handler. *)
LEMMA NewExecs ==
    /\ Free \in ExecType /\ Free.pc = "free"
    /\ \A t \in Tasks, k \in Kinds :
          Created(t, k) \in ExecType /\ Created(t, k).pc = "created"
  BY DEF Free, Created, ExecType, ExecPhases, Kinds

(* Creating managed executions changes free ones only. *)
LEMMA CreateManagedKeeps ==
    ASSUME ExecsTyped, ActiveSound, NEW S \in SUBSET Tasks, NEW f \in Placements(S), CreateManaged(f)
    PROVE  exec' \in [Execs -> ExecType] /\ NoNewHandler /\ ActiveSound'
  <1>1. f \in [S -> FreeExecs] /\ DOMAIN f = S /\ FreeExecs \subseteq Execs
    BY DEF Placements, FreeExecs
  <1>2. ASSUME NEW e \in Execs
        PROVE  \/ exec'[e] = exec[e]
               \/ exec'[e] \in ExecType /\ exec'[e].pc = "created"
    <2>1. CASE \E t \in DOMAIN f : f[t] = e
      <3> DEFINE t0 == CHOOSE t \in DOMAIN f : f[t] = e
      <3>1. t0 \in Tasks
        BY <1>1, <2>1
      <3>2. exec'[e] = Created(t0, "managed")
        BY <2>1 DEF CreateManaged
      <3> HIDE DEF t0
      <3> QED
        BY <3>1, <3>2, NewExecs DEF Kinds
    <2>2. CASE ~\E t \in DOMAIN f : f[t] = e
      BY <2>2 DEF CreateManaged
    <2> QED
      BY <2>1, <2>2
  <1>3. exec' \in [Execs -> ExecType]
    <2>1. exec' = [e \in Execs |-> exec'[e]]
      BY DEF CreateManaged
    <2>2. \A e \in Execs : exec'[e] \in ExecType
      BY <1>2 DEF ExecsTyped
    <2> QED
      BY <2>1, <2>2
  <1>4. NoNewHandler
    BY <1>2 DEF NoNewHandler, InHandler
  <1>5. ActiveSound'
    <2>1. active' \in [Tasks -> Execs \cup {Nothing}]
      BY <1>1 DEF CreateManaged, ActiveSound
    <2>2. ASSUME NEW t \in Tasks, active'[t] # Nothing
          PROVE  /\ exec'[active'[t]].pc # "free"
                 /\ exec'[active'[t]].task = t
                 /\ exec'[active'[t]].kind = "managed"
      <3>1. CASE t \in S
        <4>1. active'[t] = f[t] /\ f[t] \in Execs
          BY <1>1, <3>1 DEF CreateManaged
        <4>2. (CHOOSE u \in DOMAIN f : f[u] = f[t]) = t
          BY <1>1, <3>1 DEF Placements
        <4>3. exec'[f[t]] = Created(t, "managed")
          BY <1>1, <3>1, <4>1, <4>2 DEF CreateManaged
        <4> QED
          BY <4>1, <4>3 DEF Created
      <3>2. CASE t \notin S
        <4>1. active'[t] = active[t] /\ active[t] \in Execs /\ exec[active[t]].pc # "free"
          BY <1>1, <2>2, <3>2 DEF CreateManaged, ActiveSound
        <4>2. ~\E u \in DOMAIN f : f[u] = active[t]
          BY <1>1, <4>1 DEF FreeExecs
        <4>3. exec'[active[t]] = exec[active[t]]
          BY <4>1, <4>2 DEF CreateManaged
        <4> QED
          BY <2>2, <4>1, <4>3 DEF ActiveSound
      <3> QED
        BY <3>1, <3>2
    <2> QED
      BY <2>1, <2>2 DEF ActiveSound
  <1> QED
    BY <1>3, <1>4, <1>5

(* Cancelling executions keeps the handlers that run under their locks. *)
LEMMA CancelledKeeps ==
    ASSUME ExecsTyped, NEW E \in SUBSET Execs,
           \A e \in E : exec[e].pc # "free", exec' = Cancelled(E)
    PROVE  exec' \in [Execs -> ExecType] /\ NoNewHandler
  <1>1. ASSUME NEW e \in Execs
        PROVE  \/ exec'[e] = exec[e]
               \/ exec'[e] = Free
               \/ /\ exec'[e] \in ExecType /\ InHandler(e)
                  /\ exec'[e].task = exec[e].task /\ exec'[e].lock = exec[e].lock
    <2>1. exec[e] \in ExecType
      BY DEF ExecsTyped
    <2>2. CASE e \notin E
      BY <2>2 DEF Cancelled
    <2>3. CASE e \in E /\ exec[e].pc = "created"
      BY <2>3 DEF Cancelled
    <2>4. CASE e \in E /\ exec[e].pc # "created"
      <3>1. exec'[e] = [exec[e] EXCEPT !.pc = "cancelling"]
        BY <2>4 DEF Cancelled
      <3>2. InHandler(e)
        BY <2>1, <2>4 DEF InHandler, ExecType, ExecPhases
      <3> QED
        BY <2>1, <3>1, <3>2 DEF ExecType, ExecPhases
    <2> QED
      BY <2>2, <2>3, <2>4
  <1>2. exec' = [e \in Execs |-> exec'[e]]
    BY DEF Cancelled
  <1>3. \A e \in Execs : exec'[e] \in ExecType
    BY <1>1, NewExecs DEF ExecsTyped
  <1>4. NoNewHandler
    BY <1>1, NewExecs DEF NoNewHandler, InHandler
  <1> QED
    BY <1>2, <1>3, <1>4

(* An execution that ends leaves its handler. *)
LEMMA FreedKeeps ==
    ASSUME ExecsTyped, NEW e \in Execs, exec' = [exec EXCEPT ![e] = Free]
    PROVE  exec' \in [Execs -> ExecType] /\ NoNewHandler
  BY NewExecs DEF ExecsTyped, NoNewHandler, InHandler

(* ... and is forgotten if it was the active one of its task. *)
LEMMA FreedActive ==
    ASSUME ExecsTyped, ActiveSound, NEW e \in Execs, exec[e].pc # "free",
           exec' = [exec EXCEPT ![e] = Free], active' = PopActive(e)
    PROVE  ActiveSound'
  <1>1. active' \in [Tasks -> Execs \cup {Nothing}]
    BY DEF PopActive, ActiveSound
  <1>2. ASSUME NEW t \in Tasks, active'[t] # Nothing
        PROVE  active'[t] = active[t] /\ active[t] \in Execs /\ active[t] # e
    <2>1. active'[t] = active[t]
      BY <1>2 DEF PopActive, ActiveSound
    <2>2. active[t] # e
      <3> SUFFICES ASSUME active[t] = e PROVE FALSE
        OBVIOUS
      <3>1. exec[e].task = t /\ exec[e].kind = "managed"
        BY <1>2, <2>1 DEF ActiveSound
      <3> QED
        BY <1>2, <3>1 DEF PopActive, ActiveSound
    <2> QED
      BY <1>2, <2>1, <2>2 DEF ActiveSound
  <1> QED
    BY <1>1, <1>2 DEF ActiveSound, ExecsTyped

(* The invariant holds initially. *)
LEMMA InitLockInv == TasksInit => LockInv
  BY NewExecs DEF TasksInit, LockInv, ExecsTyped, ActiveSound, ExclusivePerLock, InHandler

(* Every step keeps the invariant. *)
LEMMA NextLockInv == LockInv /\ [TasksNext]_tasksVars => LockInv'
  <1> SUFFICES ASSUME LockInv, [TasksNext]_tasksVars PROVE LockInv'
    OBVIOUS
  <1>0. ExecsTyped /\ ActiveSound /\ ExclusivePerLock
    BY DEF LockInv
  <1>1. ASSUME exec' \in [Execs -> ExecType], NoNewHandler, epoch' \in Nat, ActiveSound'
        PROVE  LockInv'
    BY <1>0, <1>1, NoNewHandlerKeeps DEF LockInv, ExecsTyped
  <1>2. ASSUME UNCHANGED <<exec, active>>, epoch' = epoch PROVE LockInv'
    BY <1>0, <1>2 DEF LockInv, ExecsTyped, ActiveSound, ExclusivePerLock, InHandler
  <1>3. CASE UNCHANGED tasksVars
    BY <1>2, <1>3 DEF tasksVars
  <1>4. ASSUME NEW t \in Tasks, Register(t) PROVE LockInv'
    <2>1. CASE UNCHANGED <<exec, active>>
      BY <1>2, <1>4, <2>1 DEF Register
    <2>2. CASE \E f \in Placements({t}) : CreateManaged(f)
      <3>1. epoch' \in Nat
        BY <1>0, <1>4 DEF Register, ExecsTyped
      <3> QED
        BY <1>0, <1>1, <2>2, <3>1, CreateManagedKeeps
    <2> QED
      BY <1>4, <2>1, <2>2 DEF Register
  <1>5. ASSUME NEW t \in Tasks, StartTask(t) PROVE LockInv'
    <2>1. epoch' \in Nat
      BY <1>0, <1>5 DEF StartTask, ExecsTyped
    <2>2. \E f \in Placements({t}) : CreateManaged(f)
      BY <1>5 DEF StartTask
    <2> QED
      BY <1>0, <1>1, <2>1, <2>2, CreateManagedKeeps
  <1>6. ASSUME Start PROVE LockInv'
    <2>1. epoch' \in Nat
      BY <1>0, <1>6 DEF Start, ExecsTyped
    <2>2. PICK f \in Placements(StartupTasks) : CreateManaged(f)
      BY <1>6 DEF Start
    <2>3. StartupTasks \in SUBSET Tasks
      BY TasksAssumption DEF StartupTasks
    <2> QED
      BY <1>0, <1>1, <2>1, <2>2, <2>3, CreateManagedKeeps
  <1>7. ASSUME StartRefused PROVE LockInv'
    <2>1. epoch' \in Nat
      BY <1>0, <1>7 DEF StartRefused, ExecsTyped
    <2>2. PICK S \in SUBSET {t \in StartupTasks : active[t] = Nothing} :
             \E f \in Placements(S) : CreateManaged(f)
      BY <1>7 DEF StartRefused
    <2>3. S \in SUBSET Tasks
      BY TasksAssumption DEF StartupTasks
    <2> QED
      BY <1>0, <1>1, <2>1, <2>2, <2>3, CreateManagedKeeps
  <1>8. ASSUME StartReturns PROVE LockInv'
    BY <1>2, <1>8 DEF StartReturns
  <1>9. ASSUME NEW t \in Tasks, Tick(t) PROVE LockInv'
    <2>1. PICK e \in FreeExecs : exec' = [exec EXCEPT ![e] = Created(t, "scheduled")]
      BY <1>9 DEF Tick
    <2>2. e \in Execs /\ exec[e].pc = "free"
      BY DEF FreeExecs
    <2>3. /\ Created(t, "scheduled") \in ExecType
          /\ Created(t, "scheduled").pc = "created"
      BY NewExecs DEF Kinds
    <2>4. exec' \in [Execs -> ExecType] /\ NoNewHandler
      BY <1>0, <2>1, <2>2, <2>3 DEF ExecsTyped, NoNewHandler, InHandler
    <2>5. ActiveSound'
      BY <1>0, <1>9, <2>1, <2>2 DEF Tick, ActiveSound, ExecsTyped
    <2>6. epoch' \in Nat
      BY <1>0, <1>9 DEF Tick, ExecsTyped
    <2> QED
      BY <1>1, <2>4, <2>5, <2>6
  <1>10. ASSUME NEW e \in Execs, Run(e) PROVE LockInv'
    <2>1. exec' = [exec EXCEPT ![e] = [exec[e] EXCEPT !.pc = "running", !.lock = epoch]]
      BY <1>0, <1>10 DEF Run, ExecsTyped
    <2>2. exec' \in [Execs -> ExecType] /\ epoch' = epoch
      BY <1>0, <1>10, <2>1 DEF Run, ExecsTyped, ExecType, ExecPhases
    <2>3. ActiveSound'
      <3>1. \A d \in Execs : /\ exec'[d].task = exec[d].task
                             /\ exec'[d].kind = exec[d].kind
                             /\ exec'[d].pc = "free" => exec[d].pc = "free"
        BY <1>0, <1>10, <2>1 DEF Run, ExecsTyped, ExecType
      <3>2. active' = active /\ active \in [Tasks -> Execs \cup {Nothing}]
        BY <1>0, <1>10 DEF Run, ActiveSound
      <3>3. \A t \in Tasks : active[t] # Nothing =>
               /\ active[t] \in Execs /\ exec[active[t]].pc # "free"
               /\ exec[active[t]].task = t /\ exec[active[t]].kind = "managed"
        BY <1>0, <3>2 DEF ActiveSound
      <3> QED
        BY <3>1, <3>2, <3>3 DEF ActiveSound
    <2>4. \A d \in Execs \ {e} : exec'[d] = exec[d]
      BY <1>0, <2>1 DEF ExecsTyped
    <2>5. exec'[e].lock = epoch /\ exec'[e].task = exec[e].task
      BY <1>0, <2>1 DEF ExecsTyped, ExecType
    <2>6. \A d \in Execs : InHandler(d) /\ exec[d].task = exec[e].task
                             => exec[d].lock # epoch
      BY <1>10 DEF Run, Locked
    <2>7. ExclusivePerLock'
      BY <1>0, <2>4, <2>5, <2>6 DEF ExclusivePerLock, InHandler
    <2> QED
      BY <1>0, <2>2, <2>3, <2>7 DEF LockInv, ExecsTyped
  <1>11. ASSUME NEW e \in Execs, Skip(e) \/ Finish(e) \/ Fails(e) PROVE LockInv'
    <2>1. /\ exec' = [exec EXCEPT ![e] = Free] /\ active' = PopActive(e)
          /\ epoch' = epoch /\ exec[e].pc # "free"
      BY <1>11 DEF Skip, Finish, Fails, InHandler
    <2>2. epoch' \in Nat
      BY <1>0, <2>1 DEF ExecsTyped
    <2> QED
      BY <1>0, <1>1, <2>1, <2>2, FreedKeeps, FreedActive
  <1>12. ASSUME Stop PROVE LockInv'
    <2> DEFINE tracked == {active[t] : t \in Tasks} \ {Nothing}
    <2>1. /\ exec' = Cancelled(tracked) /\ epoch' = epoch
          /\ active' = [t \in Tasks |-> IF active[t] # Nothing /\ InHandler(active[t])
                                        THEN active[t] ELSE Nothing]
      BY <1>12 DEF Stop
    <2>2. tracked \in SUBSET Execs /\ \A e \in tracked : exec[e].pc # "free"
      BY <1>0 DEF ActiveSound
    <2>3. exec' \in [Execs -> ExecType] /\ NoNewHandler
      <3> HIDE DEF tracked
      <3> QED BY <1>0, <2>1, <2>2, CancelledKeeps
    <2>4. ActiveSound'
      <3>1. ASSUME NEW t \in Tasks, active'[t] # Nothing
            PROVE  exec'[active'[t]] = [exec[active[t]] EXCEPT !.pc = "cancelling"]
                   /\ active'[t] = active[t] /\ active[t] \in Execs
        <4>1. active'[t] = active[t] /\ active[t] \in tracked /\ InHandler(active[t])
          BY <2>1, <3>1
        <4>2. exec[active[t]].pc # "created"
          BY <4>1 DEF InHandler
        <4> QED
          BY <2>1, <2>2, <4>1, <4>2 DEF Cancelled
      <3>2. active' \in [Tasks -> Execs \cup {Nothing}]
        BY <1>0, <2>1 DEF ActiveSound
      <3>3. ASSUME NEW t \in Tasks, active'[t] # Nothing
            PROVE  /\ exec'[active'[t]].pc # "free"
                   /\ exec'[active'[t]].task = t
                   /\ exec'[active'[t]].kind = "managed"
        <4>1. active[t] \in Execs /\ active[t] # Nothing
          BY <3>1, <3>3
        <4>2. exec[active[t]] \in ExecType
          BY <1>0, <4>1 DEF ExecsTyped
        <4>3. exec[active[t]].task = t /\ exec[active[t]].kind = "managed"
          BY <1>0, <4>1 DEF ActiveSound
        <4>4. exec'[active'[t]] = [exec[active[t]] EXCEPT !.pc = "cancelling"]
          BY <3>1, <3>3
        <4> QED
          BY <4>2, <4>3, <4>4 DEF ExecType
      <3> QED
        BY <3>2, <3>3 DEF ActiveSound
    <2> QED
      BY <1>0, <1>1, <2>1, <2>3, <2>4 DEF ExecsTyped
  <1>13. ASSUME StopReturns PROVE LockInv'
    <2> DEFINE E == {e \in Execs : exec[e].kind = "scheduled" /\ exec[e].pc # "free"}
    <2>1. exec' = Cancelled(E)
      BY <1>13 DEF StopReturns
    <2>2. E \in SUBSET Execs /\ \A e \in E : exec[e].pc # "free"
      OBVIOUS
    <2>3. exec' \in [Execs -> ExecType] /\ NoNewHandler
      <3> HIDE DEF E
      <3> QED BY <1>0, <2>1, <2>2, CancelledKeeps
    <2>4. ActiveSound' /\ epoch' \in Nat
      BY <1>0, <1>13 DEF StopReturns, ActiveSound, ExecsTyped
    <2> QED
      BY <1>1, <2>3, <2>4
  <1> QED
    BY <1>3, <1>4, <1>5, <1>6, <1>7, <1>8, <1>9, <1>10, <1>11, <1>12, <1>13 DEF TasksNext

(* However starts, stops, ticks and on-demand calls interleave, two
   executions of one task are in their handlers together only under
   different locks, that is with a stop() between them. *)
THEOREM LocksExclude == TasksSpec => []ExclusivePerLock
  <1>1. LockInv => ExclusivePerLock
    BY DEF LockInv
  <1> QED
    BY <1>1, InitLockInv, NextLockInv, PTL DEF TasksSpec
=============================================================================
