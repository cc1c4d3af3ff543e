------------------------- MODULE ConfiguredRuntime -------------------------
(***************************************************************************)
(* The bootstrap of a hosted runtime from its configuration file, again    *)
(* and again over edits of the file, restarts and changes through the API: *)
(* the schema of the metadata store is brought up to date, the             *)
(* configuration is built into connectors, datasets, semantic models and   *)
(* agents, these are reconciled with the stored rows in one transaction,   *)
(* and what the API created earlier is loaded next to them.                *)
(*                                                                         *)
(* A configured item has an id made of its name (_stable_uuid), one of the *)
(* API a new one.  Neither is renamed, so a row is identified by its name  *)
(* and by who manages it.                                                  *)
(***************************************************************************)
EXTENDS Naturals, FiniteSets

CONSTANTS
    Configs,     \* configurations an operator may write
    Urls,        \* what a connector says
    ConnNames, DataNames, ModelNames, SourceKeys,
    Alias,       \* _dataset_sql_alias: several names may share one
    CanSync,     \* connectors of a type with a path to sync
    Unset,       \* no key: the dataset is live; no agent
    MaxChanges   \* bound: edits, starts and calls

ASSUME ConfiguredAssumption ==
    /\ MaxChanges \in Nat
    /\ Unset \notin SourceKeys \cup DataNames \cup ModelNames
    /\ DOMAIN Alias = DataNames
    /\ CanSync \subseteq ConnNames

VARIABLES
    metaStore,   \* "memory", "sqlite" or "postgres"
    schema,      \* state of the metadata store's schema
    config,      \* the file
    inForce,     \* the configuration of the last start that succeeded
    up,          \* the runtime is serving
    connRows, dataRows, modelRows,   \* the metadata store
    regConns, regModels,             \* the registries in memory
    changes

cfgRows  == <<connRows, dataRows, modelRows>>
cfgRegs  == <<regConns, regModels>>
cfgVars  == <<metaStore, schema, config, inForce, up, cfgRows, cfgRegs, changes>>

Modes == {"config", "api"}

\* A connector row's id, as a dataset refers to it.
ConnId(r) == [name |-> r.name, mode |-> r.mode]

\* empty: no tables; partial: an upgrade of SQLite stopped halfway; untracked
\* and superseded: the tables are there, without a revision or with an old
\* one, and match the models of this version or do not.
Schemas == {"empty", "partial", "head", "untracked", "untracked_other",
            "superseded", "superseded_other"}

CfgTypeOK ==
    /\ metaStore \in {"memory", "sqlite", "postgres"} /\ schema \in Schemas
    /\ config \in Configs /\ inForce \in Configs /\ up \in BOOLEAN
    /\ connRows \subseteq [name : ConnNames, mode : Modes, url : Urls, sync : BOOLEAN]
    /\ regConns \subseteq [name : ConnNames, mode : Modes, url : Urls, sync : BOOLEAN]
    /\ dataRows \subseteq [name : DataNames, mode : Modes, key : SourceKeys \cup {Unset},
                           conn : [name : ConnNames, mode : Modes], ready : BOOLEAN]
    /\ modelRows \subseteq [name : ModelNames, mode : Modes]
    /\ regModels \subseteq [name : ModelNames, mode : Modes]
    /\ changes \in 0..MaxChanges

CfgInit ==
    /\ metaStore \in {"memory", "sqlite", "postgres"}
    /\ schema \in Schemas \ {"partial"}
    /\ metaStore = "memory" => schema = "empty"
    /\ config \in Configs /\ inForce = config
    /\ up = FALSE
    /\ connRows = {} /\ dataRows = {} /\ modelRows = {}
    /\ regConns = {} /\ regModels = {}
    /\ changes = 0

Change == changes < MaxChanges /\ changes' = changes + 1

NamesOf(S) == {r.name : r \in S}

-----------------------------------------------------------------------------
(* The schema                                                              *)

\* migrate_runtime_metadata_store.  Alembic knows the head revision only, so
\* it cannot upgrade from a superseded one whose tables differ, nor create
\* tables that exist.
Migrates(s) == s \in {"empty", "untracked", "superseded"}

\* ensure_runtime_metadata_schema_current
SchemaOk(c) == metaStore = "memory" \/ schema = "head" \/ (c.autoApply /\ Migrates(schema))

\* SQLite commits each CREATE TABLE, and the version table before them; the
\* revision comes last.
CrashInUpgrade ==
    /\ ~up /\ Change
    /\ metaStore = "sqlite" /\ schema = "empty" /\ config.autoApply
    /\ schema' = "partial"
    /\ UNCHANGED <<metaStore, config, inForce, up, cfgRows, cfgRegs>>

-----------------------------------------------------------------------------
(* Building the configuration                                              *)

\* _validate_synced_dataset: the capabilities that a sync from the connector needs
\* (supports_synced_datasets, for SQL supports_query_pushdown too), which the
\* configuration and the API may set, and the sync path of its type.
Syncs(r) == r.sync /\ r.name \in CanSync

\* _build_dataset_models: only connectors of the configuration are known.
DatasetBuilds(c, d) ==
    /\ \E k \in c.conns : k.name = d.conn /\ (d.key # Unset => Syncs(k))
    /\ \A e \in c.data \ {d} :
          e.conn = d.conn /\ d.key # Unset => e.key # d.key

\* _build_agent_records: an agent's dataset or model is in the configuration.
AgentBuilds(c) == c.agent = Unset \/ c.agent \in NamesOf(c.data) \cup c.models

Builds(c) == AgentBuilds(c) /\ \A d \in c.data : DatasetBuilds(c, d)

ConfiguredConns(c)  ==
    {[name |-> k.name, mode |-> "config", url |-> k.url, sync |-> k.sync] : k \in c.conns}
ConfiguredModels(c) == {[name |-> m, mode |-> "config"] : m \in c.models}

\* A synced dataset is built without a storage_uri, PENDING_SYNC.
ConfiguredData(c) ==
    {[name |-> d.name, mode |-> "config", key |-> d.key,
      conn |-> [name |-> d.conn, mode |-> "config"], ready |-> d.key = Unset] : d \in c.data}

-----------------------------------------------------------------------------
(* Reconciling it with the store                                           *)

\* Mutant of Reconcile: what the configuration does not name is pruned.
ReconcilePruned(stored, configured) == configured

\* _reconcile_sql_runtime_metadata: merge by id.
Reconcile(stored, configured) ==
    configured \cup {r \in stored : r.mode = "api" \/ r.name \notin NamesOf(configured)}

ConnsAfter(c)  == IF metaStore = "memory" THEN ConfiguredConns(c)
                  ELSE Reconcile(connRows, ConfiguredConns(c))
DataAfter(c)   == IF metaStore = "memory" THEN ConfiguredData(c)
                  ELSE Reconcile(dataRows, ConfiguredData(c))
ModelsAfter(c) == IF metaStore = "memory" THEN ConfiguredModels(c)
                  ELSE Reconcile(modelRows, ConfiguredModels(c))

\* The unique constraints: a connector's name, a dataset's name and alias.
Consistent(cs, ds) ==
    /\ \A r, q \in cs : r.name = q.name => r = q
    /\ \A r, q \in ds : Alias[r.name] = Alias[q.name] => r = q

NoConflict(c) == metaStore = "memory" \/ Consistent(ConnsAfter(c), DataAfter(c))

\* Mutant of Managed: the API's connectors are not loaded.
ManagedNone(stored) == {}

\* _load_persisted_runtime_managed_resources
Managed(stored) == {r \in stored : r.mode = "api"}

\* What the API created hides a configured item of its name.
RegConnsAfter(c) ==
    LET api == Managed(ConnsAfter(c))
    IN  api \cup {r \in ConfiguredConns(c) : r.name \notin NamesOf(api)}

RegModelsAfter(c) ==
    LET api == Managed(ModelsAfter(c))
    IN  api \cup {r \in ConfiguredModels(c) : r.name \notin NamesOf(api)}

\* build_scheduled_sync_tasks reads the contract of every synced dataset and
\* raises where its connector is not registered or does not sync any more.
Schedules(c) ==
    \A d \in DataAfter(c) : d.key # Unset => \E r \in RegConnsAfter(c) : ConnId(r) = d.conn /\ Syncs(r)

StartOutcome(c) ==
    CASE ~SchemaOk(c)    -> "schema"
      [] ~Builds(c)      -> "invalid"
      [] ~NoConflict(c)  -> "conflict"
      [] ~Schedules(c)   -> "contract"
      [] OTHER           -> "started"

-----------------------------------------------------------------------------
(* Starts and stops                                                        *)

\* build_configured_local_runtime and the lifespan's registration of tasks.
\* Schema and rows are committed where they were reached.
Start ==
    LET o == StartOutcome(config) IN
    /\ ~up /\ Change
    /\ schema' = IF metaStore = "memory" \/ o = "schema" THEN schema ELSE "head"
    /\ up' = (o = "started")
    /\ IF o \in {"started", "contract"}
       THEN /\ connRows' = ConnsAfter(config)
            /\ dataRows' = DataAfter(config)
            /\ modelRows' = ModelsAfter(config)
       ELSE UNCHANGED cfgRows
    /\ IF o = "started"
       THEN /\ inForce' = config
            /\ regConns' = RegConnsAfter(config)
            /\ regModels' = RegModelsAfter(config)
       ELSE UNCHANGED <<inForce, cfgRegs>>
    /\ UNCHANGED <<metaStore, config>>

\* The process ends or dies.
Stop ==
    /\ up /\ up' = FALSE
    /\ regConns' = {} /\ regModels' = {}
    /\ IF metaStore = "memory"
       THEN connRows' = {} /\ dataRows' = {} /\ modelRows' = {}
       ELSE UNCHANGED cfgRows
    /\ UNCHANGED <<metaStore, schema, config, inForce, changes>>

EditConfig(c) ==
    /\ Change /\ c # config
    /\ config' = c
    /\ UNCHANGED <<metaStore, schema, inForce, up, cfgRows, cfgRegs>>

-----------------------------------------------------------------------------
(* The API, while the runtime serves.  A call that raises changes nothing. *)

CreateConnector(n, u, s) ==
    LET r == [name |-> n, mode |-> "api", url |-> u, sync |-> s] IN
    /\ up /\ Change
    /\ n \notin NamesOf(regConns)
    /\ metaStore # "memory" => n \notin NamesOf(connRows)
    /\ connRows' = IF metaStore = "memory" THEN connRows ELSE connRows \cup {r}
    /\ regConns' = regConns \cup {r}
    /\ UNCHANGED <<metaStore, schema, config, inForce, up, dataRows, modelRows, regModels>>

\* update_connector: connection and capabilities of a connector of the API,
\* only with a store.  Nobody asks what its datasets need of it.
UpdateConnector(r, u, s) ==
    LET new == [r EXCEPT !.url = u, !.sync = s] IN
    /\ up /\ Change /\ metaStore # "memory"
    /\ r \in regConns /\ r.mode = "api" /\ r \in connRows
    /\ connRows' = (connRows \ {r}) \cup {new} /\ regConns' = (regConns \ {r}) \cup {new}
    /\ UNCHANGED <<metaStore, schema, config, inForce, up, dataRows, modelRows, regModels>>

\* Only with a store, for connectors of the API that no dataset refers to.
DeleteConnector(r) ==
    /\ up /\ Change /\ metaStore # "memory"
    /\ r \in regConns /\ r.mode = "api" /\ r \in connRows
    /\ \A d \in dataRows : d.conn # ConnId(r)
    /\ connRows' = connRows \ {r} /\ regConns' = regConns \ {r}
    /\ UNCHANGED <<metaStore, schema, config, inForce, up, dataRows, modelRows, regModels>>

CreateDataset(n, r, k) ==
    /\ up /\ Change
    /\ r \in regConns
    /\ k # Unset => Syncs(r)
    /\ \A d \in dataRows : d.name # n /\ Alias[d.name] # Alias[n]
    /\ \A d \in dataRows : k # Unset /\ d.conn = ConnId(r) => d.key # k
    /\ dataRows' = dataRows \cup {[name |-> n, mode |-> "api", key |-> k, conn |-> ConnId(r),
                                   ready |-> k = Unset]}
    /\ UNCHANGED <<metaStore, schema, config, inForce, up, connRows, modelRows, cfgRegs>>

\* update_dataset: another source, on the connector the dataset has.
UpdateDataset(d, k) ==
    /\ up /\ Change
    /\ d \in dataRows /\ d.mode = "api"
    /\ \E r \in regConns : ConnId(r) = d.conn /\ (k # Unset => Syncs(r))
    /\ \A e \in dataRows \ {d} : k # Unset /\ e.conn = d.conn => e.key # k
    /\ dataRows' = (dataRows \ {d}) \cup {[d EXCEPT !.key = k, !.ready = (k = Unset)]}
    /\ UNCHANGED <<metaStore, schema, config, inForce, up, connRows, modelRows, cfgRegs>>

DeleteDataset(d) ==
    /\ up /\ Change
    /\ d \in dataRows /\ d.mode = "api"
    /\ dataRows' = dataRows \ {d}
    /\ UNCHANGED <<metaStore, schema, config, inForce, up, connRows, modelRows, cfgRegs>>

\* sync_dataset, that the registered connector serves.
SyncDataset(d) ==
    /\ up /\ Change
    /\ d \in dataRows /\ d.key # Unset /\ ~d.ready
    /\ \E r \in regConns : ConnId(r) = d.conn /\ Syncs(r)
    /\ dataRows' = (dataRows \ {d}) \cup {[d EXCEPT !.ready = TRUE]}
    /\ UNCHANGED <<metaStore, schema, config, inForce, up, connRows, modelRows, cfgRegs>>

\* Model names are unique in the registry, not in the store.
CreateModel(n) ==
    LET r == [name |-> n, mode |-> "api"] IN
    /\ up /\ Change
    /\ n \notin NamesOf(regModels)
    /\ modelRows' = IF metaStore = "memory" THEN modelRows ELSE modelRows \cup {r}
    /\ regModels' = regModels \cup {r}
    /\ UNCHANGED <<metaStore, schema, config, inForce, up, connRows, dataRows, regConns>>

\* The name is gone from the registry, whatever it hid.
DeleteModel(r) ==
    /\ up /\ Change /\ metaStore # "memory"
    /\ r \in regModels /\ r.mode = "api" /\ r \in modelRows
    /\ modelRows' = modelRows \ {r} /\ regModels' = regModels \ {r}
    /\ UNCHANGED <<metaStore, schema, config, inForce, up, connRows, dataRows, regConns>>

CfgNext ==
    \/ Start \/ Stop \/ CrashInUpgrade
    \/ \E c \in Configs : EditConfig(c)
    \/ \E n \in ConnNames, u \in Urls, s \in BOOLEAN : CreateConnector(n, u, s)
    \/ \E r \in regConns, u \in Urls, s \in BOOLEAN : UpdateConnector(r, u, s)
    \/ \E r \in regConns : DeleteConnector(r)
    \/ \E n \in DataNames, r \in regConns, k \in SourceKeys \cup {Unset} : CreateDataset(n, r, k)
    \/ \E d \in dataRows, k \in SourceKeys \cup {Unset} : UpdateDataset(d, k)
    \/ \E d \in dataRows : DeleteDataset(d) \/ SyncDataset(d)
    \/ \E n \in ModelNames : CreateModel(n)
    \/ \E r \in regModels : DeleteModel(r)

CfgSpec == CfgInit /\ [][CfgNext]_cfgVars

-----------------------------------------------------------------------------
(* Properties                                                              *)

\* An update through the API took from a connector of the store what a synced
\* dataset of it needs.
Withdrawn ==
    /\ metaStore # "memory"
    /\ \E d \in dataRows, r \in regConns : d.key # Unset /\ ConnId(r) = d.conn /\ ~r.sync

\* One change through the API locks the runtime out, and no other: while it
\* serves, a stop and a start with the same configuration would bring it up
\* again, unless update_connector has withdrawn the capability to sync from a
\* connector with synced datasets; then the start raises at their contract.
Restartable ==
    up /\ config = inForce => StartOutcome(config) = IF Withdrawn THEN "contract" ELSE "started"

\* A start keeps every row the API made, and a runtime that comes up with a
\* store registers the API's connectors and models again.
StartKeeps ==
    [][Start /\ metaStore # "memory" =>
         /\ \A r \in connRows : r.mode = "api" => r \in connRows' /\ (up' => r \in regConns')
         /\ \A r \in modelRows : r.mode = "api" => r \in modelRows' /\ (up' => r \in regModels')
         /\ \A r \in dataRows : r.mode = "api" => r \in dataRows'
      ]_cfgVars
=============================================================================
