--------------------------- MODULE CatalogProofs ---------------------------
(***************************************************************************)
(* What holds of the metadata of any runtime, for any number of datasets,  *)
(* connectors, calls in flight and configurations.                         *)
(*                                                                         *)
(* ConfiguredRuntime.  StartKeeps follows from what reconciling and        *)
(* loading keep.  Restartable needs what a start leaves behind and the API *)
(* may not take away: the schema is current, the configuration in force    *)
(* can be built, its rows are in the store and in no conflict with those   *)
(* of the API, and what is registered is what a start would register.      *)
(* Only update_connector can take from a synced dataset the capability its *)
(* connector had.                                                          *)
(*                                                                         *)
(* DatasetCatalog.  Every operation commits what it checked when it began. *)
(* The invariants say what is left of that check: it still holds unless an *)
(* operation of a kind that can spoil it overlapped, and `overlaps' knows  *)
(* every pair of kinds that are exposed to each other.                     *)
(***************************************************************************)
EXTENDS DatasetCatalog, ConfiguredRuntime, TLAPS

-----------------------------------------------------------------------------
(* Starts of a configured runtime                                          *)

\* What a start reads of the store and writes to it again contains every row
\* of the API (_reconcile_sql_runtime_metadata merges by id), and the API's
\* part of it is loaded (_load_persisted_runtime_managed_resources).
LEMMA ReconcileKeeps ==
    ASSUME NEW S, NEW C, NEW r \in S, r.mode = "api"
    PROVE  r \in Reconcile(S, C) /\ r \in Managed(Reconcile(S, C))
  BY DEF Reconcile, Managed

\* A start keeps every row the API made and registers the API's connectors and
\* models again, whatever the configuration says (_persist_configured_metadata,
\* build_configured_local_runtime).
THEOREM StartsKeepTheApi == CfgSpec => StartKeeps
<1>1. ASSUME Start, metaStore # "memory"
      PROVE  /\ \A r \in connRows : r.mode = "api" => r \in connRows' /\ (up' => r \in regConns')
             /\ \A r \in modelRows : r.mode = "api" => r \in modelRows' /\ (up' => r \in regModels')
             /\ \A r \in dataRows : r.mode = "api" => r \in dataRows'
  <2> DEFINE o == StartOutcome(config)
  <2>1. \A r \in connRows : r.mode = "api" =>
           r \in ConnsAfter(config) /\ r \in RegConnsAfter(config)
    BY <1>1, ReconcileKeeps DEF ConnsAfter, RegConnsAfter
  <2>2. \A r \in modelRows : r.mode = "api" =>
           r \in ModelsAfter(config) /\ r \in RegModelsAfter(config)
    BY <1>1, ReconcileKeeps DEF ModelsAfter, RegModelsAfter
  <2>3. \A r \in dataRows : r.mode = "api" => r \in DataAfter(config)
    BY <1>1, ReconcileKeeps DEF DataAfter
  <2>4. CASE o \in {"started", "contract"}
    <3>1. /\ connRows' = ConnsAfter(config)
          /\ dataRows' = DataAfter(config)
          /\ modelRows' = ModelsAfter(config)
      BY <1>1, <2>4 DEF Start
    <3>2. up' => regConns' = RegConnsAfter(config) /\ regModels' = RegModelsAfter(config)
      BY <1>1 DEF Start
    <3> QED BY <2>1, <2>2, <2>3, <3>1, <3>2
  <2>5. CASE o \notin {"started", "contract"}
    <3>1. UNCHANGED cfgRows /\ ~up'
      BY <1>1, <2>5 DEF Start
    <3> QED BY <3>1 DEF cfgRows
  <2> QED BY <2>4, <2>5
<1> QED BY <1>1, PTL DEF CfgSpec, StartKeeps

\* What the stored rows look like; the identity of a row is in its fields.
RowShapes ==
    /\ \A r \in connRows : r = [name |-> r.name, mode |-> r.mode, url |-> r.url, sync |-> r.sync]
    /\ \A d \in dataRows : d = [name |-> d.name, mode |-> d.mode, key |-> d.key,
                                conn |-> d.conn, ready |-> d.ready]

\* Two dataset rows that differ in what a sync changes.
SameDataset(d, e) == d.name = e.name /\ d.mode = e.mode /\ d.key = e.key /\ d.conn = e.conn

\* What a runtime with a store has while it serves.
ServesStore ==
    /\ schema = "head"
    /\ Consistent(connRows, dataRows)
    /\ ConfiguredConns(inForce) \subseteq connRows
    /\ \A e \in ConfiguredData(inForce) : \E d \in dataRows : SameDataset(d, e)
    /\ regConns = Managed(connRows) \cup ConfiguredConns(inForce)
    /\ \A d \in dataRows : d.key # Unset => /\ d.conn.name \in CanSync
                                            /\ \E r \in regConns : ConnId(r) = d.conn

RuntimeInv ==
    /\ RowShapes
    /\ up => Builds(inForce)
    /\ up /\ metaStore # "memory" => ServesStore

\* Records that the configuration is built into carry its mode.
LEMMA ConfiguredShapes ==
    ASSUME NEW c
    PROVE  /\ \A r \in ConfiguredConns(c) :
                 r.mode = "config" /\ r = [name |-> r.name, mode |-> r.mode, url |-> r.url, sync |-> r.sync]
           /\ \A d \in ConfiguredData(c) :
                 /\ d.mode = "config"
                 /\ d.ready = (d.key = Unset)
                 /\ d = [name |-> d.name, mode |-> d.mode, key |-> d.key,
                         conn |-> d.conn, ready |-> d.ready]
  BY DEF ConfiguredConns, ConfiguredData

LEMMA AfterShapes ==
    ASSUME RowShapes, NEW c
    PROVE  /\ \A r \in ConnsAfter(c) : r = [name |-> r.name, mode |-> r.mode, url |-> r.url, sync |-> r.sync]
           /\ \A d \in DataAfter(c) : d = [name |-> d.name, mode |-> d.mode, key |-> d.key,
                                          conn |-> d.conn, ready |-> d.ready]
  BY ConfiguredShapes DEF RowShapes, ConnsAfter, DataAfter, Reconcile

\* With unique names, no connector of the API hides one of the configuration.
LEMMA NothingHidden ==
    ASSUME NEW c, metaStore # "memory", Consistent(ConnsAfter(c), DataAfter(c))
    PROVE  RegConnsAfter(c) = Managed(ConnsAfter(c)) \cup ConfiguredConns(c)
<1> DEFINE api == Managed(ConnsAfter(c))
<1>1. ConfiguredConns(c) \subseteq ConnsAfter(c)
  BY DEF ConnsAfter, Reconcile
<1>2. ASSUME NEW r \in ConfiguredConns(c), NEW a \in api, r.name = a.name
      PROVE  FALSE
  <2>1. a \in ConnsAfter(c) /\ a.mode = "api"
    BY DEF Managed
  <2>2. r = a
    BY <1>1, <1>2, <2>1 DEF Consistent
  <2> QED BY <2>1, <2>2, ConfiguredShapes
<1>3. \A r \in ConfiguredConns(c) : r.name \notin NamesOf(api)
  BY <1>2 DEF NamesOf
<1> QED BY <1>3 DEF RegConnsAfter

\* What the API may not take away suffices for another start, unless a
\* capability was withdrawn.
LEMMA ServingRestarts ==
    ASSUME RuntimeInv, up
    PROVE  StartOutcome(inForce) = IF Withdrawn THEN "contract" ELSE "started"
<1> DEFINE c == inForce
<1>1. CASE metaStore = "memory"
  <2>1. SchemaOk(c) /\ Builds(c) /\ NoConflict(c)
    BY <1>1 DEF RuntimeInv, SchemaOk, NoConflict
  <2>2. RegConnsAfter(c) = ConfiguredConns(c) /\ DataAfter(c) = ConfiguredData(c)
    <3>1. Managed(ConfiguredConns(c)) = {}
      BY ConfiguredShapes DEF Managed
    <3> QED BY <1>1, <3>1 DEF RegConnsAfter, ConnsAfter, DataAfter, NamesOf
  <2>3. ASSUME NEW d \in ConfiguredData(c)
        PROVE  d.key # Unset => \E r \in ConfiguredConns(c) : ConnId(r) = d.conn /\ Syncs(r)
    <3>1. PICK e \in c.data : d.conn = [name |-> e.conn, mode |-> "config"] /\ d.key = e.key
      BY DEF ConfiguredData
    <3>2. PICK k \in c.conns : k.name = e.conn /\ (e.key # Unset => Syncs(k))
      BY <2>1 DEF Builds, DatasetBuilds
    <3> DEFINE r == [name |-> k.name, mode |-> "config", url |-> k.url, sync |-> k.sync]
    <3>3. r \in ConfiguredConns(c)
      BY DEF ConfiguredConns
    <3>4. ConnId(r) = d.conn /\ (Syncs(k) => Syncs(r))
      BY <3>1, <3>2 DEF ConnId, Syncs
    <3> QED BY <3>1, <3>2, <3>3, <3>4
  <2>4. Schedules(c)
    BY <2>2, <2>3 DEF Schedules
  <2> QED BY <1>1, <2>1, <2>4 DEF StartOutcome, Withdrawn
<1>2. CASE metaStore # "memory"
  <2>1. ServesStore /\ Builds(c) /\ RowShapes
    BY <1>2 DEF RuntimeInv
  <2>2. SchemaOk(c)
    BY <2>1 DEF ServesStore, SchemaOk
  <2>3. ConnsAfter(c) = connRows
    <3>1. ConnsAfter(c) \subseteq connRows
      BY <1>2, <2>1 DEF ConnsAfter, Reconcile, ServesStore
    <3>2. ASSUME NEW r \in connRows, r.mode # "api", r.name \in NamesOf(ConfiguredConns(c))
          PROVE  r \in ConfiguredConns(c)
      <4>1. PICK k \in ConfiguredConns(c) : k.name = r.name
        BY <3>2 DEF NamesOf
      <4> QED BY <2>1, <4>1 DEF ServesStore, Consistent
    <3> QED BY <1>2, <3>1, <3>2 DEF ConnsAfter, Reconcile
  <2>4. ASSUME NEW d \in DataAfter(c)
        PROVE  \E s \in dataRows : SameDataset(s, d)
    BY <1>2, <2>1 DEF DataAfter, Reconcile, ServesStore, SameDataset
  <2>5. ASSUME NEW r \in DataAfter(c), NEW q \in DataAfter(c), Alias[r.name] = Alias[q.name]
        PROVE  r = q
    <3>1. PICK s \in dataRows : SameDataset(s, r)
      BY <2>4
    <3>2. PICK t \in dataRows : SameDataset(t, q)
      BY <2>4
    <3>3. s = t
      BY <2>1, <2>5, <3>1, <3>2 DEF ServesStore, Consistent, SameDataset
    <3>4. SameDataset(r, q)
      BY <3>1, <3>2, <3>3 DEF SameDataset
    <3>5. ASSUME NEW x \in DataAfter(c), NEW y \in DataAfter(c), SameDataset(x, y),
                 x \in ConfiguredData(c)
          PROVE  y \in ConfiguredData(c)
      <4>1. y.mode = "config" /\ y.name \in NamesOf(ConfiguredData(c))
        BY <3>5, ConfiguredShapes DEF SameDataset, NamesOf
      <4> QED BY <1>2, <4>1 DEF DataAfter, Reconcile
    <3>6. CASE r \in ConfiguredData(c) \/ q \in ConfiguredData(c)
      <4>1. r \in ConfiguredData(c) /\ q \in ConfiguredData(c)
        BY <3>4, <3>5, <3>6 DEF SameDataset
      <4>2. r.ready = q.ready
        BY <3>4, <4>1, ConfiguredShapes DEF SameDataset
      <4> QED BY <2>1, <3>4, <4>2, AfterShapes DEF SameDataset
    <3>7. CASE r \notin ConfiguredData(c) /\ q \notin ConfiguredData(c)
      <4>1. r \in dataRows /\ q \in dataRows
        BY <1>2, <3>7 DEF DataAfter, Reconcile
      <4> QED BY <2>1, <2>5, <4>1 DEF ServesStore, Consistent
    <3> QED BY <3>6, <3>7
  <2>6. Consistent(ConnsAfter(c), DataAfter(c))
    BY <2>1, <2>3, <2>5 DEF Consistent, ServesStore
  <2>7. RegConnsAfter(c) = regConns
    BY <1>2, <2>1, <2>3, <2>6, NothingHidden DEF ServesStore
  <2>8. Schedules(c) <=> ~Withdrawn
    <3>1. ASSUME NEW d \in dataRows, d.key # Unset
          PROVE  \E e \in DataAfter(c) : SameDataset(e, d)
      <4>1. CASE d \in DataAfter(c)
        BY <4>1 DEF SameDataset
      <4>2. CASE d \notin DataAfter(c)
        <5>1. PICK e \in ConfiguredData(c) : e.name = d.name
          BY <1>2, <4>2 DEF DataAfter, Reconcile, NamesOf
        <5>2. PICK f \in dataRows : SameDataset(f, e)
          BY <2>1 DEF ServesStore
        <5>3. f = d
          BY <2>1, <5>1, <5>2 DEF ServesStore, Consistent, SameDataset
        <5>4. e \in DataAfter(c)
          BY <1>2 DEF DataAfter, Reconcile
        <5> QED BY <5>2, <5>3, <5>4 DEF SameDataset
      <4> QED BY <4>1, <4>2
    <3>2. ASSUME NEW r \in regConns, NEW q \in regConns, ConnId(r) = ConnId(q)
          PROVE  r = q
      <4>1. regConns \subseteq connRows
        BY <2>1 DEF ServesStore, Managed
      <4>2. r.name = q.name
        BY <3>2 DEF ConnId
      <4> QED BY <2>1, <4>1, <4>2 DEF ServesStore, Consistent
    <3>3. ASSUME Schedules(c), Withdrawn
          PROVE  FALSE
      <4>1. PICK d \in dataRows, r \in regConns : d.key # Unset /\ ConnId(r) = d.conn /\ ~r.sync
        BY <3>3 DEF Withdrawn
      <4>2. PICK e \in DataAfter(c) : SameDataset(e, d)
        BY <3>1, <4>1
      <4>3. PICK q \in regConns : ConnId(q) = d.conn /\ q.sync
        BY <2>7, <3>3, <4>1, <4>2 DEF Schedules, SameDataset, Syncs
      <4> QED BY <3>2, <4>1, <4>3
    <3>4. ASSUME ~Withdrawn
          PROVE  Schedules(c)
      <4>0. Schedules(c) = \A e \in DataAfter(c) :
                              e.key # Unset => \E r \in regConns : ConnId(r) = e.conn /\ Syncs(r)
        BY <2>7 DEF Schedules
      <4>1. SUFFICES ASSUME NEW e \in DataAfter(c), e.key # Unset
                     PROVE  \E r \in regConns : ConnId(r) = e.conn /\ Syncs(r)
        BY <4>0
      <4>2. PICK d \in dataRows : SameDataset(d, e)
        BY <2>4
      <4>3. PICK r \in regConns : ConnId(r) = d.conn
        BY <2>1, <4>1, <4>2 DEF ServesStore, SameDataset
      <4>4. r.sync
        BY <1>2, <3>4, <4>1, <4>2, <4>3 DEF Withdrawn, SameDataset
      <4>5. r.name \in CanSync
        BY <2>1, <4>1, <4>2, <4>3 DEF ServesStore, SameDataset, ConnId
      <4> QED BY <4>2, <4>3, <4>4, <4>5 DEF SameDataset, Syncs
    <3> QED BY <3>3, <3>4
  <2> QED BY <2>1, <2>2, <2>6, <2>8 DEF StartOutcome, NoConflict
<1> QED BY <1>1, <1>2

\* A start that succeeds leaves what RuntimeInv says; one that fails leaves
\* the runtime down.
LEMMA StartServes ==
    ASSUME RuntimeInv, Start
    PROVE  RuntimeInv'
<1> DEFINE c == config
           o == StartOutcome(c)
<1>1. RowShapes'
  <2>1. UNCHANGED <<connRows, dataRows>> \/ (connRows' = ConnsAfter(c) /\ dataRows' = DataAfter(c))
    BY DEF Start, cfgRows
  <2> QED BY <2>1, AfterShapes DEF RuntimeInv, RowShapes
<1>2. CASE o # "started"
  BY <1>1, <1>2 DEF Start, RuntimeInv
<1>3. CASE o = "started"
  <2>1. /\ connRows' = ConnsAfter(c) /\ dataRows' = DataAfter(c)
        /\ inForce' = c /\ regConns' = RegConnsAfter(c)
        /\ metaStore' = metaStore
        /\ schema' = IF metaStore = "memory" THEN schema ELSE "head"
    BY <1>3 DEF Start
  <2>2. Builds(c) /\ NoConflict(c) /\ Schedules(c)
    BY <1>3 DEF StartOutcome
  <2>3. Builds(inForce')
    BY <2>1, <2>2
  <2>4. ASSUME metaStore # "memory"
        PROVE  ServesStore'
    <3>1. schema' = "head"
      BY <2>1, <2>4
    <3>2. Consistent(ConnsAfter(c), DataAfter(c))
      BY <2>2, <2>4 DEF NoConflict
    <3>3. ConfiguredConns(c) \subseteq ConnsAfter(c) /\ ConfiguredData(c) \subseteq DataAfter(c)
      BY DEF ConnsAfter, DataAfter, Reconcile
    <3>4. regConns' = Managed(ConnsAfter(c)) \cup ConfiguredConns(c)
      BY <2>1, <2>4, <3>2, NothingHidden
    <3>5. \A d \in DataAfter(c) : d.key # Unset => /\ d.conn.name \in CanSync
                                                   /\ \E r \in regConns' : ConnId(r) = d.conn
      <4>1. SUFFICES ASSUME NEW d \in DataAfter(c), d.key # Unset
                     PROVE  /\ d.conn.name \in CanSync
                            /\ \E r \in regConns' : ConnId(r) = d.conn
        OBVIOUS
      <4>2. PICK r \in RegConnsAfter(c) : ConnId(r) = d.conn /\ Syncs(r)
        BY <2>2, <4>1 DEF Schedules
      <4>3. d.conn.name = r.name
        BY <4>2 DEF ConnId
      <4> QED BY <2>1, <4>2, <4>3 DEF Syncs
    <3>6. ConfiguredConns(inForce') \subseteq connRows'
      BY <2>1, <3>3
    <3>7. \A e \in ConfiguredData(inForce') : \E d \in dataRows' : SameDataset(d, e)
      BY <2>1, <3>3 DEF SameDataset
    <3>8. Consistent(connRows', dataRows')
      BY <2>1, <3>2
    <3>9. regConns' = Managed(connRows') \cup ConfiguredConns(inForce')
      BY <2>1, <3>4
    <3>10. \A d \in dataRows' : d.key # Unset => /\ d.conn.name \in CanSync
                                                 /\ \E r \in regConns' : ConnId(r) = d.conn
      BY <2>1, <3>5
    <3> QED BY <3>1, <3>6, <3>7, <3>8, <3>9, <3>10 DEF ServesStore
  <2> QED BY <1>1, <2>1, <2>3, <2>4 DEF RuntimeInv
<1> QED BY <1>2, <1>3

\* The API's calls on connectors: rows and registry change together.
LEMMA ConnectorCallsServe ==
    ASSUME RuntimeInv,
           \/ \E n \in ConnNames, u \in Urls, s \in BOOLEAN : CreateConnector(n, u, s)
           \/ \E r \in regConns, u \in Urls, s \in BOOLEAN : UpdateConnector(r, u, s)
           \/ \E r \in regConns : DeleteConnector(r)
    PROVE  RuntimeInv'
<1>1. ASSUME NEW n \in ConnNames, NEW u \in Urls, NEW s \in BOOLEAN, CreateConnector(n, u, s)
      PROVE  RuntimeInv'
  <2> DEFINE r == [name |-> n, mode |-> "api", url |-> u, sync |-> s]
  <2>1. /\ up /\ UNCHANGED <<metaStore, schema, inForce, up, dataRows>>
        /\ regConns' = regConns \cup {r}
        /\ connRows' = IF metaStore = "memory" THEN connRows ELSE connRows \cup {r}
    BY <1>1 DEF CreateConnector
  <2>2. RowShapes'
    BY <2>1 DEF RuntimeInv, RowShapes
  <2>3. ASSUME metaStore # "memory"
        PROVE  ServesStore'
    <3>1. \A q \in connRows : q.name # n
      BY <1>1, <2>3 DEF CreateConnector, NamesOf
    <3>2. connRows' = connRows \cup {r}
      BY <2>1, <2>3
    <3>3. ServesStore
      BY <2>1, <2>3 DEF RuntimeInv
    <3>4. Consistent(connRows', dataRows')
      BY <2>1, <3>1, <3>2, <3>3 DEF ServesStore, Consistent
    <3>5. Managed(connRows') = Managed(connRows) \cup {r}
      BY <3>2 DEF Managed
    <3>6. regConns' = Managed(connRows') \cup ConfiguredConns(inForce')
      BY <2>1, <3>3, <3>5 DEF ServesStore
    <3> QED BY <2>1, <3>2, <3>3, <3>4, <3>6 DEF ServesStore
  <2> QED BY <2>1, <2>2, <2>3 DEF RuntimeInv
<1>2. ASSUME NEW r \in regConns, DeleteConnector(r)
      PROVE  RuntimeInv'
  <2>1. /\ up /\ UNCHANGED <<metaStore, schema, inForce, up, dataRows>>
        /\ regConns' = regConns \ {r} /\ connRows' = connRows \ {r}
        /\ r \in connRows /\ r.mode = "api"
        /\ metaStore # "memory"
        /\ \A d \in dataRows : d.conn # ConnId(r)
    BY <1>2 DEF DeleteConnector
  <2>2. RowShapes'
    BY <2>1 DEF RuntimeInv, RowShapes
  <2>3. ServesStore
    BY <2>1 DEF RuntimeInv
  <2>4. r \notin ConfiguredConns(inForce)
    BY <2>1, ConfiguredShapes
  <2>5. Consistent(connRows', dataRows')
    BY <2>1, <2>3 DEF ServesStore, Consistent
  <2>6. regConns' = Managed(connRows') \cup ConfiguredConns(inForce')
    BY <2>1, <2>3, <2>4 DEF ServesStore, Managed
  <2>7. ConfiguredConns(inForce') \subseteq connRows'
    BY <2>1, <2>3, <2>4 DEF ServesStore
  <2>8. \A d \in dataRows' : d.key # Unset => /\ d.conn.name \in CanSync
                                              /\ \E q \in regConns' : ConnId(q) = d.conn
    BY <2>1, <2>3 DEF ServesStore
  <2> QED BY <2>1, <2>2, <2>3, <2>5, <2>6, <2>7, <2>8 DEF RuntimeInv, ServesStore
<1>3. ASSUME NEW r \in regConns, NEW u \in Urls, NEW s \in BOOLEAN, UpdateConnector(r, u, s)
      PROVE  RuntimeInv'
  <2>1. PICK new : new = [r EXCEPT !.url = u, !.sync = s]
    OBVIOUS
  <2>2. /\ up /\ UNCHANGED <<metaStore, schema, inForce, up, dataRows>>
        /\ regConns' = (regConns \ {r}) \cup {new} /\ connRows' = (connRows \ {r}) \cup {new}
        /\ r \in connRows /\ r.mode = "api"
        /\ metaStore # "memory"
    BY <1>3, <2>1 DEF UpdateConnector
  <2>3. new = [name |-> r.name, mode |-> r.mode, url |-> u, sync |-> s]
    <3>1. r \in [name : {r.name}, mode : {r.mode}, url : {r.url}, sync : {r.sync}]
      BY <2>2 DEF RuntimeInv, RowShapes
    <3>2. new \in [name : {r.name}, mode : {r.mode}, url : {u}, sync : {s}]
      BY <2>1, <3>1
    <3> QED BY <3>2
  <2>4. new.name = r.name /\ new.mode = "api" /\ ConnId(new) = ConnId(r)
    BY <2>2, <2>3 DEF ConnId
  <2>5. RowShapes'
    BY <2>2, <2>3 DEF RuntimeInv, RowShapes
  <2>6. ServesStore
    BY <2>2 DEF RuntimeInv
  <2>7. r \notin ConfiguredConns(inForce)
    BY <2>2, ConfiguredShapes
  <2>8. Consistent(connRows', dataRows')
    BY <2>2, <2>4, <2>6 DEF ServesStore, Consistent
  <2>9. regConns' = Managed(connRows') \cup ConfiguredConns(inForce')
    BY <2>2, <2>4, <2>6, <2>7 DEF ServesStore, Managed
  <2>10. ConfiguredConns(inForce') \subseteq connRows'
    BY <2>2, <2>6, <2>7 DEF ServesStore
  <2>11. \A d \in dataRows' : d.key # Unset => /\ d.conn.name \in CanSync
                                               /\ \E q \in regConns' : ConnId(q) = d.conn
    BY <2>2, <2>4, <2>6 DEF ServesStore
  <2> QED BY <2>2, <2>5, <2>6, <2>8, <2>9, <2>10, <2>11 DEF RuntimeInv, ServesStore
<1> QED BY <1>1, <1>2, <1>3

\* The API's calls on datasets keep those of the configuration.
LEMMA DatasetCallsServe ==
    ASSUME RuntimeInv,
           \/ \E n \in DataNames, r \in regConns, k \in SourceKeys \cup {Unset} : CreateDataset(n, r, k)
           \/ \E d \in dataRows, k \in SourceKeys \cup {Unset} : UpdateDataset(d, k)
           \/ \E d \in dataRows : DeleteDataset(d) \/ SyncDataset(d)
    PROVE  RuntimeInv'
<1>1. ASSUME NEW n \in DataNames, NEW r \in regConns, NEW k \in SourceKeys \cup {Unset},
             CreateDataset(n, r, k)
      PROVE  RuntimeInv'
  <2> DEFINE d == [name |-> n, mode |-> "api", key |-> k, conn |-> ConnId(r), ready |-> k = Unset]
  <2>1. /\ up /\ UNCHANGED <<metaStore, schema, inForce, up, connRows, regConns>>
        /\ dataRows' = dataRows \cup {d}
        /\ \A e \in dataRows : Alias[e.name] # Alias[n]
        /\ k # Unset => r.name \in CanSync
    BY <1>1 DEF CreateDataset, Syncs, cfgRegs
  <2>2. RowShapes'
    BY <2>1 DEF RuntimeInv, RowShapes
  <2>3. ASSUME ServesStore
        PROVE  ServesStore'
    <3>1. Consistent(connRows', dataRows')
      BY <2>1, <2>3 DEF ServesStore, Consistent
    <3>2. d.conn.name = r.name /\ ConnId(r) = d.conn
      BY DEF ConnId
    <3>3. \A e \in dataRows' : e.key # Unset => /\ e.conn.name \in CanSync
                                                /\ \E q \in regConns' : ConnId(q) = e.conn
      BY <2>1, <2>3, <3>2 DEF ServesStore
    <3>4. \A e \in ConfiguredData(inForce') : \E q \in dataRows' : SameDataset(q, e)
      BY <2>1, <2>3 DEF ServesStore
    <3> QED BY <2>1, <2>3, <3>1, <3>3, <3>4 DEF ServesStore
  <2> QED BY <2>1, <2>2, <2>3 DEF RuntimeInv
<1>2. ASSUME NEW d \in dataRows, DeleteDataset(d)
      PROVE  RuntimeInv'
  <2>1. /\ up /\ UNCHANGED <<metaStore, schema, inForce, up, connRows, regConns>>
        /\ dataRows' = dataRows \ {d}
        /\ d.mode = "api"
    BY <1>2 DEF DeleteDataset, cfgRegs
  <2>2. RowShapes'
    BY <2>1 DEF RuntimeInv, RowShapes
  <2>3. ASSUME ServesStore
        PROVE  ServesStore'
    <3>1. Consistent(connRows', dataRows')
      BY <2>1, <2>3 DEF ServesStore, Consistent
    <3>2. \A e \in ConfiguredData(inForce') : \E s \in dataRows' : SameDataset(s, e)
      BY <2>1, <2>3, ConfiguredShapes DEF ServesStore, SameDataset
    <3> QED BY <2>1, <2>3, <3>1, <3>2 DEF ServesStore
  <2> QED BY <2>1, <2>2, <2>3 DEF RuntimeInv
<1>3. ASSUME NEW d \in dataRows, SyncDataset(d)
      PROVE  RuntimeInv'
  <2> DEFINE s == [d EXCEPT !.ready = TRUE]
  <2>1. /\ up /\ UNCHANGED <<metaStore, schema, inForce, up, connRows, regConns>>
        /\ dataRows' = (dataRows \ {d}) \cup {s}
    BY <1>3 DEF SyncDataset, cfgRegs
  <2>2. s = [name |-> d.name, mode |-> d.mode, key |-> d.key, conn |-> d.conn, ready |-> TRUE]
    <3>1. d \in [name : {d.name}, mode : {d.mode}, key : {d.key}, conn : {d.conn}, ready : {d.ready}]
      BY DEF RuntimeInv, RowShapes
    <3>2. s \in [name : {d.name}, mode : {d.mode}, key : {d.key}, conn : {d.conn}, ready : {TRUE}]
      BY <3>1
    <3> HIDE DEF s
    <3> QED BY <3>2
  <2>3. SameDataset(s, d)
    BY <2>2 DEF SameDataset
  <2>4. RowShapes'
    BY <2>1, <2>2 DEF RuntimeInv, RowShapes
  <2> HIDE DEF s
  <2>5. ASSUME ServesStore
        PROVE  ServesStore'
    <3>1. Consistent(connRows', dataRows')
      BY <2>1, <2>3, <2>5 DEF ServesStore, Consistent, SameDataset
    <3>2. \A e \in ConfiguredData(inForce') : \E q \in dataRows' : SameDataset(q, e)
      BY <2>1, <2>3, <2>5 DEF ServesStore, SameDataset
    <3>3. \A q \in dataRows' : q.key # Unset => /\ q.conn.name \in CanSync
                                                /\ \E r \in regConns' : ConnId(r) = q.conn
      BY <2>1, <2>3, <2>5 DEF ServesStore, SameDataset
    <3> QED BY <2>1, <2>5, <3>1, <3>2, <3>3 DEF ServesStore
  <2> QED BY <2>1, <2>4, <2>5 DEF RuntimeInv
<1>4. ASSUME NEW d \in dataRows, NEW k \in SourceKeys \cup {Unset}, UpdateDataset(d, k)
      PROVE  RuntimeInv'
  <2>1. PICK s : s = [d EXCEPT !.key = k, !.ready = (k = Unset)]
    OBVIOUS
  <2>2. /\ up /\ UNCHANGED <<metaStore, schema, inForce, up, connRows, regConns>>
        /\ dataRows' = (dataRows \ {d}) \cup {s}
        /\ d.mode = "api"
        /\ \E r \in regConns : ConnId(r) = d.conn /\ (k # Unset => Syncs(r))
    BY <1>4, <2>1 DEF UpdateDataset, cfgRegs
  <2>3. s = [name |-> d.name, mode |-> d.mode, key |-> k, conn |-> d.conn, ready |-> (k = Unset)]
    <3>1. d \in [name : {d.name}, mode : {d.mode}, key : {d.key}, conn : {d.conn}, ready : {d.ready}]
      BY DEF RuntimeInv, RowShapes
    <3>2. s \in [name : {d.name}, mode : {d.mode}, key : {k}, conn : {d.conn}, ready : {(k = Unset)}]
      BY <2>1, <3>1
    <3> QED BY <3>2
  <2>4. s.name = d.name /\ s.conn = d.conn /\ s.mode = "api" /\ s.key = k
    BY <2>2, <2>3
  <2>5. RowShapes'
    BY <2>2, <2>3 DEF RuntimeInv, RowShapes
  <2>6. ASSUME ServesStore
        PROVE  ServesStore'
    <3>1. Consistent(connRows', dataRows')
      BY <2>2, <2>4, <2>6 DEF ServesStore, Consistent
    <3>2. \A e \in ConfiguredData(inForce') : \E q \in dataRows' : SameDataset(q, e)
      BY <2>2, <2>6, ConfiguredShapes DEF ServesStore, SameDataset
    <3>3. k # Unset => d.conn.name \in CanSync
      BY <2>2 DEF ConnId, Syncs
    <3>4. \A q \in dataRows' : q.key # Unset => /\ q.conn.name \in CanSync
                                                /\ \E r \in regConns' : ConnId(r) = q.conn
      BY <2>2, <2>4, <2>6, <3>3 DEF ServesStore
    <3> QED BY <2>2, <2>6, <3>1, <3>2, <3>4 DEF ServesStore
  <2> QED BY <2>2, <2>5, <2>6 DEF RuntimeInv
<1> QED BY <1>1, <1>2, <1>3, <1>4

\* One change through the API locks the runtime out, and no other: while it
\* serves, a stop and a start with the same configuration bring it up again
\* unless update_connector has taken the capability to sync from a connector
\* with synced datasets, and then they do not (_persist_configured_metadata,
\* build_scheduled_sync_tasks, the API's checks for conflicts).
THEOREM NoLockout == CfgSpec => []Restartable
<1>1. CfgInit => RuntimeInv
  BY DEF CfgInit, RuntimeInv, RowShapes
<1>2. RuntimeInv /\ [CfgNext]_cfgVars => RuntimeInv'
  <2> SUFFICES ASSUME RuntimeInv, [CfgNext]_cfgVars
               PROVE  RuntimeInv'
    OBVIOUS
  <2>1. CASE Start
    BY <2>1, StartServes
  <2>2. CASE Stop
    BY <2>2 DEF Stop, RuntimeInv, RowShapes, cfgRows
  <2>3. CASE CrashInUpgrade
    BY <2>3 DEF CrashInUpgrade, RuntimeInv, RowShapes, cfgRows
  <2>4. ASSUME NEW c \in Configs, EditConfig(c)
        PROVE  RuntimeInv'
    BY <2>4 DEF EditConfig, RuntimeInv, RowShapes, ServesStore, cfgRows, cfgRegs
  <2>5. CASE \/ \E n \in ConnNames, u \in Urls, s \in BOOLEAN : CreateConnector(n, u, s)
             \/ \E r \in regConns, u \in Urls, s \in BOOLEAN : UpdateConnector(r, u, s)
    BY <2>5, ConnectorCallsServe
  <2>6. CASE \E r \in regConns : DeleteConnector(r)
    BY <2>6, ConnectorCallsServe
  <2>7. CASE \/ \E n \in DataNames, r \in regConns, k \in SourceKeys \cup {Unset} : CreateDataset(n, r, k)
             \/ \E d \in dataRows, k \in SourceKeys \cup {Unset} : UpdateDataset(d, k)
             \/ \E d \in dataRows : DeleteDataset(d) \/ SyncDataset(d)
    BY <2>7, DatasetCallsServe
  <2>8. CASE \/ \E n \in ModelNames : CreateModel(n)
             \/ \E r \in regModels : DeleteModel(r)
    BY <2>8 DEF CreateModel, DeleteModel, RuntimeInv, RowShapes, ServesStore
  <2>9. CASE UNCHANGED cfgVars
    BY <2>9 DEF cfgVars, cfgRows, cfgRegs, RuntimeInv, RowShapes, ServesStore
  <2> QED BY <2>1, <2>2, <2>3, <2>4, <2>5, <2>6, <2>7, <2>8, <2>9 DEF CfgNext
<1>3. RuntimeInv => Restartable
  BY ServingRestarts DEF Restartable
<1> QED BY <1>1, <1>2, <1>3, PTL DEF CfgSpec

-----------------------------------------------------------------------------
(* The calls of the catalogue                                              *)

IsCall(c) ==
    c \in [kind : DatasetKinds \cup ConnectorKinds \cup {"idle"},
           pc : {"idle", "queue", "contract", "fetch", "commit", "registry"},
           id : Ids \cup {0}, row : Rows \cup {NoRow}, conn : Conns \cup {0},
           key0 : Keys \cup {None}, since : Cursors, full : BOOLEAN,
           ref : {c.ref}, todo : {c.todo}]

Writes(c)  == c.kind \in {"create", "update"}
Syncing(c) == c.kind = "sync" /\ c.pc \in {"fetch", "commit"}

\* What a call of each kind carries.
CallCarries(c) ==
    /\ c.kind = "idle" <=> c.pc = "idle"
    /\ c.kind \in {"create", "update", "delete"} => c.pc = "commit"
    /\ Writes(c) => c.row \in Rows /\ c.row.ready = (c.row.key = None)
    /\ c.kind \in {"update", "delete"} \/ Syncing(c) => c.id \in Ids
    /\ c.kind = "create" => c.id = 0
    /\ c.kind = "sync" => c.pc \in {"queue", "contract", "fetch", "commit"}
    /\ c.kind = "sync" /\ c.pc # "queue" => c.conn \in Conns /\ c.key0 \in Keys
    /\ Syncing(c) => c.row \in Rows /\ c.row.key \in Keys
    /\ c.kind \in ConnectorKinds => c.pc \in {"commit", "registry"}
    /\ c.kind \in {"edit", "drop"} => c.conn \in Conns
    /\ c.kind = "add" => c.conn = 0 <=> c.pc = "commit"

StoreTyped ==
    /\ rows \in [Ids -> Rows \cup {NoRow}]
    /\ conns \subseteq Conns
    /\ reg \in Conns \cup {0}
    /\ files \in [Conns \X Names -> [Keys -> Contents]]
    /\ cursors \in [Conns \X Keys -> Cursors]
    /\ ids \in 0..MaxIds /\ connIds \in 1..MaxConns /\ calls \in 0..MaxCalls

CallsTyped ==
    /\ DOMAIN op = Workers
    /\ \A w \in Workers : IsCall(op[w]) /\ CallCarries(op[w])

CatalogTyped == StoreTyped /\ CallsTyped

LEMMA NoRowIsNone == NoRow \notin Rows
  BY NoneAssumption DEF NoRow, Rows

LEMMA StoredRows ==
    ASSUME StoreTyped, NEW i \in Stored
    PROVE  i \in Ids /\ rows[i] \in Rows
  BY DEF StoreTyped, Stored

LEMMA IdleIsCall == IsCall(Idle) /\ CallCarries(Idle)
  BY DEF IsCall, CallCarries, Idle, DatasetKinds, ConnectorKinds, Cursors, Writes, Syncing

\* A step of one call that leaves a call behind.
LEMMA OneCallSteps ==
    ASSUME CallsTyped, NEW w \in Workers, NEW c, op' = [op EXCEPT ![w] = c]
    PROVE  /\ DOMAIN op' = Workers
           /\ op'[w] = c
           /\ \A v \in Workers \ {w} : op'[v] = op[v]
           /\ IsCall(c) /\ CallCarries(c) => CallsTyped'
  BY DEF CallsTyped

\* The calls that the steps of a sync make of it.
LEMMA ReadContractMakes ==
    ASSUME CatalogTyped, NEW w \in Workers, ReadContract(w)
    PROVE  /\ op[w].kind = "sync" /\ ~Syncing(op'[w]) /\ op'[w].kind = "sync"
           /\ op'[w].id = op[w].id
           /\ \A v \in Workers \ {w} : op'[v] = op[v]
           /\ CallsTyped'
<1> DEFINE c == op[w]
           ref == Head(op[w].todo)
<1>1. IsCall(c) /\ CallCarries(c) /\ c.pc = "queue" /\ c.kind = "sync"
  BY DEF ReadContract, CatalogTyped, CallsTyped, CallCarries, IsCall, DatasetKinds, ConnectorKinds
<1>2. PICK i \in Resolve(ref) :
         /\ rows[i].key # None
         /\ rows[i].conn = reg
         /\ op' = [op EXCEPT ![w].pc = "contract", ![w].ref = ref, ![w].conn = reg,
                             ![w].key0 = rows[i].key, ![w].todo = Tail(@)]
  BY DEF ReadContract
<1>3. rows[i] \in Rows
  BY StoredRows DEF Resolve, CatalogTyped
<1>4. reg \in Conns /\ rows[i].key \in Keys
  BY <1>2, <1>3 DEF Rows
<1> DEFINE d == [c EXCEPT !.pc = "contract", !.ref = ref, !.conn = reg,
                          !.key0 = rows[i].key, !.todo = Tail(c.todo)]
<1>5. op' = [op EXCEPT ![w] = d]
  BY <1>2 DEF CatalogTyped, CallsTyped
<1>6. d.kind = "sync" /\ d.pc = "contract" /\ d.conn = reg /\ d.key0 = rows[i].key /\ d.id = c.id
  BY <1>1 DEF IsCall
<1>7. IsCall(d)
  BY <1>1, <1>4 DEF IsCall
<1> HIDE DEF d
<1>8. CallCarries(d)
  BY <1>4, <1>6 DEF CallCarries, Syncing, Writes, ConnectorKinds
<1> QED BY <1>1, <1>5, <1>6, <1>7, <1>8, OneCallSteps DEF CatalogTyped, Syncing

LEMMA StartSyncMakes ==
    ASSUME CatalogTyped, NEW w \in Workers, StartSync(w)
    PROVE  \E i \in Stored :
              /\ op[w].kind = "sync" /\ op[w].pc = "contract" /\ op[w].conn \in Conns
              /\ rows[i].key # None
              /\ Syncing(op'[w]) /\ op'[w].pc = "fetch" /\ op'[w].kind = "sync"
              /\ op'[w].id = i /\ op'[w].row = rows[i] /\ op'[w].conn = op[w].conn
              /\ op'[w].since = cursors[op[w].conn, rows[i].key]
              /\ op'[w].full = op[w].full
              /\ strayed' = (strayed \/ rows[i].conn # op[w].conn)
              /\ \A v \in Workers \ {w} : op'[v] = op[v]
              /\ CallsTyped'
<1> DEFINE c == op[w]
<1>1. /\ IsCall(c) /\ CallCarries(c) /\ c.pc = "contract" /\ c.kind = "sync"
      /\ c.conn \in Conns /\ c.key0 \in Keys
  BY DEF StartSync, CatalogTyped, CallsTyped, CallCarries, IsCall, DatasetKinds, ConnectorKinds
<1>2. PICK i \in Resolve(c.ref) :
         /\ rows[i].key # None
         /\ op' = [op EXCEPT ![w].pc = "fetch", ![w].id = i, ![w].row = rows[i],
                             ![w].since = cursors[c.conn, rows[i].key]]
         /\ strayed' = (strayed \/ rows[i].conn # op[w].conn)
  BY DEF StartSync, SourceOfSync
<1>3. i \in Stored /\ i \in Ids /\ rows[i] \in Rows
  BY StoredRows DEF Resolve, CatalogTyped
<1>4. rows[i].key \in Keys
  BY <1>2, <1>3 DEF Rows
<1>5. cursors[c.conn, rows[i].key] \in Cursors
  BY <1>1, <1>4 DEF CatalogTyped, StoreTyped
<1> DEFINE d == [c EXCEPT !.pc = "fetch", !.id = i, !.row = rows[i],
                          !.since = cursors[c.conn, rows[i].key]]
<1>6. op' = [op EXCEPT ![w] = d]
  BY <1>2 DEF CatalogTyped, CallsTyped
<1>7. /\ d.kind = "sync" /\ d.pc = "fetch" /\ d.conn = c.conn /\ d.key0 = c.key0
      /\ d.id = i /\ d.row = rows[i] /\ d.full = c.full
      /\ d.since = cursors[c.conn, rows[i].key]
  BY <1>1 DEF IsCall
<1>8. IsCall(d)
  BY <1>1, <1>3, <1>5 DEF IsCall
<1> HIDE DEF d
<1>9. CallCarries(d)
  BY <1>1, <1>3, <1>4, <1>7 DEF CallCarries, Syncing, Writes, ConnectorKinds
<1>10. CallsTyped' /\ op'[w] = d /\ \A v \in Workers \ {w} : op'[v] = op[v]
  BY <1>6, <1>8, <1>9, OneCallSteps DEF CatalogTyped
<1> QED BY <1>1, <1>2, <1>3, <1>7, <1>10 DEF Syncing

\* A step that only moves a call's pc, and sets a connector's id.
LEMMA PcMoves ==
    ASSUME CallsTyped, NEW w \in Workers, NEW p \in {"commit", "registry"}, op[w].pc # "idle",
           NEW k \in Conns \cup {0},
           op' = [op EXCEPT ![w].pc = p, ![w].conn = k],
           op[w].kind = "sync" => op[w].pc = "fetch" /\ p = "commit" /\ k = op[w].conn,
           op[w].kind \in DatasetKinds => p = "commit",
           op[w].kind \in {"add", "edit", "drop"} => p = "registry" /\ k \in Conns
    PROVE  /\ op'[w].kind = op[w].kind /\ op'[w].pc = p /\ op'[w].conn = k
           /\ op'[w].id = op[w].id /\ op'[w].row = op[w].row /\ op'[w].since = op[w].since
           /\ op'[w].full = op[w].full /\ op'[w].key0 = op[w].key0
           /\ \A v \in Workers \ {w} : op'[v] = op[v]
           /\ CallsTyped'
<1> DEFINE c == op[w]
           d == [c EXCEPT !.pc = p, !.conn = k]
<1>1. IsCall(c) /\ CallCarries(c)
  BY DEF CallsTyped
<1>2. op' = [op EXCEPT ![w] = d]
  BY DEF CallsTyped
<1>3. /\ d.kind = c.kind /\ d.pc = p /\ d.conn = k /\ d.key0 = c.key0 /\ d.id = c.id
      /\ d.row = c.row /\ d.since = c.since /\ d.full = c.full
  BY <1>1 DEF IsCall
<1>4. IsCall(d)
  BY <1>1 DEF IsCall
<1> HIDE DEF d
<1>5. CallCarries(d)
  BY <1>1, <1>3 DEF CallCarries, Syncing, Writes, ConnectorKinds, DatasetKinds, Conns
<1> QED BY <1>2, <1>3, <1>4, <1>5, OneCallSteps

LEMMA WriteFileMakes ==
    ASSUME CatalogTyped, NEW w \in Workers, WriteFile(w)
    PROVE  /\ Syncing(op[w]) /\ op[w].pc = "fetch" /\ Syncing(op'[w]) /\ op'[w].pc = "commit"
           /\ op'[w].id = op[w].id /\ op'[w].row = op[w].row /\ op'[w].since = op[w].since
           /\ op'[w].full = op[w].full /\ op'[w].conn = op[w].conn
           /\ \A v \in Workers \ {w} : op'[v] = op[v]
           /\ CallsTyped'
<1>1. op[w].pc = "fetch" /\ IsCall(op[w]) /\ CallCarries(op[w])
  BY DEF CatalogTyped, CallsTyped, WriteFile
<1>2. op[w].kind = "sync" /\ op[w].conn \in Conns
  BY <1>1 DEF CallCarries, IsCall, DatasetKinds, ConnectorKinds
<1>3. op' = [op EXCEPT ![w].pc = "commit", ![w].conn = op[w].conn]
  <2> DEFINE c == op[w]
  <2>1. [c EXCEPT !.pc = "commit"] = [c EXCEPT !.pc = "commit", !.conn = c.conn]
    BY <1>1 DEF IsCall
  <2>2. op' = [op EXCEPT ![w] = [c EXCEPT !.pc = "commit"]]
    BY DEF WriteFile
  <2>3. op' = [op EXCEPT ![w] = [c EXCEPT !.pc = "commit", !.conn = c.conn]]
    BY <2>1, <2>2
  <2> QED BY <2>3 DEF CatalogTyped, CallsTyped
<1> QED BY <1>1, <1>2, <1>3, PcMoves DEF CatalogTyped, Syncing, DatasetKinds, ConnectorKinds

\* The calls that the commits of connectors make of theirs.
LEMMA ConnectorCommitMakes ==
    ASSUME CatalogTyped, NEW w \in Workers, CommitAdd(w) \/ CommitEdit(w) \/ CommitDrop(w)
    PROVE  /\ op[w].pc = "commit" /\ op'[w].pc = "registry" /\ op'[w].kind = op[w].kind
           /\ op'[w].id = op[w].id
           /\ op[w].kind = "add" => op'[w].conn = connIds' /\ op'[w].conn \in Conns
           /\ op[w].kind # "add" => op'[w].conn = op[w].conn
           /\ \A v \in Workers \ {w} : op'[v] = op[v]
           /\ CallsTyped'
<1>1. IsCall(op[w]) /\ CallCarries(op[w])
  BY DEF CatalogTyped, CallsTyped
<1>2. CASE CommitAdd(w)
  <2>1. connIds + 1 \in Conns
    BY <1>2, BoundsAssumption DEF CommitAdd, CatalogTyped, StoreTyped, Conns
  <2>2. /\ op[w].kind = "add" /\ op[w].pc = "commit" /\ connIds' = connIds + 1
        /\ op' = [op EXCEPT ![w].pc = "registry", ![w].conn = connIds + 1]
    BY <1>2 DEF CommitAdd
  <2>3. op[w].kind \notin DatasetKinds /\ CallsTyped
    BY <2>2 DEF DatasetKinds, CatalogTyped
  <2> DEFINE k == connIds + 1
  <2>4. k \in Conns \cup {0} /\ op' = [op EXCEPT ![w].pc = "registry", ![w].conn = k]
    BY <2>1, <2>2
  <2>5. k \in Conns /\ connIds' = k
    BY <2>1, <2>2
  <2> HIDE DEF k
  <2> QED BY <2>2, <2>3, <2>4, <2>5, PcMoves
<1>3. CASE CommitEdit(w) \/ CommitDrop(w)
  <2>1. op[w].kind \in {"edit", "drop"} /\ op[w].pc = "commit" /\ op[w].conn \in Conns
    BY <1>1, <1>3 DEF CommitEdit, CommitDrop, CallCarries
  <2>2. op' = [op EXCEPT ![w].pc = "registry", ![w].conn = op[w].conn]
    <3> DEFINE c == op[w]
    <3>1. [c EXCEPT !.pc = "registry"] = [c EXCEPT !.pc = "registry", !.conn = c.conn]
      BY <1>1 DEF IsCall
    <3>2. op' = [op EXCEPT ![w] = [c EXCEPT !.pc = "registry"]]
      BY <1>3 DEF CommitEdit, CommitDrop
    <3>3. op' = [op EXCEPT ![w] = [c EXCEPT !.pc = "registry", !.conn = c.conn]]
      BY <3>1, <3>2
    <3> QED BY <3>3 DEF CatalogTyped, CallsTyped
  <2>3. op[w].kind \notin DatasetKinds /\ CallsTyped
    BY <2>1 DEF DatasetKinds, CatalogTyped
  <2>4. op[w].conn \in Conns \cup {0}
    BY <2>1
  <2> QED BY <2>1, <2>2, <2>3, <2>4, PcMoves
<1> QED BY <1>2, <1>3

\* What a call that begins has checked.
Checked(c) ==
    /\ c.kind = "create" => reg # 0 /\ c.id = 0
    /\ c.kind = "update" => rows[c.id].conn = reg /\ c.row.name = rows[c.id].name
    /\ c.kind \in {"update", "delete"} => c.id \in Stored
    /\ c.kind \in DatasetKinds => c.conn = 0
    /\ Writes(c) => c.row.conn = reg /\ SyncSourceIsAvailable(reg, c.row.key, c.id)
    /\ c.kind \in {"sync", "add"} => c.id = 0 /\ c.conn = 0
    /\ c.kind \in {"edit", "drop"} => c.id = 0 /\ c.conn = reg /\ reg \in conns
    /\ c.kind = "add" => reg = 0
    /\ c.kind = "drop" => Unbound(reg)
    /\ c.kind = "sync" <=> c.pc = "queue"
    /\ c.pc \in {"queue", "commit"}

LEMMA CallMakes ==
    ASSUME CatalogTyped, NEW w \in Workers, Call(w)
    PROVE  \E c : /\ Begin(w, c) /\ Checked(c) /\ IsCall(c) /\ CallCarries(c)
                  /\ op'[w] = c /\ op[w].pc = "idle"
                  /\ \A v \in Workers \ {w} : op'[v] = op[v]
                  /\ CallsTyped' /\ calls' \in 0..MaxCalls
<1>1. SUFFICES \E c : Begin(w, c) /\ Checked(c) /\ IsCall(c) /\ CallCarries(c)
  <2>1. PICK c : Begin(w, c) /\ Checked(c) /\ IsCall(c) /\ CallCarries(c)
    BY <1>1
  <2>2. op' = [op EXCEPT ![w] = c] /\ op[w].pc = "idle"
    BY <2>1 DEF Begin
  <2>3. calls' \in 0..MaxCalls
    BY <2>1, BoundsAssumption DEF Begin, CatalogTyped, StoreTyped
  <2> QED BY <2>1, <2>2, <2>3, OneCallSteps DEF CatalogTyped
<1> USE DEF Checked, IsCall, CallCarries, Idle, Writes, Syncing, DatasetKinds, ConnectorKinds, Cursors
<1>2. ASSUME NEW n \in Names, NEW k \in Keys \cup {None}, BeginCreate(w, n, k)
      PROVE  \E c : Begin(w, c) /\ Checked(c) /\ IsCall(c) /\ CallCarries(c)
  <2> DEFINE row == [name |-> n, conn |-> reg, key |-> k, ready |-> k = None]
             c == [Idle EXCEPT !.kind = "create", !.pc = "commit", !.row = row]
  <2>1. Begin(w, c) /\ reg # 0 /\ SyncSourceIsAvailable(reg, k, 0)
    BY <1>2 DEF BeginCreate
  <2>2. row \in Rows
    BY <2>1 DEF Rows, CatalogTyped, StoreTyped
  <2>3. IsCall(c) /\ CallCarries(c) /\ Checked(c)
    BY <2>1, <2>2
  <2> HIDE DEF c, Checked, IsCall, CallCarries
  <2> QED BY <2>1, <2>3
<1>3. ASSUME NEW i \in Ids, NEW k \in Keys \cup {None}, BeginUpdate(w, i, k)
      PROVE  \E c : Begin(w, c) /\ Checked(c) /\ IsCall(c) /\ CallCarries(c)
  <2> DEFINE row == [rows[i] EXCEPT !.key = k, !.ready = k = None]
             c == [Idle EXCEPT !.kind = "update", !.pc = "commit", !.id = i, !.row = row]
  <2>1. Begin(w, c) /\ i \in Stored /\ rows[i].conn = reg /\ SyncSourceIsAvailable(reg, k, i)
    BY <1>3 DEF BeginUpdate
  <2>2. rows[i] \in Rows
    BY <2>1, StoredRows DEF CatalogTyped
  <2>3. /\ row \in Rows /\ row.key = k /\ row.ready = (k = None) /\ row.conn = reg
        /\ row.name = rows[i].name
    BY <2>1, <2>2 DEF Rows
  <2> HIDE DEF row
  <2>4. IsCall(c) /\ CallCarries(c) /\ Checked(c)
    BY <2>1, <2>3
  <2> HIDE DEF c, Checked, IsCall, CallCarries
  <2> QED BY <2>1, <2>4
<1>4. ASSUME NEW i \in Ids, BeginDelete(w, i)
      PROVE  \E c : Begin(w, c) /\ Checked(c) /\ IsCall(c) /\ CallCarries(c)
  <2> DEFINE c == [Idle EXCEPT !.kind = "delete", !.pc = "commit", !.id = i]
  <2>1. Begin(w, c) /\ i \in Stored
    BY <1>4 DEF BeginDelete
  <2>2. IsCall(c) /\ CallCarries(c) /\ Checked(c)
    BY <2>1
  <2> QED BY <2>1, <2>2
<1>5. ASSUME NEW full \in BOOLEAN, NEW todo,
             Begin(w, [Idle EXCEPT !.kind = "sync", !.pc = "queue", !.full = full, !.todo = todo])
      PROVE  \E c : Begin(w, c) /\ Checked(c) /\ IsCall(c) /\ CallCarries(c)
  <2> DEFINE c == [Idle EXCEPT !.kind = "sync", !.pc = "queue", !.full = full, !.todo = todo]
  <2>1. IsCall(c) /\ CallCarries(c) /\ Checked(c)
    OBVIOUS
  <2> QED BY <1>5, <2>1
<1>6. CASE BeginAdd(w)
  <2> DEFINE c == [Idle EXCEPT !.kind = "add", !.pc = "commit"]
  <2>1. Begin(w, c) /\ reg = 0
    BY <1>6 DEF BeginAdd
  <2>2. IsCall(c) /\ CallCarries(c) /\ Checked(c)
    BY <2>1
  <2> QED BY <2>1, <2>2
<1>7. CASE BeginEdit(w)
  <2> DEFINE c == [Idle EXCEPT !.kind = "edit", !.pc = "commit", !.conn = reg]
  <2>1. Begin(w, c) /\ reg \in conns /\ reg \in Conns
    BY <1>7 DEF BeginEdit, CatalogTyped, StoreTyped
  <2>2. IsCall(c) /\ CallCarries(c) /\ Checked(c)
    BY <2>1
  <2> QED BY <2>1, <2>2
<1>8. CASE BeginDrop(w)
  <2> DEFINE c == [Idle EXCEPT !.kind = "drop", !.pc = "commit", !.conn = reg]
  <2>1. Begin(w, c) /\ reg \in conns /\ reg \in Conns /\ Unbound(reg)
    BY <1>8 DEF BeginDrop, CatalogTyped, StoreTyped
  <2>2. IsCall(c) /\ CallCarries(c) /\ Checked(c)
    BY <2>1
  <2> QED BY <2>1, <2>2
<1> QED BY <1>2, <1>3, <1>4, <1>5, <1>6, <1>7, <1>8 DEF Call, BeginSync, BeginConnectorSync

LEMMA CallEnds ==
    ASSUME CallsTyped, NEW w \in Workers, op' = [op EXCEPT ![w] = Idle]
    PROVE  op'[w] = Idle /\ (\A v \in Workers \ {w} : op'[v] = op[v]) /\ CallsTyped'
  BY IdleIsCall, OneCallSteps

LEMMA IdleFields ==
    /\ Idle.kind = "idle" /\ Idle.pc = "idle" /\ Idle.id = 0 /\ Idle.conn = 0
    /\ ~Writes(Idle) /\ ~Syncing(Idle)
  BY DEF Idle, Writes, Syncing

LEMMA FailMakes ==
    ASSUME CallsTyped, NEW w \in Workers, Fail(w)
    PROVE  /\ op'[w].kind = "idle" /\ op'[w].pc = "idle" /\ op'[w].id = 0 /\ op'[w].conn = 0
           /\ (\A v \in Workers \ {w} : op'[v] = op[v]) /\ CallsTyped'
           /\ op[w].pc # "registry"
           /\ UNCHANGED <<rows, conns, reg, files, cursors, ids, connIds, calls, history>>
<1>1. op' = [op EXCEPT ![w] = Idle]
  BY DEF Fail
<1>2. op[w].pc # "registry" /\ UNCHANGED <<rows, conns, reg, files, cursors, ids, connIds, calls, history>>
  BY DEF Fail
<1> QED BY <1>1, <1>2, CallEnds, IdleFields

\* What a sync saves, and the call it goes on with.
LEMMA CommitSyncMakes ==
    ASSUME CatalogTyped, NEW w \in Workers, CommitSync(w)
    PROVE  \E row \in Rows :
              /\ Syncing(op[w]) /\ op[w].pc = "commit" /\ op[w].id \in Ids
              /\ row.name = op[w].row.name /\ row.key = op[w].row.key /\ row.key \in Keys
              /\ row.conn = op[w].conn /\ row.ready
              /\ CanWrite(op[w].id, row)
              /\ rows' = [rows EXCEPT ![op[w].id] = row]
              /\ Bind(row)
              /\ ~Syncing(op'[w]) /\ op'[w].kind \in {"idle", "sync"} /\ op'[w].id = 0
              /\ op'[w].pc \in {"idle", "queue"}
              /\ \A v \in Workers \ {w} : op'[v] = op[v]
              /\ CallsTyped'
<1> DEFINE c   == op[w]
           row == [c.row EXCEPT !.conn = c.conn, !.ready = TRUE]
<1>1. IsCall(c) /\ CallCarries(c) /\ c.kind = "sync" /\ c.pc = "commit"
  BY DEF CommitSync, CatalogTyped, CallsTyped
<1>2. Syncing(c) /\ c.id \in Ids /\ c.row \in Rows /\ c.row.key \in Keys /\ c.conn \in Conns
  BY <1>1 DEF CallCarries, Syncing
<1>3. /\ row \in Rows /\ row.name = c.row.name /\ row.key = c.row.key /\ row.conn = c.conn
      /\ row.ready
  BY <1>2 DEF Rows
<1>4. CanWrite(c.id, row) /\ rows' = [rows EXCEPT ![c.id] = row] /\ Bind(row)
  BY DEF CommitSync
<1> DEFINE d == [Idle EXCEPT !.kind = "sync", !.pc = "queue", !.full = c.full, !.todo = c.todo]
           e == IF c.todo = <<>> THEN Idle ELSE d
<1>5. op' = [op EXCEPT ![w] = e]
  BY DEF CommitSync
<1>6. IsCall(e) /\ CallCarries(e)
  <2>1. c.full \in BOOLEAN
    BY <1>1 DEF IsCall
  <2>2. IsCall(d) /\ CallCarries(d)
    BY <2>1 DEF IsCall, CallCarries, Idle, DatasetKinds, ConnectorKinds, Cursors, Writes, Syncing
  <2> QED BY <2>2, IdleIsCall
<1>7. ~Syncing(e) /\ e.kind \in {"idle", "sync"} /\ e.id = 0 /\ e.pc \in {"idle", "queue"}
  BY DEF Idle, Syncing
<1> HIDE DEF e, row
<1>8. op'[w] = e /\ (\A v \in Workers \ {w} : op'[v] = op[v]) /\ CallsTyped'
  BY <1>5, <1>6, OneCallSteps DEF CatalogTyped
<1> QED BY <1>1, <1>2, <1>3, <1>4, <1>7, <1>8

LEMMA MergedTyped ==
    ASSUME NEW file \in [Keys -> Contents], NEW key, NEW since, NEW full
    PROVE  Merged(file, key, since, full) \in [Keys -> Contents]
  BY DEF Merged, Contents

LEMMA TypesKept ==
    ASSUME CatalogTyped, [Next]_vars
    PROVE  CatalogTyped'
<1> USE DEF CatalogTyped
<1>1. ASSUME NEW w \in Workers, Call(w)
      PROVE  CatalogTyped'
  BY <1>1, CallMakes DEF Begin, StoreTyped
<1>2. ASSUME NEW w \in Workers, Step(w)
      PROVE  CatalogTyped'
  <2> DEFINE c == op[w]
  <2>0. IsCall(c) /\ CallCarries(c)
    BY DEF CallsTyped
  <2>1. CASE CommitCreate(w)
    <3>1. c.row \in Rows /\ op' = [op EXCEPT ![w] = Idle]
      BY <2>0, <2>1 DEF CommitCreate, CallCarries, Writes
    <3>2. ids' = ids + 1 /\ rows' = [rows EXCEPT ![ids + 1] = c.row] /\ ids < MaxIds
      BY <2>1 DEF CommitCreate, NewId
    <3>3. ids' \in 0..MaxIds
      BY <3>2, BoundsAssumption DEF StoreTyped
    <3>4. StoreTyped'
      BY <2>1, <3>1, <3>2, <3>3 DEF CommitCreate, StoreTyped
    <3> QED BY <3>1, <3>4, CallEnds
  <2>2. CASE CommitUpdate(w)
    <3>1. c.row \in Rows /\ op' = [op EXCEPT ![w] = Idle]
      BY <2>0, <2>2 DEF CommitUpdate, CallCarries, Writes
    <3>2. StoreTyped'
      BY <2>2, <3>1 DEF CommitUpdate, StoreTyped
    <3> QED BY <3>1, <3>2, CallEnds
  <2>3. CASE CommitDelete(w)
    BY <2>3, CallEnds DEF CommitDelete, StoreTyped, history
  <2>4. CASE ReadContract(w)
    BY <2>4, ReadContractMakes DEF ReadContract, StoreTyped
  <2>5. CASE StartSync(w)
    BY <2>5, StartSyncMakes DEF StartSync, StoreTyped
  <2>6. CASE WriteFile(w)
    <3> DEFINE path == <<c.conn, c.row.name>>
    <3>1. CallsTyped' /\ Syncing(c)
      BY <2>6, WriteFileMakes
    <3>2. c.conn \in Conns /\ c.row.name \in Names
      BY <2>0, <3>1 DEF CallCarries, Syncing, Rows
    <3>3. files[path] \in [Keys -> Contents]
      BY <3>2 DEF StoreTyped
    <3>4. files' = [files EXCEPT ![path] = Merged(files[path], c.row.key, c.since, c.full)]
      BY <2>6 DEF WriteFile
    <3>5. files' \in [Conns \X Names -> [Keys -> Contents]]
      BY <3>2, <3>3, <3>4, MergedTyped DEF StoreTyped
    <3> QED BY <2>6, <3>1, <3>5 DEF WriteFile, StoreTyped
  <2>7. CASE CommitSync(w)
    <3>1. CallsTyped' /\ rows' \in [Ids -> Rows \cup {NoRow}]
      BY <2>7, CommitSyncMakes DEF StoreTyped
    <3>2. cursors' \in [Conns \X Keys -> Cursors]
      <4> DEFINE since == IF c.since = "absent" THEN "start" ELSE c.since
                 key0  == <<c.conn, c.key0>>
                 cur   == [cursors EXCEPT ![key0] = IF @ = "absent" THEN "start" ELSE @]
                 row   == [c.row EXCEPT !.conn = c.conn, !.ready = TRUE]
                 val   == IF c.full THEN since ELSE "moved"
      <4>1. /\ c.since \in Cursors /\ c.conn \in Conns /\ c.key0 \in Keys /\ c.row \in Rows
        BY <2>0, <2>7, CommitSyncMakes DEF CallCarries, Syncing, IsCall
      <4>2. cur \in [Conns \X Keys -> Cursors] /\ val \in Cursors
        BY <4>1 DEF StoreTyped, Cursors
      <4>3. cursors' = [cur EXCEPT ![<<c.conn, row.key>>] = val]
        BY <2>7 DEF CommitSync
      <4> HIDE DEF cur, val, row
      <4> QED BY <4>2, <4>3
    <3> QED BY <2>7, <3>1, <3>2 DEF CommitSync, StoreTyped
  <2>8. CASE CommitAdd(w) \/ CommitEdit(w) \/ CommitDrop(w)
    <3>1. CallsTyped'
      BY <2>8, ConnectorCommitMakes
    <3>2. conns' \subseteq Conns /\ connIds' \in 1..MaxConns
      <4>1. CASE CommitAdd(w)
        BY <4>1, BoundsAssumption DEF CommitAdd, StoreTyped, Conns
      <4>2. CASE CommitEdit(w)
        BY <2>0, <4>2 DEF CommitEdit, StoreTyped, CallCarries
      <4>3. CASE CommitDrop(w)
        BY <4>3 DEF CommitDrop, StoreTyped
      <4> QED BY <2>8, <4>1, <4>2, <4>3
    <3> QED BY <2>8, <3>1, <3>2 DEF CommitAdd, CommitEdit, CommitDrop, StoreTyped
  <2>9. CASE UpdateRegistry(w)
    <3>1. reg' \in Conns \cup {0}
      BY <2>0, <2>9 DEF UpdateRegistry, Registered, IsCall
    <3> QED BY <2>9, <3>1, CallEnds DEF UpdateRegistry, StoreTyped
  <2>10. CASE Fail(w)
    BY <2>10, CallEnds DEF Fail, StoreTyped
  <2> QED BY <1>2, <2>1, <2>2, <2>3, <2>4, <2>5, <2>6, <2>7, <2>8, <2>9, <2>10 DEF Step
<1>3. CASE Restart
  <2>1. reg' \in Conns \cup {0}
    BY <1>3 DEF Restart, StoreTyped
  <2>2. CallsTyped'
    BY <1>3, IdleIsCall DEF Restart, CallsTyped
  <2> QED BY <1>3, <2>1, <2>2 DEF Restart, StoreTyped
<1>4. CASE UNCHANGED vars
  BY <1>4 DEF vars, StoreTyped, CallsTyped
<1> QED BY <1>1, <1>2, <1>3, <1>4 DEF Next

LEMMA InitTyped == Init => CatalogTyped
<1> SUFFICES ASSUME Init PROVE CatalogTyped
  OBVIOUS
<1>1. CallsTyped
  BY IdleIsCall DEF Init, CallsTyped
<1>2. StoreTyped
  BY BoundsAssumption DEF Init, StoreTyped, Conns, Contents, Cursors
<1> QED BY <1>1, <1>2 DEF CatalogTyped

-----------------------------------------------------------------------------
(* What holds whatever overlaps                                            *)

\* Every pair of calls that are exposed to each other is in the history.
OverlapsSeen ==
    \A v, w \in Workers :
        v # w /\ v \in Exposed /\ w \in Exposed => {op[v].kind, op[w].kind} \in overlaps

Source(row) == <<row.conn, row.name, row.key>>

\* The ids in use were given out, names are unique (the constraint on the
\* table), and `bound' has the source of every row.
RowsKnown ==
    /\ \A i \in Stored : i <= ids
    /\ \A w \in Workers : op[w].id <= ids
    /\ repaired \subseteq 1..ids
    /\ \A i, j \in Stored : i # j => rows[i].name # rows[j].name
    /\ bound \subseteq Conns \X Names \X Keys
    /\ \A i \in Stored : rows[i].key # None => Source(rows[i]) \in bound

\* There is at most one connector, and one that is being added is known to no
\* other call.
ConnsKnown ==
    /\ reg <= connIds
    /\ \A c \in conns : c <= connIds
    /\ \A w \in Workers : op[w].conn <= connIds
    /\ \A c, d \in conns : c = d
    /\ \A w \in Workers : op[w].kind = "add" /\ op[w].pc = "registry" =>
          /\ op[w].conn # reg
          /\ \A v \in Workers \ {w} : op[v].kind \in ConnectorKinds => op[v].conn # op[w].conn

Known == CatalogTyped /\ OverlapsSeen /\ RowsKnown /\ ConnsKnown

LEMMA ExposedCalls ==
    ASSUME CallsTyped, NEW w \in Workers
    PROVE  /\ Writes(op[w]) \/ op[w].kind = "delete" => w \in Exposed
           /\ Syncing(op[w]) => w \in Exposed
           /\ op[w].kind \in ConnectorKinds => w \in Exposed
           /\ w \in Exposed =>
                 \/ op[w].kind \in {"create", "update", "delete"} \cup ConnectorKinds
                 \/ Syncing(op[w])
  BY DEF CallsTyped, CallCarries, Exposed, Writes, Syncing, IsCall, DatasetKinds, ConnectorKinds

\* `overlaps' grows with every call that becomes exposed.
LEMMA OverlapsKept ==
    ASSUME OverlapsSeen, NEW w \in Workers, \A v \in Workers \ {w} : op'[v] = op[v],
           \/ overlaps' = overlaps /\ (w \in Exposed' => w \in Exposed /\ op'[w].kind = op[w].kind)
           \/ Expose(w, op'[w].kind)
    PROVE  OverlapsSeen' /\ overlaps \subseteq overlaps'
<1>1. \A v \in Workers \ {w} : v \in Exposed' <=> v \in Exposed
  BY DEF Exposed
<1>2. CASE overlaps' = overlaps /\ (w \in Exposed' => w \in Exposed /\ op'[w].kind = op[w].kind)
  <2>1. \A v \in Workers : v \in Exposed' => v \in Exposed /\ op'[v].kind = op[v].kind
    BY <1>1, <1>2
  <2> QED BY <1>2, <2>1 DEF OverlapsSeen
<1>3. CASE Expose(w, op'[w].kind)
  <2>1. \A v \in Workers \ {w} : v \in Exposed' => {op'[w].kind, op'[v].kind} \in overlaps'
    BY <1>1, <1>3 DEF Expose
  <2>2. overlaps \subseteq overlaps'
    BY <1>3 DEF Expose
  <2>3. \A u, v \in Workers \ {w} : u # v /\ u \in Exposed' /\ v \in Exposed' =>
            {op'[u].kind, op'[v].kind} \in overlaps'
    BY <1>1, <2>2 DEF OverlapsSeen
  <2>4. ASSUME NEW u \in Workers, NEW v \in Workers, u # v, u \in Exposed', v \in Exposed'
        PROVE  {op'[u].kind, op'[v].kind} \in overlaps'
    <3>1. CASE u = w
      BY <2>1, <2>4, <3>1
    <3>2. CASE v = w
      <4>1. {op'[u].kind, op'[v].kind} = {op'[v].kind, op'[u].kind}
        OBVIOUS
      <4> QED BY <2>1, <2>4, <3>2, <4>1
    <3> QED BY <2>3, <2>4, <3>1, <3>2
  <2> QED BY <2>2, <2>4 DEF OverlapsSeen
<1> QED BY <1>2, <1>3

\* A write of one row: ids, names and sources stay known.
LEMMA RowWritten ==
    ASSUME StoreTyped, RowsKnown, NEW i \in Ids, i <= ids', ids <= ids', ids' \in Nat,
           NEW row \in Rows, CanWrite(i, row), rows' = [rows EXCEPT ![i] = row], Bind(row),
           \A w \in Workers : op'[w].id <= ids', repaired' \subseteq repaired \cup {i},
           ids \in Nat
    PROVE  RowsKnown'
<1>1. Stored' = Stored \cup {i}
  BY NoRowIsNone DEF Stored, StoreTyped
<1>2. rows'[i] = row /\ \A j \in Ids \ {i} : rows'[j] = rows[j]
  BY DEF StoreTyped
<1>3. \A j \in Stored' : j <= ids'
  BY <1>1 DEF RowsKnown, Stored, Ids
<1>4. repaired' \subseteq 1..ids'
  <2>1. repaired \subseteq 1..ids /\ i \in Nat \ {0}
    BY DEF RowsKnown, Ids
  <2> QED BY <2>1
<1>5. \A j, k \in Stored' : j # k => rows'[j].name # rows'[k].name
  BY <1>1, <1>2 DEF RowsKnown, CanWrite, Stored
<1>6. bound \subseteq bound' /\ (row.key # None => Source(row) \in bound')
  BY DEF Bind, Source
<1>7. bound' \subseteq Conns \X Names \X Keys
  BY DEF Bind, RowsKnown, Rows
<1>8. \A j \in Stored' : rows'[j].key # None => Source(rows'[j]) \in bound'
  BY <1>1, <1>2, <1>6 DEF RowsKnown, Stored
<1> HIDE DEF Source
<1>9. \A w \in Workers : op'[w].id <= ids'
  OBVIOUS
<1> QED BY <1>3, <1>4, <1>5, <1>7, <1>8, <1>9 DEF RowsKnown

\* A step that writes no row.
LEMMA RowsRest ==
    ASSUME RowsKnown, UNCHANGED <<rows, ids, bound, repaired>>, NEW w \in Workers,
           \A v \in Workers \ {w} : op'[v] = op[v], op'[w].id <= ids
    PROVE  RowsKnown'
  BY DEF RowsKnown, Stored, Source

\* A step that changes neither connectors nor what calls know of them.
LEMMA ConnsRest ==
    ASSUME ConnsKnown, UNCHANGED <<conns, reg, connIds>>, NEW w \in Workers,
           \A v \in Workers \ {w} : op'[v] = op[v], op'[w].conn <= connIds,
           op'[w].pc # "registry", op'[w].kind \in ConnectorKinds => op'[w].conn \in {0, reg},
           CallsTyped
    PROVE  ConnsKnown'
<1>1. ASSUME NEW u \in Workers, op'[u].kind = "add", op'[u].pc = "registry"
      PROVE  /\ op'[u].conn # reg'
             /\ \A v \in Workers \ {u} : op'[v].kind \in ConnectorKinds => op'[v].conn # op'[u].conn
  <2>1. u # w /\ op'[u] = op[u]
    BY <1>1
  <2>2. op[u].conn # 0 /\ op[u].conn # reg
    BY <1>1, <2>1 DEF CallsTyped, CallCarries, ConnsKnown
  <2> QED BY <1>1, <2>1, <2>2 DEF ConnsKnown
<1>2. \A v \in Workers : op'[v].conn <= connIds'
  BY DEF ConnsKnown
<1> QED BY <1>1, <1>2 DEF ConnsKnown

\* The row that a create, an update or a sync writes.
Written(i, row) ==
    Stored' = Stored \cup {i} /\ rows'[i] = row /\ \A j \in Ids \ {i} : rows'[j] = rows[j]

LEMMA WriteOfRow ==
    ASSUME StoreTyped, NEW i \in Ids, NEW row \in Rows, rows' = [rows EXCEPT ![i] = row]
    PROVE  Written(i, row)
  BY NoRowIsNone DEF Stored, StoreTyped, Written

LEMMA CommitsSeen ==
    ASSUME Known, NEW w \in Workers, CommitCreate(w) \/ CommitUpdate(w)
    PROVE  /\ op'[w] = Idle /\ (\A v \in Workers \ {w} : op'[v] = op[v])
           /\ Writes(op[w]) /\ op[w].pc = "commit" /\ op[w].row \in Rows
           /\ RowsKnown' /\ ConnsKnown' /\ OverlapsSeen'
           /\ UNCHANGED <<conns, reg, files, cursors, overlaps, garbled, strayed>>
           /\ \E i \in Ids : /\ Written(i, op[w].row)
                             /\ op[w].kind = "create" => i = ids + 1
                             /\ op[w].kind = "update" => i = op[w].id
                             /\ repaired' \subseteq repaired /\ i \notin repaired'
<1>1. StoreTyped /\ CallsTyped /\ IsCall(op[w]) /\ CallCarries(op[w])
  BY DEF Known, CatalogTyped, CallsTyped
<1>2. Writes(op[w]) /\ op[w].pc = "commit" /\ op[w].row \in Rows
  BY <1>1 DEF CommitCreate, CommitUpdate, Writes, CallCarries
<1>3. op' = [op EXCEPT ![w] = Idle]
  BY DEF CommitCreate, CommitUpdate
<1>4. op'[w] = Idle /\ (\A v \in Workers \ {w} : op'[v] = op[v])
  BY <1>1, <1>3, CallEnds
<1>5. UNCHANGED <<conns, reg, files, cursors, overlaps, garbled, strayed, connIds>>
  BY DEF CommitCreate, CommitUpdate
<1>6. OverlapsSeen'
  BY <1>4, <1>5, OverlapsKept DEF Known, Exposed, Idle
<1>7. ConnsKnown'
  <2>1. op'[w].conn = 0 /\ op'[w].pc # "registry" /\ connIds \in Nat /\ 0 <= connIds
    BY <1>1, <1>4 DEF Idle, StoreTyped
  <2> QED BY <1>1, <1>4, <1>5, <2>1, ConnsRest DEF Known
<1>8. ids \in Nat /\ op'[w].id = 0 /\ \A v \in Workers : op[v].id \in Nat
  BY <1>1, <1>4 DEF StoreTyped, Idle, CallsTyped, IsCall, Ids
<1>9. CASE CommitCreate(w)
  <2> DEFINE i == ids + 1
  <2>1. /\ i \in Ids /\ ids' = i /\ CanWrite(i, op[w].row) /\ rows' = [rows EXCEPT ![i] = op[w].row]
        /\ Bind(op[w].row) /\ repaired' = repaired
    BY <1>1, <1>9, BoundsAssumption DEF CommitCreate, NewId, StoreTyped, Ids
  <2>2. \A v \in Workers : op'[v].id <= ids'
    BY <1>4, <1>8, <2>1 DEF Known, RowsKnown
  <2>3. i <= ids' /\ ids <= ids' /\ ids' \in Nat
    BY <1>8, <2>1
  <2>4. i \notin repaired'
    BY <1>8, <2>1 DEF Known, RowsKnown
  <2>5. op[w].kind = "update" => i = op[w].id
    BY <1>9 DEF CommitCreate, CommitUpdate
  <2> HIDE DEF i
  <2>6. RowsKnown'
    BY <1>1, <1>2, <1>8, <2>1, <2>2, <2>3, RowWritten DEF Known
  <2>7. Written(i, op[w].row)
    BY <1>1, <1>2, <2>1, WriteOfRow
  <2> QED BY <1>2, <1>4, <1>5, <1>6, <1>7, <2>1, <2>4, <2>5, <2>6, <2>7 DEF i
<1>10. CASE CommitUpdate(w)
  <2> DEFINE i == op[w].id
  <2>1. /\ i \in Ids /\ ids' = ids /\ CanWrite(i, op[w].row) /\ rows' = [rows EXCEPT ![i] = op[w].row]
        /\ Bind(op[w].row) /\ repaired' = repaired \ {i}
    BY <1>1, <1>10 DEF CommitUpdate, CallCarries
  <2>2. \A v \in Workers : op'[v].id <= ids'
    BY <1>4, <1>8, <2>1 DEF Known, RowsKnown
  <2>3. i <= ids' /\ ids <= ids' /\ ids' \in Nat
    BY <1>8, <2>1 DEF Known, RowsKnown
  <2>4. op[w].kind = "create" => i = ids + 1
    BY <1>10 DEF CommitCreate, CommitUpdate
  <2> HIDE DEF i
  <2>5. RowsKnown'
    BY <1>1, <1>2, <1>8, <2>1, <2>2, <2>3, RowWritten DEF Known
  <2>6. Written(i, op[w].row)
    BY <1>1, <1>2, <2>1, WriteOfRow
  <2> QED BY <1>2, <1>4, <1>5, <1>6, <1>7, <2>1, <2>4, <2>5, <2>6 DEF i
<1> QED BY <1>9, <1>10

LEMMA KnownKept ==
    ASSUME Known, [Next]_vars
    PROVE  Known' /\ overlaps \subseteq overlaps' /\ (strayed => strayed')
<1>0. CatalogTyped /\ StoreTyped /\ CallsTyped /\ CatalogTyped'
  BY TypesKept DEF Known, CatalogTyped
<1>a. /\ ids \in Nat /\ connIds \in Nat /\ reg \in Nat
      /\ \A v \in Workers : op[v].id \in Nat /\ op[v].conn \in Nat
  <2>1. Ids \cup {0} \subseteq Nat /\ Conns \cup {0} \subseteq Nat
    BY BoundsAssumption DEF Ids, Conns
  <2>2. ids \in Nat /\ connIds \in Nat /\ reg \in Nat
    BY <1>0, <2>1, BoundsAssumption DEF StoreTyped
  <2>3. \A v \in Workers : op[v].id \in Ids \cup {0} /\ op[v].conn \in Conns \cup {0}
    BY <1>0 DEF CallsTyped, IsCall
  <2> QED BY <2>1, <2>2, <2>3
<1> USE DEF Known
<1>1. ASSUME NEW w \in Workers, Call(w)
      PROVE  Known' /\ overlaps \subseteq overlaps' /\ (strayed => strayed')
  <2>1. PICK c : /\ Begin(w, c) /\ Checked(c) /\ IsCall(c) /\ CallCarries(c)
                 /\ op'[w] = c /\ op[w].pc = "idle"
                 /\ \A v \in Workers \ {w} : op'[v] = op[v]
    BY <1>0, <1>1, CallMakes
  <2>2. UNCHANGED <<rows, conns, reg, ids, connIds, bound, repaired, strayed>>
    BY <2>1 DEF Begin
  <2>3. OverlapsSeen' /\ overlaps \subseteq overlaps'
    <3>1. CASE c.pc = "queue"
      BY <2>1, <3>1, OverlapsKept DEF Begin, Exposed
    <3>2. CASE c.pc # "queue"
      BY <2>1, <3>2, OverlapsKept DEF Begin
    <3> QED BY <3>1, <3>2
  <2>4. c.id = 0 \/ c.id \in Stored
    BY <2>1 DEF Checked, CallCarries, IsCall, DatasetKinds, ConnectorKinds, Idle
  <2>5. op'[w].id <= ids
    BY <1>a, <2>1, <2>4 DEF RowsKnown
  <2>6. RowsKnown'
    BY <2>1, <2>2, <2>5, RowsRest
  <2>7. op'[w].pc # "registry" /\ (op'[w].kind \in ConnectorKinds => op'[w].conn \in {0, reg})
    BY <2>1 DEF Checked, ConnectorKinds
  <2>8. op'[w].conn <= connIds'
    <3>1. c.conn = 0 \/ c.conn = reg
      BY <2>1 DEF Checked, CallCarries, IsCall, DatasetKinds, ConnectorKinds, Idle
    <3> QED BY <1>a, <2>1, <2>2, <3>1 DEF ConnsKnown
  <2>9. ConnsKnown'
    BY <1>0, <2>1, <2>2, <2>7, <2>8, ConnsRest
  <2> QED BY <1>0, <2>2, <2>3, <2>6, <2>9
<1>2. ASSUME NEW w \in Workers, CommitCreate(w) \/ CommitUpdate(w)
      PROVE  Known' /\ overlaps \subseteq overlaps' /\ (strayed => strayed')
  BY <1>0, <1>2, CommitsSeen
<1>3. ASSUME NEW w \in Workers, CommitSync(w)
      PROVE  Known' /\ overlaps \subseteq overlaps' /\ (strayed => strayed')
  <2>1. PICK row \in Rows :
           /\ op[w].id \in Ids
           /\ CanWrite(op[w].id, row)
           /\ rows' = [rows EXCEPT ![op[w].id] = row]
           /\ Bind(row)
           /\ op'[w].kind \in {"idle", "sync"} /\ op'[w].id = 0
           /\ op'[w].pc \in {"idle", "queue"}
           /\ \A v \in Workers \ {w} : op'[v] = op[v]
    BY <1>0, <1>3, CommitSyncMakes
  <2>2. /\ UNCHANGED <<conns, reg, ids, connIds, overlaps, strayed>>
        /\ repaired' \subseteq repaired \cup {op[w].id}
    BY <1>3 DEF CommitSync
  <2>3. OverlapsSeen'
    BY <2>1, <2>2, OverlapsKept DEF Exposed
  <2>4. \A v \in Workers : op'[v].id <= ids'
    BY <1>a, <2>1, <2>2 DEF RowsKnown
  <2>5. op[w].id <= ids' /\ ids <= ids' /\ ids' \in Nat
    BY <1>a, <2>2 DEF RowsKnown
  <2>6. RowsKnown'
    BY <1>0, <1>a, <2>1, <2>2, <2>4, <2>5, RowWritten
  <2>7. op'[w].conn = 0
    BY <1>0, <1>3 DEF CommitSync, CallsTyped, Idle
  <2>8. ConnsKnown'
    <3>1. op'[w].conn <= connIds /\ op'[w].pc # "registry" /\ op'[w].conn \in {0, reg}
      BY <1>a, <2>1, <2>7
    <3> QED BY <1>0, <2>1, <2>2, <3>1, ConnsRest
  <2> QED BY <1>0, <2>2, <2>3, <2>6, <2>8
<1>4. ASSUME NEW w \in Workers, CommitDelete(w)
      PROVE  Known' /\ overlaps \subseteq overlaps' /\ (strayed => strayed')
  <2>1. op'[w] = Idle /\ \A v \in Workers \ {w} : op'[v] = op[v]
    BY <1>0, <1>4, CallEnds DEF CommitDelete
  <2>2. /\ UNCHANGED <<conns, reg, ids, connIds, overlaps, bound, repaired, strayed>>
        /\ rows' = [rows EXCEPT ![op[w].id] = NoRow]
    BY <1>4 DEF CommitDelete, history
  <2>3. OverlapsSeen'
    BY <2>1, <2>2, OverlapsKept DEF Exposed, Idle
  <2>4. ConnsKnown'
    <3>1. op'[w].conn <= connIds /\ op'[w].pc # "registry" /\ op'[w].conn \in {0, reg}
      BY <1>a, <2>1 DEF Idle
    <3> QED BY <1>0, <2>1, <2>2, <3>1, ConnsRest
  <2>5. Stored' \subseteq Stored /\ \A i \in Stored' : rows'[i] = rows[i]
    BY <1>0, <2>2 DEF Stored, StoreTyped
  <2>6. \A v \in Workers : op'[v].id <= ids'
    BY <1>a, <2>1, <2>2 DEF RowsKnown, Idle
  <2>7. RowsKnown'
    BY <2>2, <2>5, <2>6 DEF RowsKnown, Source
  <2> QED BY <1>0, <2>2, <2>3, <2>4, <2>7
<1>5. ASSUME NEW w \in Workers, ReadContract(w) \/ StartSync(w) \/ WriteFile(w) \/ Fail(w)
      PROVE  Known' /\ overlaps \subseteq overlaps' /\ (strayed => strayed')
  <2>1. /\ UNCHANGED <<rows, conns, reg, ids, connIds, bound, repaired>>
        /\ strayed => strayed'
    <3>1. CASE StartSync(w)
      BY <1>0, <3>1, StartSyncMakes DEF StartSync
    <3>2. CASE ReadContract(w) \/ WriteFile(w) \/ Fail(w)
      <4>1. UNCHANGED <<rows, conns, reg, ids, connIds, history>>
        BY <3>2 DEF ReadContract, WriteFile, Fail
      <4>2. bound' = bound /\ repaired' = repaired /\ strayed' = strayed
        BY <4>1 DEF history
      <4> QED BY <4>1, <4>2
    <3> QED BY <1>5, <3>1, <3>2
  <2>2. \A v \in Workers \ {w} : op'[v] = op[v]
    BY <1>0, <1>5, ReadContractMakes, StartSyncMakes, WriteFileMakes, FailMakes
  <2>3. /\ op'[w].kind \in {"idle", "sync"} /\ op'[w].pc # "registry"
        /\ op'[w].id <= ids
    <3>1. CASE ReadContract(w)
      BY <1>0, <3>1, ReadContractMakes DEF RowsKnown, CallsTyped, CallCarries
    <3>2. CASE StartSync(w)
      BY <1>0, <3>2, StartSyncMakes DEF RowsKnown
    <3>3. CASE WriteFile(w)
      BY <1>0, <3>3, WriteFileMakes DEF RowsKnown, Syncing
    <3>4. CASE Fail(w)
      BY <1>0, <1>a, <3>4, FailMakes
    <3> QED BY <1>5, <3>1, <3>2, <3>3, <3>4
  <2>4. RowsKnown'
    BY <2>1, <2>2, <2>3, RowsRest
  <2>5. op'[w].conn <= connIds
    <3>1. CASE ReadContract(w)
      <4>1. op'[w].conn = reg
        BY <1>0, <3>1 DEF ReadContract, CallsTyped, IsCall
      <4> QED BY <4>1 DEF ConnsKnown
    <3>2. CASE StartSync(w)
      BY <1>0, <3>2, StartSyncMakes DEF ConnsKnown
    <3>3. CASE WriteFile(w)
      BY <1>0, <3>3, WriteFileMakes DEF ConnsKnown
    <3>4. CASE Fail(w)
      BY <1>0, <1>a, <3>4, FailMakes
    <3> QED BY <1>5, <3>1, <3>2, <3>3, <3>4
  <2>6. ConnsKnown'
    BY <1>0, <2>1, <2>2, <2>3, <2>5, ConnsRest DEF ConnectorKinds
  <2>7. OverlapsSeen' /\ overlaps \subseteq overlaps'
    <3>1. CASE ReadContract(w)
      <4>1. overlaps' = overlaps /\ w \notin Exposed'
        BY <1>0, <3>1, ReadContractMakes DEF ReadContract, history, Exposed, Syncing, CallsTyped,
             CallCarries
      <4> QED BY <2>2, <4>1, OverlapsKept
    <3>2. CASE StartSync(w)
      <4>1. Expose(w, op'[w].kind)
        BY <1>0, <3>2, StartSyncMakes DEF StartSync
      <4> QED BY <2>2, <4>1, OverlapsKept
    <3>3. CASE WriteFile(w)
      <4>1. overlaps' = overlaps /\ w \in Exposed /\ op'[w].kind = op[w].kind
        BY <1>0, <3>3, WriteFileMakes DEF WriteFile, history, Exposed, Syncing
      <4> QED BY <2>2, <4>1, OverlapsKept
    <3>4. CASE Fail(w)
      <4>1. overlaps' = overlaps /\ w \notin Exposed'
        BY <1>0, <3>4, FailMakes DEF history, Exposed
      <4> QED BY <2>2, <4>1, OverlapsKept
    <3> QED BY <1>5, <3>1, <3>2, <3>3, <3>4
  <2> QED BY <1>0, <2>1, <2>4, <2>6, <2>7
<1>6. ASSUME NEW w \in Workers, CommitAdd(w) \/ CommitEdit(w) \/ CommitDrop(w)
      PROVE  Known' /\ overlaps \subseteq overlaps' /\ (strayed => strayed')
  <2>1. /\ op[w].pc = "commit" /\ op'[w].pc = "registry" /\ op'[w].kind = op[w].kind
        /\ op'[w].id = op[w].id
        /\ op[w].kind = "add" => op'[w].conn = connIds' /\ op'[w].conn \in Conns
        /\ op[w].kind # "add" => op'[w].conn = op[w].conn
        /\ \A v \in Workers \ {w} : op'[v] = op[v]
    BY <1>0, <1>6, ConnectorCommitMakes
  <2>2. UNCHANGED <<rows, reg, ids, bound, repaired, overlaps, strayed>>
    BY <1>6 DEF CommitAdd, CommitEdit, CommitDrop, history
  <2>3. RowsKnown'
    BY <2>1, <2>2, RowsRest DEF RowsKnown
  <2>4. OverlapsSeen'
    <3>1. w \in Exposed
      BY <2>1 DEF Exposed
    <3> QED BY <2>1, <2>2, <3>1, OverlapsKept
  <2>5. ConnsKnown'
    <3>1. CASE CommitAdd(w)
      <4>1. conns' = {connIds + 1} /\ connIds' = connIds + 1 /\ op[w].kind = "add"
        BY <3>1 DEF CommitAdd
      <4>2. op'[w].conn = connIds + 1
        BY <2>1, <4>1
      <4>3. \A v \in Workers \ {w} : op'[v].conn <= connIds /\ op'[v].conn \in Nat
        BY <1>a, <2>1 DEF ConnsKnown
      <4>4. \A v \in Workers \ {w} : op'[v].conn # connIds + 1 /\ op'[v].conn <= connIds + 1
        BY <1>a, <4>3
      <4>5. reg' # connIds + 1 /\ reg' <= connIds + 1
        BY <1>a, <2>2 DEF ConnsKnown
      <4>6. ASSUME NEW u \in Workers, op'[u].kind = "add", op'[u].pc = "registry"
            PROVE  /\ op'[u].conn # reg'
                   /\ \A v \in Workers \ {u} : op'[v].kind \in ConnectorKinds => op'[v].conn # op'[u].conn
        <5>1. CASE u = w
          BY <4>2, <4>4, <4>5, <5>1
        <5>2. CASE u # w
          <6>1. op'[u] = op[u]
            BY <2>1, <5>2
          <6>2. op'[u].conn # reg'
            BY <2>2, <4>6, <6>1 DEF ConnsKnown
          <6>3. ASSUME NEW v \in Workers \ {u}, op'[v].kind \in ConnectorKinds
                PROVE  op'[v].conn # op'[u].conn
            BY <2>1, <4>2, <4>4, <4>6, <5>2, <6>1, <6>3 DEF ConnsKnown
          <6> QED BY <6>2, <6>3
        <5> QED BY <5>1, <5>2
      <4>7. \A v \in Workers : op'[v].conn <= connIds + 1
        BY <1>a, <4>2, <4>4
      <4>8. connIds + 1 <= connIds + 1
        BY <1>a
      <4> DEFINE n == connIds + 1
      <4>9. conns' = {n} /\ connIds' = n /\ reg' <= n /\ n <= n
        BY <4>1, <4>5, <4>8
      <4> HIDE DEF n
      <4>10. \A c \in conns' : c <= connIds'
        BY <4>9
      <4>11. \A c, d \in conns' : c = d
        BY <4>9
      <4>12. \A v \in Workers : op'[v].conn <= connIds'
        BY <4>1, <4>7
      <4> QED BY <4>6, <4>9, <4>10, <4>11, <4>12 DEF ConnsKnown
    <3>2. CASE CommitEdit(w) \/ CommitDrop(w)
      <4>1. op[w].kind \in {"edit", "drop"} /\ connIds' = connIds
        BY <3>2 DEF CommitEdit, CommitDrop
      <4>2. conns' \subseteq conns \/ conns' = {op[w].conn}
        BY <3>2 DEF CommitEdit, CommitDrop
      <4>3. \A v \in Workers : op'[v].conn = op[v].conn /\ op'[v].kind = op[v].kind
        BY <2>1, <4>1
      <4>4. \A c, d \in conns' : c = d
        BY <4>2 DEF ConnsKnown
      <4>5. \A c \in conns' : c <= connIds'
        BY <4>1, <4>2 DEF ConnsKnown
      <4>6. \A v \in Workers : op'[v].kind = "add" => op'[v] = op[v]
        BY <2>1, <4>1
      <4> QED BY <2>2, <4>1, <4>3, <4>4, <4>5, <4>6 DEF ConnsKnown
    <3> QED BY <1>6, <3>1, <3>2
  <2> QED BY <1>0, <2>2, <2>3, <2>4, <2>5
<1>7. ASSUME NEW w \in Workers, UpdateRegistry(w)
      PROVE  Known' /\ overlaps \subseteq overlaps' /\ (strayed => strayed')
  <2>1. /\ op'[w].kind = "idle" /\ op'[w].pc = "idle" /\ op'[w].id = 0 /\ op'[w].conn = 0
        /\ \A v \in Workers \ {w} : op'[v] = op[v]
    BY <1>0, <1>7, CallEnds, IdleFields DEF UpdateRegistry
  <2>2. /\ UNCHANGED <<rows, conns, connIds, ids, bound, repaired, overlaps, strayed>>
        /\ op[w].pc = "registry" /\ reg' \in {0, op[w].conn}
    BY <1>7 DEF UpdateRegistry, Registered, history
  <2>3. RowsKnown'
    BY <1>a, <2>1, <2>2, RowsRest
  <2>4. OverlapsSeen'
    <3>1. w \notin Exposed'
      BY <2>1 DEF Exposed
    <3> QED BY <2>1, <2>2, <3>1, OverlapsKept
  <2>5. op[w].kind \in ConnectorKinds
    BY <1>0, <2>2 DEF CallsTyped, CallCarries, IsCall, DatasetKinds, ConnectorKinds
  <2>6. ASSUME NEW u \in Workers, op'[u].kind = "add", op'[u].pc = "registry"
        PROVE  /\ op'[u].conn # reg'
               /\ \A v \in Workers \ {u} : op'[v].kind \in ConnectorKinds => op'[v].conn # op'[u].conn
    <3>1. u # w /\ op'[u] = op[u] /\ op[u].conn # 0
      BY <1>0, <2>1, <2>6 DEF CallsTyped, CallCarries
    <3>2. op[u].conn # op[w].conn
      BY <2>5, <2>6, <3>1 DEF ConnsKnown
    <3> QED BY <2>1, <2>2, <2>6, <3>1, <3>2 DEF ConnsKnown
  <2>7. reg' <= connIds' /\ \A v \in Workers : op'[v].conn <= connIds'
    BY <1>a, <2>1, <2>2 DEF ConnsKnown
  <2>8. ConnsKnown'
    BY <2>2, <2>6, <2>7 DEF ConnsKnown
  <2> QED BY <1>0, <2>2, <2>3, <2>4, <2>8
<1>8. CASE Restart
  <2>1. \A v \in Workers : op'[v] = Idle
    BY <1>8 DEF Restart
  <2>2. /\ UNCHANGED <<rows, conns, connIds, ids, bound, repaired, overlaps, strayed>>
        /\ reg' = 0 \/ reg' \in conns
    BY <1>8 DEF Restart
  <2>3. \A v \in Workers : op'[v].id <= ids' /\ op'[v].conn <= connIds' /\ op'[v].kind = "idle"
    BY <1>a, <2>1, <2>2 DEF Idle
  <2>4. RowsKnown'
    BY <2>2, <2>3 DEF RowsKnown, Stored, Source
  <2>5. ConnsKnown'
    BY <1>a, <2>2, <2>3 DEF ConnsKnown
  <2>6. OverlapsSeen'
    BY <2>1 DEF OverlapsSeen, Exposed, Idle
  <2> QED BY <1>0, <2>2, <2>4, <2>5, <2>6
<1>9. CASE UNCHANGED vars
  <2>1. UNCHANGED <<rows, conns, reg, op, ids, connIds, overlaps, bound, repaired, strayed>>
    BY <1>9 DEF vars, history
  <2> QED BY <1>0, <2>1 DEF OverlapsSeen, Exposed, RowsKnown, Stored, Source, ConnsKnown
<1> QED BY <1>1, <1>2, <1>3, <1>4, <1>5, <1>6, <1>7, <1>8, <1>9 DEF Next, Step

LEMMA OverlapRecorded ==
    ASSUME OverlapsSeen, NEW v \in Workers, NEW w \in Workers, v # w, v \in Exposed, w \in Exposed,
           NEW K, NEW L, op[v].kind \in K, op[w].kind \in L
    PROVE  Overlapped(K, L)
  BY DEF OverlapsSeen, Overlapped

LEMMA OverlapsStay ==
    ASSUME overlaps \subseteq overlaps', NEW K, NEW L, Overlapped(K, L)
    PROVE  Overlapped(K, L)'
  BY DEF Overlapped

LEMMA DeleteOfRow ==
    ASSUME CatalogTyped, NEW w \in Workers, CommitDelete(w)
    PROVE  /\ Stored' \subseteq Stored /\ \A i \in Stored' : rows'[i] = rows[i]
           /\ op'[w] = Idle /\ (\A v \in Workers \ {w} : op'[v] = op[v])
           /\ op[w].kind = "delete"
  BY CallEnds DEF Stored, StoreTyped, CommitDelete, CatalogTyped

-----------------------------------------------------------------------------
(* A sync and its row                                                      *)

SyncClash == strayed \/ Overlapped({"sync"}, {"update", "delete"})

\* The row a sync has read is there with the same source while it runs.
RowOfSync(c) ==
    /\ c.id \in Stored
    /\ rows[c.id].name = c.row.name /\ rows[c.id].conn = c.row.conn /\ rows[c.id].key = c.row.key
    /\ c.conn = c.row.conn

SyncsKeep == SyncClash \/ \A w \in Workers : Syncing(op[w]) => RowOfSync(op[w])

\* What the steps that write no row do to the calls that sync or write.
LEMMA OtherSteps ==
    ASSUME Known, NEW w \in Workers,
           \/ ReadContract(w) \/ WriteFile(w) \/ Fail(w) \/ CommitAdd(w) \/ CommitEdit(w)
           \/ CommitDrop(w) \/ UpdateRegistry(w)
    PROVE  /\ rows' = rows /\ cursors' = cursors /\ history' = history /\ calls' = calls
           /\ ids' = ids
           /\ \A v \in Workers \ {w} : op'[v] = op[v]
           /\ ~Writes(op'[w])
           /\ Syncing(op'[w]) => /\ WriteFile(w) /\ Syncing(op[w])
                                 /\ op'[w].id = op[w].id /\ op'[w].row = op[w].row
                                 /\ op'[w].conn = op[w].conn
<1>0. CatalogTyped /\ CallsTyped /\ IsCall(op[w]) /\ CallCarries(op[w])
  BY DEF Known, CatalogTyped, CallsTyped
<1>1. rows' = rows /\ cursors' = cursors /\ history' = history /\ calls' = calls /\ ids' = ids
  <2>1. CASE ReadContract(w) \/ WriteFile(w)
    BY <2>1 DEF ReadContract, WriteFile
  <2>2. CASE Fail(w) \/ UpdateRegistry(w)
    BY <2>2 DEF Fail, UpdateRegistry
  <2>3. CASE CommitAdd(w) \/ CommitEdit(w) \/ CommitDrop(w)
    BY <2>3 DEF CommitAdd, CommitEdit, CommitDrop
  <2> QED BY <2>1, <2>2, <2>3
<1>2. CASE ReadContract(w)
  BY <1>0, <1>1, <1>2, ReadContractMakes DEF Writes
<1>3. CASE WriteFile(w)
  BY <1>0, <1>1, <1>3, WriteFileMakes DEF Writes, Syncing
<1>4. CASE Fail(w)
  BY <1>0, <1>1, <1>4, FailMakes DEF Writes, Syncing
<1>5. CASE CommitAdd(w) \/ CommitEdit(w) \/ CommitDrop(w)
  <2>1. op[w].kind \in ConnectorKinds
    BY <1>5 DEF CommitAdd, CommitEdit, CommitDrop, ConnectorKinds
  <2>2. op'[w].kind = op[w].kind /\ \A v \in Workers \ {w} : op'[v] = op[v]
    BY <1>0, <1>5, ConnectorCommitMakes
  <2> QED BY <1>1, <2>1, <2>2 DEF Writes, Syncing, ConnectorKinds
<1>6. CASE UpdateRegistry(w)
  <2>1. op'[w] = Idle /\ \A v \in Workers \ {w} : op'[v] = op[v]
    BY <1>0, <1>6, CallEnds DEF UpdateRegistry
  <2> QED BY <1>1, <2>1, IdleFields
<1> QED BY <1>2, <1>3, <1>4, <1>5, <1>6

\* A step of other calls keeps the row of a sync, unless it writes rows in a
\* way that would have been recorded.
LEMMA SyncsKeepStep ==
    ASSUME Known, SyncsKeep, [Next]_vars
    PROVE  SyncsKeep'
<1>0. /\ CatalogTyped /\ StoreTyped /\ CallsTyped /\ OverlapsSeen /\ RowsKnown
      /\ overlaps \subseteq overlaps' /\ (strayed => strayed')
  BY KnownKept DEF Known, CatalogTyped
<1>1. SUFFICES ASSUME ~SyncClash'
               PROVE  \A v \in Workers : Syncing(op'[v]) => RowOfSync(op[v])'
  BY DEF SyncsKeep
<1>2. ~SyncClash /\ \A v \in Workers : Syncing(op[v]) => RowOfSync(op[v])
  BY <1>0, <1>1, OverlapsStay DEF SyncClash, SyncsKeep
<1>3. ASSUME NEW w \in Workers, Call(w)
      PROVE  \A v \in Workers : Syncing(op'[v]) => RowOfSync(op[v])'
  <2>1. PICK c : /\ Begin(w, c) /\ Checked(c) /\ op'[w] = c
                 /\ \A v \in Workers \ {w} : op'[v] = op[v]
    BY <1>0, <1>3, CallMakes
  <2>2. rows' = rows /\ ~Syncing(op'[w])
    BY <2>1 DEF Begin, Checked, Syncing
  <2> QED BY <1>2, <2>1, <2>2 DEF RowOfSync, Stored
<1>4. ASSUME NEW w \in Workers, CommitCreate(w)
      PROVE  \A v \in Workers : Syncing(op'[v]) => RowOfSync(op[v])'
  <2>1. PICK i \in Ids : /\ Written(i, op[w].row) /\ i = ids + 1
                         /\ op'[w] = Idle /\ \A v \in Workers \ {w} : op'[v] = op[v]
    <3>1. op[w].kind = "create"
      BY <1>4 DEF CommitCreate
    <3> QED BY <1>4, <3>1, CommitsSeen
  <2>2. \A j \in Stored : j \in Stored' /\ rows'[j] = rows[j]
    <3>1. i \notin Stored
      BY <1>0, <2>1 DEF RowsKnown, StoreTyped
    <3> QED BY <2>1, <3>1 DEF Written, Stored
  <2> QED BY <1>2, <2>1, <2>2, IdleFields DEF RowOfSync
<1>5. ASSUME NEW w \in Workers, CommitUpdate(w) \/ CommitDelete(w)
      PROVE  \A v \in Workers : Syncing(op'[v]) => RowOfSync(op[v])'
  <2>1. /\ op[w].kind \in {"update", "delete"} /\ op'[w] = Idle
        /\ \A v \in Workers \ {w} : op'[v] = op[v]
    BY <1>0, <1>5, CommitsSeen, DeleteOfRow DEF CommitUpdate
  <2>2. w \in Exposed
    BY <1>0, <2>1, ExposedCalls DEF Writes
  <2>3. \A v \in Workers \ {w} : ~Syncing(op[v])
    BY <1>0, <1>2, <2>1, <2>2, ExposedCalls, OverlapRecorded DEF SyncClash, Syncing
  <2> QED BY <2>1, <2>3, IdleFields
<1>6. ASSUME NEW w \in Workers, CommitSync(w)
      PROVE  \A v \in Workers : Syncing(op'[v]) => RowOfSync(op[v])'
  <2>1. PICK row \in Rows :
           /\ Syncing(op[w]) /\ op[w].id \in Ids
           /\ row.name = op[w].row.name /\ row.key = op[w].row.key /\ row.conn = op[w].conn
           /\ rows' = [rows EXCEPT ![op[w].id] = row]
           /\ ~Syncing(op'[w])
           /\ \A v \in Workers \ {w} : op'[v] = op[v]
    BY <1>0, <1>6, CommitSyncMakes
  <2>2. RowOfSync(op[w])
    BY <1>2, <2>1
  <2>3. /\ Stored' = Stored \cup {op[w].id} /\ rows'[op[w].id] = row
        /\ \A j \in Ids \ {op[w].id} : rows'[j] = rows[j]
    BY <1>0, <2>1, WriteOfRow DEF Written
  <2>4. \A j \in Stored : /\ j \in Stored' /\ rows'[j].name = rows[j].name
                          /\ rows'[j].conn = rows[j].conn /\ rows'[j].key = rows[j].key
    BY <2>1, <2>2, <2>3 DEF RowOfSync, Stored
  <2> QED BY <1>2, <2>1, <2>4 DEF RowOfSync
<1>7. ASSUME NEW w \in Workers, StartSync(w)
      PROVE  \A v \in Workers : Syncing(op'[v]) => RowOfSync(op[v])'
  <2>1. PICK i \in Stored : /\ op'[w].id = i /\ op'[w].row = rows[i] /\ op'[w].conn = op[w].conn
                            /\ strayed' = (strayed \/ rows[i].conn # op[w].conn)
                            /\ \A v \in Workers \ {w} : op'[v] = op[v]
    BY <1>0, <1>7, StartSyncMakes
  <2>2. rows[i].conn = op[w].conn
    BY <1>1, <2>1 DEF SyncClash
  <2>3. rows' = rows
    BY <1>7 DEF StartSync
  <2> QED BY <1>2, <2>1, <2>2, <2>3 DEF RowOfSync, Stored
<1>8. ASSUME NEW w \in Workers,
             \/ ReadContract(w) \/ WriteFile(w) \/ Fail(w) \/ CommitAdd(w) \/ CommitEdit(w)
             \/ CommitDrop(w) \/ UpdateRegistry(w)
      PROVE  \A v \in Workers : Syncing(op'[v]) => RowOfSync(op[v])'
  BY <1>2, <1>8, OtherSteps DEF RowOfSync, Stored
<1>9. CASE Restart
  BY <1>9, IdleFields DEF Restart
<1>10. CASE UNCHANGED vars
  BY <1>2, <1>10 DEF vars, RowOfSync, Stored
<1> QED BY <1>3, <1>4, <1>5, <1>6, <1>7, <1>8, <1>9, <1>10 DEF Next, Step

-----------------------------------------------------------------------------
(* One source, one dataset                                                 *)

KeyClash ==
    \/ strayed
    \/ Overlapped({"create", "update"}, {"create", "update"})
    \/ Overlapped({"update", "sync"}, {"update", "delete"})

SourcesUnique ==
    \A i, j \in Stored :
        i # j /\ rows[i].conn = rows[j].conn /\ rows[i].key # None => rows[i].key # rows[j].key

\* What a create or an update has checked of the other datasets still holds.
SourceFree == \A w \in Workers :
    Writes(op[w]) => SyncSourceIsAvailable(op[w].row.conn, op[w].row.key, op[w].id)

KeysHold == KeyClash \/ (SourcesUnique /\ SourceFree)

KeyInv == Known /\ SyncsKeep /\ KeysHold

LEMMA KeyClashes ==
    ASSUME ~KeyClash
    PROVE  ~SyncClash
  BY DEF KeyClash, SyncClash, Overlapped

\* A call that writes while another one does would have been recorded.
LEMMA OneWriter ==
    ASSUME Known, ~KeyClash, NEW w \in Workers, Writes(op[w])
    PROVE  \A v \in Workers \ {w} : ~Writes(op[v])
  BY ExposedCalls, OverlapRecorded DEF Known, CatalogTyped, KeyClash, Writes

LEMMA KeysHoldStep ==
    ASSUME KeyInv, [Next]_vars
    PROVE  KeysHold'
<1>0. /\ CatalogTyped /\ StoreTyped /\ CallsTyped /\ OverlapsSeen /\ RowsKnown /\ Known
      /\ overlaps \subseteq overlaps' /\ (strayed => strayed')
  BY KnownKept DEF KeyInv, Known, CatalogTyped
<1>1. SUFFICES ASSUME ~KeyClash'
               PROVE  SourcesUnique' /\ SourceFree'
  BY DEF KeysHold
<1>2. ~KeyClash /\ SourcesUnique /\ SourceFree
  BY <1>0, <1>1, OverlapsStay DEF KeyClash, KeysHold, KeyInv
<1>3. \A v \in Workers : Syncing(op[v]) => RowOfSync(op[v])
  BY <1>2, KeyClashes DEF KeyInv, SyncsKeep
<1>4. ASSUME NEW w \in Workers, Call(w)
      PROVE  SourcesUnique' /\ SourceFree'
  <2>1. PICK c : /\ Begin(w, c) /\ Checked(c) /\ op'[w] = c
                 /\ \A v \in Workers \ {w} : op'[v] = op[v]
    BY <1>0, <1>4, CallMakes
  <2>2. rows' = rows
    BY <2>1 DEF Begin
  <2>3. Writes(c) => SyncSourceIsAvailable(c.row.conn, c.row.key, c.id)
    BY <2>1 DEF Checked
  <2> QED BY <1>2, <2>1, <2>2, <2>3 DEF SourcesUnique, SourceFree, SyncSourceIsAvailable, Stored
<1>5. ASSUME NEW w \in Workers, CommitCreate(w) \/ CommitUpdate(w)
      PROVE  SourcesUnique' /\ SourceFree'
  <2>1. PICK i \in Ids : /\ Written(i, op[w].row) /\ Writes(op[w])
                         /\ op[w].kind = "create" => i = ids + 1
                         /\ op[w].kind = "update" => i = op[w].id
                         /\ op'[w] = Idle /\ \A v \in Workers \ {w} : op'[v] = op[v]
    BY <1>0, <1>5, CommitsSeen
  <2>2. SyncSourceIsAvailable(op[w].row.conn, op[w].row.key, op[w].id)
    BY <1>2, <2>1 DEF SourceFree
  <2>3. \A j \in Stored \ {i} : j # op[w].id
    BY <1>0, <2>1 DEF Writes, CallsTyped, CallCarries, Stored, Ids
  <2>4. \A j \in Stored \ {i} :
           op[w].row.key # None /\ rows[j].conn = op[w].row.conn => rows[j].key # op[w].row.key
    BY <2>2, <2>3 DEF SyncSourceIsAvailable
  <2>5. SourcesUnique'
    BY <1>2, <2>1, <2>4 DEF SourcesUnique, Written, Stored
  <2>6. SourceFree'
    BY <1>0, <1>2, <2>1, OneWriter, IdleFields DEF SourceFree
  <2> QED BY <2>5, <2>6
<1>6. ASSUME NEW w \in Workers, CommitSync(w)
      PROVE  SourcesUnique' /\ SourceFree'
  <2>1. PICK row \in Rows :
           /\ Syncing(op[w]) /\ op[w].id \in Ids
           /\ row.name = op[w].row.name /\ row.key = op[w].row.key /\ row.conn = op[w].conn
           /\ rows' = [rows EXCEPT ![op[w].id] = row]
           /\ op'[w].kind \in {"idle", "sync"}
           /\ \A v \in Workers \ {w} : op'[v] = op[v]
    BY <1>0, <1>6, CommitSyncMakes
  <2>2. RowOfSync(op[w]) /\ Written(op[w].id, row)
    BY <1>0, <1>3, <2>1, WriteOfRow
  <2>3. /\ Stored' = Stored
        /\ \A j \in Stored : rows'[j].conn = rows[j].conn /\ rows'[j].key = rows[j].key
    BY <2>1, <2>2 DEF RowOfSync, Written, Stored
  <2>4. SourcesUnique'
    BY <1>2, <2>3 DEF SourcesUnique
  <2>5. \A v \in Workers : Writes(op'[v]) => op'[v] = op[v]
    BY <2>1 DEF Writes
  <2>6. SourceFree'
    BY <1>2, <2>3, <2>5 DEF SourceFree, SyncSourceIsAvailable
  <2> QED BY <2>4, <2>6
<1>7. ASSUME NEW w \in Workers, CommitDelete(w)
      PROVE  SourcesUnique' /\ SourceFree'
  <2>1. /\ Stored' \subseteq Stored /\ \A i \in Stored' : rows'[i] = rows[i]
        /\ op'[w] = Idle /\ \A v \in Workers \ {w} : op'[v] = op[v]
    BY <1>0, <1>7, DeleteOfRow
  <2>2. SourcesUnique'
    BY <1>2, <2>1 DEF SourcesUnique
  <2>3. SourceFree'
    BY <1>2, <2>1, IdleFields DEF SourceFree, SyncSourceIsAvailable
  <2> QED BY <2>2, <2>3
<1>8. ASSUME NEW w \in Workers,
             \/ ReadContract(w) \/ WriteFile(w) \/ Fail(w) \/ CommitAdd(w) \/ CommitEdit(w)
             \/ CommitDrop(w) \/ UpdateRegistry(w) \/ StartSync(w)
      PROVE  SourcesUnique' /\ SourceFree'
  <2>1. /\ rows' = rows /\ ~Writes(op'[w]) /\ \A v \in Workers \ {w} : op'[v] = op[v]
    <3>1. CASE StartSync(w)
      <4>1. rows' = rows
        BY <3>1 DEF StartSync
      <4> QED BY <1>0, <3>1, <4>1, StartSyncMakes DEF Writes
    <3>2. CASE ~StartSync(w)
      BY <1>0, <1>8, <3>2, OtherSteps
    <3> QED BY <3>1, <3>2
  <2> QED BY <1>2, <2>1 DEF SourcesUnique, SourceFree, SyncSourceIsAvailable, Stored
<1>9. CASE Restart
  <2>1. rows' = rows /\ \A v \in Workers : ~Writes(op'[v])
    BY <1>9, IdleFields DEF Restart
  <2> QED BY <1>2, <2>1 DEF SourcesUnique, SourceFree, Stored
<1>10. CASE UNCHANGED vars
  <2>1. rows' = rows /\ op' = op
    BY <1>10 DEF vars
  <2> QED BY <1>2, <2>1 DEF SourcesUnique, SourceFree, SyncSourceIsAvailable, Stored
<1> QED BY <1>4, <1>5, <1>6, <1>7, <1>8, <1>9, <1>10 DEF Next, Step

LEMMA InitKnown == Init => Known
<1> SUFFICES ASSUME Init PROVE Known
  OBVIOUS
<1>1. /\ Stored = {} /\ (\A w \in Workers : op[w] = Idle) /\ ids = 0 /\ connIds = 1 /\ reg = 1
      /\ conns = {1} /\ bound = {} /\ repaired = {}
  BY DEF Init, Stored
<1>2. OverlapsSeen
  BY <1>1, IdleFields DEF OverlapsSeen, Exposed
<1>3. RowsKnown
  BY <1>1, IdleFields DEF RowsKnown
<1>4. ConnsKnown
  BY <1>1, IdleFields DEF ConnsKnown
<1> QED BY <1>2, <1>3, <1>4, InitTyped DEF Known

\* No two datasets of a connector have the same source, for any number of
\* overlapping calls, unless one of the overlaps the property names happened
\* (_assert_sync_source_is_available, create_dataset, update_dataset).
THEOREM SourcesStayUnique == Spec => []KeysUnique
<1>1. Init => KeyInv
  <2> SUFFICES ASSUME Init PROVE KeyInv
    OBVIOUS
  <2>1. Stored = {} /\ \A w \in Workers : op[w] = Idle
    BY DEF Init, Stored
  <2> QED BY <2>1, InitKnown, IdleFields DEF KeyInv, SyncsKeep, KeysHold, SourcesUnique, SourceFree
<1>2. KeyInv /\ [Next]_vars => KeyInv'
  BY KnownKept, SyncsKeepStep, KeysHoldStep DEF KeyInv
<1>3. KeyInv => KeysUnique
  BY DEF KeyInv, KeysHold, KeyClash, SourcesUnique, KeysUnique
<1> QED BY <1>1, <1>2, <1>3, PTL DEF Spec

-----------------------------------------------------------------------------
(* Connectors: their rows, their datasets and the registry                 *)

StoreClash == strayed \/ Overlapped({"drop"}, {"create", "update", "sync", "edit"})

Dropping(c)  == c.kind = "drop" /\ c.pc = "registry"
Registers(c) == c.kind = "add" /\ c.pc = "registry"

\* A connector that a row, a call or the registry refers to is stored, and one
\* that is about to be deleted has no dataset.
RowsStored == \A i \in Stored : rows[i].conn \in conns

CallStored(c) ==
    /\ Writes(c) => c.row.conn \in conns
    /\ Syncing(c) => c.conn \in conns
    /\ c.kind = "edit" \/ Registers(c) => c.conn \in conns

CallsStored == \A w \in Workers : CallStored(op[w])

DropsUnbound == \A w \in Workers :
    op[w].kind = "drop" /\ op[w].pc = "commit" => \A i \in Stored : rows[i].conn # op[w].conn

RegStored ==
    \/ reg = 0
    \/ reg \in conns
    \/ \E w \in Workers : Dropping(op[w]) /\ op[w].conn = reg

ConnectorsStored == RowsStored /\ CallsStored /\ DropsUnbound /\ RegStored

StoredHold == StoreClash \/ ConnectorsStored

ConnInv == Known /\ SyncsKeep /\ StoredHold

\* A deletion of a connector meets no call that writes datasets or edits.
LEMMA DropAlone ==
    ASSUME Known, ~StoreClash, NEW w \in Workers, op[w].kind = "drop"
    PROVE  \A v \in Workers : ~Writes(op[v]) /\ ~Syncing(op[v]) /\ op[v].kind # "edit"
<1>1. w \in Exposed
  BY ExposedCalls DEF Known, CatalogTyped, ConnectorKinds
<1>2. ASSUME NEW v \in Workers, Writes(op[v]) \/ Syncing(op[v]) \/ op[v].kind = "edit"
      PROVE  FALSE
  <2>1. v \in Exposed /\ v # w /\ op[v].kind \in {"create", "update", "sync", "edit"}
    BY <1>2, ExposedCalls DEF Known, CatalogTyped, ConnectorKinds, Writes, Syncing
  <2>2. Overlapped({"drop"}, {"create", "update", "sync", "edit"})
    BY <1>1, <2>1, OverlapRecorded DEF Known
  <2> QED BY <2>2 DEF StoreClash
<1> QED BY <1>2

\* Two calls that the step of one has just exposed to each other.
LEMMA ExposedNow ==
    ASSUME NEW w \in Workers, NEW v \in Workers \ {w}, v \in Exposed, NEW k, Expose(w, k),
           NEW K, NEW L, op[v].kind \in K, k \in L
    PROVE  Overlapped(K, L)'
<1>1. {k, op[v].kind} \in overlaps' /\ {k, op[v].kind} = {op[v].kind, k}
  BY DEF Expose
<1> QED BY <1>1 DEF Overlapped

LEMMA StoredHoldStep ==
    ASSUME ConnInv, [Next]_vars
    PROVE  StoredHold'
<1>0. /\ CatalogTyped /\ StoreTyped /\ CallsTyped /\ OverlapsSeen /\ RowsKnown /\ Known /\ ConnsKnown
      /\ overlaps \subseteq overlaps' /\ (strayed => strayed')
  BY KnownKept DEF ConnInv, Known, CatalogTyped
<1>1. SUFFICES ASSUME ~StoreClash'
               PROVE  ConnectorsStored'
  BY DEF StoredHold
<1>2. ~StoreClash /\ ConnectorsStored
  BY <1>0, <1>1, OverlapsStay DEF StoreClash, StoredHold, ConnInv
<1> USE DEF ConnectorsStored
<1>3. ASSUME NEW w \in Workers, Call(w)
      PROVE  ConnectorsStored'
  <2>1. PICK c : /\ Begin(w, c) /\ Checked(c) /\ op'[w] = c
                 /\ \A v \in Workers \ {w} : op'[v] = op[v]
                 /\ op[w].pc = "idle" /\ CallCarries(c)
    BY <1>0, <1>3, CallMakes
  <2>2. rows' = rows /\ conns' = conns /\ reg' = reg
    BY <2>1 DEF Begin
  <2>3. Stored' = Stored
    BY <2>2 DEF Stored
  <2>4. Writes(c) => c.row.conn \in conns
    <3>1. CASE c.kind = "update"
      BY <1>2, <2>1, <3>1 DEF Checked, RowsStored, Writes
    <3>2. CASE c.kind = "create"
      <4>1. c.row.conn = reg /\ reg # 0 /\ c.pc # "queue"
        BY <2>1, <3>2 DEF Checked, Writes
      <4>2. ASSUME NEW v \in Workers, Dropping(op[v])
            PROVE  FALSE
        <5>1. v \in Exposed /\ v # w
          BY <2>1, <4>2 DEF Dropping, Exposed
        <5>2. Expose(w, "create")
          BY <2>1, <3>2, <4>1 DEF Begin
        <5>3. Overlapped({"drop"}, {"create", "update", "sync", "edit"})'
          BY <4>2, <5>1, <5>2, ExposedNow DEF Dropping
        <5> QED BY <1>1, <5>3 DEF StoreClash
      <4> QED BY <1>2, <4>1, <4>2 DEF RegStored
    <3> QED BY <3>1, <3>2 DEF Writes
  <2>5. /\ ~Syncing(c) /\ ~Registers(c)
        /\ c.kind = "edit" => c.conn \in conns
        /\ c.kind = "drop" => Unbound(c.conn)
    BY <2>1 DEF Checked, Syncing, Registers
  <2>6. CallsStored'
    BY <1>2, <2>1, <2>2, <2>4, <2>5 DEF CallsStored, CallStored
  <2>7. DropsUnbound'
    BY <1>2, <2>1, <2>2, <2>3, <2>5 DEF DropsUnbound, Unbound
  <2>8. \A v \in Workers : Dropping(op[v]) => op'[v] = op[v]
    BY <2>1 DEF Dropping
  <2>9. RegStored'
    BY <1>2, <2>2, <2>8 DEF RegStored
  <2>10. RowsStored'
    BY <1>2, <2>2, <2>3 DEF RowsStored
  <2> QED BY <2>6, <2>7, <2>9, <2>10
<1>4. ASSUME NEW w \in Workers, CommitCreate(w) \/ CommitUpdate(w) \/ CommitSync(w)
      PROVE  ConnectorsStored'
  <2>1. PICK i \in Ids, row \in Rows :
           /\ Written(i, row)
           /\ Writes(op[w]) \/ Syncing(op[w])
           /\ row.conn \in conns
           /\ ~Writes(op'[w]) /\ ~Syncing(op'[w]) /\ op'[w].kind \in {"idle", "sync"}
           /\ \A v \in Workers \ {w} : op'[v] = op[v]
    <3>1. CASE CommitCreate(w) \/ CommitUpdate(w)
      <4>1. /\ Writes(op[w]) /\ op'[w] = Idle /\ \A v \in Workers \ {w} : op'[v] = op[v]
            /\ op[w].row \in Rows /\ \E i \in Ids : Written(i, op[w].row)
        BY <1>0, <3>1, CommitsSeen
      <4>2. op[w].row.conn \in conns
        BY <1>2, <4>1 DEF CallsStored, CallStored
      <4> QED BY <4>1, <4>2, IdleFields
    <3>2. CASE CommitSync(w)
      <4>1. PICK row \in Rows :
               /\ Syncing(op[w]) /\ op[w].id \in Ids /\ row.conn = op[w].conn
               /\ rows' = [rows EXCEPT ![op[w].id] = row]
               /\ ~Syncing(op'[w]) /\ op'[w].kind \in {"idle", "sync"}
               /\ \A v \in Workers \ {w} : op'[v] = op[v]
        BY <1>0, <3>2, CommitSyncMakes
      <4>2. row.conn \in conns
        BY <1>2, <4>1 DEF CallsStored, CallStored
      <4>3. Written(op[w].id, row) /\ ~Writes(op'[w])
        BY <1>0, <4>1, WriteOfRow DEF Writes
      <4> QED BY <4>1, <4>2, <4>3
    <3> QED BY <1>4, <3>1, <3>2
  <2>2. conns' = conns /\ reg' = reg
    BY <1>4 DEF CommitCreate, CommitUpdate, CommitSync
  <2>3. \A v \in Workers : op[v].kind # "drop"
    BY <1>0, <1>2, <2>1, DropAlone
  <2>4. RowsStored'
    BY <1>2, <2>1, <2>2 DEF RowsStored, Written, Stored
  <2>5. CallsStored'
    BY <1>2, <2>1, <2>2 DEF CallsStored, CallStored, Registers
  <2>6. DropsUnbound'
    BY <2>1, <2>3 DEF DropsUnbound
  <2>7. RegStored'
    BY <1>2, <2>2, <2>3 DEF RegStored, Dropping
  <2> QED BY <2>4, <2>5, <2>6, <2>7
<1>5. ASSUME NEW w \in Workers, CommitDelete(w)
      PROVE  ConnectorsStored'
  <2>1. /\ Stored' \subseteq Stored /\ \A i \in Stored' : rows'[i] = rows[i]
        /\ op'[w] = Idle /\ (\A v \in Workers \ {w} : op'[v] = op[v]) /\ op[w].kind = "delete"
    BY <1>0, <1>5, DeleteOfRow
  <2>2. conns' = conns /\ reg' = reg
    BY <1>5 DEF CommitDelete
  <2>3. RowsStored'
    BY <1>2, <2>1, <2>2 DEF RowsStored
  <2>4. CallsStored'
    BY <1>2, <2>1, <2>2, IdleFields DEF CallsStored, CallStored, Registers
  <2>5. DropsUnbound'
    BY <1>2, <2>1, IdleFields DEF DropsUnbound
  <2>6. \A v \in Workers : Dropping(op[v]) => op'[v] = op[v]
    BY <2>1 DEF Dropping
  <2>7. RegStored'
    BY <1>2, <2>2, <2>6 DEF RegStored
  <2> QED BY <2>3, <2>4, <2>5, <2>7
<1>6. ASSUME NEW w \in Workers, ReadContract(w) \/ WriteFile(w) \/ Fail(w) \/ StartSync(w)
      PROVE  ConnectorsStored'
  <2>1. /\ rows' = rows /\ conns' = conns /\ reg' = reg
        /\ \A v \in Workers \ {w} : op'[v] = op[v]
    <3>1. CASE StartSync(w)
      <4>1. rows' = rows /\ conns' = conns /\ reg' = reg
        BY <3>1 DEF StartSync
      <4> QED BY <1>0, <3>1, <4>1, StartSyncMakes
    <3>2. CASE ~StartSync(w)
      <4>1. conns' = conns /\ reg' = reg
        BY <1>6, <3>2 DEF ReadContract, WriteFile, Fail
      <4> QED BY <1>0, <1>6, <3>2, <4>1, OtherSteps
    <3> QED BY <3>1, <3>2
  <2>2. op'[w].kind \in {"idle", "sync"} /\ ~Dropping(op[w])
    <3>1. CASE Fail(w)
      BY <1>0, <3>1, FailMakes DEF Dropping
    <3>2. CASE ~Fail(w)
      BY <1>0, <1>6, <3>2, ReadContractMakes, WriteFileMakes, StartSyncMakes DEF Dropping, Syncing
    <3> QED BY <3>1, <3>2
  <2>3. Syncing(op'[w]) => op'[w].conn \in conns
    <3>1. CASE StartSync(w)
      <4>1. PICK i \in Stored : /\ op'[w].row = rows[i] /\ op'[w].conn = op[w].conn
                                /\ strayed' = (strayed \/ rows[i].conn # op[w].conn)
        BY <1>0, <3>1, StartSyncMakes
      <4>2. rows[i].conn = op[w].conn
        BY <1>1, <4>1 DEF StoreClash
      <4> QED BY <1>2, <4>1, <4>2 DEF RowsStored
    <3>2. CASE ~StartSync(w)
      BY <1>0, <1>2, <1>6, <3>2, OtherSteps DEF CallsStored, CallStored
    <3> QED BY <3>1, <3>2
  <2>4. Stored' = Stored
    BY <2>1 DEF Stored
  <2>5. RowsStored'
    BY <1>2, <2>1, <2>4 DEF RowsStored
  <2>7. CallsStored'
    BY <1>2, <2>1, <2>2, <2>3 DEF CallsStored, CallStored, Writes, Registers
  <2>8. DropsUnbound'
    BY <1>2, <2>1, <2>2, <2>4 DEF DropsUnbound
  <2>9. \A v \in Workers : Dropping(op[v]) => op'[v] = op[v]
    BY <2>1, <2>2
  <2>10. RegStored'
    BY <1>2, <2>1, <2>9 DEF RegStored
  <2> QED BY <2>5, <2>7, <2>8, <2>10
<1>7. ASSUME NEW w \in Workers, CommitAdd(w)
      PROVE  ConnectorsStored'
  <2>1. /\ op[w].kind = "add" /\ op[w].pc = "commit" /\ conns = {} /\ conns' = {connIds + 1}
        /\ connIds' = connIds + 1 /\ rows' = rows /\ reg' = reg
    BY <1>7 DEF CommitAdd
  <2>2. /\ op'[w].kind = "add" /\ op'[w].conn = connIds + 1
        /\ \A v \in Workers \ {w} : op'[v] = op[v]
    BY <1>0, <1>7, <2>1, ConnectorCommitMakes
  <2>3. Stored = {} /\ Stored' = Stored
    BY <1>2, <2>1 DEF RowsStored, Stored
  <2>4. \A v \in Workers : ~Writes(op[v]) /\ ~Syncing(op[v]) /\ op[v].kind # "edit" /\ ~Registers(op[v])
    BY <1>2, <2>1 DEF CallsStored, CallStored
  <2>5. CallsStored'
    BY <2>1, <2>2, <2>4 DEF CallsStored, CallStored, Writes, Syncing
  <2>6. \A v \in Workers : Dropping(op[v]) => op'[v] = op[v]
    BY <2>1, <2>2 DEF Dropping
  <2>7. RegStored'
    BY <1>2, <2>1, <2>6 DEF RegStored
  <2> QED BY <2>3, <2>5, <2>7 DEF RowsStored, DropsUnbound
<1>8. ASSUME NEW w \in Workers, CommitEdit(w)
      PROVE  ConnectorsStored'
  <2>1. /\ op[w].kind = "edit" /\ conns \subseteq {op[w].conn} /\ conns' = {op[w].conn}
        /\ rows' = rows /\ reg' = reg
    BY <1>8 DEF CommitEdit
  <2>2. conns' = conns
    BY <1>2, <2>1 DEF CallsStored, CallStored
  <2>3. /\ op'[w].kind = "edit" /\ op'[w].conn = op[w].conn
        /\ \A v \in Workers \ {w} : op'[v] = op[v]
    BY <1>0, <1>8, <2>1, ConnectorCommitMakes
  <2>4. Stored' = Stored
    BY <2>1 DEF Stored
  <2>5. CallsStored'
    BY <1>2, <2>1, <2>2, <2>3 DEF CallsStored, CallStored, Writes, Syncing, Registers
  <2>6. \A v \in Workers : Dropping(op[v]) => op'[v] = op[v]
    BY <2>1, <2>3 DEF Dropping
  <2>7. RegStored'
    BY <1>2, <2>1, <2>2, <2>6 DEF RegStored
  <2>8. DropsUnbound'
    BY <1>2, <2>1, <2>3, <2>4 DEF DropsUnbound
  <2> QED BY <1>2, <2>1, <2>2, <2>4, <2>5, <2>7, <2>8 DEF RowsStored
<1>9. ASSUME NEW w \in Workers, CommitDrop(w)
      PROVE  ConnectorsStored'
  <2>1. /\ op[w].kind = "drop" /\ op[w].pc = "commit" /\ conns' = conns \ {op[w].conn}
        /\ rows' = rows /\ reg' = reg
    BY <1>9 DEF CommitDrop
  <2>2. /\ op'[w].kind = "drop" /\ op'[w].conn = op[w].conn /\ op'[w].pc = "registry"
        /\ \A v \in Workers \ {w} : op'[v] = op[v]
    BY <1>0, <1>9, <2>1, ConnectorCommitMakes
  <2>3. \A v \in Workers : ~Writes(op[v]) /\ ~Syncing(op[v]) /\ op[v].kind # "edit"
    BY <1>0, <1>2, <2>1, DropAlone
  <2>4. \A v \in Workers : Registers(op[v]) => op[v].conn # op[w].conn
    BY <1>0, <2>1 DEF ConnsKnown, Registers, ConnectorKinds
  <2>5. Stored' = Stored
    BY <2>1 DEF Stored
  <2>6. RowsStored'
    BY <1>2, <2>1, <2>5 DEF RowsStored, DropsUnbound
  <2>7. CallsStored'
    BY <1>2, <2>1, <2>2, <2>3, <2>4 DEF CallsStored, CallStored, Writes, Syncing, Registers
  <2>8. DropsUnbound'
    BY <1>2, <2>1, <2>2, <2>5 DEF DropsUnbound
  <2>9. RegStored'
    <3>1. CASE reg = op[w].conn
      BY <2>1, <2>2, <3>1 DEF RegStored, Dropping
    <3>2. CASE reg # op[w].conn
      <4>1. \A v \in Workers : Dropping(op[v]) => op'[v] = op[v]
        BY <2>1, <2>2 DEF Dropping
      <4> QED BY <1>2, <2>1, <3>2, <4>1 DEF RegStored
    <3> QED BY <3>1, <3>2
  <2> QED BY <2>6, <2>7, <2>8, <2>9
<1>10. ASSUME NEW w \in Workers, UpdateRegistry(w)
       PROVE  ConnectorsStored'
  <2>1. /\ op[w].pc = "registry" /\ reg' = Registered(op[w]) /\ rows' = rows /\ conns' = conns
        /\ op'[w] = Idle /\ \A v \in Workers \ {w} : op'[v] = op[v]
    BY <1>0, <1>10, CallEnds DEF UpdateRegistry
  <2>2. op[w].kind \in ConnectorKinds
    BY <1>0, <2>1 DEF CallsTyped, CallCarries, IsCall, DatasetKinds, ConnectorKinds
  <2>3. reg' = 0 \/ reg' \in conns
    BY <1>2, <2>1, <2>2 DEF Registered, CallsStored, CallStored, Registers, ConnectorKinds
  <2>4. Stored' = Stored
    BY <2>1 DEF Stored
  <2>5. CallsStored'
    BY <1>2, <2>1, IdleFields DEF CallsStored, CallStored, Registers
  <2>6. DropsUnbound'
    BY <1>2, <2>1, <2>4, IdleFields DEF DropsUnbound
  <2> QED BY <1>2, <2>1, <2>3, <2>4, <2>5, <2>6 DEF RowsStored, RegStored
<1>11. CASE Restart
  <2>1. /\ rows' = rows /\ conns' = conns
        /\ reg' = 0 \/ reg' \in conns
        /\ \A v \in Workers : op'[v] = Idle
    BY <1>11 DEF Restart
  <2>2. Stored' = Stored
    BY <2>1 DEF Stored
  <2>3. CallsStored' /\ DropsUnbound'
    BY <2>1, IdleFields DEF CallsStored, CallStored, Registers, DropsUnbound
  <2> QED BY <1>2, <2>1, <2>2, <2>3 DEF RowsStored, RegStored
<1>12. CASE UNCHANGED vars
  <2>1. rows' = rows /\ op' = op /\ conns' = conns /\ reg' = reg
    BY <1>12 DEF vars
  <2>2. Stored' = Stored
    BY <2>1 DEF Stored
  <2> QED BY <1>2, <2>1, <2>2 DEF RowsStored, CallsStored, CallStored, DropsUnbound, RegStored
<1> QED BY <1>3, <1>4, <1>5, <1>6, <1>7, <1>8, <1>9, <1>10, <1>11, <1>12 DEF Next, Step

AsSet(c) == IF c = 0 THEN {} ELSE {c}

\* Where no connector operations overlapped since the start, at most one runs;
\* the registry agrees with the rows until it commits, and again when it has
\* brought the registry up to date.
OneOperation == \A v, w \in Workers :
    v # w => ~(op[v].kind \in ConnectorKinds /\ op[w].kind \in ConnectorKinds)

OperationAgrees == \A w \in Workers :
    /\ op[w].pc = "registry" => conns = AsSet(Registered(op[w]))
    /\ op[w].kind \in {"edit", "drop"} /\ op[w].pc = "commit" => op[w].conn = reg
    /\ op[w].kind = "add" => reg = 0

RegistryAgrees == (\A w \in Workers : op[w].pc # "registry") => conns = AsSet(reg)

RegistryHolds == garbled \/ (OneOperation /\ OperationAgrees /\ RegistryAgrees)

LEMMA RegistryHoldsStep ==
    ASSUME Known, RegistryHolds, [Next]_vars
    PROVE  RegistryHolds'
<1>0. CatalogTyped /\ StoreTyped /\ CallsTyped /\ ConnsKnown
  BY DEF Known, CatalogTyped
<1> DEFINE Goal == OneOperation /\ OperationAgrees /\ RegistryAgrees
<1>1. ASSUME NEW w \in Workers, Call(w)
      PROVE  RegistryHolds'
  <2>1. PICK c : /\ Begin(w, c) /\ Checked(c) /\ op'[w] = c /\ op[w].pc = "idle"
                 /\ \A v \in Workers \ {w} : op'[v] = op[v]
                 /\ IsCall(c) /\ CallCarries(c)
    BY <1>0, <1>1, CallMakes
  <2>2. SUFFICES ASSUME ~garbled'
                 PROVE  Goal'
    BY DEF RegistryHolds
  <2>3. conns' = conns /\ reg' = reg
    BY <2>1 DEF Begin
  <2>4. ~garbled /\ (c.kind \in ConnectorKinds => \A v \in Workers \ {w} : op[v].kind \notin ConnectorKinds)
    <3>1. CASE c.pc = "queue"
      <4>1. garbled' = garbled
        BY <2>1, <3>1 DEF Begin
      <4>2. c.kind = "sync"
        BY <2>1, <3>1 DEF Checked
      <4> QED BY <2>2, <4>1, <4>2 DEF ConnectorKinds
    <3>2. CASE c.pc # "queue"
      <4>1. Expose(w, c.kind)
        BY <2>1, <3>2 DEF Begin
      <4>2. \A v \in Workers \ {w} : op[v].kind \in ConnectorKinds =>
               op[v].kind \in {op[u].kind : u \in Exposed \ {w}} \cap ConnectorKinds
        BY <1>0, ExposedCalls
      <4>3. ~garbled
        BY <2>2, <4>1 DEF Expose
      <4>4. c.kind \in ConnectorKinds => {op[u].kind : u \in Exposed \ {w}} \cap ConnectorKinds = {}
        BY <2>2, <4>1 DEF Expose
      <4> QED BY <4>2, <4>3, <4>4
    <3> QED BY <3>1, <3>2
  <2>5. Goal
    BY <2>4 DEF RegistryHolds
  <2>6. OneOperation'
    BY <2>1, <2>4, <2>5 DEF OneOperation
  <2>7. c.pc # "registry" /\ (c.kind \in {"edit", "drop"} => c.conn = reg) /\ (c.kind = "add" => reg = 0)
    BY <2>1 DEF Checked
  <2>8. OperationAgrees'
    BY <2>1, <2>3, <2>5, <2>7 DEF OperationAgrees, Registered
  <2>9. RegistryAgrees'
    BY <2>1, <2>3, <2>5 DEF RegistryAgrees
  <2> QED BY <2>6, <2>8, <2>9
<1>2. ASSUME NEW w \in Workers, conns' = conns, reg' = reg, garbled => garbled',
             \A v \in Workers \ {w} : op'[v] = op[v],
             op'[w].kind \notin ConnectorKinds, op'[w].pc # "registry", op[w].pc # "registry"
      PROVE  RegistryHolds'
  <2>1. SUFFICES ASSUME ~garbled'
                 PROVE  Goal'
    BY DEF RegistryHolds
  <2>2. Goal
    BY <1>2, <2>1 DEF RegistryHolds
  <2>3. OneOperation'
    BY <1>2, <2>2 DEF OneOperation
  <2>4. OperationAgrees'
    BY <1>2, <2>2 DEF OperationAgrees, ConnectorKinds, Registered
  <2>5. RegistryAgrees'
    BY <1>2, <2>2 DEF RegistryAgrees
  <2> QED BY <2>3, <2>4, <2>5
<1>3. ASSUME NEW w \in Workers,
             \/ CommitCreate(w) \/ CommitUpdate(w) \/ CommitDelete(w) \/ ReadContract(w) \/ StartSync(w)
             \/ WriteFile(w) \/ CommitSync(w) \/ Fail(w)
      PROVE  RegistryHolds'
  <2>1. conns' = conns /\ reg' = reg
    <3>1. CASE CommitCreate(w) \/ CommitUpdate(w) \/ CommitDelete(w) \/ CommitSync(w)
      BY <3>1 DEF CommitCreate, CommitUpdate, CommitDelete, CommitSync
    <3>2. CASE ReadContract(w) \/ StartSync(w) \/ WriteFile(w) \/ Fail(w)
      BY <3>2 DEF ReadContract, StartSync, WriteFile, Fail
    <3> QED BY <1>3, <3>1, <3>2
  <2>2. garbled => garbled'
    <3>1. CASE CommitCreate(w) \/ CommitUpdate(w) \/ CommitSync(w)
      BY <3>1 DEF CommitCreate, CommitUpdate, CommitSync
    <3>2. CASE CommitDelete(w) \/ ReadContract(w) \/ WriteFile(w) \/ Fail(w)
      <4>1. history' = history
        BY <3>2 DEF CommitDelete, ReadContract, WriteFile, Fail
      <4> QED BY <4>1 DEF history
    <3>3. CASE StartSync(w)
      BY <3>3 DEF StartSync, Expose
    <3> QED BY <1>3, <3>1, <3>2, <3>3
  <2>3. /\ \A v \in Workers \ {w} : op'[v] = op[v]
        /\ op'[w].kind \in {"idle", "sync"} /\ op'[w].pc # "registry"
    <3>1. CASE CommitCreate(w) \/ CommitUpdate(w) \/ CommitDelete(w)
      BY <1>0, <3>1, CommitsSeen, DeleteOfRow, IdleFields
    <3>2. CASE CommitSync(w)
      BY <1>0, <3>2, CommitSyncMakes
    <3>3. CASE ReadContract(w)
      BY <1>0, <3>3, ReadContractMakes DEF CallsTyped, CallCarries
    <3>4. CASE StartSync(w)
      BY <1>0, <3>4, StartSyncMakes
    <3>5. CASE WriteFile(w)
      BY <1>0, <3>5, WriteFileMakes DEF Syncing
    <3>6. CASE Fail(w)
      BY <1>0, <3>6, FailMakes
    <3> QED BY <1>3, <3>1, <3>2, <3>3, <3>4, <3>5, <3>6
  <2>4. op[w].pc # "registry"
    <3>1. CASE CommitCreate(w) \/ CommitUpdate(w) \/ CommitDelete(w) \/ CommitSync(w)
      BY <3>1 DEF CommitCreate, CommitUpdate, CommitDelete, CommitSync
    <3>2. CASE ReadContract(w) \/ StartSync(w) \/ WriteFile(w) \/ Fail(w)
      BY <3>2 DEF ReadContract, StartSync, WriteFile, Fail
    <3> QED BY <1>3, <3>1, <3>2
  <2> QED BY <1>2, <2>1, <2>2, <2>3, <2>4 DEF ConnectorKinds
<1>4. ASSUME NEW w \in Workers, CommitAdd(w) \/ CommitEdit(w) \/ CommitDrop(w)
      PROVE  RegistryHolds'
  <2>1. /\ op[w].pc = "commit" /\ op'[w].pc = "registry" /\ op'[w].kind = op[w].kind
        /\ op[w].kind = "add" => op'[w].conn = connIds' /\ op'[w].conn \in Conns
        /\ op[w].kind # "add" => op'[w].conn = op[w].conn
        /\ \A v \in Workers \ {w} : op'[v] = op[v]
    BY <1>0, <1>4, ConnectorCommitMakes
  <2>2. op[w].kind \in ConnectorKinds /\ reg' = reg /\ history' = history
    BY <1>4 DEF CommitAdd, CommitEdit, CommitDrop, ConnectorKinds
  <2>3. SUFFICES ASSUME ~garbled'
                 PROVE  Goal'
    BY DEF RegistryHolds
  <2>4. Goal
    BY <2>2, <2>3 DEF RegistryHolds, history
  <2>5. \A v \in Workers \ {w} : op[v].kind \notin ConnectorKinds /\ op[v].pc # "registry"
    BY <1>0, <2>2, <2>4 DEF OneOperation, CallsTyped, CallCarries, IsCall, DatasetKinds, ConnectorKinds
  <2>6. OneOperation'
    BY <2>1, <2>4 DEF OneOperation
  <2>7. conns = AsSet(reg)
    BY <2>1, <2>4, <2>5 DEF RegistryAgrees
  <2>8. conns' = AsSet(Registered(op'[w]))
    <3>1. CASE CommitAdd(w)
      <4>1. conns' = {connIds'} /\ op[w].kind = "add"
        BY <3>1 DEF CommitAdd
      <4> QED BY <2>1, <4>1 DEF AsSet, Registered, Conns
    <3>2. CASE CommitEdit(w)
      <4>1. conns' = {op[w].conn} /\ op[w].kind = "edit" /\ op[w].conn \in Conns
        BY <1>0, <3>2 DEF CommitEdit, CallsTyped, CallCarries
      <4> QED BY <2>1, <4>1 DEF AsSet, Registered, Conns
    <3>3. CASE CommitDrop(w)
      <4>1. conns' = conns \ {op[w].conn} /\ op[w].kind = "drop"
        BY <3>3 DEF CommitDrop
      <4>2. op[w].conn = reg
        BY <2>1, <2>4, <4>1 DEF OperationAgrees
      <4> QED BY <2>1, <2>7, <4>1, <4>2 DEF AsSet, Registered
    <3> QED BY <1>4, <3>1, <3>2, <3>3
  <2>9. OperationAgrees'
    BY <2>1, <2>2, <2>4, <2>5, <2>8 DEF OperationAgrees, ConnectorKinds
  <2> QED BY <2>1, <2>6, <2>9 DEF RegistryAgrees
<1>5. ASSUME NEW w \in Workers, UpdateRegistry(w)
      PROVE  RegistryHolds'
  <2>1. /\ op[w].pc = "registry" /\ reg' = Registered(op[w]) /\ conns' = conns /\ history' = history
        /\ op'[w] = Idle /\ \A v \in Workers \ {w} : op'[v] = op[v]
    BY <1>0, <1>5, CallEnds DEF UpdateRegistry
  <2>2. SUFFICES ASSUME ~garbled'
                 PROVE  Goal'
    BY DEF RegistryHolds
  <2>3. Goal
    BY <2>1, <2>2 DEF RegistryHolds, history
  <2>4. op[w].kind \in ConnectorKinds
    BY <1>0, <2>1 DEF CallsTyped, CallCarries, IsCall, DatasetKinds, ConnectorKinds
  <2>5. \A v \in Workers \ {w} : op[v].kind \notin ConnectorKinds /\ op[v].pc # "registry"
    BY <1>0, <2>3, <2>4 DEF OneOperation, CallsTyped, CallCarries, IsCall, DatasetKinds, ConnectorKinds
  <2>6. OneOperation'
    BY <2>1, <2>5, IdleFields DEF OneOperation, ConnectorKinds
  <2>7. OperationAgrees'
    BY <2>1, <2>5, IdleFields DEF OperationAgrees, ConnectorKinds
  <2>8. RegistryAgrees'
    BY <2>1, <2>3 DEF OperationAgrees, RegistryAgrees
  <2> QED BY <2>6, <2>7, <2>8
<1>6. CASE Restart
  <2>1. /\ \A v \in Workers : op'[v] = Idle
        /\ conns' = conns
        /\ reg' = IF conns = {} THEN 0 ELSE CHOOSE c \in conns : TRUE
    BY <1>6 DEF Restart
  <2>2. conns' = AsSet(reg')
    <3>1. CASE conns = {}
      BY <2>1, <3>1 DEF AsSet
    <3>2. CASE conns # {}
      <4>1. reg' \in conns
        BY <2>1, <3>2
      <4>2. reg' # 0
        BY <1>0, <4>1 DEF StoreTyped, Conns
      <4> QED BY <1>0, <2>1, <4>1, <4>2 DEF AsSet, ConnsKnown
    <3> QED BY <3>1, <3>2
  <2>3. Goal'
    BY <2>1, <2>2, IdleFields DEF OneOperation, OperationAgrees, RegistryAgrees, ConnectorKinds
  <2> QED BY <2>3 DEF RegistryHolds
<1>7. CASE UNCHANGED vars
  <2>1. op' = op /\ conns' = conns /\ reg' = reg /\ garbled' = garbled
    BY <1>7 DEF vars, history
  <2> QED BY <2>1 DEF RegistryHolds, OneOperation, OperationAgrees, RegistryAgrees
<1> QED BY <1>1, <1>3, <1>4, <1>5, <1>6, <1>7 DEF Next, Step

\* Datasets, stored connectors and registered connectors agree, unless an
\* overlap the property names happened (delete_connector,
\* _upsert_runtime_connector, _remove_runtime_connector).
THEOREM ConnectorsStayInStep == Spec => []ConnectorsAgree
<1> DEFINE IInv == ConnInv /\ RegistryHolds
<1>1. Init => IInv
  <2> SUFFICES ASSUME Init PROVE IInv
    OBVIOUS
  <2>1. /\ Stored = {} /\ \A w \in Workers : op[w] = Idle
        /\ conns = {1} /\ reg = 1
    BY DEF Init, Stored
  <2>2. SyncsKeep
    BY <2>1, IdleFields DEF SyncsKeep
  <2>3. ConnectorsStored
    BY <2>1, IdleFields DEF ConnectorsStored, RowsStored, CallsStored, CallStored, Registers,
         DropsUnbound, RegStored
  <2>4. RegistryHolds
    BY <2>1, IdleFields DEF RegistryHolds, OneOperation, OperationAgrees, RegistryAgrees, AsSet,
         ConnectorKinds
  <2> QED BY <2>2, <2>3, <2>4, InitKnown DEF ConnInv, StoredHold
<1>2. IInv /\ [Next]_vars => IInv'
  BY KnownKept, SyncsKeepStep, StoredHoldStep, RegistryHoldsStep DEF ConnInv
<1>3. IInv => ConnectorsAgree
  <2> SUFFICES ASSUME IInv PROVE ConnectorsAgree
    OBVIOUS
  <2>1. ConnectorStored
    BY DEF ConnInv, StoredHold, StoreClash, ConnectorsStored, RowsStored, ConnectorStored
  <2>2. RegistryCurrent
    BY DEF RegistryHolds, RegistryAgrees, AsSet, RegistryCurrent
  <2> QED BY <2>1, <2>2 DEF ConnectorsAgree
<1> QED BY <1>1, <1>2, <1>3, PTL DEF Spec
-----------------------------------------------------------------------------
(* What a dataset's file holds                                             *)

\* FileClash has SyncClash as a part: every sync has the row that it read, and
\* there is one sync at a time.
FileClash == strayed \/ Overlapped({"sync"}, {"update", "delete", "sync"})

\* For a source b = <<connector, name, key>> that rows were bound to: its name
\* had no other source and its key no other dataset.
Alone(b) == \A a \in bound : a[1] = b[1] => (a[2] = b[2] <=> a[3] = b[3])
File(b)  == files[<<b[1], b[2]>>]
Exact(b) == \A l \in Keys : File(b)[l] = IF l = b[3] THEN "all" ELSE "none"

\* What is published, and what a full refresh has replaced, is the source.
RowsExact == \A i \in Stored :
    rows[i].key # None /\ (i \in repaired \/ (rows[i].ready /\ Alone(Source(rows[i]))))
        => Exact(Source(rows[i]))

\* Before its row is ready a file may be short of rows, but only while the next
\* sync fetches all of them: the cursor moves with a file that is complete.
SourcesCovered == \A b \in bound : Alone(b) =>
    /\ \A l \in Keys \ {b[3]} : File(b)[l] = "none"
    /\ cursors[<<b[1], b[3]>>] = "moved" => File(b)[b[3]] = "all"

\* Files and cursors are there for names and keys that rows were bound to.
FilesBound ==
    /\ \A c \in Conns, n \in Names, k \in Keys :
          files[<<c, n>>][k] # "none" => \E b \in bound : b[1] = c /\ b[2] = n
    /\ \A c \in Conns, k \in Keys :
          cursors[<<c, k>>] = "moved" => \E b \in bound : b[1] = c /\ b[3] = k

\* A sync knows the cursor of its source, and what it wrote before it commits.
SyncCovers(c) ==
    /\ c.since = cursors[<<c.conn, c.row.key>>]
    /\ c.pc = "commit" /\ (c.full \/ c.id \in repaired \/ Alone(Source(c.row)))
          => Exact(Source(c.row))
SyncsCover == \A w \in Workers : Syncing(op[w]) => SyncCovers(op[w])

FilesHold == FileClash \/ (RowsExact /\ SourcesCovered /\ FilesBound /\ SyncsCover)

FileInv == Known /\ SyncsKeep /\ FilesHold

LEMMA FileClashes ==
    ASSUME ~FileClash
    PROVE  ~SyncClash
  BY DEF FileClash, SyncClash, Overlapped

\* A sync that runs beside another one would have been recorded.
LEMMA OneSync ==
    ASSUME Known, ~FileClash, NEW w \in Workers, Syncing(op[w])
    PROVE  \A v \in Workers \ {w} : ~Syncing(op[v])
<1>1. \A v \in Workers : Syncing(op[v]) => v \in Exposed /\ op[v].kind = "sync"
  BY ExposedCalls DEF Known, CatalogTyped, Syncing
<1> QED BY <1>1, OverlapRecorded DEF Known, FileClash

\* The row of a sync keeps its source, which is known.
LEMMA SyncSource ==
    ASSUME Known, NEW c, RowOfSync(c), c.row.key \in Keys
    PROVE  /\ Source(c.row) = Source(rows[c.id]) /\ Source(c.row) \in bound
           /\ rows[c.id].key # None
  BY NoneAssumption DEF RowOfSync, Source, Known, RowsKnown

\* Steps that leave rows, files and cursors alone and start no sync.
LEMMA FilesRest ==
    ASSUME RowsExact, SourcesCovered, FilesBound, SyncsCover,
           UNCHANGED <<rows, files, cursors, bound, repaired>>,
           \A v \in Workers : Syncing(op'[v]) => op'[v] = op[v]
    PROVE  RowsExact' /\ SourcesCovered' /\ FilesBound' /\ SyncsCover'
<1>1. RowsExact'
  BY DEF RowsExact, Stored, Exact, File, Alone
<1>2. SourcesCovered' /\ FilesBound'
  BY DEF SourcesCovered, FilesBound, File, Alone
<1>3. SyncsCover'
  BY DEF SyncsCover, SyncCovers, Exact, File, Alone
<1> QED BY <1>1, <1>2, <1>3

\* A source that a row is bound to: what was alone before is still alone or
\* lost it, and a name and a key that are new have no rows and no cursor.
LEMMA BoundGrows ==
    ASSUME SourcesCovered, FilesBound, files' = files, cursors' = cursors,
           bound \subseteq Conns \X Names \X Keys, NEW row \in Rows, Bind(row)
    PROVE  /\ SourcesCovered' /\ FilesBound'
           /\ \A b : Alone(b)' => Alone(b)
<1>1. bound \subseteq bound' /\ \A b \in bound' \ bound : b = Source(row) /\ row.key \in Keys
  BY DEF Bind, Source, Rows
<1>2. \A b : Alone(b)' => Alone(b)
  BY <1>1 DEF Alone
<1>3. FilesBound'
  BY <1>1 DEF FilesBound
<1>4. ASSUME NEW b \in bound', Alone(b)'
      PROVE  /\ \A l \in Keys \ {b[3]} : File(b)'[l] = "none"
             /\ cursors'[<<b[1], b[3]>>] = "moved" => File(b)'[b[3]] = "all"
  <2>1. File(b)' = File(b)
    BY DEF File
  <2>2. CASE b \in bound
    BY <1>2, <1>4, <2>1, <2>2 DEF SourcesCovered
  <2>3. CASE b \notin bound
    <3>1. b = <<row.conn, row.name, row.key>> /\ row.conn \in Conns /\ row.name \in Names /\ row.key \in Keys
      BY <1>1, <2>3 DEF Source, Rows
    <3>2. \A a \in bound : a[1] = b[1] => a[2] # b[2] /\ a[3] # b[3]
      <4> SUFFICES ASSUME NEW a \in bound, a[1] = b[1], a[2] = b[2] \/ a[3] = b[3] PROVE FALSE
        OBVIOUS
      <4>1. a[2] = b[2] /\ a[3] = b[3]
        BY <1>1, <1>4 DEF Alone
      <4>2. a = <<a[1], a[2], a[3]>>
        OBVIOUS
      <4>3. a = b
        BY <3>1, <4>1, <4>2
      <4> QED BY <2>3, <4>3
    <3>3. \A l \in Keys : File(b)[l] = "none"
      BY <3>1, <3>2 DEF FilesBound, File
    <3>4. cursors[<<b[1], b[3]>>] # "moved"
      BY <3>1, <3>2 DEF FilesBound
    <3> QED BY <2>1, <3>3, <3>4
  <2> QED BY <2>2, <2>3
<1> QED BY <1>2, <1>3, <1>4 DEF SourcesCovered

\* The file a sync leaves behind is its source when it fetched all of it, or
\* when the file was.
LEMMA MergedFile ==
    ASSUME NEW file, NEW key \in Keys, NEW since, NEW full \in BOOLEAN,
           \/ full
           \/ \A l \in Keys : file[l] = IF l = key THEN "all" ELSE "none"
           \/ /\ \A l \in Keys \ {key} : file[l] = "none"
              /\ since = "moved" => file[key] = "all"
    PROVE  \A l \in Keys : Merged(file, key, since, full)[l] = IF l = key THEN "all" ELSE "none"
  BY DEF Merged

LEMMA FilesHoldStep ==
    ASSUME FileInv, [Next]_vars
    PROVE  FilesHold'
<1>0. /\ CatalogTyped /\ StoreTyped /\ CallsTyped /\ OverlapsSeen /\ RowsKnown /\ Known
      /\ overlaps \subseteq overlaps' /\ (strayed => strayed') /\ Known'
  BY KnownKept DEF FileInv, Known, CatalogTyped
<1> DEFINE Goal == RowsExact' /\ SourcesCovered' /\ FilesBound' /\ SyncsCover'
<1>1. SUFFICES ASSUME ~FileClash'
               PROVE  Goal
  BY DEF FilesHold
<1>2. ~FileClash /\ RowsExact /\ SourcesCovered /\ FilesBound /\ SyncsCover
  BY <1>0, <1>1, OverlapsStay DEF FileClash, FilesHold, FileInv
<1>3. \A v \in Workers : Syncing(op[v]) => RowOfSync(op[v])
  BY <1>2, FileClashes DEF FileInv, SyncsKeep
<1>4. ASSUME NEW w \in Workers, Call(w)
      PROVE  Goal
  <2>1. PICK c : /\ Begin(w, c) /\ Checked(c) /\ op'[w] = c
                 /\ \A v \in Workers \ {w} : op'[v] = op[v]
    BY <1>0, <1>4, CallMakes
  <2>2. UNCHANGED <<rows, files, cursors, bound, repaired>> /\ ~Syncing(op'[w])
    BY <2>1 DEF Begin, Checked, Syncing
  <2> QED BY <1>2, <2>1, <2>2, FilesRest
<1>5. ASSUME NEW w \in Workers, CommitCreate(w) \/ CommitUpdate(w)
      PROVE  Goal
  <2>1. PICK i \in Ids : /\ Written(i, op[w].row) /\ Writes(op[w]) /\ op[w].row \in Rows
                         /\ op[w].kind = "create" => i = ids + 1
                         /\ op[w].kind = "update" => i = op[w].id
                         /\ repaired' \subseteq repaired /\ i \notin repaired'
                         /\ files' = files /\ cursors' = cursors
                         /\ op'[w] = Idle /\ \A v \in Workers \ {w} : op'[v] = op[v]
    BY <1>0, <1>5, CommitsSeen
  <2>2. Bind(op[w].row) /\ op[w].row.ready = (op[w].row.key = None)
    BY <1>0, <1>5, <2>1 DEF CommitCreate, CommitUpdate, CallsTyped, CallCarries
  <2>3. SourcesCovered' /\ FilesBound' /\ \A b : Alone(b)' => Alone(b)
    BY <1>0, <1>2, <2>1, <2>2, BoundGrows DEF RowsKnown
  <2>4. RowsExact'
    <3>1. SUFFICES ASSUME NEW j \in Stored', rows'[j].key # None,
                          j \in repaired' \/ (rows'[j].ready /\ Alone(Source(rows[j]))')
                   PROVE  Exact(Source(rows[j]))'
      BY DEF RowsExact
    <3>2. j # i
      BY <2>1, <2>2, <3>1 DEF Written
    <3>3. j \in Stored /\ rows'[j] = rows[j]
      BY <2>1, <3>1, <3>2 DEF Written, Stored
    <3>4. Source(rows[j])' = Source(rows[j])
      BY <3>3 DEF Source
    <3>5. j \in repaired \/ (rows[j].ready /\ Alone(Source(rows[j])))
      BY <2>1, <2>3, <3>1, <3>3, <3>4 DEF Alone
    <3>6. Exact(Source(rows[j]))
      BY <1>2, <3>1, <3>3, <3>5 DEF RowsExact
    <3> QED BY <2>1, <3>4, <3>6 DEF Exact, File
  <2>5. SyncsCover'
    <3>1. SUFFICES ASSUME NEW v \in Workers, Syncing(op'[v])
                   PROVE  SyncCovers(op[v])'
      BY DEF SyncsCover
    <3>2. v # w /\ op'[v] = op[v] /\ SyncCovers(op[v])
      BY <1>2, <2>1, <3>1, IdleFields DEF SyncsCover
    <3>3. Alone(Source(op[v].row))' => Alone(Source(op[v].row))
      BY <2>3, <3>2 DEF Alone, Source
    <3> QED BY <2>1, <3>2, <3>3 DEF SyncCovers, Exact, File, Source
  <2> QED BY <2>3, <2>4, <2>5
<1>6. ASSUME NEW w \in Workers, CommitDelete(w)
      PROVE  Goal
  <2>1. /\ Stored' \subseteq Stored /\ \A i \in Stored' : rows'[i] = rows[i]
        /\ op'[w] = Idle /\ \A v \in Workers \ {w} : op'[v] = op[v]
    BY <1>0, <1>6, DeleteOfRow
  <2>2. UNCHANGED <<files, cursors, bound, repaired>>
    BY <1>6 DEF CommitDelete, history
  <2>3. RowsExact'
    BY <1>2, <2>1, <2>2 DEF RowsExact, Exact, File, Alone, Source
  <2>4. SourcesCovered' /\ FilesBound'
    BY <1>2, <2>2 DEF SourcesCovered, FilesBound, File, Alone
  <2>5. SyncsCover'
    BY <1>2, <2>1, <2>2, IdleFields DEF SyncsCover, SyncCovers, Exact, File, Alone
  <2> QED BY <2>3, <2>4, <2>5
<1>7. ASSUME NEW w \in Workers, StartSync(w)
      PROVE  Goal
  <2>1. PICK i \in Stored : /\ op'[w].row = rows[i] /\ op'[w].conn = op[w].conn /\ op'[w].pc = "fetch"
                            /\ op'[w].since = cursors[op[w].conn, rows[i].key]
                            /\ \A v \in Workers \ {w} : op'[v] = op[v]
    BY <1>0, <1>7, StartSyncMakes
  <2>2. UNCHANGED <<rows, files, cursors, bound, repaired>>
    BY <1>7 DEF StartSync
  <2>3. RowsExact'
    BY <1>2, <2>2 DEF RowsExact, Stored, Exact, File, Alone
  <2>4. SourcesCovered' /\ FilesBound'
    BY <1>2, <2>2 DEF SourcesCovered, FilesBound, File, Alone
  <2>5. SyncCovers(op[w])'
    BY <2>1, <2>2 DEF SyncCovers
  <2>6. SyncsCover'
    BY <1>2, <2>1, <2>2, <2>5 DEF SyncsCover, SyncCovers, Exact, File, Alone
  <2> QED BY <2>3, <2>4, <2>6
<1>8. ASSUME NEW w \in Workers, WriteFile(w)
      PROVE  Goal
  <2>1. /\ Syncing(op[w]) /\ Syncing(op'[w]) /\ op'[w].pc = "commit"
        /\ op'[w].id = op[w].id /\ op'[w].row = op[w].row /\ op'[w].since = op[w].since
        /\ op'[w].full = op[w].full /\ op'[w].conn = op[w].conn
        /\ \A v \in Workers \ {w} : op'[v] = op[v]
    BY <1>0, <1>8, WriteFileMakes
  <2>2. UNCHANGED <<rows, cursors, bound, repaired>>
    BY <1>8 DEF WriteFile, history
  <2> DEFINE c == op[w]
             s == Source(c.row)
  <2>3. RowOfSync(c) /\ c.row \in Rows /\ c.row.key \in Keys /\ c.conn \in Conns
    BY <1>0, <1>3, <2>1 DEF CallsTyped, CallCarries, Syncing
  <2>4. s = Source(rows[c.id]) /\ s \in bound /\ rows[c.id].key # None /\ c.id \in Stored
    BY <1>0, <2>3, SyncSource DEF RowOfSync
  <2>5. s = <<c.conn, c.row.name, c.row.key>> /\ c.row.name \in Names
    BY <2>3 DEF Source, RowOfSync, Rows
  <2>6. \A v \in Workers \ {w} : ~Syncing(op'[v])
    BY <1>0, <1>2, <2>1, OneSync
  <2>7. files' = [files EXCEPT ![<<c.conn, c.row.name>>] = Merged(File(s), c.row.key, c.since, c.full)]
    BY <2>5, <1>8 DEF WriteFile, File
  <2>8. /\ File(s)' = Merged(File(s), c.row.key, c.since, c.full)
        /\ \A n \in Conns, m \in Names : <<n, m>> # <<c.conn, c.row.name>> =>
              files'[<<n, m>>] = files[<<n, m>>]
    <3>1. s' = s
      BY <2>1 DEF Source
    <3>2. files'[<<c.conn, c.row.name>>] = Merged(File(s), c.row.key, c.since, c.full)
      BY <1>0, <2>3, <2>5, <2>7 DEF StoreTyped
    <3>3. \A n \in Conns, m \in Names : <<n, m>> # <<c.conn, c.row.name>> =>
              files'[<<n, m>>] = files[<<n, m>>]
      BY <1>0, <2>7 DEF StoreTyped
    <3> QED BY <2>5, <3>1, <3>2, <3>3 DEF File
  <2>9. c.since = cursors[<<c.conn, c.row.key>>]
    BY <1>2, <2>1 DEF SyncsCover, SyncCovers
  <2>10. c.full \/ c.id \in repaired \/ Alone(s) => Exact(s)'
    <3>1. SUFFICES ASSUME c.full \/ c.id \in repaired \/ Alone(s)
                   PROVE  \A l \in Keys : Merged(File(s), c.row.key, c.since, c.full)[l] =
                              IF l = c.row.key THEN "all" ELSE "none"
      BY <2>1, <2>5, <2>8 DEF Exact, Source
    <3>2. c.id \in repaired => Exact(s)
      BY <1>2, <2>4 DEF RowsExact
    <3>3. Alone(s) => /\ \A l \in Keys \ {c.row.key} : File(s)[l] = "none"
                      /\ c.since = "moved" => File(s)[c.row.key] = "all"
      BY <1>2, <2>4, <2>5, <2>9 DEF SourcesCovered
    <3>4. Exact(s) => \A l \in Keys : File(s)[l] = IF l = c.row.key THEN "all" ELSE "none"
      BY <2>5 DEF Exact
    <3> HIDE DEF s
    <3>a. c.full \in BOOLEAN
      BY <1>0 DEF CallsTyped, IsCall
    <3>5. CASE c.full
      BY <3>a, <3>5 DEF Merged
    <3>6. CASE c.id \in repaired
      BY <2>3, <3>a, <3>2, <3>4, <3>6, MergedFile
    <3>7. CASE Alone(s)
      BY <2>3, <3>a, <3>3, <3>7, MergedFile
    <3> QED BY <3>1, <3>5, <3>6, <3>7
  <2>11. RowsExact'
    <3>1. SUFFICES ASSUME NEW j \in Stored', rows'[j].key # None,
                          j \in repaired' \/ (rows'[j].ready /\ Alone(Source(rows[j]))')
                   PROVE  Exact(Source(rows[j]))'
      BY DEF RowsExact
    <3>2. j \in Stored /\ Source(rows[j])' = Source(rows[j]) /\ rows[j] \in Rows
      BY <1>0, <2>2, <3>1, StoredRows DEF Stored, Source
    <3>3. j \in repaired \/ (rows[j].ready /\ Alone(Source(rows[j])))
      BY <2>2, <3>1, <3>2 DEF Alone
    <3>4. CASE j = c.id
      <4>1. j \in repaired \/ Alone(s)
        BY <2>4, <3>3, <3>4
      <4>2. Exact(s)' /\ Source(rows[j])' = s /\ s' = s
        BY <2>1, <2>4, <2>10, <3>2, <3>4, <4>1 DEF Source
      <4> QED BY <4>2 DEF Exact, File
    <3>5. CASE j # c.id
      <4>1. rows[j].name # c.row.name
        BY <1>0, <2>3, <2>4, <3>2, <3>5 DEF RowsKnown, RowOfSync
      <4>2. files'[<<rows[j].conn, rows[j].name>>] = files[<<rows[j].conn, rows[j].name>>]
        BY <2>8, <3>2, <4>1 DEF Rows
      <4>3. Exact(Source(rows[j]))
        BY <1>2, <2>2, <3>1, <3>2, <3>3 DEF RowsExact
      <4> QED BY <2>2, <4>2, <4>3 DEF Exact, File, Source
    <3> QED BY <3>4, <3>5
  <2>12. SourcesCovered'
    <3>1. SUFFICES ASSUME NEW b \in bound', Alone(b)'
                   PROVE  /\ \A l \in Keys \ {b[3]} : File(b)'[l] = "none"
                          /\ cursors'[<<b[1], b[3]>>] = "moved" => File(b)'[b[3]] = "all"
      BY DEF SourcesCovered
    <3>2. b \in bound /\ Alone(b) /\ b \in Conns \X Names \X Keys
      BY <1>0, <2>2, <3>1 DEF Alone, RowsKnown
    <3>3. CASE <<b[1], b[2]>> = <<c.conn, c.row.name>>
      <4>1. b[1] = s[1] /\ b[2] = s[2]
        BY <2>5, <3>3
      <4>2. b[3] = s[3]
        BY <2>4, <3>2, <4>1 DEF Alone
      <4>3. b = s
        BY <2>5, <3>2, <4>1, <4>2
      <4>4. Exact(s)' /\ s' = s
        BY <2>1, <2>10, <3>2, <4>3 DEF Source
      <4>5. \A l \in Keys : files'[<<b[1], b[2]>>][l] = IF l = b[3] THEN "all" ELSE "none"
        BY <4>3, <4>4 DEF Exact, File
      <4> QED BY <3>2, <4>5 DEF File
    <3>4. CASE <<b[1], b[2]>> # <<c.conn, c.row.name>>
      BY <1>2, <2>2, <2>8, <3>2, <3>4 DEF SourcesCovered, File
    <3> QED BY <3>3, <3>4
  <2>13. FilesBound'
    <3>1. ASSUME NEW n \in Conns, NEW m \in Names, NEW k \in Keys, files'[<<n, m>>][k] # "none"
          PROVE  \E b \in bound' : b[1] = n /\ b[2] = m
      <4>1. CASE n = c.conn /\ m = c.row.name
        BY <2>2, <2>4, <2>5, <4>1
      <4>2. CASE ~(n = c.conn /\ m = c.row.name)
        <5>1. files'[<<n, m>>] = files[<<n, m>>]
          BY <2>8, <4>2
        <5> QED BY <1>2, <2>2, <3>1, <5>1 DEF FilesBound
      <4> QED BY <4>1, <4>2
    <3>2. \A n \in Conns, k \in Keys :
             cursors'[<<n, k>>] = "moved" => \E b \in bound' : b[1] = n /\ b[3] = k
      BY <1>2, <2>2 DEF FilesBound
    <3> QED BY <3>1, <3>2 DEF FilesBound
  <2>14. SyncsCover'
    <3>1. s' = s
      BY <2>1 DEF Source
    <3>2. op'[w].full \/ op'[w].id \in repaired' \/ Alone(Source(op[w].row))' => Exact(Source(op[w].row))'
      <4>1. Alone(s)' => Alone(s)
        BY <2>2, <3>1 DEF Alone
      <4> QED BY <2>1, <2>2, <2>10, <4>1
    <3>3. op'[w].since = cursors'[<<op'[w].conn, op'[w].row.key>>]
      BY <2>1, <2>2, <2>9
    <3>4. SyncCovers(op[w])'
      BY <3>2, <3>3 DEF SyncCovers
    <3> QED BY <2>6, <3>4 DEF SyncsCover
  <2> QED BY <2>11, <2>12, <2>13, <2>14
<1>9. ASSUME NEW w \in Workers, CommitSync(w)
      PROVE  Goal
  <2> DEFINE c == op[w]
             s == Source(c.row)
  <2>1. PICK row \in Rows :
           /\ Syncing(c) /\ c.pc = "commit" /\ c.id \in Ids
           /\ row.name = c.row.name /\ row.key = c.row.key /\ row.key \in Keys /\ row.conn = c.conn
           /\ rows' = [rows EXCEPT ![c.id] = row] /\ Bind(row)
           /\ ~Syncing(op'[w])
           /\ \A v \in Workers \ {w} : op'[v] = op[v]
    BY <1>0, <1>9, CommitSyncMakes
  <2>2. RowOfSync(c) /\ Written(c.id, row) /\ c.conn \in Conns /\ c.key0 \in Keys
    BY <1>0, <1>3, <2>1, WriteOfRow DEF CallsTyped, CallCarries, Syncing
  <2>3. /\ s = Source(rows[c.id]) /\ s \in bound /\ rows[c.id].key # None /\ c.id \in Stored
        /\ s = <<c.conn, c.row.name, c.row.key>> /\ Source(row) = s
    BY <1>0, <2>1, <2>2, SyncSource DEF RowOfSync, Source
  <2>4. bound' = bound /\ files' = files
    <3>1. bound' = bound \cup {Source(row)}
      BY <2>1, NoneAssumption DEF Bind, Source
    <3> QED BY <1>9, <2>3, <3>1 DEF CommitSync
  <2>5. repaired' = IF c.full THEN repaired \cup {c.id} ELSE repaired
    BY <1>9 DEF CommitSync
  <2>6. \A v \in Workers : ~Syncing(op'[v])
    BY <1>0, <1>2, <2>1, OneSync
  <2>7. /\ c.since = cursors[<<c.conn, c.row.key>>]
        /\ c.full \/ c.id \in repaired \/ Alone(s) => Exact(s)
    BY <1>2, <2>1 DEF SyncsCover, SyncCovers
  <2>8. \A n \in Conns, k \in Keys : cursors'[<<n, k>>] = "moved" =>
            \/ cursors[<<n, k>>] = "moved"
            \/ n = c.conn /\ k = c.row.key
    <3> DEFINE since == IF c.since = "absent" THEN "start" ELSE c.since
               row0  == [c.row EXCEPT !.conn = c.conn, !.ready = TRUE]
               key0  == <<c.conn, c.key0>>
               val0  == IF cursors[key0] = "absent" THEN "start" ELSE cursors[key0]
               cur   == [cursors EXCEPT ![key0] = val0]
               val   == IF c.full THEN since ELSE "moved"
    <3>1. cursors' = [cur EXCEPT ![<<c.conn, row0.key>>] = val]
      BY <1>9 DEF CommitSync
    <3>2. row0.key = c.row.key
      BY <1>0, <2>1 DEF CallsTyped, CallCarries, Syncing, Rows
    <3>3. cur \in [Conns \X Keys -> Cursors]
      BY <1>0, <2>2 DEF StoreTyped, Cursors
    <3>4. \A n \in Conns, k \in Keys : cur[<<n, k>>] = "moved" => cursors[<<n, k>>] = "moved"
      BY <1>0, <2>2 DEF StoreTyped
    <3> HIDE DEF cur, val, row0
    <3>5. \A n \in Conns, k \in Keys : <<n, k>> # <<c.conn, c.row.key>> => cursors'[<<n, k>>] = cur[<<n, k>>]
      BY <3>1, <3>2, <3>3
    <3> QED BY <3>4, <3>5
  <2>9. Stored' = Stored /\ rows'[c.id] = row /\ \A j \in Stored \ {c.id} : rows'[j] = rows[j]
    BY <2>2, <2>3 DEF Written, Stored
  <2>10. RowsExact'
    <3>1. SUFFICES ASSUME NEW j \in Stored', rows'[j].key # None,
                          j \in repaired' \/ (rows'[j].ready /\ Alone(Source(rows[j]))')
                   PROVE  Exact(Source(rows[j]))'
      BY DEF RowsExact
    <3>2. CASE j = c.id
      <4>1. Source(rows[j])' = s
        BY <2>3, <2>9, <3>2 DEF Source
      <4>2. Alone(Source(rows[j]))' => Alone(s)
        BY <2>4, <4>1 DEF Alone
      <4>3. c.full \/ c.id \in repaired \/ Alone(s)
        BY <2>5, <3>1, <3>2, <4>2
      <4> QED BY <2>4, <2>7, <4>1, <4>3 DEF Exact, File
    <3>3. CASE j # c.id
      <4>1. j \in Stored /\ rows'[j] = rows[j] /\ (j \in repaired' => j \in repaired)
        BY <2>5, <2>9, <3>1, <3>3
      <4> QED BY <1>2, <2>4, <3>1, <4>1 DEF RowsExact, Exact, File, Alone, Source
    <3> QED BY <3>2, <3>3
  <2>11. SourcesCovered'
    <3>1. SUFFICES ASSUME NEW b \in bound, Alone(b)
                   PROVE  /\ \A l \in Keys \ {b[3]} : File(b)[l] = "none"
                          /\ cursors'[<<b[1], b[3]>>] = "moved" => File(b)[b[3]] = "all"
      BY <2>4 DEF SourcesCovered, Alone, File
    <3>2. /\ \A l \in Keys \ {b[3]} : File(b)[l] = "none"
          /\ cursors[<<b[1], b[3]>>] = "moved" => File(b)[b[3]] = "all"
      BY <1>2, <3>1 DEF SourcesCovered
    <3>3. b \in Conns \X Names \X Keys
      BY <1>0 DEF RowsKnown
    <3>4. CASE b[1] = c.conn /\ b[3] = c.row.key
      <4>1. b[1] = s[1] /\ b[3] = s[3]
        BY <2>3, <3>4
      <4>2. b[2] = s[2]
        BY <2>3, <3>1, <4>1 DEF Alone
      <4>3. b = s
        BY <2>3, <3>3, <4>1, <4>2
      <4>4. Exact(b)
        BY <2>7, <3>1, <4>3
      <4> QED BY <3>2, <3>3, <4>4 DEF Exact
    <3>5. CASE ~(b[1] = c.conn /\ b[3] = c.row.key)
      BY <2>8, <3>2, <3>3, <3>5
    <3> QED BY <3>4, <3>5
  <2>12. FilesBound'
    <3>1. \A n \in Conns, k \in Keys :
             cursors'[<<n, k>>] = "moved" => \E b \in bound : b[1] = n /\ b[3] = k
      BY <1>2, <2>3, <2>8 DEF FilesBound
    <3> QED BY <1>2, <2>4, <3>1 DEF FilesBound
  <2>13. SyncsCover'
    BY <2>6 DEF SyncsCover
  <2> QED BY <2>10, <2>11, <2>12, <2>13
<1>10. ASSUME NEW w \in Workers, ~WriteFile(w),
              \/ ReadContract(w) \/ Fail(w) \/ CommitAdd(w) \/ CommitEdit(w)
              \/ CommitDrop(w) \/ UpdateRegistry(w)
       PROVE  Goal
  <2>1. /\ rows' = rows /\ cursors' = cursors /\ history' = history
        /\ \A v \in Workers \ {w} : op'[v] = op[v]
        /\ ~Syncing(op'[w])
    BY <1>0, <1>10, OtherSteps
  <2>2. files' = files
    BY <1>10 DEF ReadContract, Fail, CommitAdd, CommitEdit, CommitDrop, UpdateRegistry
  <2>3. bound' = bound /\ repaired' = repaired
    BY <2>1 DEF history
  <2> QED BY <1>2, <2>1, <2>2, <2>3, FilesRest
<1>11. CASE Restart
  <2>1. UNCHANGED <<rows, files, cursors, bound, repaired>> /\ \A v \in Workers : ~Syncing(op'[v])
    BY <1>11, IdleFields DEF Restart
  <2> QED BY <1>2, <2>1, FilesRest
<1>12. CASE UNCHANGED vars
  <2>1. UNCHANGED <<rows, files, cursors, bound, repaired, op>>
    BY <1>12 DEF vars, history
  <2> QED BY <1>2, <2>1, FilesRest
<1> QED BY <1>4, <1>5, <1>6, <1>7, <1>8, <1>9, <1>10, <1>11, <1>12 DEF Next, Step

\* The data that a dataset publishes is all of its source and nothing else, for
\* any number of datasets and overlapping calls, but for the exceptions that the
\* property names (sync_dataset, materialise the parquet file, _save_sync_state).
THEOREM PublishedFilesAreTheSource == Spec => []FileOfSource
<1>1. Init => FileInv
  <2> SUFFICES ASSUME Init PROVE FileInv
    OBVIOUS
  <2>1. /\ Stored = {} /\ (\A w \in Workers : op[w] = Idle) /\ bound = {}
        /\ files = [f \in Conns \X Names |-> [k \in Keys |-> "none"]]
        /\ cursors = [t \in Conns \X Keys |-> "absent"]
    BY DEF Init, Stored
  <2>2. RowsExact /\ SourcesCovered /\ SyncsCover /\ SyncsKeep
    BY <2>1, IdleFields DEF RowsExact, SourcesCovered, SyncsCover, SyncsKeep
  <2>3. FilesBound
    BY <2>1 DEF FilesBound
  <2> QED BY <2>2, <2>3, InitKnown DEF FileInv, FilesHold
<1>2. FileInv /\ [Next]_vars => FileInv'
  BY KnownKept, SyncsKeepStep, FilesHoldStep DEF FileInv
<1>3. FileInv => FileOfSource
  <2> SUFFICES ASSUME FileInv, ~FileClash
               PROVE  \A i \in Stored :
                         LET row  == rows[i]
                             file == files[<<row.conn, row.name>>]
                             alone == \A b \in bound :
                                        b[1] = row.conn => (b[2] = row.name <=> b[3] = row.key)
                         IN row.key # None /\ row.ready /\ (alone \/ i \in repaired) =>
                               \A k \in Keys : file[k] = IF k = row.key THEN "all" ELSE "none"
    BY DEF FileOfSource, FileClash
  <2>1. RowsExact
    BY DEF FileInv, FilesHold
  <2> QED BY <2>1 DEF RowsExact, Alone, Exact, File, Source
<1> QED BY <1>1, <1>2, <1>3, PTL DEF Spec
=============================================================================
