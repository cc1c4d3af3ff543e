--------------------------- MODULE DatasetCatalog ---------------------------
(***************************************************************************)
(* Datasets and connectors as the runtime's API changes them, with a SQL   *)
(* metadata store: create, update, delete and sync of datasets, create,    *)
(* update and delete of the connector they are bound to, and the sync of a *)
(* list of its resources.  Every operation reads and checks first and      *)
(* commits later, so operations overlap; a connector's operation then      *)
(* brings the registry of connectors in memory up to date.                 *)
(*                                                                         *)
(* One connector name is modelled; a connector that is deleted and created *)
(* again has a new id.  Pages, rows and the states of a sync are module    *)
(* DatasetSync; here a file knows which sources its rows come from.        *)
(***************************************************************************)
EXTENDS Naturals, Sequences, FiniteSets

CONSTANTS
    Workers,   \* concurrent calls
    Names,     \* dataset names
    Keys,      \* source keys of the connector
    MaxIds,    \* bound: datasets created
    MaxConns,  \* bound: connectors created
    MaxCalls,  \* bound: calls
    None

ASSUME BoundsAssumption == MaxIds \in Nat /\ MaxConns \in Nat \ {0} /\ MaxCalls \in Nat
ASSUME NoneAssumption   == None \notin Names \cup Keys

VARIABLES
    rows,      \* dataset rows by id
    conns,     \* connector rows
    reg,       \* the registered connector, 0 if there is none
    files,     \* parquet files: by connector and name, what they hold of a source
    cursors,   \* sync states by connector and source
    op,        \* the calls in flight
    ids,       \* dataset ids given out
    connIds,   \* connector ids given out
    calls,     \* calls made
    overlaps,  \* history: kinds of operations that overlapped
    garbled,   \* history: connector operations overlapped since the last start
    bound,     \* history: every <<connector, name, key>> a row was bound to
    repaired,  \* history: rows with a full refresh since they were last changed
    strayed    \* history: a sync found its dataset bound to another connector
               \* than when it read the contract

history == <<overlaps, garbled, bound, repaired, strayed>>
vars == <<rows, conns, reg, files, cursors, op, ids, connIds, calls, history>>

Ids   == 1..MaxIds
Conns == 1..MaxConns

\* A row's key is None when the dataset is not synced; ready: it has a
\* storage_uri and status PUBLISHED.
Rows  == [name : Names, conn : Conns, key : Keys \cup {None}, ready : BOOLEAN]
NoRow == [name |-> None, conn |-> 0, key |-> None, ready |-> FALSE]

DatasetKinds   == {"create", "update", "delete", "sync"}
ConnectorKinds == {"add", "edit", "drop"}

Idle == [kind |-> "idle", pc |-> "idle", id |-> 0, row |-> NoRow, conn |-> 0, key0 |-> None,
         since |-> "absent", full |-> FALSE, ref |-> None, todo |-> <<>>]

Cursors  == {"absent", "start", "moved"}
Contents == {"none", "part", "all"}

TypeOK ==
    /\ rows \in [Ids -> Rows \cup {NoRow}]
    /\ conns \subseteq Conns
    /\ reg \in Conns \cup {0}
    /\ files \in [Conns \X Names -> [Keys -> Contents]]
    /\ cursors \in [Conns \X Keys -> Cursors]
    /\ DOMAIN op = Workers
    /\ \A w \in Workers :
          /\ op[w].kind \in DatasetKinds \cup ConnectorKinds \cup {"idle"}
          /\ op[w].pc \in {"idle", "queue", "contract", "fetch", "commit", "registry"}
          /\ op[w].row \in Rows \cup {NoRow}
          /\ op[w].conn \in Conns \cup {0}
    /\ ids \in 0..MaxIds /\ connIds \in 1..MaxConns /\ calls \in 0..MaxCalls

Init ==
    /\ rows = [i \in Ids |-> NoRow]
    /\ conns = {1}
    /\ reg = 1
    /\ files = [f \in Conns \X Names |-> [k \in Keys |-> "none"]]
    /\ cursors = [s \in Conns \X Keys |-> "absent"]
    /\ op = [w \in Workers |-> Idle]
    /\ ids = 0
    /\ connIds = 1
    /\ calls = 0
    /\ overlaps = {}
    /\ garbled = FALSE
    /\ bound = {}
    /\ repaired = {}
    /\ strayed = FALSE

Stored == {i \in Ids : rows[i] # NoRow}

-----------------------------------------------------------------------------
(* Calls                                                                   *)

\* An operation is exposed to the others from its first read that it uses to
\* its end; a sync reads its dataset again after the contract.
Exposed == {v \in Workers : op[v].pc \in {"fetch", "commit", "registry"}}

Expose(w, kind) ==
    LET others == {op[v].kind : v \in Exposed \ {w}} IN
    /\ overlaps' = overlaps \cup {{kind, other} : other \in others}
    /\ garbled' = (garbled \/ (kind \in ConnectorKinds /\ others \cap ConnectorKinds # {}))

Begin(w, call) ==
    /\ op[w].pc = "idle"
    /\ calls < MaxCalls
    /\ calls' = calls + 1
    /\ op' = [op EXCEPT ![w] = call]
    /\ IF call.pc = "queue" THEN UNCHANGED <<overlaps, garbled>> ELSE Expose(w, call.kind)
    /\ UNCHANGED <<rows, conns, reg, files, cursors, ids, connIds, bound, repaired, strayed>>

\* The call raises: its unit of work is rolled back.
Fail(w) ==
    /\ op[w].pc \in {"queue", "contract", "fetch", "commit"}
    /\ op' = [op EXCEPT ![w] = Idle]
    /\ UNCHANGED <<rows, conns, reg, files, cursors, ids, connIds, calls, history>>

\* _assert_dataset_name_is_available
NameIsAvailable(n) == \A i \in Stored : rows[i].name # n

\* Mutant of SyncSourceIsAvailable: only datasets with data are looked at.
SyncSourceIsAvailableReady(c, k, self) ==
    \A i \in Stored \ {self} :
        k # None /\ rows[i].conn = c /\ rows[i].ready => rows[i].key # k

\* _assert_sync_source_is_available
SyncSourceIsAvailable(c, k, self) ==
    \A i \in Stored \ {self} : k # None /\ rows[i].conn = c => rows[i].key # k

\* The unique constraint on the name decides when rows are written; a row that
\* is gone is inserted again.
CanWrite(i, row) == \A j \in Stored \ {i} : rows[j].name # row.name

Bind(row) == bound' = IF row.key = None THEN bound
                      ELSE bound \cup {<<row.conn, row.name, row.key>>}

-----------------------------------------------------------------------------
(* Datasets                                                                *)

\* create_dataset: the connector comes from the registry, name and source are
\* checked against the rows.
BeginCreate(w, n, k) ==
    /\ reg # 0
    /\ NameIsAvailable(n)
    /\ SyncSourceIsAvailable(reg, k, 0)
    /\ Begin(w, [Idle EXCEPT !.kind = "create", !.pc = "commit",
                             !.row = [name |-> n, conn |-> reg, key |-> k, ready |-> k = None]])

\* uuid4
NewId(n) == ids + 1

CommitCreate(w) ==
    LET i == NewId(op[w].row.name) IN
    /\ op[w].kind = "create" /\ op[w].pc = "commit"
    /\ ids < MaxIds
    /\ CanWrite(i, op[w].row)
    /\ ids' = ids + 1
    /\ rows' = [rows EXCEPT ![i] = op[w].row]
    /\ Bind(op[w].row)
    /\ op' = [op EXCEPT ![w] = Idle]
    /\ UNCHANGED <<conns, reg, files, cursors, connIds, calls, overlaps, garbled, repaired, strayed>>

\* update_dataset keeps name and connector, which has to be registered.  A
\* synced dataset starts again without storage_uri; file and sync state stay.
BeginUpdate(w, i, k) ==
    /\ i \in Stored
    /\ rows[i].conn = reg
    /\ SyncSourceIsAvailable(reg, k, i)
    /\ Begin(w, [Idle EXCEPT !.kind = "update", !.pc = "commit", !.id = i,
                             !.row = [rows[i] EXCEPT !.key = k, !.ready = k = None]])

CommitUpdate(w) ==
    /\ op[w].kind = "update" /\ op[w].pc = "commit"
    /\ CanWrite(op[w].id, op[w].row)
    /\ rows' = [rows EXCEPT ![op[w].id] = op[w].row]
    /\ Bind(op[w].row)
    /\ repaired' = repaired \ {op[w].id}
    /\ op' = [op EXCEPT ![w] = Idle]
    /\ UNCHANGED <<conns, reg, files, cursors, ids, connIds, calls, overlaps, garbled, strayed>>

BeginDelete(w, i) ==
    /\ i \in Stored
    /\ Begin(w, [Idle EXCEPT !.kind = "delete", !.pc = "commit", !.id = i])

\* delete_dataset removes the row only: the file and the sync state stay.
CommitDelete(w) ==
    /\ op[w].kind = "delete" /\ op[w].pc = "commit"
    /\ rows' = [rows EXCEPT ![op[w].id] = NoRow]
    /\ op' = [op EXCEPT ![w] = Idle]
    /\ UNCHANGED <<conns, reg, files, cursors, ids, connIds, calls, history>>

-----------------------------------------------------------------------------
(* Syncs                                                                   *)

\* _resolve_dataset_record: by id or by name
Resolve(ref) == {i \in Stored : i = ref \/ rows[i].name = ref}

BeginSync(w, ref, full) ==
    Begin(w, [Idle EXCEPT !.kind = "sync", !.pc = "queue", !.full = full, !.todo = <<ref>>])

\* sync_connector_resources: the datasets of the resources are looked up once;
\* a resource without a dataset, or with several, raises when its turn comes.
BeginConnectorSync(w, resources, full) ==
    LET boundTo(k) == {i \in Stored : rows[i].conn = reg /\ rows[i].key = k} IN
    /\ reg # 0
    /\ Begin(w, [Idle EXCEPT !.kind = "sync", !.pc = "queue", !.full = full,
                             !.todo = [n \in DOMAIN resources |->
                                IF Cardinality(boundTo(resources[n])) = 1
                                THEN CHOOSE i \in boundTo(resources[n]) : TRUE ELSE None]])

\* sync_dataset, first unit of work: the contract is read.
ReadContract(w) ==
    LET ref == Head(op[w].todo) IN
    /\ op[w].pc = "queue"
    /\ \E i \in Resolve(ref) :
         /\ rows[i].key # None
         /\ rows[i].conn = reg
         /\ op' = [op EXCEPT ![w].pc = "contract", ![w].ref = ref, ![w].conn = reg,
                             ![w].key0 = rows[i].key, ![w].todo = Tail(@)]
    /\ UNCHANGED <<rows, conns, reg, files, cursors, ids, connIds, calls, history>>

\* What is synced is the source of the row that was read last.
SourceOfSync(w, row) == row

\* Second unit of work: the row is read again, and the state of its source.
StartSync(w) ==
    /\ op[w].pc = "contract"
    /\ \E i \in Resolve(op[w].ref) :
         /\ rows[i].key # None
         /\ op' = [op EXCEPT ![w].pc = "fetch", ![w].id = i, ![w].row = SourceOfSync(w, rows[i]),
                             ![w].since = cursors[op[w].conn, SourceOfSync(w, rows[i]).key]]
         /\ strayed' = (strayed \/ rows[i].conn # op[w].conn)
    /\ Expose(w, "sync")
    /\ UNCHANGED <<rows, conns, reg, files, cursors, ids, connIds, calls, bound, repaired>>

\* Mutant of Merged: a full refresh adds its rows to those of the file.
MergedAlways(file, key, since, full) ==
    [k \in Keys |-> IF k = key THEN "all" ELSE file[k]]

\* The rows of the file after those that were fetched are merged.  A full
\* refresh replaces the file; an incremental sync without cursor fetches
\* everything, one with a cursor what is newer.
Merged(file, key, since, full) ==
    [k \in Keys |->
        CASE k # key -> IF full THEN "none" ELSE file[k]
          [] k = key /\ (full \/ since # "moved") -> "all"
          [] OTHER -> IF file[k] = "all" THEN "all" ELSE "part"]

\* The file of the dataset's name is written before anything is committed.
WriteFile(w) ==
    LET row  == op[w].row
        path == <<op[w].conn, row.name>>
    IN
    /\ op[w].pc = "fetch"
    /\ files' = [files EXCEPT ![path] = Merged(@, row.key, op[w].since, op[w].full)]
    /\ op' = [op EXCEPT ![w].pc = "commit"]
    /\ UNCHANGED <<rows, conns, reg, cursors, ids, connIds, calls, history>>

\* The whole row is saved as it was read, the state of its source, and a state
\* for the source of the contract.
CommitSync(w) ==
    LET row   == [op[w].row EXCEPT !.conn = op[w].conn, !.ready = TRUE]
        since == IF op[w].since = "absent" THEN "start" ELSE op[w].since
        key0  == <<op[w].conn, op[w].key0>>
    IN
    /\ op[w].kind = "sync" /\ op[w].pc = "commit"
    /\ CanWrite(op[w].id, row)
    /\ rows' = [rows EXCEPT ![op[w].id] = row]
    /\ cursors' = [[cursors EXCEPT ![key0] = IF @ = "absent" THEN "start" ELSE @]
                        EXCEPT ![<<op[w].conn, row.key>>] = IF op[w].full THEN since ELSE "moved"]
    /\ Bind(row)
    /\ repaired' = IF op[w].full THEN repaired \cup {op[w].id} ELSE repaired
    /\ op' = [op EXCEPT ![w] = IF op[w].todo = <<>> THEN Idle
                               ELSE [Idle EXCEPT !.kind = "sync", !.pc = "queue",
                                                 !.full = op[w].full, !.todo = op[w].todo]]
    /\ UNCHANGED <<conns, reg, files, ids, connIds, calls, overlaps, garbled, strayed>>

-----------------------------------------------------------------------------
(* Connectors                                                              *)

BeginAdd(w) ==
    /\ reg = 0
    /\ Begin(w, [Idle EXCEPT !.kind = "add", !.pc = "commit"])

CommitAdd(w) ==
    /\ op[w].kind = "add" /\ op[w].pc = "commit"
    /\ connIds < MaxConns
    /\ conns = {}
    /\ connIds' = connIds + 1
    /\ conns' = {connIds + 1}
    /\ op' = [op EXCEPT ![w].pc = "registry", ![w].conn = connIds + 1]
    /\ UNCHANGED <<rows, reg, files, cursors, ids, calls, history>>

\* update_connector and delete_connector look the connector up in the registry
\* and then its row.
BeginEdit(w) ==
    /\ reg \in conns
    /\ Begin(w, [Idle EXCEPT !.kind = "edit", !.pc = "commit", !.conn = reg])

CommitEdit(w) ==
    /\ op[w].kind = "edit" /\ op[w].pc = "commit"
    /\ conns \subseteq {op[w].conn}
    /\ conns' = {op[w].conn}
    /\ op' = [op EXCEPT ![w].pc = "registry"]
    /\ UNCHANGED <<rows, reg, files, cursors, ids, connIds, calls, history>>

\* Mutant of Unbound: only synced datasets keep a connector.
UnboundSynced(c) == \A i \in Stored : rows[i].conn = c => rows[i].key = None

Unbound(c) == \A i \in Stored : rows[i].conn # c

BeginDrop(w) ==
    /\ reg \in conns
    /\ Unbound(reg)
    /\ Begin(w, [Idle EXCEPT !.kind = "drop", !.pc = "commit", !.conn = reg])

CommitDrop(w) ==
    /\ op[w].kind = "drop" /\ op[w].pc = "commit"
    /\ conns' = conns \ {op[w].conn}
    /\ op' = [op EXCEPT ![w].pc = "registry"]
    /\ UNCHANGED <<rows, reg, files, cursors, ids, connIds, calls, history>>

\* Mutant of Registered: a connector that is deleted stays registered.
RegisteredAlways(call) == call.conn

\* _upsert_runtime_connector, _remove_runtime_connector
Registered(call) == IF call.kind = "drop" THEN 0 ELSE call.conn

UpdateRegistry(w) ==
    /\ op[w].pc = "registry"
    /\ reg' = Registered(op[w])
    /\ op' = [op EXCEPT ![w] = Idle]
    /\ UNCHANGED <<rows, conns, files, cursors, ids, connIds, calls, history>>

\* The process ends and starts again: the registry is loaded from the rows,
\* which ends what overlapping connector operations did to it.
Restart ==
    /\ \E w \in Workers : op[w].pc # "idle"
    /\ op' = [w \in Workers |-> Idle]
    /\ reg' = IF conns = {} THEN 0 ELSE CHOOSE c \in conns : TRUE
    /\ garbled' = FALSE
    /\ UNCHANGED <<rows, conns, files, cursors, ids, connIds, calls, overlaps, bound, repaired, strayed>>

-----------------------------------------------------------------------------

Orders == {s \in [1..Cardinality(Keys) -> Keys] : \A m, n \in DOMAIN s : m # n => s[m] # s[n]}

Call(w) ==
    \/ \E n \in Names, k \in Keys \cup {None} : BeginCreate(w, n, k)
    \/ \E i \in Ids, k \in Keys \cup {None} : BeginUpdate(w, i, k)
    \/ \E i \in Ids : BeginDelete(w, i)
    \/ \E ref \in Ids \cup Names, full \in BOOLEAN : BeginSync(w, ref, full)
    \/ \E resources \in Orders, full \in BOOLEAN : BeginConnectorSync(w, resources, full)
    \/ BeginAdd(w)
    \/ BeginEdit(w)
    \/ BeginDrop(w)

Step(w) ==
    \/ CommitCreate(w)
    \/ CommitUpdate(w)
    \/ CommitDelete(w)
    \/ ReadContract(w)
    \/ StartSync(w)
    \/ WriteFile(w)
    \/ CommitSync(w)
    \/ CommitAdd(w)
    \/ CommitEdit(w)
    \/ CommitDrop(w)
    \/ UpdateRegistry(w)
    \/ Fail(w)

Next ==
    \/ \E w \in Workers : Call(w) \/ Step(w)
    \/ Restart

Spec == Init /\ [][Next]_vars

-----------------------------------------------------------------------------
(* Properties                                                              *)

Overlapped(kinds, others) == \E k \in kinds, l \in others : {k, l} \in overlaps

\* "Sync source keys must be unique per connector": no two datasets of a
\* connector have the same source, unless two operations that bind a source
\* overlapped, or a call that saves a whole row overlapped an update or a
\* deletion, whose effect it takes back, or a sync strayed: it binds its
\* dataset to the connector of the contract again.
KeysUnique ==
    \/ strayed
    \/ Overlapped({"create", "update"}, {"create", "update"})
    \/ Overlapped({"update", "sync"}, {"update", "delete"})
    \/ \A i, j \in Stored :
          i # j /\ rows[i].conn = rows[j].conn /\ rows[i].key # None => rows[i].key # rows[j].key

\* A dataset's connector is stored, unless its deletion overlapped an operation
\* that writes datasets or connectors, or a sync strayed.
ConnectorStored ==
    \/ strayed
    \/ Overlapped({"drop"}, {"create", "update", "sync", "edit"})
    \/ \A i \in Stored : rows[i].conn \in conns

\* While no call is in flight the registered connector is the stored one,
\* unless connector operations overlapped since the process started.
RegistryCurrent ==
    \/ \E w \in Workers : op[w].pc # "idle"
    \/ garbled
    \/ conns = IF reg = 0 THEN {} ELSE {reg}

\* Datasets, stored connectors and registered connectors agree.
ConnectorsAgree == ConnectorStored /\ RegistryCurrent

\* The data a dataset publishes is all of its source and nothing else, unless
\* a sync overlapped another write or strayed, or its name had another source
\* or its source another dataset before; a full refresh repairs the latter.
FileOfSource ==
    \/ strayed
    \/ Overlapped({"sync"}, {"update", "delete", "sync"})
    \/ \A i \in Stored :
         LET row  == rows[i]
             file == files[<<row.conn, row.name>>]
             alone == \A b \in bound :
                        b[1] = row.conn => (b[2] = row.name <=> b[3] = row.key)
         IN row.key # None /\ row.ready /\ (alone \/ i \in repaired) =>
               \A k \in Keys : file[k] = IF k = row.key THEN "all" ELSE "none"
=============================================================================
