---------------------------- MODULE VectorIndex ----------------------------
(***************************************************************************)
(* The vector index of one dimension of a semantic model: its metadata     *)
(* row, its FAISS files and the calls of SemanticVectorSearchService that  *)
(* refresh and search it.  A refresh deletes the files, creates an empty   *)
(* index and fills it; a search reads them in between.  The connector's    *)
(* lock belongs to one instance, and every call makes an instance of its   *)
(* own.  A session lists the row, lets go of it and merges what it listed  *)
(* over the row of a later moment.                                         *)
(*                                                                         *)
(* Data abstraction: the distinct values of the dimension are a generation *)
(* number, 0 when there are none.  A configuration of the dimension stands *)
(* for its store, index name and refresh interval; it names its files.     *)
(***************************************************************************)
EXTENDS Integers, FiniteSets

CONSTANTS
    Scheduled,   \* the background task's refresh, one execution at a time
    Direct,      \* refreshes called directly, with or without force
    Searches,    \* searches
    Configs,     \* configurations of the dimension, 0 for "not enabled"
    Periodic,    \* those with a refresh interval
    Stores,      \* "memory" or "sql": the metadata stores
    MaxGen,      \* bound: generations of the data
    MaxEvents    \* bound: changes of data and models, direct refreshes and faults

ASSUME ConfigsAssumption  == 0 \in Configs /\ Periodic \subseteq Configs \ {0}
ASSUME StoresAssumption   == Stores \subseteq {"memory", "sql"}
ASSUME CallersAssumption  == /\ Scheduled \cap Direct = {}
                             /\ Searches \cap (Scheduled \cup Direct) = {}
                             /\ IsFiniteSet(Scheduled \cup Direct \cup Searches)
ASSUME BoundsAssumption   == MaxGen \in Nat /\ MaxEvents \in Nat

VARIABLES
    store,    \* kind of metadata store
    model,    \* configuration of the dimension in the semantic model
    broken,   \* where the workspace lists a model that no refresh gets past
    data,     \* generation of the dimension's values
    row,      \* the SemanticVectorIndexMetadata, as others see it
    disk,     \* the files of every configuration
    call,     \* the calls in flight
    doubt,    \* files whose rebuilds overlapped, or ended without a commit
    events    \* changes, direct refreshes and faults so far

vars == <<store, model, broken, data, row, disk, call, doubt, events>>

Refreshes == Scheduled \cup Direct
Callers   == Refreshes \cup Searches
Sql       == store = "sql"

Status == {"PENDING", "REFRESHING", "READY", "FAILED"}

\* last: the generation of last_refreshed_at and indexed_value_count.
Never == -1
Unsaved == 0
NoRow == [id |-> Unsaved, cfg |-> 0, status |-> "PENDING", last |-> Never]
Rows  == [id : Nat, cfg : Configs, status : Status, last : Nat \cup {Never}]

\* Content of a file: a generation, or 0 for an index without vectors.
NoFile == -1
Torn   == -2
NoFiles == [index |-> NoFile, meta |-> NoFile]

\* "before" this model, which may be this one, "after" it, or nowhere.
Places == {"before", "after", "nowhere"}

Idle == [pc |-> "idle", cfg |-> 0, base |-> NoRow, mine |-> NoRow, gen |-> 0,
         index |-> NoFile, cut |-> FALSE]

Writing == {"createIndex", "createMeta", "upsertIndex", "upsertMeta"}

\* Phases in which the files no longer hold what the stored row says.
Rebuilt == Writing \cup {"ready", "commit"}

TypeOK ==
    /\ store \in Stores /\ model \in Configs /\ broken \in Places /\ data \in Nat
    /\ row \in Rows
    /\ disk \in [Configs \ {0} -> [index : Int, meta : Int]]
    /\ call \in [Callers -> [pc : Rebuilt \cup {"idle", "list", "drop", "fetch", "reset",
                                             "open", "meta", "save"},
                             cfg : Configs, base : Rows, mine : Rows, gen : Nat,
                             index : Int, cut : BOOLEAN]]
    /\ doubt \subseteq Configs
    /\ events \in Nat

Init ==
    /\ store \in Stores
    /\ model \in Configs
    /\ IF Sql THEN broken = "nowhere" ELSE broken \in Places
    /\ data = 1
    /\ row = NoRow
    /\ disk = [c \in Configs \ {0} |-> NoFiles]
    /\ call = [c \in Callers |-> Idle]
    /\ doubt = {}
    /\ events = 0

Outside == UNCHANGED <<store, model, broken, data>>
Event   == events < MaxEvents /\ events' = events + 1

-----------------------------------------------------------------------------
(* The world around: data and semantic model                               *)

\* A dataset behind the dimension changes.
Change(gen) ==
    /\ gen # data
    /\ data' = gen
    /\ Event
    /\ UNCHANGED <<store, model, broken, row, disk, call, doubt>>

\* update_semantic_model, which needs a persisted store.
Edit(cfg) ==
    /\ Sql
    /\ cfg # model
    /\ model' = cfg
    /\ Event
    /\ UNCHANGED <<store, broken, data, row, disk, call, doubt>>

\* A model of the workspace is created, changed or repaired.
Spoil(place) ==
    /\ Sql
    /\ place # broken
    /\ broken' = place
    /\ Event
    /\ UNCHANGED <<store, model, data, row, disk, call, doubt>>

-----------------------------------------------------------------------------
(* The metadata row                                                        *)

\* A new identifier, which the model gives to a row when it is inserted.
NewId ==
    CHOOSE i \in 1 .. Cardinality(Callers) + 2 :
        /\ i # row.id
        /\ \A c \in Callers : i \notin {call[c].base.id, call[c].mine.id}

\* _build_index_metadata: a changed configuration starts over.
BuildIndexMetadata(prior, cfg) ==
    IF prior = NoRow
    THEN [id |-> Unsaved, cfg |-> cfg, status |-> "PENDING", last |-> Never]
    ELSE IF prior.cfg # cfg
    THEN [prior EXCEPT !.cfg = cfg, !.status = "PENDING", !.last = Never]
    ELSE prior

\* Mutant of ShouldRefresh: an index that is being refreshed is left alone.
ShouldRefreshSettled(r) ==
    r.status # "REFRESHING" /\ (r.last = Never \/ r.cfg \in Periodic)

\* _should_refresh, where the interval may have passed at any time.
ShouldRefresh(r) == r.last = Never \/ r.cfg \in Periodic

\* _list_ready_indexes
ListReady(r) == r.status = "READY" /\ r.last > 0

\* store.save: the in-memory store shows it at once, a session at its commit.
Saved(r) == row' = IF Sql THEN row ELSE r

\* Where a call goes when its work is done.
Done == IF Sql THEN "commit" ELSE "idle"

\* A call becomes n; one that ends forgets everything.
Becomes(c, n) == call' = [call EXCEPT ![c] = IF n.pc = "idle" THEN Idle ELSE n]

-----------------------------------------------------------------------------
(* Begin: load the model, _sync_model_indexes                              *)

\* refresh_workspace takes one model after the other in one unit of work, and
\* the first that cannot be loaded, synced or planned ends it.  The scheduled
\* refresh is of the whole workspace, a direct one of this model.
Reaches(c) == c \in Scheduled => broken # "before"

Counts(c) == IF c \in Direct THEN Event ELSE UNCHANGED events

\* The dimension is not enabled any more: its index is deleted.
BeginDrop(c) ==
    /\ call[c].pc = "idle"
    /\ model = 0 /\ row # NoRow
    /\ Reaches(c)
    /\ Becomes(c, [Idle EXCEPT !.pc = "drop", !.cfg = row.cfg, !.base = row, !.mine = row])
    /\ UNCHANGED <<row, disk, doubt, events>> /\ Outside

\* The call returns and leaves everything as it was.
BeginNothing(c) ==
    /\ call[c].pc = "idle"
    /\ ~Reaches(c) \/ (model = 0 /\ row = NoRow)
    /\ UNCHANGED vars

\* A refresh is ended by the workflow of this model: in memory what it had
\* saved of the row stays.
BeginStopped(c) ==
    /\ c \in Refreshes
    /\ call[c].pc = "idle"
    /\ model # 0 /\ ~Sql
    /\ row' = BuildIndexMetadata(row, model)
    /\ Becomes(c, Idle)
    /\ IF Reaches(c) THEN Event ELSE UNCHANGED events
    /\ UNCHANGED <<disk, doubt>> /\ Outside

\* list_for_workspace of a session, and the candidate that is made of the row.
List(c) ==
    /\ call[c].pc = "idle"
    /\ model # 0 /\ Sql
    /\ Reaches(c)
    /\ Becomes(c, [Idle EXCEPT !.pc = "list", !.cfg = model,
                               !.mine = BuildIndexMetadata(row, model)])
    /\ Counts(c)
    /\ UNCHANGED <<row, disk, doubt>> /\ Outside

\* The candidate is saved: in memory by the step that lists the row.
Saves(c)     == IF Sql THEN call[c].pc = "list" ELSE call[c].pc = "idle" /\ model # 0 /\ Reaches(c)
Candidate(c) == IF Sql THEN call[c].mine ELSE BuildIndexMetadata(row, model)

\* session.merge selects the row again and copies every column of r over it.
MergedOver(r) == IF Sql /\ row.id = r.id THEN row ELSE NoRow

\* Where a call goes that has not touched the files, once it is done.
Settled(base, mine) == IF Sql /\ mine # base THEN "save" ELSE "idle"

\* c has merged r and goes on in phase pc; one that has changed nothing has
\* nothing to commit.
Merge(c, pc, r) ==
    LET base == MergedOver(r) IN
    /\ Becomes(c, IF pc = "fetch" \/ Settled(base, r) = "save"
                  THEN [Idle EXCEPT !.pc = pc, !.cfg = r.cfg, !.base = base, !.mine = r]
                  ELSE [Idle EXCEPT !.pc = pc, !.cfg = r.cfg])
    /\ Saved(r)

\* refresh_workspace, from the save of the candidate to its first long wait.
BeginRefresh(c, force) ==
    /\ c \in Refreshes
    /\ Saves(c)
    /\ force => c \in Direct
    /\ LET r == Candidate(c) IN
       IF force \/ ShouldRefresh(r)
       THEN Merge(c, "fetch", [r EXCEPT !.status = "REFRESHING"])
       ELSE Merge(c, Settled(MergedOver(r), r), r)
    /\ IF Sql THEN UNCHANGED events ELSE Counts(c)
    /\ UNCHANGED <<disk, doubt>> /\ Outside

\* search, from the save of the candidate to the embedding of its queries.
BeginSearch(c) ==
    /\ c \in Searches
    /\ Saves(c)
    /\ LET r == Candidate(c) IN
       Merge(c, IF ListReady(r) THEN "open" ELSE Settled(MergedOver(r), r), r)
    /\ UNCHANGED <<disk, doubt, events>> /\ Outside

-----------------------------------------------------------------------------
(* The files                                                               *)

IsTorn(cfg) == Torn \in {disk[cfg].index, disk[cfg].meta}

\* A refresh that has changed the files and has not yet told the store.
Holds(c) == call[c].pc \in Writing \cup {"ready"} \/ (call[c].pc = "commit" /\ c \in Refreshes)

\* Another call is rebuilding the same files.
Crowded(c) == \E o \in Callers \ {c} : call[o].cfg = call[c].cfg /\ Holds(o)

Doubtful(c, reason) == IF reason THEN {call[c].cfg} ELSE {}

\* _delete_index_metadata: delete_index, whose failure is ignored, and the row.
Drop(c) ==
    /\ call[c].pc = "drop"
    /\ disk' = IF IsTorn(call[c].cfg) THEN disk ELSE [disk EXCEPT ![call[c].cfg] = NoFiles]
    /\ doubt' = doubt \cup Doubtful(c, Crowded(c))
    /\ Becomes(c, [call[c] EXCEPT !.pc = "commit", !.mine = NoRow])
    /\ UNCHANGED <<row, events>> /\ Outside

\* _fetch_distinct_values, and the embeddings of what it returned.
Fetch(c) ==
    /\ call[c].pc = "fetch"
    /\ Becomes(c, [call[c] EXCEPT !.pc = "reset", !.gen = data])
    /\ UNCHANGED <<row, disk, doubt, events>> /\ Outside

Deleted(cfg) == [disk EXCEPT ![cfg] = NoFiles]

\* Mutant of Failed: the status is put back to what it was before the refresh.
FailedUnmarked(c) ==
    LET r == [call[c].mine EXCEPT !.status = IF @ = "REFRESHING" /\ call[c].mine.last # Never
                                             THEN "READY" ELSE "FAILED"] IN
    /\ Becomes(c, [call[c] EXCEPT !.pc = Done, !.mine = r, !.gen = 0])
    /\ Saved(r)

\* The except branch of _refresh_dimension_index.
Failed(c) ==
    LET r == [call[c].mine EXCEPT !.status = "FAILED"] IN
    /\ Becomes(c, [call[c] EXCEPT !.pc = Done, !.mine = r, !.gen = 0])
    /\ Saved(r)

\* The row as c has left it.
Known(c) == IF Sql THEN call[c].base ELSE call[c].mine

\* Mutant of Reset: the values are written over those that are there.
ResetUpserts(c) ==
    /\ call[c].pc = "reset"
    /\ Becomes(c, [call[c] EXCEPT !.pc = IF call[c].gen = 0 THEN "ready" ELSE "upsertIndex"])
    /\ UNCHANGED <<row, disk, doubt, events>> /\ Outside

\* _reset_vector_store, its delete_index: loads the files and unlinks them.
\* A file that cannot be loaded is not deleted, and create_index fails on it.
Reset(c) ==
    /\ call[c].pc = "reset"
    /\ IF ~IsTorn(call[c].cfg)
       THEN /\ disk' = Deleted(call[c].cfg)
            /\ doubt' = (doubt \ {call[c].cfg})
                        \cup Doubtful(c, Crowded(c) \/ row # Known(c))
            /\ Becomes(c, [call[c] EXCEPT !.pc = IF call[c].gen = 0 THEN "ready" ELSE "createIndex"])
            /\ UNCHANGED row
       ELSE /\ UNCHANGED <<disk, doubt>>
            /\ IF call[c].gen = 0
               THEN Becomes(c, [call[c] EXCEPT !.pc = "ready"]) /\ UNCHANGED row
               ELSE Failed(c)
    /\ UNCHANGED events /\ Outside

\* What comes after a write; a cancelled call's thread ends with its file pair.
AfterWrite(c) ==
    CASE call[c].pc = "createIndex" -> "createMeta"
      [] call[c].pc = "createMeta"  -> IF call[c].cut THEN "idle" ELSE "upsertIndex"
      [] call[c].pc = "upsertIndex" -> "upsertMeta"
      [] call[c].pc = "upsertMeta"  -> IF call[c].cut THEN "idle" ELSE "ready"

\* _persist_state_sync of create_index, then of upsert_vectors: a thread that
\* writes the index and after it the values.
Write(c) ==
    LET cfg  == call[c].cfg
        rows == IF call[c].pc \in {"createIndex", "createMeta"} THEN 0 ELSE call[c].gen
    IN /\ call[c].pc \in Writing
       /\ disk' = IF call[c].pc \in {"createIndex", "upsertIndex"}
                  THEN [disk EXCEPT ![cfg].index = rows]
                  ELSE [disk EXCEPT ![cfg].meta = rows]
       /\ doubt' = doubt \cup Doubtful(c, Crowded(c) \/ (Sql /\ call[c].cut))
       /\ Becomes(c, [call[c] EXCEPT !.pc = AfterWrite(c)])
       /\ UNCHANGED <<row, events>> /\ Outside

\* The index is saved as READY.
SaveReady(c) ==
    /\ call[c].pc = "ready"
    /\ LET r == [call[c].mine EXCEPT !.status = "READY", !.last = call[c].gen] IN
       /\ Becomes(c, [call[c] EXCEPT !.pc = Done, !.mine = r, !.gen = 0])
       /\ Saved(r)
    /\ UNCHANGED <<disk, doubt, events>> /\ Outside

\* _load_state of a search, first the index, then the values.
OpenIndex(c) ==
    /\ call[c].pc = "open"
    /\ LET i == disk[call[c].cfg].index IN
       Becomes(c, [call[c] EXCEPT !.pc = IF i # Torn THEN "meta"
                                         ELSE Settled(call[c].base, call[c].mine),
                                  !.index = IF i # Torn THEN i ELSE NoFile])
    /\ UNCHANGED <<row, disk, doubt, events>> /\ Outside

\* vector_store.search: the vectors that were loaded are looked up in the
\* values loaded after them; without either nothing is found.
Hit(c) ==
    /\ call[c].pc = "meta"
    /\ call[c].index > 0 /\ disk[call[c].cfg].meta > 0

Search(c) ==
    /\ call[c].pc = "meta"
    /\ Becomes(c, [call[c] EXCEPT !.pc = Settled(call[c].base, call[c].mine), !.index = NoFile])
    /\ UNCHANGED <<row, disk, doubt, events>> /\ Outside

-----------------------------------------------------------------------------
(* The end of a call                                                       *)

\* The UPDATE sets the columns that the session changed.
Updated(base, mine) ==
    [row EXCEPT !.cfg    = IF mine.cfg # base.cfg THEN mine.cfg ELSE @,
                !.status = IF mine.status # base.status THEN mine.status ELSE @,
                !.last   = IF mine.last # base.last THEN mine.last ELSE @]

\* An INSERT meets another call's row (unique dimension), an UPDATE no row.
Conflict(base, mine) ==
    \/ base = NoRow /\ row # NoRow
    \/ base # NoRow /\ mine # NoRow /\ row.id # base.id

\* The session of c ends without a commit: what it did to the files stays.
Abandoned(c) ==
    Sql /\ (Holds(c) \/ (call[c].pc = "commit" /\ call[c].mine = NoRow))

\* A call that has rebuilt nothing stores as READY what it had listed before
\* another call's commit.
Overwrites(c) == call[c].pc = "save" /\ ListReady(call[c].mine)

\* A model that comes after this one ends the refresh before its commit.
EndsEarly(c) == c \in Scheduled /\ broken = "after"

Commit(c) ==
    LET base == call[c].base
        mine == call[c].mine
    IN /\ call[c].pc \in {"commit", "save"}
       /\ ~EndsEarly(c)
       /\ row' = IF Conflict(base, mine) THEN row
                 ELSE IF mine = NoRow THEN (IF row.id = base.id THEN NoRow ELSE row)
                 ELSE IF base = NoRow THEN [mine EXCEPT !.id = NewId]
                 ELSE Updated(base, mine)
       /\ doubt' = IF mine # base /\ (row # base \/ Overwrites(c))
                   THEN doubt \cup {row'.cfg} ELSE doubt
       /\ Becomes(c, Idle)
       /\ UNCHANGED <<disk, events>> /\ Outside

RollBack(c) ==
    /\ doubt' = doubt \cup Doubtful(c, Abandoned(c))
    /\ Becomes(c, Idle)
    /\ UNCHANGED <<row, disk>> /\ Outside

Abort(c) ==
    /\ call[c].pc \in {"commit", "save"}
    /\ EndsEarly(c)
    /\ RollBack(c)
    /\ UNCHANGED events

\* The query, the embedding or the vector store raises inside a refresh.
Fail(c) ==
    /\ c \in Refreshes
    /\ call[c].pc \in {"fetch", "reset", "createIndex", "upsertIndex"}
    /\ Event
    /\ Failed(c)
    /\ UNCHANGED <<disk, doubt>> /\ Outside

\* stop() cancels a refresh.  A thread that writes files runs on.
Cancel(c) ==
    /\ c \in Scheduled
    /\ call[c].pc \in {"list", "fetch", "reset", "commit", "save"} \cup Writing /\ ~call[c].cut
    /\ Event
    /\ Becomes(c, IF call[c].pc \in Writing THEN [call[c] EXCEPT !.cut = TRUE] ELSE Idle)
    /\ doubt' = doubt \cup Doubtful(c, Abandoned(c))
    /\ UNCHANGED <<row, disk>> /\ Outside

\* A call raises before it touches the files, or its commit does.
Raise(c) ==
    /\ call[c].pc \in {"list", "open", "commit", "save"}
    /\ Event
    /\ RollBack(c)

\* The process dies; a file that is being written may be torn.
Crash ==
    /\ Event
    /\ \/ UNCHANGED disk
       \/ \E c \in Callers :
            /\ call[c].pc \in Writing
            /\ disk' = IF call[c].pc \in {"createIndex", "upsertIndex"}
                       THEN [disk EXCEPT ![call[c].cfg].index = Torn]
                       ELSE [disk EXCEPT ![call[c].cfg].meta = Torn]
    /\ row' = IF Sql THEN row ELSE NoRow
    /\ doubt' = doubt \cup {call[c].cfg : c \in {o \in Callers : Abandoned(o)}}
    /\ call' = [c \in Callers |-> Idle]
    /\ Outside

-----------------------------------------------------------------------------

\* A step of a refresh that has begun.
Step(c) ==
    \/ call[c].pc = "list" /\ BeginRefresh(c, FALSE)
    \/ Drop(c) \/ Fetch(c) \/ Reset(c) \/ Write(c) \/ SaveReady(c)
    \/ Commit(c) \/ Abort(c)

Next ==
    \/ \E gen \in 0 .. MaxGen : Change(gen)
    \/ \E cfg \in Configs : Edit(cfg)
    \/ \E place \in Places : Spoil(place)
    \/ \E c \in Callers : BeginDrop(c)
    \/ \E c \in Callers : BeginNothing(c)
    \/ \E c \in Callers : BeginStopped(c)
    \/ \E c \in Callers : List(c)
    \/ \E c \in Callers, force \in BOOLEAN : BeginRefresh(c, force)
    \/ \E c \in Callers : BeginSearch(c)
    \/ \E c \in Callers : Drop(c)
    \/ \E c \in Callers : Fetch(c)
    \/ \E c \in Callers : Reset(c)
    \/ \E c \in Callers : Write(c)
    \/ \E c \in Callers : SaveReady(c)
    \/ \E c \in Callers : OpenIndex(c)
    \/ \E c \in Callers : Search(c)
    \/ \E c \in Callers : Commit(c)
    \/ \E c \in Callers : Abort(c)
    \/ \E c \in Callers : Fail(c)
    \/ \E c \in Callers : Cancel(c)
    \/ \E c \in Callers : Raise(c)
    \/ Crash

\* The task runs every minute, finds intervals that have passed, and what it
\* has begun is driven by the event loop.  The calls of others may take as long
\* as they like, but for their commits.
Fairness ==
    /\ \A c \in Scheduled : WF_vars(Step(c)) /\ WF_vars(List(c) \/ BeginRefresh(c, FALSE))
    /\ \A c \in Callers \ Scheduled : WF_vars(Commit(c))

Spec == Init /\ [][Next]_vars /\ Fairness

-----------------------------------------------------------------------------
(* Properties                                                              *)

\* A hit names the value whose vector was found: index and values come from
\* one refresh, whatever refreshes failed, were cancelled or died before, unless
\* the index was rebuilt between the two reads or two rebuilds overlapped.
HitsTrue ==
    [][\A c \in Searches :
          Hit(c) /\ call'[c].pc # "meta" =>
             LET f == disk[call[c].cfg] IN
             call[c].index = f.meta \/ call[c].index # f.index \/ call[c].cfg \in doubt]_vars

\* The files of an index that is stored as READY hold exactly the values of its
\* last refresh, unless a refresh is under way, rebuilds overlapped, a session
\* that had rebuilt the files ended without its commit, or a call that rebuilt
\* nothing stored the READY it had listed over what was committed since.
ReadyIsComplete ==
    \/ ~ListReady(row) \/ row.cfg \in doubt
    \/ \E c \in Callers : call[c].cfg = row.cfg /\ call[c].pc \in Rebuilt
    \/ disk[row.cfg] = [index |-> row.last, meta |-> row.last]

\* The index shows the current values.
Searchable ==
    IF data = 0 THEN row.last = 0
    ELSE /\ ListReady(row) /\ row.cfg = model /\ row.last = data
         /\ disk[model] = [index |-> data, meta |-> data]

\* An index with an interval shows the current values again and again, whatever
\* went wrong before, and one without is built at least once, unless a crash has
\* torn its files, some model of the workspace ends every refresh, or calls keep
\* saving what they had listed before another one's commit.
StaysFresh ==
    []<>(/\ model # 0 /\ broken = "nowhere" /\ ~IsTorn(model)
         /\ \A c \in Callers : call[c].pc # "save"
         =>
            IF model \in Periodic THEN Searchable ELSE row.last # Never)
=============================================================================
