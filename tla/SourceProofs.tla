---------------------------- MODULE SourceProofs ----------------------------
(***************************************************************************)
(* What is kept of a source agrees with it, for any number of callers,     *)
(* records and configurations: the vectors of a dimension that is stored   *)
(* as READY are those of its last refresh, and a search never puts the     *)
(* name of one value to the vector of another (VectorIndex); a sync of an  *)
(* API resource has no record missing behind its cursor (ApiPaging); and   *)
(* merging rows into a dataset's file keeps each row's version (RowMerge). *)
(***************************************************************************)
EXTENDS VectorIndex, ApiPaging, RowMerge, SequenceLemmas, SequenceTheorems, FiniteSetTheorems,
        WellFoundedInduction, TLAPS

-----------------------------------------------------------------------------
(* The vector index: the inductive invariant                               *)

Phases == Rebuilt \cup {"idle", "list", "drop", "fetch", "reset", "open", "meta", "save"}

IsRow(r) == r \in Rows /\ (r = NoRow \/ r.cfg # 0)

\* A row that has been inserted.
IsStored(r) == r = NoRow \/ r.id # Unsaved

\* A session that has loaded a row keeps its id.
IsCall(k) ==
    /\ k \in [pc : Phases, cfg : Configs, base : Rows, mine : Rows, gen : Nat, index : Int, cut : BOOLEAN]
    /\ IsRow(k.base) /\ IsRow(k.mine) /\ IsStored(k.base)
    /\ k.base = NoRow \/ k.mine = NoRow \/ k.base.id = k.mine.id

Typed ==
    /\ store \in {"memory", "sql"} /\ model \in Configs /\ data \in Nat
    /\ IsRow(row) /\ (Sql => IsStored(row))
    /\ disk \in [Configs \ {0} -> [index : Int, meta : Int]]
    /\ DOMAIN call = Callers
    /\ ~Sql /\ row # NoRow => model # 0

\* What a call is about in each of its phases.
Fits(c) ==
    LET k == call[c] IN
    /\ IsCall(k)
    /\ k.pc # "idle" => k.cfg # 0 /\ (Sql \/ model # 0)
    /\ Sql \/ k.base = NoRow
    /\ k.pc \in Writing \cup {"fetch", "reset", "ready"} =>
          c \in Refreshes /\ k.mine.cfg = k.cfg /\ k.mine.status = "REFRESHING"
    /\ k.pc \in Writing => k.gen > 0
    /\ k.pc \in {"list", "drop", "commit", "save"} => Sql
    /\ k.pc \in {"list", "save"} => k.mine # NoRow
    /\ k.pc = "drop" => k.base # NoRow
    /\ k.pc \in {"open", "meta"} => c \in Searches /\ (k.mine = NoRow => k.base = NoRow)
    /\ k.pc = "commit" =>
          \/ k.mine = NoRow /\ k.base # NoRow
          \/ c \in Refreshes /\ k.mine.cfg = k.cfg /\ k.mine.status \in {"READY", "FAILED"}

\* A call that has filled the files, or is about to.
Fills(c) ==
    LET k == call[c] IN
    \/ k.pc \in Writing
    \/ k.pc = "ready" /\ k.gen > 0
    \/ k.pc = "commit" /\ c \in Refreshes /\ k.mine.status = "READY" /\ k.mine.last > 0

Holding(gen) == [index |-> gen, meta |-> gen]

\* How far it has come, unless rebuilds of these files have overlapped.
Contents(c) ==
    LET k == call[c]
        f == disk[k.cfg]
    IN k.cfg \notin doubt =>
          /\ k.pc = "upsertIndex" => f.meta = 0
          /\ k.pc = "upsertMeta" => f.index = k.gen
          /\ k.pc = "ready" /\ k.gen > 0 => f = Holding(k.gen)
          /\ k.pc = "commit" /\ Fills(c) => f = Holding(k.mine.last)

\* It is the only one.
Alone(c) ==
    Fills(c) => \A o \in Callers \ {c} :
        Fills(o) /\ call[o].cfg = call[c].cfg => call[c].cfg \in doubt

\* The row that is stored as READY is the one it has loaded.
Abreast(c) ==
    Fills(c) /\ call[c].cfg \notin doubt /\ ListReady(row) /\ row.cfg = call[c].cfg
        => call[c].base = row

\* A call that answers for files which differ from the row.
Answers(c) ==
    LET k == call[c] IN
    /\ k.cfg = row.cfg
    /\ \/ k.base = row /\ (k.pc \in Writing \cup {"ready"} \/ (k.pc = "commit" /\ c \in Refreshes))
       \/ k.pc = "commit" /\ k.mine = NoRow /\ k.base # NoRow

Complete ==
    ListReady(row) /\ row.cfg \notin doubt =>
        disk[row.cfg] = Holding(row.last) \/ \E c \in Callers : Answers(c)

\* The two files of an index never hold values of different refreshes.
FilesAgree ==
    \A f \in Configs \ {0} :
        disk[f].index > 0 /\ disk[f].meta > 0 /\ f \notin doubt => disk[f].index = disk[f].meta

CallInv(c) == Fits(c) /\ Contents(c) /\ Alone(c) /\ Abreast(c)

VectorInv == Typed /\ (\A c \in Callers : CallInv(c)) /\ Complete /\ FilesAgree

-----------------------------------------------------------------------------
(* One caller takes a step                                                 *)

LEMMA Becoming ==
    ASSUME DOMAIN call = Callers, NEW c \in Callers, NEW n, Becomes(c, n)
    PROVE  /\ DOMAIN call' = Callers
           /\ call'[c] = IF n.pc = "idle" THEN Idle ELSE n
           /\ \A o \in Callers \ {c} : call'[o] = call[o]
BY DEF Becomes

LEMMA FillsHolds == ASSUME NEW c, Fills(c) PROVE Holds(c)
BY DEF Fills, Holds

\* What a step of c has to show: about the files and the doubt of K alone,
\* about its own call, and about a row that it stores.
LEMMA CallerStep ==
    ASSUME VectorInv, NEW c \in Callers, NEW n, Becomes(c, n), Outside, NEW K \in Configs,
           disk' \in [Configs \ {0} -> [index : Int, meta : Int]],
           IsRow(row'), Sql => row' = row \/ IsStored(row'), ~Sql /\ row' # NoRow => model # 0,
           \A f \in Configs \ {0, K} : disk'[f] = disk[f],
           \A f \in doubt : f # K => f \in doubt',
           K \notin doubt' =>
               \/ K \notin doubt /\ (K # 0 => disk'[K] = disk[K])
               \/ \A o \in Callers \ {c} : call[o].cfg = K => ~Holds(o),
           Fits(c)', Contents(c)', Abreast(c)',
           Fills(c)' =>
               \/ call'[c].cfg \in doubt'
               \/ Fills(c) /\ call[c].cfg = call'[c].cfg
               \/ \A o \in Callers \ {c} : call[o].cfg = call'[c].cfg => ~Holds(o),
           \/ row' = row \/ ~ListReady(row') \/ row'.cfg \in doubt'
           \/ /\ disk'[row'.cfg] = Holding(row'.last)
              /\ \A o \in Callers \ {c} : Fills(o) /\ call[o].cfg = row'.cfg => row'.cfg \in doubt',
           row' = row /\ ListReady(row) /\ row.cfg \notin doubt' =>
               \/ disk'[row.cfg] = Holding(row.last)
               \/ Answers(c)'
               \/ disk'[row.cfg] = disk[row.cfg] /\ row.cfg \notin doubt /\ ~Answers(c)
               \/ \E o \in Callers \ {c} : Answers(o),
           K # 0 /\ K \notin doubt' =>
               (disk'[K].index > 0 /\ disk'[K].meta > 0 => disk'[K].index = disk'[K].meta)
    PROVE  VectorInv'
<1>1. /\ DOMAIN call' = Callers
      /\ \A o \in Callers \ {c} : call'[o] = call[o]
  BY Becoming DEF VectorInv, Typed
<1>2. UNCHANGED <<store, model, data>> /\ (Sql <=> Sql')
  BY DEF Outside, Sql
<1>3. Typed'
  BY <1>1, <1>2 DEF VectorInv, Typed
<1>4. ASSUME NEW o \in Callers \ {c}, Holds(o)
      PROVE  /\ call[o].cfg \in Configs \ {0}
             /\ call[o].cfg \in doubt => call[o].cfg \in doubt'
             /\ call[o].cfg \notin doubt' => disk'[call[o].cfg] = disk[call[o].cfg]
  <2>1. call[o].cfg \in Configs \ {0}
    BY <1>4 DEF VectorInv, CallInv, Fits, IsCall, Holds, Writing
  <2>2. CASE call[o].cfg # K
    BY <2>1, <2>2
  <2>3. CASE call[o].cfg = K
    BY <1>4, <2>1, <2>3
  <2> QED BY <2>1, <2>2, <2>3
<1>5. \A o \in Callers \ {c} : (Fills(o)' <=> Fills(o)) /\ (Answers(o) /\ row' = row => Answers(o)')
  BY <1>1 DEF Fills, Answers
<1>6. ASSUME NEW o \in Callers \ {c}
      PROVE  Fits(o)'
  <2>1. Fits(o)
    BY DEF VectorInv, CallInv
  <2> QED BY <1>1, <1>2, <2>1 DEF Fits
<1>7. ASSUME NEW o \in Callers \ {c}
      PROVE  Contents(o)'
  <2>1. SUFFICES ASSUME call[o].cfg \notin doubt', Holds(o)
                 PROVE  Contents(o)'
    BY <1>1, <1>5 DEF Contents, Holds, Writing, Fills
  <2>2. call[o].cfg \notin doubt /\ disk'[call[o].cfg] = disk[call[o].cfg]
    BY <1>4, <2>1
  <2>3. Contents(o)
    BY DEF VectorInv, CallInv
  <2> QED BY <1>1, <1>5, <2>1, <2>2, <2>3 DEF Contents
<1>8. ASSUME NEW o \in Callers \ {c}, Fills(o), Fills(c)', call[o].cfg = call'[c].cfg
      PROVE  call[o].cfg \in doubt'
  <2>1. Holds(o)
    BY <1>8, FillsHolds
  <2>2. CASE Fills(c) /\ call[c].cfg = call'[c].cfg
    <3>1. Alone(c)
      BY DEF VectorInv, CallInv
    <3>2. call[o].cfg \in doubt
      BY <1>8, <2>2, <3>1 DEF Alone
    <3> QED BY <1>4, <2>1, <3>2
  <2> QED BY <1>8, <2>1, <2>2
<1>9. ASSUME NEW o \in Callers
      PROVE  Alone(o)'
  <2>1. SUFFICES ASSUME Fills(o)', NEW p \in Callers \ {o}, Fills(p)', call'[p].cfg = call'[o].cfg
                 PROVE  call'[o].cfg \in doubt'
    BY DEF Alone
  <2>2. CASE o = c
    BY <1>1, <1>5, <1>8, <2>1, <2>2
  <2>3. CASE p = c
    BY <1>1, <1>5, <1>8, <2>1, <2>3
  <2>4. CASE o # c /\ p # c
    <3>1. Fills(o) /\ Fills(p) /\ call[p].cfg = call[o].cfg /\ call'[o] = call[o]
      BY <1>1, <1>5, <2>1, <2>4
    <3>2. call[o].cfg \in doubt
      <4>1. Alone(o)
        BY DEF VectorInv, CallInv
      <4> QED BY <2>1, <3>1, <4>1 DEF Alone
    <3> QED BY <1>4, <2>4, <3>1, <3>2, FillsHolds
  <2> QED BY <2>2, <2>3, <2>4
<1>10. ASSUME NEW o \in Callers \ {c}
       PROVE  Abreast(o)'
  <2>1. SUFFICES ASSUME Fills(o), call[o].cfg \notin doubt', ListReady(row'), row'.cfg = call[o].cfg
                 PROVE  call[o].base = row'
    BY <1>1, <1>5 DEF Abreast
  <2>2. row' = row
    BY <2>1
  <2>3. call[o].cfg \notin doubt
    BY <1>4, <2>1, FillsHolds
  <2>4. Abreast(o)
    BY DEF VectorInv, CallInv
  <2> QED BY <2>1, <2>2, <2>3, <2>4 DEF Abreast
<1>11. Complete'
  <2>1. SUFFICES ASSUME ListReady(row'), row'.cfg \notin doubt'
                 PROVE  disk'[row'.cfg] = Holding(row'.last) \/ \E o \in Callers : Answers(o)'
    BY DEF Complete
  <2>2. CASE disk'[row'.cfg] = Holding(row'.last)
    BY <2>2
  <2>3. CASE row' = row
    <3>1. CASE disk'[row.cfg] = disk[row.cfg] /\ row.cfg \notin doubt /\ ~Answers(c)
      <4>1. disk[row.cfg] = Holding(row.last) \/ \E o \in Callers : Answers(o)
        BY <2>1, <2>3, <3>1 DEF VectorInv, Complete
      <4> QED BY <1>5, <2>3, <3>1, <4>1
    <3> QED BY <1>5, <2>1, <2>2, <2>3, <3>1
  <2> QED BY <2>1, <2>2, <2>3
<1>12. FilesAgree'
  BY DEF FilesAgree, VectorInv
<1> QED BY <1>3, <1>6, <1>7, <1>9, <1>10, <1>11, <1>12 DEF VectorInv, CallInv

\* A step that leaves the files alone, and does not make c one that fills them.
LEMMA QuietStep ==
    ASSUME VectorInv, NEW c \in Callers, NEW n, Becomes(c, n), Outside, UNCHANGED <<disk, doubt>>,
           Sql => row' = row, row' = row \/ ~ListReady(row'), IsRow(row'), ~Sql /\ row' # NoRow => model # 0,
           Fits(c)', ~Fills(c)',
           row' = row /\ ListReady(row) => ~Answers(c) \/ Answers(c)'
    PROVE  VectorInv'
<1>1. 0 \in Configs
  BY ConfigsAssumption
<1>2. Contents(c)' /\ Abreast(c)'
  BY DEF Contents, Abreast, Fills, Writing
<1>3. disk \in [Configs \ {0} -> [index : Int, meta : Int]]
  BY DEF VectorInv, Typed
<1> QED BY <1>1, <1>2, <1>3, CallerStep

\* Nothing of a row is missing.
LEMMA RowsTyped ==
    /\ IsRow(NoRow) /\ IsStored(NoRow) /\ IsCall(Idle) /\ Idle.pc = "idle"
    /\ Writing \subseteq Rebuilt
BY ConfigsAssumption DEF IsRow, IsStored, Unsaved, IsCall, Rows, Phases, NoRow, NoFile, Idle, Status, Never, Rebuilt, Writing

\* An idle call fits.
LEMMA IdleFits ==
    ASSUME NEW c \in Callers, call'[c] = Idle
    PROVE  Fits(c)' /\ ~Fills(c)'
<1>1. IsCall(Idle)
  BY RowsTyped
<1> QED BY <1>1 DEF Fits, Fills, Idle, Writing

\* There is an identifier that neither the row nor a call uses.
LEMMA UnusedId ==
    ASSUME VectorInv
    PROVE  NewId \in Nat \ {0}
<1>1. IsFiniteSet(Callers) /\ Cardinality(Callers) \in Nat
  BY CallersAssumption, FS_CardinalityType DEF Callers, Refreshes
<1>2. PICK n \in Nat : n = Cardinality(Callers)
  BY <1>1
<1>3. PICK used : used = [c \in Callers |-> {call[c].base.id, call[c].mine.id}]
  OBVIOUS
<1>4. ASSUME NEW c \in Callers, NEW i \in used[c] \ {0}, NEW j \in used[c] \ {0}
      PROVE  i = j
  <2>1. IsCall(call[c])
    BY DEF VectorInv, CallInv, Fits
  <2> QED BY <1>3, <1>4, <2>1 DEF IsCall, NoRow, Unsaved
<1>5. \E i \in 1 .. n + 2 : i # row.id /\ \A c \in Callers : i \notin used[c]
  <2>1. SUFFICES ASSUME \A i \in 1 .. n + 2 : i = row.id \/ \E c \in Callers : i \in used[c]
                 PROVE  FALSE
    OBVIOUS
  <2> DEFINE S == (1 .. n + 2) \ {row.id}
             f == [i \in S |-> CHOOSE c \in Callers : i \in used[c]]
  <2>2. IsFiniteSet(1 .. n + 2) /\ Cardinality(1 .. n + 2) = n + 2
    BY FS_Interval
  <2>3. IsFiniteSet(S) /\ Cardinality(S) \in {n + 1, n + 2}
    <3>1. PICK T, x : T = 1 .. n + 2 /\ x = row.id
      OBVIOUS
    <3>2. IsFiniteSet(T) /\ Cardinality(T) = n + 2
      BY <2>2, <3>1
    <3>3. IsFiniteSet(T \ {x}) /\ Cardinality(T \ {x}) = IF x \in T THEN n + 1 ELSE n + 2
      BY <3>2, FS_RemoveElement
    <3> QED BY <3>1, <3>3
  <2>4. \A i \in S : f[i] \in Callers /\ i \in used[f[i]]
    BY <2>1
  <2>5. f \in [S -> Callers]
    BY <2>4
  <2>6. Cardinality(Callers) < Cardinality(S)
    BY <1>2, <2>3
  <2>7. PICK i, j \in S : i # j /\ f[i] = f[j]
    <3> HIDE DEF f, S
    <3> QED BY <1>1, <2>3, <2>5, <2>6, FS_PigeonHole
  <2>8. f[i] \in Callers /\ i \in used[f[i]] \ {0} /\ j \in used[f[i]] \ {0}
    <3>1. i # 0 /\ j # 0
      BY <1>2
    <3>2. i \in used[f[i]] /\ j \in used[f[j]] /\ f[i] \in Callers
      BY <2>4
    <3> HIDE DEF f
    <3> QED BY <2>7, <3>1, <3>2
  <2> QED BY <1>4, <2>7, <2>8
<1> QED BY <1>2, <1>3, <1>5 DEF NewId

LEMMA Built ==
    ASSUME NEW prior, IsRow(prior), NEW cfg \in Configs \ {0}, NEW r,
           r = BuildIndexMetadata(prior, cfg)
    PROVE  /\ IsRow(r) /\ r # NoRow /\ r.cfg = cfg
           /\ r = prior \/ ~ListReady(r)
<1>1. CASE prior = NoRow
  BY <1>1 DEF BuildIndexMetadata, Unsaved, IsRow, Rows, NoRow, ListReady, Status, Never
<1>2. CASE prior # NoRow /\ prior.cfg # cfg
  BY <1>2 DEF BuildIndexMetadata, Unsaved, IsRow, Rows, NoRow, ListReady, Status, Never
<1>3. CASE prior # NoRow /\ prior.cfg = cfg
  BY <1>3 DEF BuildIndexMetadata, Unsaved, IsRow, Rows, NoRow, ListReady, Status, Never
<1> QED BY <1>1, <1>2, <1>3

\* A row whose status is set to what is not READY.
LEMMA Marked ==
    ASSUME NEW r, IsRow(r), r.cfg # 0, NEW s \in {"REFRESHING", "FAILED"}, NEW p,
           p = [r EXCEPT !.status = s]
    PROVE  /\ IsRow(p) /\ p.status = s /\ p.cfg = r.cfg /\ p.id = r.id
           /\ p # NoRow /\ ~ListReady(p)
BY DEF IsRow, Rows, NoRow, ListReady, Status

\* A call that begins with what it has loaded.
Started(p, cfg, base, mine) == [Idle EXCEPT !.pc = p, !.cfg = cfg, !.base = base, !.mine = mine]

LEMMA Begun ==
    ASSUME NEW p \in Phases, NEW cfg \in Configs, NEW base \in Rows, NEW mine \in Rows,
           IsRow(base), IsStored(base), IsRow(mine), base = NoRow \/ mine = NoRow \/ base.id = mine.id,
           NEW n, n = Started(p, cfg, base, mine)
    PROVE  IsCall(n) /\ n.pc = p /\ n.cfg = cfg /\ n.base = base /\ n.mine = mine
<1>1. NoFile \in Int
  BY DEF NoFile
<1>2. n = [pc |-> p, cfg |-> cfg, base |-> base, mine |-> mine, gen |-> 0, index |-> NoFile, cut |-> FALSE]
  BY DEF Idle, Started
<1>3. n.pc = p /\ n.cfg = cfg /\ n.base = base /\ n.mine = mine
  BY <1>2
<1>4. [pc |-> p, cfg |-> cfg, base |-> base, mine |-> mine, gen |-> 0, index |-> NoFile, cut |-> FALSE]
         \in [pc : Phases, cfg : Configs, base : Rows, mine : Rows, gen : Nat, index : Int, cut : BOOLEAN]
  BY <1>1
<1> QED BY <1>2, <1>3, <1>4 DEF IsCall

\* What an idle call has not loaded.
LEMMA EmptyStart ==
    ASSUME NEW p, NEW cfg, NEW mine, NEW n,
           \/ n = [Idle EXCEPT !.pc = p, !.cfg = cfg, !.mine = mine]
           \/ n = [Idle EXCEPT !.pc = p, !.cfg = cfg] /\ mine = NoRow
    PROVE  n = Started(p, cfg, NoRow, mine)
<1>1. PICK base, none : base = NoRow /\ none = NoFile
  OBVIOUS
<1>2. PICK i : i = Idle
  OBVIOUS
<1>3. i = [pc |-> "idle", cfg |-> 0, base |-> base, mine |-> base, gen |-> 0, index |-> none, cut |-> FALSE]
  BY <1>1, <1>2 DEF Idle
<1> DEFINE full == [pc |-> p, cfg |-> cfg, base |-> base, mine |-> mine, gen |-> 0, index |-> none, cut |-> FALSE]
<1>4. n = full
  <2>1. CASE n = [i EXCEPT !.pc = p, !.cfg = cfg, !.mine = mine]
    BY <1>3, <2>1
  <2>2. CASE n = [i EXCEPT !.pc = p, !.cfg = cfg] /\ mine = base
    BY <1>3, <2>2
  <2> QED BY <1>1, <1>2, <2>1, <2>2
<1>5. Started(p, cfg, base, mine) = full
  <2>1. Started(p, cfg, base, mine) = [i EXCEPT !.pc = p, !.cfg = cfg, !.base = base, !.mine = mine]
    BY <1>2 DEF Started
  <2> QED BY <1>3, <2>1
<1> QED BY <1>1, <1>4, <1>5

LEMMA BeginDropStep ==
    ASSUME VectorInv, NEW c \in Callers, BeginDrop(c)
    PROVE  VectorInv'
<1>1. PICK n : n = [Idle EXCEPT !.pc = "drop", !.cfg = row.cfg, !.base = row, !.mine = row]
  OBVIOUS
<1>2. /\ call[c].pc = "idle" /\ model = 0 /\ row # NoRow /\ Becomes(c, n)
      /\ UNCHANGED <<row, disk, doubt>> /\ Outside
  BY <1>1 DEF BeginDrop
<1>3. Typed
  BY DEF VectorInv
<1>4. IsRow(row) /\ IsStored(row) /\ row.cfg # 0 /\ Sql
  BY <1>2, <1>3 DEF Typed, IsRow
<1>5. n.pc = "drop" /\ n.base = row /\ n.cfg = row.cfg /\ IsCall(n)
  <2>1. row \in Rows /\ row.cfg \in Configs /\ "drop" \in Phases
    BY <1>4 DEF IsRow, Rows, Phases
  <2>2. n = Started("drop", row.cfg, row, row)
    BY <1>1 DEF Started
  <2> QED BY <1>4, <2>1, <2>2, Begun
<1>6. call'[c] = n
  BY <1>2, <1>3, <1>5, Becoming DEF Typed
<1>7. Fits(c)' /\ ~Fills(c)'
  BY <1>2, <1>4, <1>5, <1>6 DEF Fits, Fills, Writing, Outside, Sql
<1>8. ~Answers(c)
  BY <1>2 DEF Answers, Writing
<1> QED BY <1>2, <1>3, <1>7, <1>8, QuietStep DEF Typed

LEMMA ListStep ==
    ASSUME VectorInv, NEW c \in Callers, List(c)
    PROVE  VectorInv'
<1>1. PICK r : r = BuildIndexMetadata(row, model)
  OBVIOUS
<1>2. PICK n : n = [Idle EXCEPT !.pc = "list", !.cfg = model, !.mine = r]
  OBVIOUS
<1>3. /\ call[c].pc = "idle" /\ model # 0 /\ Sql /\ Becomes(c, n)
      /\ UNCHANGED <<row, disk, doubt>> /\ Outside
  BY <1>1, <1>2 DEF List
<1>4. Typed /\ IsRow(row) /\ model \in Configs \ {0}
  BY <1>3 DEF VectorInv, Typed
<1>5. IsRow(r) /\ r # NoRow /\ r.cfg = model
  BY <1>1, <1>4, Built
<1>6. n.pc = "list" /\ n.cfg = model /\ n.base = NoRow /\ n.mine = r /\ IsCall(n)
  <2>1. model \in Configs /\ "list" \in Phases /\ NoRow \in Rows /\ r \in Rows
    BY <1>4, <1>5, RowsTyped DEF Phases, IsRow
  <2>2. n = Started("list", model, NoRow, r)
    <3>1. PICK p, cfg : p = "list" /\ cfg = model
      OBVIOUS
    <3>2. n = [Idle EXCEPT !.pc = p, !.cfg = cfg, !.mine = r]
      BY <1>2, <3>1
    <3>3. \/ n = [Idle EXCEPT !.pc = p, !.cfg = cfg, !.mine = r]
          \/ n = [Idle EXCEPT !.pc = p, !.cfg = cfg] /\ r = NoRow
      BY <3>2, Zenon
    <3>4. n = Started(p, cfg, NoRow, r)
      BY <3>3, EmptyStart, Zenon
    <3> QED BY <3>1, <3>4
  <2> QED BY <1>5, <2>1, <2>2, RowsTyped, Begun
<1>7. call'[c] = n
  BY <1>3, <1>4, <1>6, Becoming DEF Typed
<1>8. Fits(c)' /\ ~Fills(c)'
  BY <1>3, <1>5, <1>6, <1>7 DEF Fits, Fills, Writing, Outside, Sql
<1>9. ~Answers(c)
  BY <1>3 DEF Answers, Writing
<1> QED BY <1>3, <1>4, <1>8, <1>9, QuietStep DEF Typed

\* What a call is about to save.
LEMMA Candidates ==
    ASSUME VectorInv, NEW c \in Callers, Saves(c), NEW r, r = Candidate(c)
    PROVE  /\ call[c].pc \in {"idle", "list"} /\ (Sql \/ model # 0)
           /\ IsRow(r) /\ r # NoRow /\ r.cfg # 0
           /\ Sql \/ r = row \/ ~ListReady(r)
<1>1. CASE Sql
  <2>1. Fits(c) /\ call[c].pc = "list" /\ r = call[c].mine
    BY <1>1 DEF VectorInv, CallInv, Saves, Candidate
  <2> QED BY <1>1, <2>1 DEF Fits, IsCall, IsRow
<1>2. CASE ~Sql
  <2>1. call[c].pc = "idle" /\ model \in Configs \ {0} /\ IsRow(row) /\ r = BuildIndexMetadata(row, model)
    BY <1>2 DEF VectorInv, Typed, Saves, Candidate
  <2> QED BY <1>2, <2>1, Built
<1> QED BY <1>1, <1>2

\* A call has merged what it saves, and goes on in phase p.
LEMMA MergeStep ==
    ASSUME VectorInv, NEW c \in Callers, call[c].pc \in {"idle", "list"}, Sql \/ model # 0,
           NEW r, IsRow(r), r # NoRow, r.cfg # 0, Sql \/ r = row \/ ~ListReady(r),
           NEW p \in {"fetch", "open", "save", "idle"}, Merge(c, p, r),
           p = "fetch" => c \in Refreshes /\ r.status = "REFRESHING",
           p = "open" => c \in Searches,
           p = "save" => Settled(MergedOver(r), r) = "save",
           UNCHANGED <<disk, doubt>>, Outside
    PROVE  VectorInv'
<1>1. PICK base : base = MergedOver(r)
  OBVIOUS
<1>2. PICK keeps \in BOOLEAN : keeps = (p = "fetch" \/ Settled(base, r) = "save")
  OBVIOUS
<1>3. PICK n : n = IF keeps THEN [Idle EXCEPT !.pc = p, !.cfg = r.cfg, !.base = base, !.mine = r]
                   ELSE [Idle EXCEPT !.pc = p, !.cfg = r.cfg]
  OBVIOUS
<1>4. Typed /\ Becomes(c, n) /\ Saved(r)
  BY <1>1, <1>2, <1>3 DEF VectorInv, Merge
<1>5. /\ IsRow(base) /\ IsStored(base) /\ (Sql \/ base = NoRow)
      /\ base = NoRow \/ base.id = r.id
  BY <1>1, <1>4, RowsTyped DEF MergedOver, Typed
<1>6. /\ n.pc = p /\ n.cfg = r.cfg /\ IsCall(n)
      /\ keeps => n.base = base /\ n.mine = r
      /\ ~keeps => n.base = NoRow /\ n.mine = NoRow
  <2>1. /\ r.cfg \in Configs /\ r \in Rows /\ base \in Rows /\ NoRow \in Rows
        /\ p \in Phases /\ IsRow(NoRow) /\ IsStored(NoRow)
    BY <1>5, RowsTyped DEF IsRow, Rows, Phases
  <2>2. CASE keeps
    <3>1. n = Started(p, r.cfg, base, r)
      BY <1>3, <2>2 DEF Started
    <3> QED BY <1>5, <2>1, <2>2, <3>1, Begun
  <2>3. CASE ~keeps
    <3>1. n = Started(p, r.cfg, NoRow, NoRow)
      BY <1>3, <2>3, EmptyStart
    <3> QED BY <2>1, <2>3, <3>1, Begun
  <2> QED BY <2>2, <2>3
<1>7. call'[c] = IF p = "idle" THEN Idle ELSE n
  <2>1. call'[c] = IF n.pc = "idle" THEN Idle ELSE n
    BY <1>4, Becoming DEF Typed
  <2> QED BY <1>6, <2>1
<1>8. p = "save" => Sql /\ keeps
  BY <1>1, <1>2 DEF Settled
<1>9. Fits(c)' /\ ~Fills(c)'
  <2>1. CASE p = "idle"
    BY <1>7, <2>1, IdleFits
  <2>2. CASE p # "idle"
    <3>1. call'[c] = n /\ (Sql' <=> Sql) /\ model' = model
      BY <1>7, <2>2 DEF Outside, Sql
    <3>2. Fits(c)'
      BY <1>2, <1>5, <1>6, <1>8, <2>2, <3>1 DEF Fits, Writing
    <3> QED BY <1>6, <3>1, <3>2 DEF Fills, Writing
  <2> QED BY <2>1, <2>2
<1>10. /\ Sql => row' = row
       /\ row' = row \/ ~ListReady(row')
       /\ IsRow(row') /\ (~Sql /\ row' # NoRow => model # 0)
  BY <1>4 DEF Saved, Typed
<1>11. ~Answers(c)
  BY DEF Answers, Writing
<1> QED BY <1>4, <1>9, <1>10, <1>11, QuietStep

LEMMA BeginRefreshStep ==
    ASSUME VectorInv, NEW c \in Callers, NEW force \in BOOLEAN, BeginRefresh(c, force)
    PROVE  VectorInv'
<1>1. PICK r : r = Candidate(c)
  OBVIOUS
<1>2. PICK s : s = [r EXCEPT !.status = "REFRESHING"]
  OBVIOUS
<1>3. PICK p : p = Settled(MergedOver(r), r)
  OBVIOUS
<1>4. /\ c \in Refreshes /\ Saves(c) /\ UNCHANGED <<disk, doubt>> /\ Outside
      /\ Merge(c, "fetch", s) \/ Merge(c, p, r)
  BY <1>1, <1>2, <1>3 DEF BeginRefresh
<1>5. /\ call[c].pc \in {"idle", "list"} /\ (Sql \/ model # 0)
      /\ IsRow(r) /\ r # NoRow /\ r.cfg # 0 /\ (Sql \/ r = row \/ ~ListReady(r))
  BY <1>1, <1>4, Candidates
<1>6. CASE Merge(c, "fetch", s)
  <2>1. IsRow(s) /\ s.status = "REFRESHING" /\ s.cfg # 0 /\ s # NoRow /\ ~ListReady(s)
    BY <1>2, <1>5, Marked
  <2> QED BY <1>4, <1>5, <1>6, <2>1, MergeStep
<1>7. CASE Merge(c, p, r)
  <2>1. p \in {"save", "idle"}
    BY <1>3 DEF Settled
  <2> QED BY <1>3, <1>4, <1>5, <1>7, <2>1, MergeStep
<1> QED BY <1>4, <1>6, <1>7

LEMMA BeginSearchStep ==
    ASSUME VectorInv, NEW c \in Callers, BeginSearch(c)
    PROVE  VectorInv'
<1>1. PICK r : r = Candidate(c)
  OBVIOUS
<1>2. PICK p : p = IF ListReady(r) THEN "open" ELSE Settled(MergedOver(r), r)
  OBVIOUS
<1>3. c \in Searches /\ Saves(c) /\ Merge(c, p, r) /\ UNCHANGED <<disk, doubt>> /\ Outside
  BY <1>1, <1>2 DEF BeginSearch
<1>4. /\ call[c].pc \in {"idle", "list"} /\ (Sql \/ model # 0)
      /\ IsRow(r) /\ r # NoRow /\ r.cfg # 0 /\ (Sql \/ r = row \/ ~ListReady(r))
  BY <1>1, <1>3, Candidates
<1>5. p \in {"open", "save", "idle"} /\ (p = "save" => Settled(MergedOver(r), r) = "save")
  BY <1>2 DEF Settled
<1> QED BY <1>3, <1>4, <1>5, MergeStep

\* A refresh that ends before it begins: in memory the row may be new.
LEMMA StoppedStep ==
    ASSUME VectorInv, NEW c \in Callers, BeginStopped(c)
    PROVE  VectorInv'
<1>1. PICK r : r = BuildIndexMetadata(row, model)
  OBVIOUS
<1>2. /\ call[c].pc = "idle" /\ model # 0 /\ ~Sql /\ row' = r /\ Becomes(c, Idle)
      /\ UNCHANGED <<disk, doubt>> /\ Outside
  BY <1>1 DEF BeginStopped
<1>3. Typed /\ IsRow(row) /\ model \in Configs \ {0} /\ Fits(c)
  BY <1>2 DEF VectorInv, Typed, CallInv
<1>4. IsRow(r) /\ (r = row \/ ~ListReady(r))
  BY <1>1, <1>3, Built
<1>5. Fits(c)' /\ ~Fills(c)' /\ ~Answers(c)
  <2>1. call'[c] = Idle
    BY <1>2, <1>3, Becoming DEF Typed, Idle
  <2> QED BY <1>2, <2>1, IdleFits DEF Answers, Writing
<1> QED BY <1>2, <1>3, <1>4, <1>5, QuietStep DEF Typed

\* A call that has gone on.
Gone(k, p, mine, gen, index) == [k EXCEPT !.pc = p, !.mine = mine, !.gen = gen, !.index = index]

LEMMA Moved ==
    ASSUME NEW k, IsCall(k), NEW p \in Phases, NEW mine \in Rows, IsRow(mine),
           k.base = NoRow \/ mine = NoRow \/ k.base.id = mine.id,
           NEW gen \in Nat, NEW index \in Int, NEW n, n = Gone(k, p, mine, gen, index)
    PROVE  /\ IsCall(n) /\ n.pc = p /\ n.cfg = k.cfg /\ n.base = k.base /\ n.mine = mine
           /\ n.gen = gen /\ n.cut = k.cut
<1> DEFINE K == [pc : Phases, cfg : Configs, base : Rows, mine : Rows, gen : Nat, index : Int, cut : BOOLEAN]
<1>1. k \in K
  BY DEF IsCall
<1>2. /\ n \in K /\ n.pc = p /\ n.cfg = k.cfg /\ n.base = k.base /\ n.mine = mine
      /\ n.gen = gen /\ n.cut = k.cut
  BY <1>1 DEF Gone
<1>3. IsRow(n.base)
  BY <1>2 DEF IsCall
<1> QED BY <1>2, <1>3 DEF IsCall

LEMMA FetchStep ==
    ASSUME VectorInv, NEW c \in Callers, Fetch(c)
    PROVE  VectorInv'
<1>1. PICK k : k = call[c]
  OBVIOUS
<1>2. PICK n : n = [k EXCEPT !.pc = "reset", !.gen = data]
  OBVIOUS
<1>3. /\ k.pc = "fetch" /\ Becomes(c, n) /\ UNCHANGED <<row, disk, doubt>> /\ Outside
  BY <1>1, <1>2 DEF Fetch
<1>4. Typed /\ Fits(c) /\ IsCall(k)
  BY <1>1 DEF VectorInv, CallInv, Fits
<1>5. /\ IsCall(n) /\ n.pc = "reset" /\ n.cfg = k.cfg /\ n.base = k.base /\ n.mine = k.mine
  <2>1. n = Gone(k, "reset", k.mine, data, k.index)
    BY <1>2, <1>4 DEF Gone, IsCall
  <2>2. "reset" \in Phases /\ data \in Nat
    BY <1>4 DEF Typed, Phases
  <2>3. k.mine \in Rows /\ IsRow(k.mine) /\ k.index \in Int
    BY <1>4 DEF IsCall
  <2>4. k.base = NoRow \/ k.mine = NoRow \/ k.base.id = k.mine.id
    BY <1>4 DEF IsCall
  <2> QED BY <1>4, <2>1, <2>2, <2>3, <2>4, Moved
<1>6. call'[c] = n
  BY <1>3, <1>4, <1>5, Becoming DEF Typed
<1>7. Fits(c)' /\ ~Fills(c)'
  BY <1>1, <1>3, <1>4, <1>5, <1>6 DEF Fits, Fills, Writing, Outside, Sql
<1>8. ~Answers(c)
  BY <1>1, <1>3 DEF Answers, Writing
<1> QED BY <1>3, <1>4, <1>7, <1>8, QuietStep DEF Typed

\* A search reads the files.
LEMMA SearchReads ==
    ASSUME VectorInv, NEW c \in Callers, OpenIndex(c) \/ Search(c)
    PROVE  VectorInv'
<1>1. PICK k : k = call[c]
  OBVIOUS
<1>2. PICK done : done = Settled(k.base, k.mine)
  OBVIOUS
<1>3. done \in {"save", "idle"} /\ (done = "save" => Sql /\ k.mine # k.base)
  BY <1>2 DEF Settled
<1>4. Typed /\ Fits(c) /\ IsCall(k)
  BY <1>1 DEF VectorInv, CallInv, Fits
<1>5. PICK p, i, n :
         /\ p \in {"meta", done} /\ i \in Int
         /\ n = Gone(k, p, k.mine, k.gen, i)
         /\ k.pc \in {"open", "meta"} /\ Becomes(c, n)
         /\ UNCHANGED <<row, disk, doubt>> /\ Outside
  <2>1. CASE OpenIndex(c)
    <3>1. PICK f : f = disk[call[c].cfg].index
      OBVIOUS
    <3>2. PICK p : p = IF f # Torn THEN "meta" ELSE done
      OBVIOUS
    <3>3. PICK i : i = IF f # Torn THEN f ELSE NoFile
      OBVIOUS
    <3>4. PICK n : n = [k EXCEPT !.pc = p, !.index = i]
      OBVIOUS
    <3>5. /\ k.pc = "open" /\ Becomes(c, n) /\ UNCHANGED <<row, disk, doubt>> /\ Outside
      BY <1>1, <1>2, <2>1, <3>1, <3>2, <3>3, <3>4 DEF OpenIndex
    <3>6. i \in Int
      <4>1. call[c].cfg \in Configs \ {0}
        BY <1>1, <1>4, <3>5 DEF Fits, IsCall
      <4> QED BY <1>4, <3>1, <3>3, <4>1 DEF Typed, NoFile
    <3>7. n = Gone(k, p, k.mine, k.gen, i)
      BY <1>4, <3>4 DEF Gone, IsCall
    <3> QED BY <3>2, <3>5, <3>6, <3>7
  <2>2. CASE Search(c)
    <3>1. PICK n : n = [k EXCEPT !.pc = done, !.index = NoFile]
      OBVIOUS
    <3>2. n = Gone(k, done, k.mine, k.gen, NoFile)
      BY <1>4, <3>1 DEF Gone, IsCall
    <3>3. /\ k.pc = "meta" /\ Becomes(c, n) /\ UNCHANGED <<row, disk, doubt>> /\ Outside
      BY <1>1, <1>2, <2>2, <3>1 DEF Search
    <3> QED BY <3>2, <3>3 DEF NoFile
  <2> QED BY <2>1, <2>2
<1>6. /\ IsCall(n) /\ n.pc = p /\ n.cfg = k.cfg /\ n.base = k.base /\ n.mine = k.mine
  <2>1. p \in Phases
    BY <1>3, <1>5 DEF Phases, Rebuilt
  <2>2. k.mine \in Rows /\ IsRow(k.mine) /\ k.gen \in Nat
    BY <1>4 DEF IsCall
  <2>3. k.base = NoRow \/ k.mine = NoRow \/ k.base.id = k.mine.id
    BY <1>4 DEF IsCall
  <2> QED BY <1>4, <1>5, <2>1, <2>2, <2>3, Moved
<1>7. call'[c] = IF p = "idle" THEN Idle ELSE n
  <2>1. DOMAIN call = Callers /\ Becomes(c, n)
    BY <1>4, <1>5 DEF Typed
  <2>2. call'[c] = IF n.pc = "idle" THEN Idle ELSE n
    BY <2>1, Becoming
  <2> QED BY <1>6, <2>2
<1>8. c \in Searches /\ (k.mine = NoRow => k.base = NoRow) /\ k.cfg # 0 /\ (Sql \/ model # 0)
  BY <1>1, <1>4, <1>5 DEF Fits
<1>9. Fits(c)' /\ ~Fills(c)'
  <2>1. CASE p = "idle"
    BY <1>4, <1>7, <2>1, IdleFits
  <2>2. CASE p # "idle"
    <3>1. call'[c] = n /\ (Sql' <=> Sql) /\ model' = model
      BY <1>5, <1>7, <2>2 DEF Outside, Sql
    <3>2. p = "save" => Sql /\ k.mine # NoRow
      BY <1>3, <1>5, <1>8
    <3>3. Sql \/ k.base = NoRow
      BY <1>1, <1>4 DEF Fits
    <3> QED BY <1>3, <1>5, <1>6, <1>8, <2>2, <3>1, <3>2, <3>3 DEF Fits, Fills, Writing
  <2> QED BY <2>1, <2>2
<1>10. ~Answers(c)
  BY <1>1, <1>5 DEF Answers, Writing
<1> QED BY <1>4, <1>5, <1>9, <1>10, QuietStep DEF Typed

\* A refresh fails, whatever it has done to the files.
LEMMA FailedStep ==
    ASSUME VectorInv, NEW c \in Refreshes,
           call[c].pc \in {"fetch", "reset", "createIndex", "upsertIndex"},
           Failed(c), UNCHANGED <<disk, doubt>>, Outside
    PROVE  VectorInv'
<1>1. PICK k : k = call[c]
  OBVIOUS
<1>2. PICK r : r = [k.mine EXCEPT !.status = "FAILED"]
  OBVIOUS
<1>3. PICK p \in {"commit", "idle"} : p = Done /\ (p = "commit" <=> Sql)
  BY DEF Done
<1>4. PICK n : n = [k EXCEPT !.pc = p, !.mine = r, !.gen = 0]
  OBVIOUS
<1>5. Becomes(c, n) /\ Saved(r)
  BY <1>1, <1>2, <1>3, <1>4 DEF Failed
<1>6. Typed /\ Fits(c) /\ IsCall(k) /\ c \in Callers
  BY <1>1 DEF VectorInv, CallInv, Fits, Callers
<1>7. IsRow(k.mine) /\ k.mine.cfg # 0 /\ k.mine.cfg = k.cfg /\ k.cfg # 0 /\ (Sql \/ model # 0)
  BY <1>1, <1>6 DEF Fits, IsCall, Writing
<1>8. IsRow(r) /\ r.status = "FAILED" /\ r.cfg = k.cfg /\ r # NoRow /\ ~ListReady(r)
  BY <1>2, <1>7, Marked
<1>9. /\ IsCall(n) /\ n.pc = p /\ n.cfg = k.cfg /\ n.base = k.base /\ n.mine = r
  <2>1. n = Gone(k, p, r, 0, k.index)
    BY <1>4, <1>6 DEF Gone, IsCall
  <2>2. p \in Phases /\ r \in Rows /\ 0 \in Nat /\ k.index \in Int
    BY <1>6, <1>8 DEF Phases, Rebuilt, IsRow, IsCall
  <2>3. k.base = NoRow \/ r = NoRow \/ k.base.id = r.id
    <3>1. r.id = k.mine.id
      BY <1>2, <1>7, Marked
    <3>2. k.mine # NoRow
      BY <1>7 DEF NoRow
    <3>3. k.base = NoRow \/ k.mine = NoRow \/ k.base.id = k.mine.id
      BY <1>6 DEF IsCall
    <3> QED BY <3>1, <3>2, <3>3
  <2> QED BY <1>6, <1>8, <2>1, <2>2, <2>3, Moved
<1>10. call'[c] = IF p = "idle" THEN Idle ELSE n
  BY <1>5, <1>6, <1>9, Becoming DEF Typed
<1>11. Fits(c)' /\ ~Fills(c)'
  <2>1. CASE p = "idle"
    BY <1>6, <1>10, <2>1, IdleFits
  <2>2. CASE p # "idle"
    <3>1. call'[c] = n /\ n.pc = "commit" /\ Sql'
      BY <1>3, <1>9, <1>10, <2>2 DEF Outside, Sql
    <3> QED BY <1>7, <1>8, <1>9, <3>1 DEF Fits, Fills, Writing
  <2> QED BY <2>1, <2>2
<1>12. (Sql => row' = row) /\ (row' = row \/ ~ListReady(row')) /\ IsRow(row') /\ (~Sql /\ row' # NoRow => model # 0)
  BY <1>5, <1>6, <1>7, <1>8 DEF Saved, Typed
<1>13. row' = row /\ ListReady(row) => ~Answers(c) \/ Answers(c)'
  <2>1. CASE Sql
    <3>1. call'[c] = n /\ n.pc = "commit"
      BY <1>3, <1>9, <1>10, <2>1
    <3> QED BY <1>1, <1>9, <3>1 DEF Answers, Writing
  <2>2. CASE ~Sql
    <3>1. row' = r
      BY <1>5, <2>2 DEF Saved
    <3> QED BY <1>8, <3>1
  <2> QED BY <2>1, <2>2
<1> QED BY <1>5, <1>6, <1>11, <1>12, <1>13, QuietStep

\* A file that is deleted holds nothing.
LEMMA FilesTyped ==
    ASSUME disk \in [Configs \ {0} -> [index : Int, meta : Int]], NEW cfg \in Configs \ {0}
    PROVE  /\ Deleted(cfg) \in [Configs \ {0} -> [index : Int, meta : Int]]
           /\ Deleted(cfg)[cfg] = NoFiles
           /\ \A f \in Configs \ {0, cfg} : Deleted(cfg)[f] = disk[f]
           /\ ~(NoFiles.index > 0)
<1>1. NoFiles \in [index : Int, meta : Int] /\ ~(NoFiles.index > 0)
  BY DEF NoFiles, NoFile
<1> QED BY <1>1 DEF Deleted

LEMMA DropStep ==
    ASSUME VectorInv, NEW c \in Callers, Drop(c)
    PROVE  VectorInv'
<1>1. PICK k, K, n : k = call[c] /\ K = k.cfg /\ n = [k EXCEPT !.pc = "commit", !.mine = NoRow]
  OBVIOUS
<1>2. Typed /\ Fits(c) /\ IsCall(k)
  BY <1>1 DEF VectorInv, CallInv, Fits
<1>3. /\ k.pc = "drop" /\ Becomes(c, n) /\ Outside /\ row' = row
      /\ disk' = disk \/ disk' = Deleted(K)
      /\ doubt' = doubt \cup Doubtful(c, Crowded(c))
  BY <1>1 DEF Drop, Deleted
<1>4. K \in Configs \ {0} /\ Sql /\ k.base # NoRow
  BY <1>1, <1>2, <1>3 DEF Fits, IsCall
<1>5. /\ doubt \subseteq doubt'
      /\ K \notin doubt' => K \notin doubt /\ \A o \in Callers \ {c} : call[o].cfg = K => ~Holds(o)
  BY <1>1, <1>3 DEF Doubtful, Crowded
<1>6. /\ disk' \in [Configs \ {0} -> [index : Int, meta : Int]]
      /\ \A f \in Configs \ {0, K} : disk'[f] = disk[f]
      /\ disk' = disk \/ ~(disk'[K].index > 0)
  BY <1>2, <1>3, <1>4, FilesTyped DEF Typed
<1>7. IsCall(n) /\ n.pc = "commit" /\ n.cfg = K /\ n.base = k.base /\ n.mine = NoRow
  <2>1. n = Gone(k, "commit", NoRow, k.gen, k.index)
    BY <1>1, <1>2 DEF Gone, IsCall
  <2>2. "commit" \in Phases /\ k.gen \in Nat /\ k.index \in Int /\ IsRow(NoRow) /\ NoRow \in Rows
    BY <1>2, RowsTyped DEF Phases, Rebuilt, IsCall, IsRow
  <2> QED BY <1>1, <1>2, <2>1, <2>2, Moved
<1>8. call'[c] = n
  BY <1>2, <1>3, <1>7, Becoming DEF Typed
<1>9. Fits(c)'
  <2>1. Sql'
    BY <1>3, <1>4 DEF Outside, Sql
  <2> QED BY <1>4, <1>7, <1>8, <2>1 DEF Fits, Writing
<1>10. ~Fills(c)' /\ Contents(c)' /\ Abreast(c)'
  <2>1. NoRow.status = "PENDING"
    BY DEF NoRow
  <2>2. ~Fills(c)'
    BY <1>7, <1>8, <2>1 DEF Fills, Writing
  <2> QED BY <1>7, <1>8, <2>2 DEF Contents, Abreast
<1>11. ListReady(row) /\ row.cfg \notin doubt' =>
           \/ Answers(c)'
           \/ disk'[row.cfg] = disk[row.cfg] /\ row.cfg \notin doubt /\ ~Answers(c)
  <2>1. CASE row.cfg = K
    BY <1>3, <1>4, <1>7, <1>8, <2>1 DEF Answers
  <2>2. CASE row.cfg # K
    <3>1. ListReady(row) => row.cfg \in Configs \ {0, K}
      BY <1>2, <2>2 DEF Typed, IsRow, Rows, ListReady, NoRow
    <3> QED BY <1>1, <1>3, <1>5, <1>6, <2>2, <3>1 DEF Answers
  <2> QED BY <2>1, <2>2
<1>12. K \notin doubt' => (disk'[K].index > 0 /\ disk'[K].meta > 0 => disk'[K].index = disk'[K].meta)
  BY <1>4, <1>5, <1>6 DEF VectorInv, FilesAgree
<1> QED BY <1>2, <1>3, <1>4, <1>5, <1>6, <1>9, <1>10, <1>11, <1>12, CallerStep DEF Typed

LEMMA Phased ==
    ASSUME NEW k, IsCall(k), NEW p \in Phases, NEW n, n = [k EXCEPT !.pc = p]
    PROVE  /\ IsCall(n) /\ n.pc = p /\ n.cfg = k.cfg /\ n.base = k.base /\ n.mine = k.mine
           /\ n.gen = k.gen /\ n.cut = k.cut
<1>1. n = Gone(k, p, k.mine, k.gen, k.index)
  BY DEF Gone, IsCall
<1>2. k.mine \in Rows /\ IsRow(k.mine) /\ k.gen \in Nat /\ k.index \in Int
  BY DEF IsCall
<1>3. k.base = NoRow \/ k.mine = NoRow \/ k.base.id = k.mine.id
  BY DEF IsCall
<1> QED BY <1>1, <1>2, <1>3, Moved

\* The files are deleted before they are filled; what could not be loaded stays.
LEMMA ResetStep ==
    ASSUME VectorInv, NEW c \in Callers, Reset(c)
    PROVE  VectorInv'
<1>1. PICK k, K : k = call[c] /\ K = k.cfg
  OBVIOUS
<1>2. Typed /\ Fits(c) /\ IsCall(k)
  BY <1>1 DEF VectorInv, CallInv, Fits
<1>3. k.pc = "reset" /\ Outside
  BY <1>1 DEF Reset
<1>4. /\ K \in Configs \ {0} /\ c \in Refreshes /\ k.mine.cfg = K /\ k.mine.status = "REFRESHING"
      /\ k.gen \in Nat /\ (Sql \/ model # 0) /\ (Sql \/ k.base = NoRow)
  BY <1>1, <1>2, <1>3 DEF Fits, IsCall
<1>5. ~Answers(c)
  BY <1>1, <1>3 DEF Answers, Writing
<1>6. ASSUME NEW p \in {"ready", "createIndex"}, NEW n, n = [k EXCEPT !.pc = p], Becomes(c, n),
             p = "createIndex" <=> k.gen # 0
      PROVE  /\ call'[c] = n /\ n.pc = p /\ n.cfg = K /\ n.base = k.base /\ n.gen = k.gen
             /\ Fits(c)'
  <2>1. /\ IsCall(n) /\ n.pc = p /\ n.cfg = K /\ n.base = k.base /\ n.mine = k.mine /\ n.gen = k.gen
    <3>1. p \in Phases
      BY DEF Phases, Rebuilt, Writing
    <3> QED BY <1>1, <1>2, <1>6, <3>1, Phased
  <2>2. call'[c] = n
    BY <1>2, <1>6, <2>1, Becoming DEF Typed
  <2>3. (Sql' <=> Sql) /\ model' = model
    BY <1>3 DEF Outside, Sql
  <2> QED BY <1>4, <1>6, <2>1, <2>2, <2>3 DEF Fits, Writing
<1>7. CASE ~IsTorn(K)
  <2>1. PICK p \in {"ready", "createIndex"} : p = IF k.gen = 0 THEN "ready" ELSE "createIndex"
    OBVIOUS
  <2>2. PICK n : n = [k EXCEPT !.pc = p]
    OBVIOUS
  <2>3. /\ disk' = Deleted(K) /\ row' = row /\ Becomes(c, n)
        /\ doubt' = (doubt \ {K}) \cup Doubtful(c, Crowded(c) \/ row # Known(c))
    BY <1>1, <1>7, <2>1, <2>2 DEF Reset
  <2>4. call'[c] = n /\ n.pc = p /\ n.cfg = K /\ n.base = k.base /\ n.gen = k.gen /\ Fits(c)'
    BY <1>6, <2>1, <2>2, <2>3
  <2>5. /\ \A f \in doubt : f # K => f \in doubt'
        /\ K \notin doubt' =>
              (\A o \in Callers \ {c} : call[o].cfg = K => ~Holds(o)) /\ row = Known(c)
    BY <1>1, <2>3 DEF Doubtful, Crowded
  <2>6. /\ disk' \in [Configs \ {0} -> [index : Int, meta : Int]]
        /\ \A f \in Configs \ {0, K} : disk'[f] = disk[f]
        /\ ~(disk'[K].index > 0)
    BY <1>2, <1>4, <2>3, FilesTyped DEF Typed
  <2>7. K \notin doubt' /\ ListReady(row) => row = k.base
    BY <1>1, <1>4, <2>5 DEF Known, ListReady
  <2>8. Contents(c)' /\ Abreast(c)'
    BY <2>1, <2>3, <2>4, <2>7 DEF Contents, Abreast, Fills, ListReady
  <2>9. ListReady(row) /\ row.cfg \notin doubt' =>
            \/ Answers(c)'
            \/ disk'[row.cfg] = disk[row.cfg] /\ row.cfg \notin doubt /\ ~Answers(c)
    <3>1. CASE row.cfg = K
      BY <2>1, <2>3, <2>4, <2>7, <3>1 DEF Answers, Writing
    <3>2. CASE row.cfg # K
      <4>1. ListReady(row) => row.cfg \in Configs \ {0, K}
        BY <1>2, <3>2 DEF Typed, IsRow, Rows, ListReady, NoRow
      <4> QED BY <1>5, <2>5, <2>6, <3>2, <4>1
    <3> QED BY <3>1, <3>2
  <2>10. IsRow(row') /\ (~Sql /\ row' # NoRow => model # 0)
    BY <1>2, <2>3 DEF Typed
  <2>11. Fills(c)' => \/ call'[c].cfg \in doubt'
                      \/ \A o \in Callers \ {c} : call[o].cfg = call'[c].cfg => ~Holds(o)
    BY <2>4, <2>5
  <2> QED BY <1>3, <1>4, <2>3, <2>4, <2>5, <2>6, <2>8, <2>9, <2>10, <2>11, CallerStep
<1>8. CASE IsTorn(K) /\ k.gen = 0
  <2>1. PICK n : n = [k EXCEPT !.pc = "ready"]
    OBVIOUS
  <2>2. Becomes(c, n) /\ UNCHANGED <<row, disk, doubt>>
    BY <1>1, <1>8, <2>1 DEF Reset
  <2>3. call'[c] = n /\ n.pc = "ready" /\ n.gen = 0 /\ Fits(c)'
    BY <1>6, <1>8, <2>1, <2>2
  <2>4. ~Fills(c)'
    BY <2>3 DEF Fills, Writing
  <2> QED BY <1>2, <1>3, <1>5, <2>2, <2>3, <2>4, QuietStep DEF Typed
<1>9. CASE IsTorn(K) /\ k.gen # 0
  BY <1>1, <1>3, <1>4, <1>9, FailedStep DEF Reset
<1> QED BY <1>7, <1>8, <1>9

\* The files are filled: first without values, then with those that were fetched.
LEMMA WriteStep ==
    ASSUME VectorInv, NEW c \in Callers, Write(c)
    PROVE  VectorInv'
<1>1. PICK k, K : k = call[c] /\ K = k.cfg
  OBVIOUS
<1>2. /\ Typed /\ Fits(c) /\ Contents(c) /\ Abreast(c) /\ IsCall(k)
      /\ disk \in [Configs \ {0} -> [index : Int, meta : Int]]
  BY <1>1 DEF VectorInv, CallInv, Fits, Typed
<1>3. k.pc \in Writing /\ Outside /\ row' = row
  BY <1>1 DEF Write
<1>4. /\ K \in Configs \ {0} /\ c \in Refreshes /\ k.mine.cfg = K /\ k.mine.status = "REFRESHING"
      /\ k.gen \in Nat /\ k.gen > 0 /\ (Sql \/ model # 0) /\ (Sql \/ k.base = NoRow)
  BY <1>1, <1>2, <1>3 DEF Fits, IsCall, Writing
<1>5. PICK rows \in Nat : rows = IF k.pc \in {"createIndex", "createMeta"} THEN 0 ELSE k.gen
  BY <1>4
<1>6. PICK p : p = AfterWrite(c)
  OBVIOUS
<1>7. PICK n : n = [k EXCEPT !.pc = p]
  OBVIOUS
<1>8. /\ disk' = IF k.pc \in {"createIndex", "upsertIndex"}
                 THEN [disk EXCEPT ![K].index = rows] ELSE [disk EXCEPT ![K].meta = rows]
      /\ doubt' = doubt \cup Doubtful(c, Crowded(c) \/ (Sql /\ k.cut))
      /\ Becomes(c, n)
  BY <1>1, <1>5, <1>6, <1>7 DEF Write
<1>9. \/ k.pc = "createIndex" /\ p = "createMeta"
      \/ k.pc = "createMeta" /\ (IF k.cut THEN p = "idle" ELSE p = "upsertIndex")
      \/ k.pc = "upsertIndex" /\ p = "upsertMeta"
      \/ k.pc = "upsertMeta" /\ (IF k.cut THEN p = "idle" ELSE p = "ready")
  BY <1>1, <1>3, <1>6 DEF AfterWrite, Writing
<1>10. /\ doubt \subseteq doubt'
       /\ K \notin doubt' =>
             /\ K \notin doubt /\ ~(Sql /\ k.cut)
             /\ \A o \in Callers \ {c} : call[o].cfg = K => ~Holds(o)
  BY <1>1, <1>8 DEF Doubtful, Crowded
<1>11. /\ disk' \in [Configs \ {0} -> [index : Int, meta : Int]]
       /\ \A f \in Configs \ {0, K} : disk'[f] = disk[f]
  BY <1>2, <1>4, <1>5, <1>8
<1>12. /\ k.pc \in {"createIndex", "upsertIndex"} => disk'[K] = [index |-> rows, meta |-> disk[K].meta]
       /\ k.pc \in {"createMeta", "upsertMeta"} => disk'[K] = [index |-> disk[K].index, meta |-> rows]
  <2>1. disk[K] \in [index : Int, meta : Int]
    BY <1>2, <1>4
  <2> QED BY <1>2, <1>4, <1>8, <2>1
<1>13. /\ IsCall(n) /\ n.pc = p /\ n.cfg = K /\ n.base = k.base /\ n.mine = k.mine /\ n.gen = k.gen
       /\ call'[c] = IF p = "idle" THEN Idle ELSE n
  <2>1. p \in Phases
    BY <1>9 DEF Phases, Rebuilt, Writing
  <2>2. IsCall(n) /\ n.pc = p /\ n.cfg = K /\ n.base = k.base /\ n.mine = k.mine /\ n.gen = k.gen
    BY <1>1, <1>2, <1>7, <2>1, Phased
  <2>3. call'[c] = IF n.pc = "idle" THEN Idle ELSE n
    BY <1>2, <1>8, Becoming DEF Typed
  <2> QED BY <2>2, <2>3
<1>14. Fits(c)'
  <2>1. CASE p = "idle"
    BY <1>13, <2>1, IdleFits
  <2>2. CASE p # "idle"
    <3>1. (Sql' <=> Sql) /\ model' = model
      BY <1>3 DEF Outside, Sql
    <3> QED BY <1>4, <1>9, <1>13, <2>2, <3>1 DEF Fits, Writing
  <2> QED BY <2>1, <2>2
<1>15. Fills(c)' => Fills(c) /\ call'[c] = n
  BY <1>1, <1>3, <1>13, IdleFits DEF Fills
<1>16. K \notin doubt' =>
          /\ k.pc = "createMeta" => disk'[K].meta = 0
          /\ k.pc = "upsertIndex" => disk'[K].index = k.gen /\ disk'[K].meta = 0
          /\ k.pc = "upsertMeta" => disk'[K] = Holding(k.gen)
  BY <1>1, <1>2, <1>5, <1>10, <1>12 DEF Contents, Holding
<1>17. Contents(c)' /\ Abreast(c)'
  <2>1. SUFFICES ASSUME call'[c] = n, K \notin doubt'
                 PROVE  Contents(c)' /\ Abreast(c)'
    BY <1>13, <1>15, IdleFits DEF Contents, Abreast, Idle, Fills, Writing
  <2>2. Contents(c)'
    BY <1>9, <1>13, <1>16, <2>1 DEF Contents, Fills, Writing
  <2>3. Abreast(c)'
    BY <1>1, <1>2, <1>3, <1>10, <1>13, <1>15, <2>1 DEF Abreast
  <2> QED BY <2>2, <2>3
<1>18. ListReady(row) /\ row.cfg \notin doubt' =>
           \/ Answers(c)'
           \/ disk'[row.cfg] = disk[row.cfg] /\ row.cfg \notin doubt /\ ~Answers(c)
  <2>1. SUFFICES ASSUME ListReady(row), row.cfg \notin doubt'
                 PROVE  \/ Answers(c)'
                        \/ disk'[row.cfg] = disk[row.cfg] /\ row.cfg \notin doubt /\ ~Answers(c)
    OBVIOUS
  <2>2. CASE row.cfg = K
    <3>1. k.base = row /\ row # NoRow
      BY <1>1, <1>2, <1>3, <1>10, <2>1, <2>2 DEF Abreast, Fills, ListReady, NoRow
    <3>2. p # "idle"
      BY <1>4, <1>9, <1>10, <2>1, <2>2, <3>1
    <3> QED BY <1>3, <1>9, <1>13, <2>2, <3>1, <3>2 DEF Answers, Writing
  <2>3. CASE row.cfg # K
    <3>1. row.cfg \in Configs \ {0, K}
      BY <1>2, <2>1, <2>3 DEF Typed, IsRow, Rows, ListReady, NoRow
    <3> QED BY <1>1, <1>10, <1>11, <2>1, <2>3, <3>1 DEF Answers
  <2> QED BY <2>2, <2>3
<1>19. K \notin doubt' => (disk'[K].index > 0 /\ disk'[K].meta > 0 => disk'[K].index = disk'[K].meta)
  BY <1>3, <1>5, <1>12, <1>16 DEF Holding, Writing
<1>20. IsRow(row') /\ (~Sql /\ row' # NoRow => model # 0)
  BY <1>2, <1>3 DEF Typed
<1>21. Fills(c)' => Fills(c) /\ call[c].cfg = call'[c].cfg
  BY <1>1, <1>13, <1>15
<1>22. /\ Becomes(c, n) /\ Outside /\ row' = row /\ K \in Configs
       /\ \A f \in doubt : f # K => f \in doubt'
       /\ K \notin doubt' => \A o \in Callers \ {c} : call[o].cfg = K => ~Holds(o)
  BY <1>3, <1>4, <1>8, <1>10
<1> QED BY <1>22, <1>11, <1>14, <1>17, <1>18, <1>19, <1>20, <1>21, CallerStep

\* The row says what the files hold by now.
LEMMA SaveReadyStep ==
    ASSUME VectorInv, NEW c \in Callers, SaveReady(c)
    PROVE  VectorInv'
<1>1. PICK k, K : k = call[c] /\ K = k.cfg
  OBVIOUS
<1>2. Typed /\ Fits(c) /\ Contents(c) /\ Abreast(c) /\ Alone(c) /\ IsCall(k)
  BY <1>1 DEF VectorInv, CallInv, Fits
<1>3. PICK r : r = [k.mine EXCEPT !.status = "READY", !.last = k.gen]
  OBVIOUS
<1>4. PICK p \in {"commit", "idle"} : p = Done /\ (p = "commit" <=> Sql)
  BY DEF Done
<1>5. PICK n : n = [k EXCEPT !.pc = p, !.mine = r, !.gen = 0]
  OBVIOUS
<1>6. k.pc = "ready" /\ Becomes(c, n) /\ Saved(r) /\ disk' = disk /\ doubt' = doubt /\ Outside
  BY <1>1, <1>3, <1>4, <1>5 DEF SaveReady
<1>7. /\ K \in Configs \ {0} /\ c \in Refreshes /\ k.mine.cfg = K /\ k.gen \in Nat
      /\ (Sql \/ model # 0) /\ IsRow(k.mine)
  BY <1>1, <1>2, <1>6 DEF Fits, IsCall, Writing
<1>8. IsRow(r) /\ r.cfg = K /\ r.status = "READY" /\ r.last = k.gen /\ r.id = k.mine.id /\ r # NoRow
  <2>1. k.mine \in Rows /\ "READY" \in Status /\ k.gen \in Nat \cup {Never}
    BY <1>7 DEF IsRow, NoRow, Status
  <2>2. r \in Rows /\ r.cfg = K /\ r.status = "READY" /\ r.last = k.gen /\ r.id = k.mine.id
    BY <1>3, <1>7, <2>1 DEF Rows
  <2> QED BY <1>7, <2>1, <2>2 DEF IsRow, NoRow
<1>9. /\ IsCall(n) /\ n.pc = p /\ n.cfg = K /\ n.base = k.base /\ n.mine = r
      /\ call'[c] = IF p = "idle" THEN Idle ELSE n
  <2>1. n = Gone(k, p, r, 0, k.index)
    BY <1>2, <1>5 DEF Gone, IsCall
  <2>2. p \in Phases /\ r \in Rows /\ k.index \in Int
    BY <1>2, <1>8 DEF Phases, Rebuilt, IsRow, IsCall
  <2>3. k.base = NoRow \/ r = NoRow \/ k.base.id = r.id
    <3>1. k.mine # NoRow
      BY <1>7 DEF NoRow
    <3> QED BY <1>2, <1>8, <3>1 DEF IsCall
  <2>4. IsCall(n) /\ n.pc = p /\ n.cfg = K /\ n.base = k.base /\ n.mine = r
    BY <1>1, <1>2, <1>7, <1>8, <2>1, <2>2, <2>3, Moved
  <2>5. call'[c] = IF n.pc = "idle" THEN Idle ELSE n
    BY <1>2, <1>6, Becoming DEF Typed
  <2> QED BY <2>4, <2>5
<1>10. Fits(c)'
  <2>1. CASE p = "idle"
    BY <1>9, <2>1, IdleFits
  <2>2. CASE p # "idle"
    <3>1. call'[c] = n /\ n.pc = "commit" /\ Sql'
      BY <1>4, <1>6, <1>9, <2>2 DEF Outside, Sql
    <3> QED BY <1>7, <1>8, <1>9, <3>1 DEF Fits, Writing
  <2> QED BY <2>1, <2>2
<1>11. Fills(c)' => Fills(c) /\ Sql /\ call'[c] = n /\ k.gen > 0
  <2>1. SUFFICES ASSUME Fills(c)' PROVE Fills(c) /\ Sql /\ call'[c] = n /\ k.gen > 0
    OBVIOUS
  <2>2. p # "idle"
    BY <1>9, <2>1, IdleFits
  <2> QED BY <1>1, <1>4, <1>6, <1>8, <1>9, <2>1, <2>2 DEF Fills, Writing
<1>12. k.gen > 0 /\ K \notin doubt => disk[K] = Holding(k.gen)
  BY <1>1, <1>2, <1>6 DEF Contents
<1>13. Contents(c)' /\ Abreast(c)'
  <2>1. Sql => row' = row
    BY <1>6 DEF Saved
  <2>2. Contents(c)'
    <3>1. SUFFICES ASSUME call'[c] = n PROVE Contents(c)'
      BY <1>9 DEF Contents, Idle
    <3> QED BY <1>4, <1>6, <1>8, <1>9, <1>11, <1>12, <3>1 DEF Contents
  <2>3. Abreast(c)'
    BY <1>1, <1>2, <1>6, <1>9, <1>11, <2>1 DEF Abreast
  <2> QED BY <2>2, <2>3
<1>14. ~Sql /\ k.gen > 0 /\ K \notin doubt =>
          \A o \in Callers \ {c} : ~(Fills(o) /\ call[o].cfg = K)
  BY <1>1, <1>2, <1>6 DEF Alone, Fills
<1>15. ListReady(r) => k.gen > 0
  BY <1>8 DEF ListReady
<1>16. \/ row' = row \/ ~ListReady(row') \/ row'.cfg \in doubt'
       \/ /\ disk'[row'.cfg] = Holding(row'.last)
          /\ \A o \in Callers \ {c} : Fills(o) /\ call[o].cfg = row'.cfg => row'.cfg \in doubt'
  BY <1>6, <1>8, <1>12, <1>14, <1>15 DEF Saved
<1>17. row' = row /\ ListReady(row) /\ row.cfg \notin doubt' =>
          \/ disk'[row.cfg] = Holding(row.last)
          \/ Answers(c)'
          \/ disk'[row.cfg] = disk[row.cfg] /\ row.cfg \notin doubt /\ ~Answers(c)
  <2>1. CASE Sql
    <3>1. call'[c] = n /\ n.pc = "commit"
      BY <1>4, <1>9, <2>1
    <3> QED BY <1>1, <1>6, <1>7, <1>9, <3>1 DEF Answers, Writing
  <2>2. CASE ~Sql
    <3>1. row' = r
      BY <1>6, <2>2 DEF Saved
    <3> QED BY <1>6, <1>8, <1>12, <1>15, <3>1
  <2> QED BY <2>1, <2>2
<1>18. IsRow(row') /\ (Sql => row' = row) /\ (~Sql /\ row' # NoRow => model # 0)
  BY <1>2, <1>6, <1>7, <1>8 DEF Saved, Typed
<1>19. /\ 0 \in Configs /\ Becomes(c, n) /\ Outside /\ \A f \in doubt : f \in doubt'
       /\ disk' \in [Configs \ {0} -> [index : Int, meta : Int]]
       /\ \A f \in Configs \ {0} : disk'[f] = disk[f]
       /\ 0 \notin doubt' => 0 \notin doubt
  BY <1>2, <1>6, ConfigsAssumption DEF Typed
<1>20. Fills(c)' => Fills(c) /\ call[c].cfg = call'[c].cfg
  BY <1>1, <1>9, <1>11
<1> QED BY <1>10, <1>13, <1>16, <1>17, <1>18, <1>19, <1>20, CallerStep

\* An UPDATE keeps the identifier, and changes what the session has changed.
LEMMA Updates ==
    ASSUME IsRow(row), row # NoRow, NEW base, NEW mine, IsRow(mine), mine # NoRow,
           NEW u, u = Updated(base, mine)
    PROVE  /\ IsRow(u) /\ u.id = row.id
           /\ mine = base => u = row
           /\ row = base => u.cfg = mine.cfg /\ u.status = mine.status /\ u.last = mine.last
<1>1. /\ row \in Rows /\ mine \in Rows /\ row.cfg # 0 /\ mine.cfg # 0
  BY DEF IsRow
<1>2. PICK cfg, status, refreshed :
         /\ cfg = IF mine.cfg # base.cfg THEN mine.cfg ELSE row.cfg
         /\ status = IF mine.status # base.status THEN mine.status ELSE row.status
         /\ refreshed = IF mine.last # base.last THEN mine.last ELSE row.last
  OBVIOUS
<1>3. cfg \in Configs /\ cfg # 0 /\ status \in Status /\ refreshed \in Nat \cup {Never}
  BY <1>1, <1>2 DEF Rows
<1>4. u = [row EXCEPT !.cfg = cfg, !.status = status, !.last = refreshed]
  BY <1>2 DEF Updated
<1>5. u \in Rows /\ u.id = row.id /\ u.cfg = cfg /\ u.status = status /\ u.last = refreshed
  BY <1>1, <1>3, <1>4 DEF Rows
<1>6. mine = base => u = row
  BY <1>1, <1>2, <1>4 DEF Rows
<1> QED BY <1>1, <1>2, <1>3, <1>5, <1>6 DEF IsRow

\* The session commits: it says READY only of files that it alone has filled.
LEMMA CommitStep ==
    ASSUME VectorInv, NEW c \in Callers, Commit(c)
    PROVE  VectorInv'
<1>1. PICK k, K, base, mine : k = call[c] /\ K = k.cfg /\ base = k.base /\ mine = k.mine
  OBVIOUS
<1>2. Typed /\ Fits(c) /\ Contents(c) /\ Alone(c) /\ IsCall(k)
  BY <1>1 DEF VectorInv, CallInv, Fits
<1>3. /\ k.pc \in {"commit", "save"} /\ Becomes(c, Idle) /\ disk' = disk /\ Outside
      /\ row' = IF Conflict(base, mine) THEN row
                ELSE IF mine = NoRow THEN (IF row.id = base.id THEN NoRow ELSE row)
                ELSE IF base = NoRow THEN [mine EXCEPT !.id = NewId]
                ELSE Updated(base, mine)
      /\ doubt' = IF mine # base /\ (row # base \/ Overwrites(c))
                  THEN doubt \cup {row'.cfg} ELSE doubt
  BY <1>1 DEF Commit
<1>4. /\ Sql /\ IsRow(row) /\ IsStored(row) /\ IsRow(base) /\ IsStored(base) /\ IsRow(mine)
      /\ \/ k.pc = "commit" /\ mine = NoRow /\ base # NoRow
         \/ k.pc = "commit" /\ c \in Refreshes /\ mine # NoRow /\ mine.cfg = K
         \/ k.pc = "save" /\ mine # NoRow
  <2>1. K # 0 /\ NoRow.cfg = 0
    BY <1>1, <1>2, <1>3 DEF Fits, NoRow
  <2> QED BY <1>1, <1>2, <1>3, <2>1 DEF Fits, IsCall, Typed
<1>5. DOMAIN call' = Callers /\ call'[c] = Idle /\ Fits(c)' /\ ~Fills(c)'
  BY <1>2, <1>3, Becoming, IdleFits DEF Typed
<1>6. /\ ~ListReady(NoRow) /\ Contents(c)' /\ Abreast(c)'
  BY <1>5 DEF Contents, Abreast, Fills, Idle, ListReady, NoRow, Writing
<1>7. PICK new : new = [mine EXCEPT !.id = NewId]
  OBVIOUS
<1>8. mine # NoRow => /\ IsRow(new) /\ IsStored(new)
                      /\ new.cfg = mine.cfg /\ new.status = mine.status /\ new.last = mine.last
  <2>1. NewId \in Nat \ {0}
    BY UnusedId
  <2> QED BY <1>4, <1>7, <2>1 DEF IsRow, IsStored, Rows, NoRow, Unsaved
<1>9. \/ row' = row
      \/ row' = NoRow
      \/ mine # NoRow /\ base = NoRow /\ row' = new
      \/ mine # NoRow /\ base # NoRow /\ mine # base /\ row # NoRow /\ row' = Updated(base, mine)
  <2>1. SUFFICES ASSUME mine # NoRow, base # NoRow, ~Conflict(base, mine), row' = Updated(base, mine)
                 PROVE  row # NoRow /\ (mine = base => row' = row)
    BY <1>3, <1>7
  <2>2. row # NoRow
    BY <1>4, <2>1 DEF Conflict, IsStored, NoRow
  <2> QED BY <1>4, <2>1, <2>2, Updates
<1>10. IsRow(row') /\ IsStored(row')
  <2>1. CASE row' \in {row, NoRow, new}
    BY <1>4, <1>8, <1>9, <2>1, RowsTyped
  <2>2. CASE mine # NoRow /\ row # NoRow /\ row' = Updated(base, mine)
    <3>1. PICK u : u = row'
      OBVIOUS
    <3>2. IsRow(u) /\ u.id = row.id
      BY <1>4, <2>2, <3>1, Updates
    <3> QED BY <1>4, <2>2, <3>1, <3>2 DEF IsStored
  <2> QED BY <1>9, <2>1, <2>2
<1>11. k.pc = "commit" /\ mine # NoRow /\ ListReady(mine) /\ mine # base /\ mine.cfg \notin doubt =>
          /\ disk[mine.cfg] = Holding(mine.last)
          /\ \A o \in Callers \ {c} : ~(Fills(o) /\ call[o].cfg = mine.cfg)
  BY <1>1, <1>2, <1>3, <1>4 DEF Contents, Alone, Fills, ListReady
<1>12. \/ row' = row \/ ~ListReady(row') \/ row'.cfg \in doubt'
       \/ /\ disk'[row'.cfg] = Holding(row'.last)
          /\ \A o \in Callers \ {c} : Fills(o) /\ call[o].cfg = row'.cfg => row'.cfg \in doubt'
  <2>1. SUFFICES ASSUME row' # row, ListReady(row'), row'.cfg \notin doubt'
                 PROVE  /\ disk'[row'.cfg] = Holding(row'.last)
                        /\ \A o \in Callers \ {c} : ~(Fills(o) /\ call[o].cfg = row'.cfg)
    OBVIOUS
  <2>2. \/ mine # NoRow /\ mine # base /\ row = base /\ row'.cfg \notin doubt /\ row' = Updated(base, mine)
        \/ mine # NoRow /\ base = NoRow /\ row' = new /\ row'.cfg \notin doubt
    <3>1. row'.cfg \notin doubt /\ (mine = base \/ row = base)
      BY <1>3, <2>1
    <3>2. row' # NoRow
      BY <1>6, <2>1
    <3> QED BY <1>9, <2>1, <3>1, <3>2
  <2>3. /\ mine # NoRow /\ mine # base /\ row'.cfg \notin doubt
        /\ row'.cfg = mine.cfg /\ row'.status = mine.status /\ row'.last = mine.last
    <3>1. PICK u : u = row'
      OBVIOUS
    <3>2. mine # NoRow => mine # base
      BY <1>9, <2>1, <2>2 DEF IsRow
    <3>3. CASE base # NoRow /\ row = base /\ u = Updated(base, mine)
      BY <1>4, <2>2, <3>1, <3>2, <3>3, Updates
    <3>4. CASE u = new
      BY <1>8, <2>2, <3>1, <3>2, <3>4
    <3> QED BY <1>9, <2>1, <2>2, <3>1, <3>3, <3>4
  <2>4. k.pc = "commit" /\ ListReady(mine)
    BY <1>1, <1>3, <1>4, <2>1, <2>3 DEF ListReady, Overwrites
  <2> QED BY <1>3, <1>11, <2>3, <2>4
<1>13. row' = row /\ ListReady(row) /\ row.cfg \notin doubt' =>
          \/ disk'[row.cfg] = Holding(row.last)
          \/ disk'[row.cfg] = disk[row.cfg] /\ row.cfg \notin doubt /\ ~Answers(c)
  <2>1. SUFFICES ASSUME row' = row, ListReady(row), row.cfg \notin doubt', Answers(c)
                 PROVE  disk[row.cfg] = Holding(row.last)
    BY <1>3
  <2>2. row # NoRow /\ row.cfg = K /\ K \notin doubt
    BY <1>1, <1>3, <1>6, <2>1 DEF Answers
  <2>3. CASE mine = NoRow
    BY <1>1, <1>3, <1>4, <2>1, <2>2, <2>3 DEF Conflict
  <2>4. CASE mine # NoRow
    <3>1. base = row /\ k.pc = "commit" /\ c \in Refreshes /\ mine.cfg = K
      BY <1>1, <1>3, <1>4, <2>1, <2>4 DEF Answers, Writing
    <3>2. row' = Updated(base, mine)
      BY <1>3, <2>2, <2>4, <3>1 DEF Conflict
    <3>3. mine.status = row.status /\ mine.last = row.last
      <4>1. PICK u : u = row'
        OBVIOUS
      <4>2. u = Updated(base, mine) /\ row = base
        BY <3>1, <3>2, <4>1
      <4>3. u.status = mine.status /\ u.last = mine.last
        BY <1>4, <2>2, <2>4, <4>2, Updates
      <4> QED BY <2>1, <4>1, <4>3
    <3> QED BY <1>1, <1>2, <1>3, <2>1, <2>2, <3>1, <3>3 DEF Contents, Fills, ListReady
  <2> QED BY <2>3, <2>4
<1>14. /\ 0 \in Configs /\ \A f \in doubt : f \in doubt'
       /\ disk' \in [Configs \ {0} -> [index : Int, meta : Int]]
       /\ \A f \in Configs \ {0} : disk'[f] = disk[f]
  BY <1>2, <1>3, ConfigsAssumption DEF Typed
<1> QED BY <1>3, <1>4, <1>5, <1>6, <1>10, <1>12, <1>13, <1>14, CallerStep

\* A call ends without a commit: the files it leaves are in doubt.
LEMMA AbandonStep ==
    ASSUME VectorInv, NEW c \in Callers, Becomes(c, Idle), Outside, UNCHANGED <<row, disk>>,
           doubt' = doubt \cup Doubtful(c, Abandoned(c))
    PROVE  VectorInv'
<1>1. PICK k, K : k = call[c] /\ K = k.cfg
  OBVIOUS
<1>2. Typed /\ Fits(c) /\ IsCall(k) /\ K \in Configs
  BY <1>1 DEF VectorInv, CallInv, Fits, IsCall
<1>3. DOMAIN call' = Callers /\ call'[c] = Idle /\ Fits(c)' /\ ~Fills(c)'
  BY <1>2, Becoming, IdleFits DEF Typed
<1>4. Contents(c)' /\ Abreast(c)'
  BY <1>3 DEF Contents, Abreast, Idle, Writing, Fills
<1>5. doubt \subseteq doubt' /\ (Abandoned(c) => K \in doubt')
  BY <1>1 DEF Doubtful
<1>6. ListReady(row) /\ row.cfg \notin doubt' => ~Answers(c)
  <2>1. SUFFICES ASSUME ListReady(row), Answers(c), ~Abandoned(c)
                 PROVE  FALSE
    BY <1>1, <1>5 DEF Answers
  <2>2. row # NoRow
    BY <2>1 DEF ListReady, NoRow
  <2>3. CASE Sql
    BY <1>1, <2>1, <2>3 DEF Answers, Abandoned, Holds
  <2>4. CASE ~Sql
    BY <1>1, <1>2, <2>1, <2>2, <2>4 DEF Answers, Fits
  <2> QED BY <2>3, <2>4
<1>7. disk \in [Configs \ {0} -> [index : Int, meta : Int]] /\ IsRow(row) /\ (~Sql /\ row # NoRow => model # 0)
  BY <1>2 DEF Typed
<1>8. K # 0 /\ K \notin doubt' =>
          (disk[K].index > 0 /\ disk[K].meta > 0 => disk[K].index = disk[K].meta)
  BY <1>2, <1>5 DEF VectorInv, FilesAgree
<1> QED BY <1>2, <1>3, <1>4, <1>5, <1>6, <1>7, <1>8, CallerStep

LEMMA CancelStep ==
    ASSUME VectorInv, NEW c \in Callers, Cancel(c)
    PROVE  VectorInv'
<1>1. PICK k, K : k = call[c] /\ K = k.cfg
  OBVIOUS
<1>2. /\ Typed /\ Fits(c) /\ Contents(c) /\ Abreast(c) /\ IsCall(k) /\ K \in Configs
  BY <1>1 DEF VectorInv, CallInv, Fits, IsCall
<1>3. CASE k.pc \notin Writing
  <2>1. Becomes(c, Idle) /\ Outside /\ UNCHANGED <<row, disk>>
        /\ doubt' = doubt \cup Doubtful(c, Abandoned(c))
    BY <1>1, <1>3 DEF Cancel
  <2> QED BY <2>1, AbandonStep
<1>4. CASE k.pc \in Writing
  <2>1. PICK n : n = [k EXCEPT !.cut = TRUE]
    OBVIOUS
  <2>2. Becomes(c, n) /\ Outside /\ row' = row /\ disk' = disk /\ doubt \subseteq doubt'
    BY <1>1, <1>4, <2>1 DEF Cancel
  <2>3. /\ IsCall(n) /\ n.pc = k.pc /\ n.cfg = K /\ n.base = k.base /\ n.mine = k.mine /\ n.gen = k.gen
    <3> DEFINE C == [pc : Phases, cfg : Configs, base : Rows, mine : Rows, gen : Nat, index : Int, cut : BOOLEAN]
    <3>1. k \in C
      BY <1>2 DEF IsCall
    <3>2. n \in C /\ n.pc = k.pc /\ n.cfg = K /\ n.base = k.base /\ n.mine = k.mine /\ n.gen = k.gen
      BY <1>1, <2>1, <3>1
    <3>3. IsRow(n.base) /\ IsRow(n.mine)
      BY <1>2, <3>2 DEF IsCall
    <3> QED BY <1>2, <3>2, <3>3 DEF IsCall
  <2>4. call'[c] = n /\ DOMAIN call' = Callers
    BY <1>2, <1>4, <2>2, <2>3, Becoming DEF Typed, Writing
  <2>5. Fits(c)'
    <3>1. (Sql' <=> Sql) /\ model' = model
      BY <2>2 DEF Outside, Sql
    <3> QED BY <1>1, <1>2, <1>4, <2>3, <2>4, <3>1 DEF Fits, Writing
  <2>6. (Fills(c)' <=> Fills(c)) /\ (row' = row => (Answers(c)' <=> Answers(c)))
    BY <1>1, <2>3, <2>4 DEF Fills, Answers
  <2>7. Contents(c)' /\ Abreast(c)'
    BY <1>1, <1>2, <2>2, <2>3, <2>4, <2>6 DEF Contents, Abreast
  <2>8. disk \in [Configs \ {0} -> [index : Int, meta : Int]] /\ IsRow(row) /\ (~Sql /\ row # NoRow => model # 0)
    BY <1>2 DEF Typed
  <2>9. K # 0 /\ K \notin doubt' =>
            (disk[K].index > 0 /\ disk[K].meta > 0 => disk[K].index = disk[K].meta)
    BY <1>2, <2>2 DEF VectorInv, FilesAgree
  <2>10. Fills(c)' => Fills(c) /\ call[c].cfg = call'[c].cfg
    BY <1>1, <2>3, <2>4, <2>6
  <2>11. ListReady(row) /\ row.cfg \notin doubt' =>
            \/ Answers(c)'
            \/ disk'[row.cfg] = disk[row.cfg] /\ row.cfg \notin doubt /\ ~Answers(c)
    BY <2>2, <2>6
  <2>12. /\ \A f \in doubt : f \in doubt'
         /\ K \notin doubt' => K \notin doubt
    BY <2>2
  <2> QED BY <1>2, <2>2, <2>5, <2>7, <2>8, <2>9, <2>10, <2>11, <2>12, CallerStep
<1> QED BY <1>3, <1>4

LEMMA RaiseStep ==
    ASSUME VectorInv, NEW c \in Callers, Raise(c) \/ Abort(c)
    PROVE  VectorInv'
BY AbandonStep DEF Raise, Abort, RollBack

LEMMA FailStep ==
    ASSUME VectorInv, NEW c \in Callers, Fail(c)
    PROVE  VectorInv'
BY FailedStep DEF Fail

\* The data and, in a persisted store, the model change under the calls.
LEMMA WorldStep ==
    ASSUME VectorInv, UNCHANGED <<store, row, disk, call, doubt>>,
           data' \in Nat, model' \in Configs, Sql \/ model' = model
    PROVE  VectorInv'
<1>1. Typed' /\ (Sql' <=> Sql)
  BY DEF VectorInv, Typed, Sql
<1>2. ASSUME NEW c \in Callers
      PROVE  CallInv(c)'
  <2>1. Fits(c) /\ Contents(c) /\ Alone(c) /\ Abreast(c)
    BY DEF VectorInv, CallInv
  <2>2. Fits(c)'
    BY <1>1, <2>1 DEF Fits
  <2>3. \A o \in Callers : Fills(o)' <=> Fills(o)
    BY DEF Fills
  <2>4. Contents(c)' /\ Alone(c)' /\ Abreast(c)'
    BY <2>1, <2>3 DEF Contents, Alone, Abreast
  <2> QED BY <2>2, <2>4 DEF CallInv
<1>3. Complete'
  <2>1. \A o \in Callers : Answers(o)' <=> Answers(o)
    BY DEF Answers
  <2> QED BY <2>1 DEF VectorInv, Complete
<1>4. FilesAgree'
  BY DEF VectorInv, FilesAgree
<1> QED BY <1>1, <1>2, <1>3, <1>4 DEF VectorInv

\* No call is in flight.
LEMMA AllIdle ==
    ASSUME Typed', \A c \in Callers : call'[c] = Idle
    PROVE  \A c \in Callers : CallInv(c)'
<1>1. SUFFICES ASSUME NEW c \in Callers
               PROVE  CallInv(c)'
  OBVIOUS
<1>2. Fits(c)' /\ ~Fills(c)'
  BY IdleFits
<1>3. Contents(c)' /\ Alone(c)' /\ Abreast(c)'
  BY <1>2 DEF Contents, Alone, Abreast, Idle, Writing, Fills
<1> QED BY <1>2, <1>3 DEF CallInv

LEMMA CrashStep ==
    ASSUME VectorInv, Crash
    PROVE  VectorInv'
<1>1. Typed
  BY DEF VectorInv
<1>2. /\ UNCHANGED <<store, model, data>> /\ (Sql' <=> Sql)
      /\ row' = (IF Sql THEN row ELSE NoRow)
      /\ doubt \subseteq doubt' /\ \A c \in Callers : Abandoned(c) => call[c].cfg \in doubt'
      /\ DOMAIN call' = Callers /\ \A c \in Callers : call'[c] = Idle
  BY DEF Crash, Outside, Sql
<1>3. \/ disk' = disk
      \/ \E c \in Callers :
            /\ call[c].pc \in Writing /\ call[c].cfg \in Configs \ {0}
            /\ disk' \in [Configs \ {0} -> [index : Int, meta : Int]]
            /\ \A f \in Configs \ {0, call[c].cfg} : disk'[f] = disk[f]
            /\ ~(disk'[call[c].cfg].index > 0) \/ ~(disk'[call[c].cfg].meta > 0)
  <2>1. SUFFICES ASSUME NEW c \in Callers, call[c].pc \in Writing,
                        disk' = IF call[c].pc \in {"createIndex", "upsertIndex"}
                                THEN [disk EXCEPT ![call[c].cfg].index = Torn]
                                ELSE [disk EXCEPT ![call[c].cfg].meta = Torn]
                 PROVE  /\ call[c].cfg \in Configs \ {0}
                        /\ disk' \in [Configs \ {0} -> [index : Int, meta : Int]]
                        /\ \A f \in Configs \ {0, call[c].cfg} : disk'[f] = disk[f]
                        /\ ~(disk'[call[c].cfg].index > 0) \/ ~(disk'[call[c].cfg].meta > 0)
    BY DEF Crash
  <2>2. PICK K : K = call[c].cfg
    OBVIOUS
  <2>3. K \in Configs \ {0}
    BY <2>1, <2>2 DEF VectorInv, CallInv, Fits, IsCall, Writing
  <2>4. Torn \in Int /\ ~(Torn > 0)
    BY DEF Torn
  <2>5. disk[K] \in [index : Int, meta : Int]
    BY <1>1, <2>3 DEF Typed
  <2>6. disk' = [disk EXCEPT ![K].index = Torn] \/ disk' = [disk EXCEPT ![K].meta = Torn]
    BY <2>1, <2>2
  <2>7. /\ disk' \in [Configs \ {0} -> [index : Int, meta : Int]]
        /\ \A f \in Configs \ {0, K} : disk'[f] = disk[f]
        /\ disk'[K].index = Torn \/ disk'[K].meta = Torn
    BY <1>1, <2>3, <2>4, <2>5, <2>6 DEF Typed
  <2> QED BY <2>2, <2>3, <2>4, <2>7
<1>4. Typed'
  BY <1>1, <1>2, <1>3, RowsTyped DEF Typed
<1>5. \A c \in Callers : CallInv(c)'
  BY <1>2, <1>4, AllIdle
<1>6. Complete'
  <2>1. SUFFICES ASSUME ListReady(row'), row'.cfg \notin doubt'
                 PROVE  disk'[row'.cfg] = Holding(row'.last)
    BY DEF Complete
  <2>2. row' = row /\ Sql /\ row.cfg \in Configs \ {0} /\ row.cfg \notin doubt
    BY <1>1, <1>2, <2>1 DEF Typed, IsRow, Rows, ListReady, NoRow
  <2>3. \A c \in Callers : Abandoned(c) => call[c].cfg # row.cfg
    BY <1>2, <2>1, <2>2
  <2>4. \A c \in Callers : ~Answers(c)
    BY <2>2, <2>3 DEF Answers, Abandoned, Holds
  <2>5. disk'[row.cfg] = disk[row.cfg]
    BY <1>3, <2>2, <2>3 DEF Abandoned, Holds
  <2> QED BY <2>1, <2>2, <2>4, <2>5 DEF VectorInv, Complete
<1>7. FilesAgree'
  BY <1>2, <1>3 DEF VectorInv, FilesAgree
<1> QED BY <1>4, <1>5, <1>6, <1>7 DEF VectorInv

LEMMA VectorInit == Init => VectorInv
<1>1. SUFFICES ASSUME Init PROVE VectorInv
  OBVIOUS
<1>2. Typed
  <2>1. NoFiles \in [index : Int, meta : Int] /\ store \in {"memory", "sql"} /\ data \in Nat
    BY <1>1, StoresAssumption DEF Init, NoFiles, NoFile
  <2> QED BY <1>1, <2>1, RowsTyped DEF Init, Typed
<1>3. \A c \in Callers : CallInv(c)
  <2>1. ASSUME NEW c \in Callers
        PROVE  CallInv(c)
    <3>1. call[c] = Idle /\ IsCall(Idle)
      BY <1>1, RowsTyped DEF Init
    <3>2. Fits(c) /\ ~Fills(c)
      BY <3>1 DEF Fits, Fills, Idle, Writing
    <3> QED BY <3>1, <3>2 DEF CallInv, Contents, Alone, Abreast, Idle, Writing, Fills
  <2> QED BY <2>1
<1>4. Complete /\ FilesAgree
  BY <1>1 DEF Init, Complete, FilesAgree, ListReady, NoRow, NoFiles, NoFile
<1> QED BY <1>2, <1>3, <1>4 DEF VectorInv

LEMMA VectorNext == VectorInv /\ [Next]_vars => VectorInv'
<1> SUFFICES ASSUME VectorInv, [Next]_vars
             PROVE  VectorInv'
  OBVIOUS
<1>1. Typed
  BY DEF VectorInv
<1>2. CASE UNCHANGED vars
  BY <1>1, <1>2, WorldStep DEF vars, Typed
<1>3. ASSUME NEW gen \in 0 .. MaxGen, Change(gen)
      PROVE  VectorInv'
  <2>1. gen \in Nat
    BY BoundsAssumption
  <2> QED BY <1>1, <1>3, <2>1, WorldStep DEF Change, Typed
<1>4. ASSUME NEW cfg \in Configs, Edit(cfg)
      PROVE  VectorInv'
  BY <1>1, <1>4, WorldStep DEF Edit, Typed
<1>6. ASSUME NEW place \in Places, Spoil(place)
      PROVE  VectorInv'
  BY <1>1, <1>6, WorldStep DEF Spoil, Typed
<1>5. ASSUME NEW c \in Callers, BeginNothing(c)
      PROVE  VectorInv'
  BY <1>1, <1>5, WorldStep DEF BeginNothing, vars, Typed
<1> QED BY <1>2, <1>3, <1>4, <1>5, <1>6, BeginDropStep, StoppedStep, ListStep, BeginRefreshStep, BeginSearchStep, DropStep, FetchStep,
           ResetStep, WriteStep, SaveReadyStep, SearchReads, CommitStep, FailStep, CancelStep, RaiseStep,
           CrashStep DEF Next

LEMMA VectorIndexInv == Spec => []VectorInv
BY VectorInit, VectorNext, PTL DEF Spec

(***************************************************************************)
(* An index that is stored as READY holds exactly the values of its last   *)
(* refresh, however refreshes fail, are cancelled, die or drop the index.  *)
(* Outside of a refresh that has the files in hand three things make an    *)
(* exception, each of them by name: rebuilds that overlap, a session that  *)
(* had rebuilt the files and ended without its commit, and a call that     *)
(* rebuilt nothing and stored the READY it had listed over what had been   *)
(* committed since (semantic_vector_search_service, _sync_model_indexes    *)
(* and _refresh_dimension_index).                                          *)
(***************************************************************************)
THEOREM IndexIsComplete == Spec => []ReadyIsComplete
<1>1. VectorInv => ReadyIsComplete
  <2>1. SUFFICES ASSUME VectorInv, ListReady(row), row.cfg \notin doubt
                 PROVE  \/ \E c \in Callers : call[c].cfg = row.cfg /\ call[c].pc \in Rebuilt
                        \/ disk[row.cfg] = [index |-> row.last, meta |-> row.last]
    BY DEF ReadyIsComplete
  <2>2. \A c \in Callers : Answers(c) => call[c].cfg = row.cfg /\ call[c].pc \in Rebuilt
    BY DEF Answers, Rebuilt
  <2> QED BY <2>1, <2>2 DEF VectorInv, Complete, Holding
<1> QED BY <1>1, VectorIndexInv, PTL

(***************************************************************************)
(* A search that finds a vector names its value: the index and the values  *)
(* it has read are of one refresh, unless the index was rebuilt between    *)
(* the two reads or two rebuilds have overlapped (FaissVectorStore,        *)
(* _load_state and search).                                                *)
(***************************************************************************)
THEOREM HitsNameTheirValue == Spec => HitsTrue
<1>1. ASSUME VectorInv
      PROVE  \A c \in Searches : Hit(c) =>
                LET f == disk[call[c].cfg] IN
                call[c].index = f.meta \/ call[c].index # f.index \/ call[c].cfg \in doubt
  <2>1. SUFFICES ASSUME NEW c \in Searches, Hit(c), call[c].index = disk[call[c].cfg].index,
                        call[c].cfg \notin doubt
                 PROVE  call[c].index = disk[call[c].cfg].meta
    OBVIOUS
  <2>2. call[c].cfg \in Configs \ {0}
    BY <1>1, <2>1 DEF VectorInv, CallInv, Fits, IsCall, Hit, Callers
  <2> QED BY <1>1, <2>1, <2>2 DEF VectorInv, FilesAgree, Hit
<1>2. VectorInv =>
         (\A c \in Searches :
             Hit(c) /\ call'[c].pc # "meta" =>
                LET f == disk[call[c].cfg] IN
                call[c].index = f.meta \/ call[c].index # f.index \/ call[c].cfg \in doubt)
  BY <1>1
<1> QED BY <1>2, VectorIndexInv, PTL DEF HitsTrue

-----------------------------------------------------------------------------
(* Paging: the inductive invariant                                         *)

Positional(m) == m.paging \in {"offset", "page"}

\* What the sync has read up to its cursor, if no deletion has moved it.
Behind(r) == IF Positional(manifest) THEN Position(r, live) <= cursor ELSE r <= cursor

\* The source numbers its records as they come, stamps them with the time,
\* and no cursor is ahead of the time.
StampsKnown ==
    /\ \E n \in 0..MaxRecords : {q \in Records : stamp[q] # 0} = 1..n
    /\ \A r \in live : stamp[r] # 0
    /\ \A r \in Records : stamp[r] <= clock
    /\ newest <= clock /\ last <= clock

PagingTyped ==
    /\ manifest \in Manifests
    /\ live \in SUBSET Records /\ stamp \in [Records -> 0..MaxStamp] /\ clock \in 0..MaxStamp
    /\ pc \in {"idle", "full", "incremental"}
    /\ since \in Nat /\ cursor \in Nat /\ newest \in Nat /\ last \in Nat
    /\ got \in [Records -> Nat] /\ file \in [Records -> Nat]
    /\ shifted => Positional(manifest)

\* What is behind the stored cursor was fetched; while a sync runs, too.
FetchedSoFar == gaps = {} => \A r \in live \ passed : stamp[r] < last => Fetched(r)

\* What the sync under way has read: records in their present versions, and
\* none that it asked for is left out behind its cursor.  What has changed
\* since it began is no older than the stored cursor.
ReadSoFar ==
    Syncing =>
       /\ since = (IF pc = "full" THEN 0 ELSE last)
       /\ \A r \in Records \ touched : got[r] \in {0, stamp[r]}
       /\ \A r \in touched : r \in Records /\ last <= stamp[r]
       /\ ~shifted /\ (since = 0 \/ ~Lossy(manifest)) =>
             \A r \in live \ touched : stamp[r] >= since /\ Behind(r) => got[r] = stamp[r]

PagingInv == PagingTyped /\ StampsKnown /\ FetchedSoFar /\ ReadSoFar

-----------------------------------------------------------------------------
(* Paging: what a page covers                                              *)

\* The positions of a listing: each number up to its length once, in the
\* order of the records.
LEMMA Positions ==
    ASSUME NEW list \in SUBSET Records
    PROVE  /\ IsFiniteSet(list) /\ Cardinality(list) \in Nat
           /\ \A r \in list : Position(r, list) \in 1..Cardinality(list)
           /\ \A k \in 1..Cardinality(list) : \E r \in list : Position(r, list) = k
           /\ \A q, r \in list : q < r <=> Position(q, list) < Position(r, list)
<1> DEFINE R == {e \in list \X list : e[1] < e[2]}
           Lower(r) == {q \in list : <<q, r>> \in R}
<1>1. MaxRecords \in Nat /\ IsFiniteSet(Records) /\ \A r \in list : r \in Nat
  BY PagingAssumption, FS_Interval DEF Records
<1>2. IsFiniteSet(list)
  BY <1>1, FS_Subset
<1>3. /\ R \in SUBSET (list \X list)
      /\ \A i, j \in list : <<i, j>> \in R <=> i < j
  OBVIOUS
<1>4. /\ \A i \in list : <<i, i>> \notin R
      /\ \A i, j, k \in list : <<i, j>> \in R /\ <<j, k>> \in R => <<i, k>> \in R
      /\ \A i, j \in list : i # j => <<i, j>> \in R \/ <<j, i>> \in R
  <2> HIDE DEF R
  <2> QED BY <1>1, <1>3
<1>5. /\ Cardinality(list) \in Nat
      /\ \A k \in 1..Cardinality(list) : \E i \in list : Cardinality(Lower(i)) = k - 1
      /\ \A i \in list : Cardinality(Lower(i)) + 1 \in 1..Cardinality(list)
      /\ \A i, j \in list : <<i, j>> \in R <=> Cardinality(Lower(i)) < Cardinality(Lower(j))
  <2> HIDE DEF R
  <2> QED BY <1>2, <1>3, <1>4, OrderNumbers
<1>6. ASSUME NEW r \in list
      PROVE  Position(r, list) = Cardinality(Lower(r)) + 1 /\ Cardinality(Lower(r)) \in Nat
  <2>1. {q \in list : q <= r} = Lower(r) \cup {r} /\ r \notin Lower(r) /\ Lower(r) \in SUBSET list
    BY <1>1
  <2>2. IsFiniteSet(Lower(r))
    <3> HIDE DEF Lower
    <3> QED BY <1>2, <2>1, FS_Subset
  <2>3. Cardinality(Lower(r) \cup {r}) = Cardinality(Lower(r)) + 1 /\ Cardinality(Lower(r)) \in Nat
    <3> HIDE DEF Lower
    <3> QED BY <2>1, <2>2, FS_AddElement, FS_CardinalityType
  <2> HIDE DEF Lower
  <2> QED BY <2>1, <2>3 DEF Position
<1>7. \A r \in list : Position(r, list) \in 1..Cardinality(list)
  <2> HIDE DEF Lower
  <2> QED BY <1>5, <1>6
<1>8. \A k \in 1..Cardinality(list) : \E r \in list : Position(r, list) = k
  <2>1. ASSUME NEW k \in 1..Cardinality(list)
        PROVE  \E r \in list : Position(r, list) = k
    <3>1. PICK r \in list : Cardinality(Lower(r)) = k - 1
      <4> HIDE DEF Lower
      <4> QED BY <1>5
    <3>2. Position(r, list) = k
      <4> HIDE DEF Lower
      <4> QED BY <1>5, <1>6, <3>1
    <3> QED BY <3>2
  <2> QED BY <2>1
<1>9. \A q, r \in list : q < r <=> Position(q, list) < Position(r, list)
  <2>1. ASSUME NEW q \in list, NEW r \in list
        PROVE  q < r <=> Position(q, list) < Position(r, list)
    <3>1. /\ q < r <=> <<q, r>> \in R
          /\ <<q, r>> \in R <=> Cardinality(Lower(q)) < Cardinality(Lower(r))
      <4> HIDE DEF Lower, R
      <4> QED BY <1>3, <1>5
    <3>2. /\ Position(q, list) = Cardinality(Lower(q)) + 1 /\ Cardinality(Lower(q)) \in Nat
          /\ Position(r, list) = Cardinality(Lower(r)) + 1 /\ Cardinality(Lower(r)) \in Nat
      BY <1>6
    <3> HIDE DEF Lower, R
    <3> QED BY <3>1, <3>2
  <2> QED BY <2>1
<1> QED BY <1>2, <1>5, <1>7, <1>8, <1>9

\* Records that come into a listing move the others back, never forward.
LEMMA PositionGrows ==
    ASSUME NEW all \in SUBSET Records, NEW list \in SUBSET all, NEW r \in Nat
    PROVE  /\ Position(r, list) \in Nat /\ Position(r, all) \in Nat
           /\ Position(r, list) <= Position(r, all)
<1> DEFINE A == {q \in all : q <= r}
           L == {q \in list : q <= r}
<1>1. IsFiniteSet(all) /\ A \in SUBSET all /\ L \in SUBSET A
  BY Positions
<1>2. IsFiniteSet(A)
  <2> HIDE DEF A, L
  <2> QED BY <1>1, FS_Subset
<1>3. IsFiniteSet(L) /\ Cardinality(L) <= Cardinality(A)
  <2> HIDE DEF A, L
  <2> QED BY <1>1, <1>2, FS_Subset
<1>4. Cardinality(L) \in Nat /\ Cardinality(A) \in Nat
  <2> HIDE DEF A, L
  <2> QED BY <1>2, <1>3, FS_CardinalityType
<1> QED BY <1>3, <1>4 DEF Position

\* Where the answer to a request begins.
StartOf(m, list) == IF Positional(m) THEN cursor ELSE Cardinality({r \in list : r <= cursor})

\* The answer is the next PageSize records, fewer only at the end.
LEMMA AnswerIsNext ==
    ASSUME NEW m \in Manifests, NEW list \in SUBSET Records, cursor \in Nat
    PROVE  /\ StartOf(m, list) \in Nat
           /\ Answer(m, list) \in SUBSET list
           /\ \A r \in list : r \in Answer(m, list) <=>
                 StartOf(m, list) < Position(r, list) /\ Position(r, list) <= StartOf(m, list) + PageSize
           /\ \A r \in list : ~Positional(m) /\ Position(r, list) <= StartOf(m, list) => r <= cursor
           /\ Cardinality(Answer(m, list)) \in Nat /\ Cardinality(Answer(m, list)) <= PageSize
           /\ (\E r \in list : Position(r, list) > StartOf(m, list) + PageSize)
                 => Cardinality(Answer(m, list)) = PageSize
<1> DEFINE start == StartOf(m, list)
           answer == Answer(m, list)
           window == (start + 1)..(start + PageSize)
<1>1. PageSize \in Nat /\ PageSize # 0 /\ \A r \in list : r \in Nat
  BY PagingAssumption DEF Records
<1>2. /\ IsFiniteSet(list) /\ Cardinality(list) \in Nat
      /\ \A r \in list : Position(r, list) \in 1..Cardinality(list)
      /\ \A k \in 1..Cardinality(list) : \E r \in list : Position(r, list) = k
      /\ \A q, r \in list : q < r <=> Position(q, list) < Position(r, list)
  BY Positions
<1>3. start \in Nat
  <2> DEFINE U == {r \in list : r <= cursor}
  <2>1. U \in SUBSET list
    OBVIOUS
  <2>2. Cardinality(U) \in Nat
    <3> HIDE DEF U
    <3> QED BY <1>2, <2>1, FS_Subset, FS_CardinalityType
  <2> QED BY <2>2 DEF StartOf
<1>4. answer = {r \in list : Position(r, list) \in window}
  BY DEF Answer, StartOf, Positional
<1>5. \A r \in list : r \in answer <=> start < Position(r, list) /\ Position(r, list) <= start + PageSize
  <2> HIDE DEF start
  <2>1. \A r \in list : Position(r, list) \in window <=>
                           start < Position(r, list) /\ Position(r, list) <= start + PageSize
    BY <1>1, <1>2, <1>3
  <2> HIDE DEF answer, window
  <2> QED BY <1>4, <2>1
<1>6. ASSUME NEW r \in list, ~Positional(m), Position(r, list) <= start
      PROVE  r <= cursor
  <2>1. SUFFICES ASSUME r > cursor
                 PROVE  FALSE
    BY <1>1
  <2> DEFINE U == {q \in list : q <= cursor}
             V == {q \in list : q <= r}
  <2>2. U \in SUBSET V /\ r \in V /\ r \notin U /\ V \in SUBSET list
    BY <1>1, <2>1
  <2>3. IsFiniteSet(V)
    <3> HIDE DEF V
    <3> QED BY <1>2, <2>2, FS_Subset
  <2>4. IsFiniteSet(U) /\ Cardinality(U) <= Cardinality(V) /\ (Cardinality(U) = Cardinality(V) => U = V)
    <3> HIDE DEF U, V
    <3> QED BY <2>2, <2>3, FS_Subset
  <2>5. Cardinality(U) \in Nat /\ Cardinality(V) \in Nat
    <3> HIDE DEF U, V
    <3> QED BY <2>3, <2>4, FS_CardinalityType
  <2>6. Cardinality(U) < Cardinality(V)
    <3> HIDE DEF U, V
    <3> QED BY <2>2, <2>4, <2>5
  <2>7. start = Cardinality(U) /\ Position(r, list) = Cardinality(V)
    BY <1>6 DEF StartOf, Position
  <2> HIDE DEF U, V, start
  <2> QED BY <1>6, <2>5, <2>6, <2>7
<1>7. answer \in SUBSET list /\ IsFiniteSet(answer)
  <2>1. answer \in SUBSET list
    BY <1>4
  <2> HIDE DEF answer
  <2> QED BY <1>2, <2>1, FS_Subset
<1>8. Cardinality(answer) \in Nat
  <2> HIDE DEF answer
  <2> QED BY <1>7, FS_CardinalityType
<1>9. IsFiniteSet(window) /\ Cardinality(window) = PageSize
  <2> HIDE DEF start
  <2>1. start + 1 \in Int /\ start + PageSize \in Int /\ start + 1 <= start + PageSize
    BY <1>1, <1>3
  <2>2. Cardinality(window) = (start + PageSize) - (start + 1) + 1 /\ IsFiniteSet(window)
    BY <2>1, FS_Interval
  <2> QED BY <1>1, <1>3, <2>2
<1> DEFINE place == [r \in answer |-> Position(r, list)]
<1>10. place \in Injection(answer, window)
  <2>1. \A r \in answer : Position(r, list) \in window
    BY <1>4
  <2>2. place \in [answer -> window]
    <3> HIDE DEF answer, window
    <3> QED BY <2>1
  <2>3. ASSUME NEW q \in answer, NEW r \in answer, q # r
        PROVE  place[q] # place[r]
    <3>1. q \in list /\ r \in list /\ (q < r \/ r < q)
      <4>1. q \in list /\ r \in list
        BY <1>7
      <4> HIDE DEF answer
      <4> QED BY <1>1, <2>3, <4>1
    <3>2. Position(q, list) # Position(r, list)
      <4> HIDE DEF answer
      <4> QED BY <1>2, <3>1
    <3> HIDE DEF answer
    <3> QED BY <3>2
  <2> HIDE DEF place, answer, window
  <2> QED BY <2>2, <2>3 DEF Injection, IsInjective
<1>11. Cardinality(answer) <= PageSize
  <2> HIDE DEF place, answer, window
  <2> QED BY <1>9, <1>10, FS_Injection
<1>12. ASSUME NEW r \in list, Position(r, list) > start + PageSize
       PROVE  Cardinality(answer) = PageSize
  <2>1. \A k \in window : k \in 1..Cardinality(list)
    <3> HIDE DEF start
    <3> QED BY <1>1, <1>2, <1>3, <1>12
  <2>2. \A k \in window : \E q \in answer : place[q] = k
    <3>1. ASSUME NEW k \in window
          PROVE  \E q \in answer : place[q] = k
      <4>1. PICK q \in list : Position(q, list) = k
        <5> HIDE DEF window
        <5> QED BY <1>2, <2>1
      <4>2. q \in answer
        BY <1>4, <4>1
      <4>3. place[q] = k
        BY <4>1, <4>2
      <4> QED BY <4>2, <4>3
    <3> QED BY <3>1
  <2>3. place \in Surjection(answer, window)
    <3>1. place \in [answer -> window]
      <4> HIDE DEF place, answer, window
      <4> QED BY <1>10 DEF Injection, IsInjective
    <3> HIDE DEF place, answer, window
    <3> QED BY <2>2, <3>1 DEF Surjection
  <2>4. Cardinality(window) <= Cardinality(answer)
    <3> HIDE DEF place, answer, window
    <3> QED BY <1>7, <2>3, FS_Surjection
  <2> HIDE DEF answer, window
  <2> QED BY <1>1, <1>8, <1>9, <1>11, <2>4
<1> HIDE DEF start, answer
<1> QED BY <1>3, <1>5, <1>6, <1>7, <1>8, <1>11, <1>12 DEF start, answer

\* Nothing of a listing lies between what was read and the next cursor; and
\* nothing is left when there is none.
LEMMA PageCovers ==
    ASSUME NEW m \in Manifests, NEW list \in SUBSET Records, cursor \in Nat,
           NEW records, records = Answer(m, list) \/ m.paging \in {"server", "page"},
           NEW next, next = NextCursor(m, Answer(m, list), records, list)
    PROVE  /\ next \in Nat
           /\ \A r \in list :
                 next = 0 \/ (IF Positional(m) THEN Position(r, list) <= next ELSE r <= next) =>
                    Position(r, list) <= StartOf(m, list) + PageSize
<1> DEFINE start == StartOf(m, list)
           answer == Answer(m, list)
           Reached(r) == Position(r, list) <= start + PageSize
<1>1. /\ PageSize \in Nat /\ PageSize # 0 /\ MaxRecords \in Nat
      /\ m.paging \in {"offset", "record", "server", "page"}
      /\ m.paging \in {"server", "page"} => m.ends = "is_last"
      /\ m.ends \in {"is_last", "total", "none"}
  BY PagingAssumption DEF Manifests
<1>2. /\ IsFiniteSet(list) /\ Cardinality(list) \in Nat
      /\ \A r \in list : Position(r, list) \in 1..Cardinality(list)
      /\ \A k \in 1..Cardinality(list) : \E r \in list : Position(r, list) = k
      /\ \A q, r \in list : q < r <=> Position(q, list) < Position(r, list)
  BY Positions
<1>3. /\ start \in Nat
      /\ answer \in SUBSET list
      /\ \A r \in list : r \in answer <=> start < Position(r, list) /\ Position(r, list) <= start + PageSize
      /\ Cardinality(answer) \in Nat /\ Cardinality(answer) <= PageSize
      /\ (\E r \in list : Position(r, list) > start + PageSize) => Cardinality(answer) = PageSize
  BY AnswerIsNext
<1>4. \A r \in list : r \in Nat
  BY DEF Records
<1>5. ASSUME answer # {}
      PROVE  Max(answer) \in answer /\ Max(answer) \in Nat /\ \A r \in list : r <= Max(answer) => Reached(r)
  <2>1. answer \in SUBSET (1..MaxRecords)
    BY <1>3 DEF Records
  <2>2. Max(answer) \in answer
    <3> HIDE DEF answer
    <3> QED BY <1>1, <1>5, <2>1, GreatestUpTo
  <2> DEFINE top == Max(answer)
  <2>3. top \in list /\ Position(top, list) <= start + PageSize
    <3> HIDE DEF start, answer, top
    <3> QED BY <1>3, <2>2 DEF top
  <2>4. ASSUME NEW r \in list, r <= top
        PROVE  Reached(r)
    <3>1. r = top \/ r < top
      <4> HIDE DEF top
      <4> QED BY <1>4, <2>3, <2>4
    <3>2. Position(r, list) <= Position(top, list)
      <4>1. Position(r, list) \in Nat /\ Position(top, list) \in Nat
        <5> HIDE DEF top
        <5> QED BY <1>2, <2>3
      <4> HIDE DEF top
      <4> QED BY <1>2, <2>3, <3>1, <4>1
    <3>3. Position(r, list) \in Nat /\ Position(top, list) \in Nat
      <4> HIDE DEF top
      <4> QED BY <1>2, <2>3
    <3> HIDE DEF top, start
    <3> QED BY <1>1, <1>3, <2>3, <3>2, <3>3
  <2> HIDE DEF Reached, answer
  <2> QED BY <1>4, <2>2, <2>3, <2>4 DEF top
<1>6. ASSUME answer = {} \/ Cardinality(answer) < PageSize, NEW r \in list
      PROVE  Reached(r)
  <2>1. Cardinality(answer) < PageSize
    <3> HIDE DEF answer
    <3> QED BY <1>1, <1>6, FS_EmptySet
  <2>2. Position(r, list) \in Nat
    BY <1>2
  <2> HIDE DEF start, answer
  <2> QED BY <1>1, <1>3, <2>1, <2>2
<1>7. ASSUME IsLast(answer, list), NEW r \in list
      PROVE  Reached(r)
  <2>1. CASE answer = {}
    BY <1>6, <2>1
  <2>2. CASE answer # {}
    <3>1. r <= Max(answer)
      <4> HIDE DEF answer
      <4> QED BY <1>7, <2>2 DEF IsLast
    <3> HIDE DEF Reached, answer
    <3> QED BY <1>5, <2>2, <3>1
  <2> QED BY <2>1, <2>2
<1> DEFINE Bound(r) == IF Positional(m) THEN Position(r, list) <= next ELSE r <= next
           n == Cardinality(answer)
<1>8. CASE m.paging = "offset"
  <2>1. records = answer /\ Positional(m) /\ start = cursor
    BY <1>8 DEF Positional, StartOf
  <2>2. next = NextOffset(m, answer, list, IsLast(answer, list))
    BY <1>8, <2>1 DEF NextCursor
  <2> HIDE DEF answer, Reached
  <2>3. CASE /\ ~(m.ends = "is_last" /\ IsLast(answer, list)) /\ ~(m.ends = "total" /\ cursor + n >= Cardinality(list))
             /\ n # 0 /\ ~(n < PageSize /\ m.ends # "total")
    <3>1. next = cursor + n
      BY <2>2, <2>3 DEF NextOffset
    <3>2. next \in Nat /\ next # 0 /\ next <= start + PageSize
      BY <1>1, <1>3, <2>1, <2>3, <3>1
    <3>3. ASSUME NEW r \in list, next = 0 \/ Bound(r)
          PROVE  Reached(r)
      <4>1. Position(r, list) <= next /\ Position(r, list) \in Nat
        BY <1>2, <2>1, <3>2, <3>3
      <4> HIDE DEF start
      <4> QED BY <1>1, <1>3, <3>2, <4>1 DEF Reached
    <3> QED BY <3>2, <3>3 DEF Reached
  <2>4. CASE m.ends = "is_last" /\ IsLast(answer, list)
    BY <1>7, <2>2, <2>4 DEF NextOffset, Reached
  <2>5. CASE m.ends = "total" /\ cursor + n >= Cardinality(list)
    <3>1. next = 0
      BY <2>2, <2>5 DEF NextOffset
    <3>2. ASSUME NEW r \in list
          PROVE  Reached(r)
      <4>1. Position(r, list) \in Nat /\ Position(r, list) <= Cardinality(list)
        BY <1>2
      <4>2. Cardinality(list) <= start + n
        BY <2>1, <2>5
      <4> HIDE DEF start
      <4> QED BY <1>1, <1>2, <1>3, <4>1, <4>2 DEF Reached
    <3> QED BY <3>1, <3>2 DEF Reached
  <2>6. CASE n = 0 \/ (n < PageSize /\ m.ends # "total")
    <3>1. next = 0
      BY <2>2, <2>6 DEF NextOffset
    <3>2. n < PageSize
      BY <1>1, <2>6
    <3> QED BY <1>6, <3>1, <3>2 DEF Reached
  <2> QED BY <2>3, <2>4, <2>5, <2>6
<1>9. CASE m.paging = "record"
  <2>1. records = answer /\ ~Positional(m)
    BY <1>9 DEF Positional
  <2>2. next = IF (m.ends = "is_last" /\ IsLast(answer, list)) \/ answer = {} THEN 0 ELSE Max(answer)
    BY <1>9, <2>1 DEF NextCursor
  <2> HIDE DEF answer, Reached
  <2>3. CASE (m.ends = "is_last" /\ IsLast(answer, list)) \/ answer = {}
    BY <1>6, <1>7, <2>2, <2>3 DEF Reached
  <2>4. CASE ~((m.ends = "is_last" /\ IsLast(answer, list)) \/ answer = {})
    <3>1. next = Max(answer) /\ answer # {}
      BY <2>2, <2>4
    <3>2. next \in Nat /\ \A r \in list : r <= next => Reached(r)
      BY <1>5, <3>1
    <3>3. next # 0
      <4>1. next \in Records
        BY <1>3, <1>5, <3>1
      <4> QED BY <4>1 DEF Records
    <3> QED BY <2>1, <3>2, <3>3 DEF Reached
  <2> QED BY <2>3, <2>4
<1>10. CASE m.paging = "server"
  <2>1. ~Positional(m)
    BY <1>10 DEF Positional
  <2>2. next = IF answer = {} \/ IsLast(answer, list) THEN 0 ELSE Max(answer)
    BY <1>10 DEF NextCursor
  <2> HIDE DEF answer, Reached
  <2>3. CASE answer = {} \/ IsLast(answer, list)
    BY <1>6, <1>7, <2>2, <2>3 DEF Reached
  <2>4. CASE ~(answer = {} \/ IsLast(answer, list))
    <3>1. next = Max(answer) /\ answer # {}
      BY <2>2, <2>4
    <3>2. next \in Nat /\ \A r \in list : r <= next => Reached(r)
      BY <1>5, <3>1
    <3>3. next # 0
      <4>1. next \in Records
        BY <1>3, <1>5, <3>1
      <4> QED BY <4>1 DEF Records
    <3> QED BY <2>1, <3>2, <3>3 DEF Reached
  <2> QED BY <2>3, <2>4
<1>11. CASE m.paging = "page"
  <2>1. Positional(m) /\ start = cursor
    BY <1>11 DEF Positional, StartOf
  <2>2. next = IF answer = {} \/ IsLast(answer, list) THEN 0 ELSE cursor + PageSize
    BY <1>11 DEF NextCursor
  <2> HIDE DEF answer, Reached
  <2>3. CASE answer = {} \/ IsLast(answer, list)
    BY <1>6, <1>7, <2>2, <2>3 DEF Reached
  <2>4. CASE ~(answer = {} \/ IsLast(answer, list))
    <3>1. next = start + PageSize
      BY <2>1, <2>2, <2>4
    <3>2. next \in Nat /\ next # 0
      <4> HIDE DEF start
      <4> QED BY <1>1, <1>3, <3>1
    <3>3. ASSUME NEW r \in list, next = 0 \/ Bound(r)
          PROVE  Reached(r)
      <4> HIDE DEF start
      <4> QED BY <2>1, <3>1, <3>2, <3>3 DEF Reached
    <3> QED BY <3>2, <3>3 DEF Reached
  <2> QED BY <2>3, <2>4
<1> HIDE DEF start, answer, Bound
<1> QED BY <1>1, <1>8, <1>9, <1>10, <1>11 DEF start, answer, Bound

\* A page's checkpoint is the stamp of one of its records, in either order.
LEMMA CheckpointIsSeen ==
    ASSUME NEW m \in Manifests, NEW records \in SUBSET Records, PagingTyped,
           \A r \in records : stamp[r] # 0
    PROVE  \/ records = {} /\ Checkpoint(m, records) = 0
           \/ \E r \in records : Checkpoint(m, records) = stamp[r]
<1> DEFINE weight == [r \in Records |-> IF m.kind = "string" THEN (IF stamp[r] = 0 THEN 0 ELSE TextRank[stamp[r]])
                                        ELSE stamp[r]]
           Good == {n \in Nat : \A U \in SUBSET records :
                       U # {} /\ U \in SUBSET (1..n) => \E r \in U : \A q \in U : weight[r] >= weight[q]}
<1>1. MaxRecords \in Nat /\ MaxStamp \in Nat /\ TextRank \in [1..MaxStamp -> Nat] /\ stamp \in [Records -> 0..MaxStamp]
  BY PagingAssumption DEF PagingTyped, Stamps
<1>2. \A r \in records : weight[r] \in Nat
  <2>1. \A r \in records : stamp[r] \in 1..MaxStamp
    BY <1>1
  <2> QED BY <1>1, <2>1
<1>3. \A n \in Nat : n \in Good
  <2> HIDE DEF weight
  <2>1. 0 \in Good
    <3>1. 1..0 = {}
      OBVIOUS
    <3>2. \A U : U \in SUBSET (1..0) => U = {}
      BY <3>1
    <3> QED BY <3>2
  <2>2. ASSUME NEW n \in Nat, n \in Good
        PROVE  n + 1 \in Good
    <3>1. ASSUME NEW U \in SUBSET records, U # {}, U \in SUBSET (1..(n + 1))
          PROVE  \E r \in U : \A q \in U : weight[r] >= weight[q]
      <4> DEFINE W == U \ {n + 1}
      <4>1. W \in SUBSET records /\ W \in SUBSET (1..n)
        BY <3>1
      <4>2. CASE n + 1 \notin U
        <5>1. U \in SUBSET (1..n)
          BY <3>1, <4>2
        <5> QED BY <2>2, <3>1, <5>1
      <4>3. CASE n + 1 \in U /\ W = {}
        <5>1. \A q \in U : q = n + 1
          BY <4>3
        <5>2. n + 1 \in U /\ weight[n + 1] \in Nat
          BY <1>2, <3>1, <4>3
        <5> QED BY <5>1, <5>2
      <4>4. CASE n + 1 \in U /\ W # {}
        <5>1. PICK r \in W : \A q \in W : weight[r] >= weight[q]
          <6> HIDE DEF W
          <6> QED BY <2>2, <4>1, <4>4
        <5>2. r \in U /\ n + 1 \in U /\ \A q \in U : q \in W \/ q = n + 1
          BY <4>4
        <5>3. \A q \in U : weight[q] \in Nat
          BY <1>2
        <5> HIDE DEF W
        <5>4. CASE weight[r] >= weight[n + 1]
          BY <5>1, <5>2, <5>3, <5>4
        <5>5. CASE weight[n + 1] >= weight[r]
          BY <5>1, <5>2, <5>3, <5>5
        <5>6. weight[r] \in Nat /\ weight[n + 1] \in Nat
          BY <5>2, <5>3
        <5> QED BY <5>4, <5>5, <5>6
      <4> QED BY <4>2, <4>3, <4>4
    <3> QED BY <3>1
  <2>3. \A n \in Nat : n \in Good => n + 1 \in Good
    BY <2>2
  <2> HIDE DEF Good
  <2> QED BY <2>1, <2>3, SetInduction
<1>4. CASE records # {}
  <2>1. records \in SUBSET records /\ records \in SUBSET (1..MaxRecords)
    BY DEF Records
  <2>2. PICK r \in records : \A q \in records : weight[r] >= weight[q]
    <3>1. MaxRecords \in Good
      <4> HIDE DEF Good
      <4> QED BY <1>1, <1>3
    <3> HIDE DEF weight
    <3> QED BY <1>4, <2>1, <3>1
  <2>3. \A q \in records : AtLeast(m.kind, stamp[r], stamp[q])
    BY <2>2 DEF AtLeast
  <2> DEFINE Values == {stamp[q] : q \in records}
             Top(s) == \A q \in records : AtLeast(m.kind, s, stamp[q])
  <2>4. stamp[r] \in Values /\ Top(stamp[r])
    BY <2>3
  <2>5. Checkpoint(m, records) = CHOOSE s \in Values : Top(s)
    BY <1>4 DEF Checkpoint
  <2>6. Checkpoint(m, records) \in Values
    <3> HIDE DEF Values, Top
    <3> QED BY <2>4, <2>5
  <2> QED BY <2>6
<1>5. CASE records = {}
  BY <1>5 DEF Checkpoint
<1> QED BY <1>4, <1>5

-----------------------------------------------------------------------------
(* Paging: the steps                                                       *)

\* What the request of this page is about has every record that the sync
\* asked for; before the cursor of a filtered listing there is nothing.
LEMMA ListedIsAsked ==
    ASSUME PagingTyped
    PROVE  /\ Listed(manifest) \in SUBSET live
           /\ \A r \in live : stamp[r] >= since => r \in Listed(manifest)
           /\ Listed(manifest) = live \/ cursor = 0 \/ manifest.paging = "server"
BY DEF Listed, PagingTyped

\* The filter keeps what the sync asked for, and under the kinds of paging that
\* count or continue from what is left it keeps everything.
LEMMA FilterIsFair ==
    ASSUME PagingTyped, since = 0 \/ ~Lossy(manifest), NEW answer \in SUBSET Records
    PROVE  /\ \A r \in answer : stamp[r] >= since => r \in FilterIncremental(manifest, answer)
           /\ FilterIncremental(manifest, answer) = answer \/ manifest.paging \in {"server", "page"}
<1>1. manifest.paging \in {"offset", "record", "server", "page"} /\ manifest.filter \in {"request_param", "client_filter"}
  BY PagingAssumption DEF PagingTyped, Manifests
<1>2. CASE since = 0 \/ manifest.filter = "request_param"
  BY <1>2 DEF FilterIncremental
<1>3. CASE ~(since = 0 \/ manifest.filter = "request_param")
  <2>1. manifest.kind # "string" /\ manifest.paging \in {"server", "page"}
    BY <1>1, <1>3 DEF Lossy
  <2> QED BY <1>3, <2>1 DEF FilterIncremental, AtLeast
<1> QED BY <1>2, <1>3

\* The rows that the sync has with this page: records in their present version.
RowsWith(records) == [r \in Records |-> IF r \in records THEN stamp[r] ELSE got[r]]

\* With this page the sync has read what it asked for up to the next cursor,
\* and everything if there is none.
LEMMA PageReads ==
    ASSUME PagingInv, Syncing, ~shifted, since = 0 \/ ~Lossy(manifest),
           NEW list, list = Listed(manifest),
           NEW answer, answer = Answer(manifest, list),
           NEW records, records = FilterIncremental(manifest, answer),
           NEW next, next = NextCursor(manifest, answer, records, list),
           NEW r \in live \ touched, stamp[r] >= since,
           next = 0 \/ (IF Positional(manifest) THEN Position(r, live) <= next ELSE r <= next)
    PROVE  RowsWith(records)[r] = stamp[r]
<1>1. /\ manifest \in Manifests /\ live \in SUBSET Records /\ cursor \in Nat /\ r \in live /\ r \in Records /\ r \in Nat
      /\ PagingTyped /\ stamp \in [Records -> 0..MaxStamp]
  BY DEF PagingInv, PagingTyped, Records
<1>2. list \in SUBSET live /\ r \in list /\ (list = live \/ cursor = 0 \/ manifest.paging = "server")
  BY <1>1, ListedIsAsked
<1>3. list \in SUBSET Records
  BY <1>1, <1>2
<1>4. answer \in SUBSET list
  BY <1>1, <1>3, AnswerIsNext
<1>5. records = answer \/ manifest.paging \in {"server", "page"}
  BY <1>1, <1>3, <1>4, FilterIsFair
<1>6. r \in answer => r \in records
  BY <1>1, <1>3, <1>4, FilterIsFair
<1>7. /\ next \in Nat
      /\ \A q \in list :
            next = 0 \/ (IF Positional(manifest) THEN Position(q, list) <= next ELSE q <= next) =>
               Position(q, list) <= StartOf(manifest, list) + PageSize
  BY <1>1, <1>3, <1>5, PageCovers
<1>8. Position(r, list) \in Nat /\ Position(r, live) \in Nat /\ Position(r, list) <= Position(r, live)
  BY <1>1, <1>2, PositionGrows
<1>9. Position(r, list) <= StartOf(manifest, list) + PageSize
  <2>1. next = 0 \/ (IF Positional(manifest) THEN Position(r, list) <= next ELSE r <= next)
    BY <1>7, <1>8
  <2> QED BY <1>2, <1>7, <2>1
<1>10. /\ StartOf(manifest, list) \in Nat
       /\ r \in answer <=>
             StartOf(manifest, list) < Position(r, list) /\ Position(r, list) <= StartOf(manifest, list) + PageSize
       /\ ~Positional(manifest) /\ Position(r, list) <= StartOf(manifest, list) => r <= cursor
  BY <1>1, <1>2, <1>3, AnswerIsNext
<1>11. CASE r \in answer
  BY <1>1, <1>6, <1>11 DEF RowsWith
<1>12. CASE r \notin answer
  <2>1. Position(r, list) <= StartOf(manifest, list)
    BY <1>8, <1>9, <1>10, <1>12
  <2>2. Behind(r)
    <3>1. CASE Positional(manifest)
      <4>1. Position(r, list) <= cursor
        BY <2>1, <3>1 DEF StartOf
      <4>2. Position(r, list) # 0
        BY <1>2, <1>3, Positions
      <4>3. cursor # 0 /\ manifest.paging # "server"
        BY <1>1, <1>8, <3>1, <4>1, <4>2 DEF Positional
      <4>4. list = live
        BY <1>2, <4>3
      <4> QED BY <3>1, <4>1, <4>4 DEF Behind
    <3>2. CASE ~Positional(manifest)
      BY <1>10, <2>1, <3>2 DEF Behind
    <3> QED BY <3>1, <3>2
  <2>3. got[r] = stamp[r]
    BY <2>2 DEF PagingInv, ReadSoFar
  <2> QED BY <1>1, <2>3 DEF RowsWith
<1> QED BY <1>11, <1>12

\* A cursor is a number, whatever the filter leaves of the page.
LEMMA NextIsNumber ==
    ASSUME NEW m \in Manifests, cursor \in Nat, NEW list, NEW answer \in SUBSET Records,
           NEW records \in SUBSET Records
    PROVE  NextCursor(m, answer, records, list) \in Nat
<1>1. /\ PageSize \in Nat /\ MaxRecords \in Nat /\ m.paging \in {"offset", "record", "server", "page"}
      /\ IsFiniteSet(1..MaxRecords)
  <2>1. PageSize \in Nat /\ MaxRecords \in Nat /\ m.paging \in {"offset", "record", "server", "page"}
    BY PagingAssumption DEF Manifests
  <2>2. IsFiniteSet(1..MaxRecords)
    BY <2>1, FS_Interval
  <2> QED BY <2>1, <2>2
<1>2. \A U \in SUBSET Records : U # {} => Max(U) \in Nat
  <2>1. ASSUME NEW U \in SUBSET (1..MaxRecords), U # {}
        PROVE  Max(U) \in Nat
    <3>1. PICK top : top = Max(U)
      OBVIOUS
    <3>2. top \in U
      BY <1>1, <2>1, <3>1, GreatestUpTo
    <3>3. \A q \in U : q \in Nat
      OBVIOUS
    <3> QED BY <3>1, <3>2, <3>3
  <2> QED BY <2>1 DEF Records
<1>3. Cardinality(records) \in Nat
  BY <1>1, FS_Subset, FS_CardinalityType DEF Records
<1>4. NextOffset(m, records, list, IsLast(answer, list)) \in Nat
  BY <1>3 DEF NextOffset
<1>5. CASE m.paging = "offset"
  BY <1>4, <1>5 DEF NextCursor
<1>6. CASE m.paging = "record"
  BY <1>2, <1>6 DEF NextCursor
<1>7. CASE m.paging = "server"
  BY <1>2, <1>7 DEF NextCursor
<1>8. CASE m.paging = "page"
  BY <1>1, <1>8 DEF NextCursor
<1> QED BY <1>1, <1>5, <1>6, <1>7, <1>8

\* What a page leaves in the rows and in the cursor that is kept for the end.
LEMMA PageIsTrue ==
    ASSUME PagingInv, Syncing,
           NEW list, list = Listed(manifest),
           NEW answer, answer = Answer(manifest, list),
           NEW records, records = FilterIncremental(manifest, answer),
           NEW next, next = NextCursor(manifest, answer, records, list),
           NEW best, best = PickNewer(manifest, newest, Checkpoint(manifest, records))
    PROVE  /\ RowsWith(records) \in [Records -> Nat]
           /\ \A r \in Records \ touched : RowsWith(records)[r] \in {0, stamp[r]}
           /\ best \in Nat /\ best <= clock
           /\ next \in Nat
<1>1. /\ manifest \in Manifests /\ live \in SUBSET Records /\ cursor \in Nat
      /\ PagingTyped /\ stamp \in [Records -> 0..MaxStamp] /\ got \in [Records -> Nat]
      /\ newest \in Nat /\ newest <= clock /\ clock \in Nat
      /\ \A r \in live : stamp[r] # 0
      /\ \A r \in Records : stamp[r] <= clock
  BY DEF PagingInv, PagingTyped, StampsKnown
<1>2. list \in SUBSET live /\ list \in SUBSET Records
  BY <1>1, ListedIsAsked
<1>3. answer \in SUBSET list
  BY <1>1, <1>2, AnswerIsNext
<1>4. records \in SUBSET answer
  BY DEF FilterIncremental
<1>5. records \in SUBSET Records /\ \A r \in records : stamp[r] # 0
  BY <1>1, <1>2, <1>3, <1>4
<1>6. RowsWith(records) \in [Records -> Nat]
  <2>1. \A r \in Records : (IF r \in records THEN stamp[r] ELSE got[r]) \in Nat
    BY <1>1
  <2> QED BY <2>1 DEF RowsWith
<1>7. \A r \in Records \ touched : RowsWith(records)[r] \in {0, stamp[r]}
  <2>1. \A r \in Records \ touched : got[r] \in {0, stamp[r]}
    BY DEF PagingInv, ReadSoFar
  <2> QED BY <2>1 DEF RowsWith
<1>8. Checkpoint(manifest, records) \in Nat /\ Checkpoint(manifest, records) <= clock
  <2>1. CASE records = {} /\ Checkpoint(manifest, records) = 0
    BY <1>1, <2>1
  <2>2. CASE \E r \in records : Checkpoint(manifest, records) = stamp[r]
    BY <1>1, <1>5, <2>2
  <2> QED BY <1>1, <1>5, <2>1, <2>2, CheckpointIsSeen
<1>9. best \in Nat /\ best <= clock
  <2>1. best = newest \/ best = Checkpoint(manifest, records)
    BY DEF PickNewer
  <2> QED BY <1>1, <1>8, <2>1
<1>10. next \in Nat
  BY <1>1, <1>2, <1>3, <1>5, NextIsNumber
<1> QED BY <1>6, <1>7, <1>9, <1>10

LEMMA PagingInitInv == PagingInit => PagingInv
<1> SUFFICES ASSUME PagingInit PROVE PagingInv
  OBVIOUS
<1>1. /\ MaxRecords \in Nat /\ Initial \in 0..MaxRecords /\ MaxStamp \in Nat /\ MaxStamp # 0
  BY PagingAssumption
<1>2. PagingTyped
  BY <1>1 DEF PagingInit, PagingTyped, NoRows, Records
<1>3. StampsKnown
  <2>1. {q \in Records : stamp[q] # 0} = 1..Initial
    BY <1>1 DEF PagingInit, Records
  <2>2. /\ \A r \in live : stamp[r] # 0
        /\ \A r \in Records : stamp[r] <= clock
        /\ newest <= clock /\ last <= clock
    BY <1>1 DEF PagingInit, Records
  <2> QED BY <1>1, <2>1, <2>2 DEF StampsKnown
<1>4. FetchedSoFar /\ ReadSoFar
  <2>1. \A r \in live : stamp[r] \in Nat /\ ~(stamp[r] < last)
    BY <1>1, <1>2 DEF PagingInit, Records
  <2> QED BY <2>1 DEF FetchedSoFar, ReadSoFar, Syncing, PagingInit
<1> QED BY <1>2, <1>3, <1>4 DEF PagingInv

\* A record that changes is stamped with the time; the others keep their places.
LEMMA ChangeKeeps ==
    ASSUME PagingInv, NEW r \in Records, NEW s \in Stamps, ChangeRecord(r, s)
    PROVE  PagingInv'
<1>1. /\ MaxRecords \in Nat /\ MaxStamp \in Nat /\ s \in Nat /\ s # 0 /\ s <= MaxStamp
      /\ r \in Nat /\ r # 0 /\ r <= MaxRecords
  BY PagingAssumption DEF Stamps, Records
<1>2. /\ manifest \in Manifests /\ live \in SUBSET Records /\ stamp \in [Records -> 0..MaxStamp]
      /\ clock \in Nat /\ since \in Nat /\ cursor \in Nat /\ last \in Nat /\ newest \in Nat
  BY DEF PagingInv, PagingTyped
<1>3. /\ clock <= s /\ clock' = s
      /\ live' = live \cup {r} /\ stamp' = [stamp EXCEPT ![r] = s]
      /\ passed' = passed \ {r}
      /\ UNCHANGED <<manifest, pc, since, cursor, page, got, newest, last, file, gaps, shifted>>
      /\ r \in live \/ r = Cardinality({q \in Records : stamp[q] # 0}) + 1
      /\ touched' = IF Syncing THEN touched \cup {r} ELSE {}
  BY <1>2 DEF ChangeRecord, syncing
<1>4. PICK n \in 0..MaxRecords : {q \in Records : stamp[q] # 0} = 1..n
  BY DEF PagingInv, StampsKnown
<1>5. Cardinality(1..n) = n /\ n \in Nat
  <2>1. n \in Nat
    BY <1>1, <1>4
  <2> QED BY <2>1, FS_Interval
<1>6. \A q \in live : q \in 1..n
  BY <1>4 DEF PagingInv, PagingTyped, StampsKnown
<1>7. r \in live \/ r = n + 1
  BY <1>3, <1>4, <1>5
<1>8. stamp'[r] = s /\ \A q \in Records : q # r => stamp'[q] = stamp[q]
  BY <1>2, <1>3
<1>9. PagingTyped'
  <2>1. stamp' \in [Records -> 0..MaxStamp]
    BY <1>1, <1>2, <1>3
  <2> QED BY <1>1, <1>2, <1>3, <2>1 DEF PagingInv, PagingTyped
<1>10. StampsKnown'
  <2>1. \E k \in 0..MaxRecords : {q \in Records : stamp'[q] # 0} = 1..k
    <3>1. CASE r \in 1..n
      <4>1. {q \in Records : stamp'[q] # 0} = {q \in Records : stamp[q] # 0}
        BY <1>1, <1>4, <1>8, <3>1
      <4> QED BY <1>4, <4>1
    <3>2. CASE r = n + 1
      <4>1. {q \in Records : stamp'[q] # 0} = (1..n) \cup {r}
        BY <1>1, <1>4, <1>8
      <4>2. (1..n) \cup {r} = 1..(n + 1)
        BY <1>5, <3>2
      <4>3. n + 1 \in 0..MaxRecords
        BY <1>1, <1>5, <3>2
      <4> QED BY <4>1, <4>2, <4>3
    <3> QED BY <1>6, <1>7, <3>1, <3>2
  <2>2. \A q \in live' : stamp'[q] # 0
    <3>1. \A q \in live : stamp[q] # 0 /\ q \in Records
      BY DEF PagingInv, PagingTyped, StampsKnown
    <3> QED BY <1>1, <1>3, <1>8, <3>1
  <2>3. \A q \in Records : stamp'[q] <= clock'
    <3>1. \A q \in Records : stamp[q] <= clock /\ stamp[q] \in Nat
      BY <1>2 DEF PagingInv, StampsKnown
    <3> QED BY <1>1, <1>2, <1>3, <1>8, <3>1
  <2>4. newest' <= clock' /\ last' <= clock'
    BY <1>1, <1>2, <1>3 DEF PagingInv, StampsKnown
  <2> QED BY <2>1, <2>2, <2>3, <2>4 DEF StampsKnown
<1>11. FetchedSoFar'
  <2>1. SUFFICES ASSUME gaps' = {}, NEW q \in live' \ passed', stamp'[q] < last'
                 PROVE  file'[q] = stamp'[q]
    BY DEF FetchedSoFar, Fetched
  <2>2. CASE q = r
    <3>1. last <= clock
      BY DEF PagingInv, StampsKnown
    <3> QED BY <1>1, <1>2, <1>3, <1>8, <2>1, <2>2, <3>1
  <2>3. CASE q # r
    <3>1. q \in live \ passed /\ q \in Records
      BY <1>2, <1>3, <2>3
    <3>2. stamp'[q] = stamp[q]
      BY <1>8, <2>3, <3>1
    <3> QED BY <1>3, <2>1, <3>1, <3>2 DEF PagingInv, FetchedSoFar, Fetched
  <2> QED BY <2>2, <2>3
<1>12. ReadSoFar'
  <2>1. CASE ~Syncing
    BY <1>3, <2>1 DEF ReadSoFar, Syncing
  <2>2. CASE Syncing
    <3>1. touched' = touched \cup {r}
      BY <1>3, <2>2
    <3>2. \A q \in Records \ touched' : q \in Records \ touched /\ q # r
      BY <3>1
    <3>3. since' = (IF pc' = "full" THEN 0 ELSE last')
      BY <1>3, <2>2 DEF PagingInv, ReadSoFar
    <3>4. \A q \in Records \ touched' : got'[q] \in {0, stamp'[q]}
      <4>1. \A q \in Records \ touched : got[q] \in {0, stamp[q]}
        BY <2>2 DEF PagingInv, ReadSoFar
      <4> QED BY <1>3, <1>8, <3>2, <4>1
    <3>5. ASSUME ~shifted', since' = 0 \/ ~Lossy(manifest'), NEW q \in live' \ touched',
                 stamp'[q] >= since', Behind(q)'
          PROVE  got'[q] = stamp'[q]
      <4>1. q \in live \ touched /\ q # r /\ q \in Records /\ stamp'[q] = stamp[q]
        BY <1>2, <1>3, <1>8, <3>1, <3>5
      <4>2. {p \in live' : p <= q} = {p \in live : p <= q}
        <5>1. q \in 1..n
          BY <1>6, <4>1
        <5>2. r \in live \/ ~(r <= q)
          BY <1>5, <1>7, <5>1
        <5> QED BY <1>3, <5>2
      <4>3. Position(q, live') = Position(q, live)
        BY <4>2 DEF Position
      <4>4. Behind(q)
        BY <1>3, <3>5, <4>3 DEF Behind
      <4>5. ~shifted /\ (since = 0 \/ ~Lossy(manifest)) /\ stamp[q] >= since
        BY <1>3, <3>5, <4>1
      <4>6. got[q] = stamp[q]
        BY <2>2, <4>1, <4>4, <4>5 DEF PagingInv, ReadSoFar
      <4> QED BY <1>3, <4>1, <4>6
    <3>6. Lossy(manifest') = Lossy(manifest)
      BY <1>3
    <3>7. \A q \in touched' : q \in Records /\ last' <= stamp'[q]
      <4>1. \A q \in touched : q \in Records /\ last <= stamp[q]
        BY <2>2 DEF PagingInv, ReadSoFar
      <4>2. last <= s
        <5>1. last <= clock
          BY DEF PagingInv, StampsKnown
        <5> QED BY <1>1, <1>2, <1>3, <5>1
      <4> QED BY <1>3, <1>8, <3>1, <4>1, <4>2
    <3> QED BY <1>3, <3>3, <3>4, <3>5, <3>6, <3>7 DEF ReadSoFar
  <2> QED BY <2>1, <2>2
<1> QED BY <1>9, <1>10, <1>11, <1>12 DEF PagingInv

\* A deletion moves records under positional paging only.
LEMMA DeleteKeeps ==
    ASSUME PagingInv, NEW r \in Records, Delete(r)
    PROVE  PagingInv'
<1>1. /\ live' = live \ {r} /\ shifted' = (Syncing /\ Positional(manifest))
      /\ UNCHANGED <<manifest, stamp, clock, pc, since, cursor, page, got, newest, last, file, passed, gaps, touched>>
  BY DEF Delete, syncing, stored, Positional
<1>2. PagingTyped' /\ StampsKnown'
  BY <1>1 DEF PagingInv, PagingTyped, StampsKnown
<1>3. FetchedSoFar'
  BY <1>1 DEF PagingInv, FetchedSoFar, Fetched
<1>4. ReadSoFar'
  <2>1. CASE ~Syncing
    BY <1>1, <2>1 DEF ReadSoFar, Syncing
  <2>2. CASE Syncing
    <3>1. /\ since' = (IF pc' = "full" THEN 0 ELSE last')
          /\ \A q \in Records \ touched' : got'[q] \in {0, stamp'[q]}
          /\ \A q \in touched' : q \in Records /\ last' <= stamp'[q]
      BY <1>1, <2>2 DEF PagingInv, ReadSoFar
    <3>2. ASSUME ~shifted', since' = 0 \/ ~Lossy(manifest'), NEW q \in live' \ touched',
                 stamp'[q] >= since', Behind(q)'
          PROVE  got'[q] = stamp'[q]
      <4>1. ~Positional(manifest)
        BY <1>1, <2>2, <3>2
      <4>2. Behind(q) /\ q \in live \ touched
        BY <1>1, <3>2, <4>1 DEF Behind
      <4>3. ~shifted
        BY <4>1 DEF PagingInv, PagingTyped
      <4> QED BY <1>1, <2>2, <3>2, <4>2, <4>3 DEF PagingInv, ReadSoFar
    <3> QED BY <1>1, <3>1, <3>2 DEF ReadSoFar
  <2> QED BY <2>1, <2>2
<1> QED BY <1>2, <1>3, <1>4 DEF PagingInv

LEMMA BeginKeeps ==
    ASSUME PagingInv, NEW mode \in {"full", "incremental"}, Begin(mode)
    PROVE  PagingInv'
<1>1. /\ pc = "idle" /\ pc' = mode
      /\ since' = (IF mode = "incremental" THEN last ELSE 0)
      /\ cursor' = 0 /\ got' = NoRows /\ newest' = last /\ touched' = {} /\ shifted' = FALSE
      /\ UNCHANGED <<manifest, live, stamp, clock, last, file, passed, gaps>>
  BY DEF Begin, source, stored
<1>2. /\ live \in SUBSET Records /\ last \in Nat /\ stamp \in [Records -> 0..MaxStamp]
      /\ NoRows \in [Records -> Nat] /\ \A r \in Records : NoRows[r] = 0
  BY DEF PagingInv, PagingTyped, NoRows
<1>3. PagingTyped'
  BY <1>1, <1>2 DEF PagingInv, PagingTyped
<1>4. StampsKnown' /\ FetchedSoFar'
  BY <1>1 DEF PagingInv, StampsKnown, FetchedSoFar, Fetched
<1>5. ReadSoFar'
  <2>1. ASSUME NEW r \in live'
        PROVE  ~(Behind(r)')
    <3>1. r \in live /\ r \in Nat /\ r # 0
      BY <1>1, <1>2 DEF Records
    <3>2. Position(r, live) \in Nat /\ Position(r, live) # 0
      <4>1. Position(r, live) \in 1..Cardinality(live) /\ Cardinality(live) \in Nat
        BY <1>2, <3>1, Positions
      <4> QED BY <4>1
    <3>3. Position(r, live') = Position(r, live)
      BY <1>1
    <3> QED BY <1>1, <3>1, <3>2, <3>3 DEF Behind
  <2> QED BY <1>1, <1>2, <2>1 DEF ReadSoFar
<1> QED BY <1>3, <1>4, <1>5 DEF PagingInv

\* A page goes on with the next cursor, or it stores what the sync has read.
LEMMA PageKeeps ==
    ASSUME PagingInv, Page
    PROVE  PagingInv'
<1>1. PICK list : list = Listed(manifest)
  OBVIOUS
<1>2. PICK answer : answer = Answer(manifest, list)
  OBVIOUS
<1>3. PICK records : records = FilterIncremental(manifest, answer)
  OBVIOUS
<1>4. PICK next : next = NextCursor(manifest, answer, records, list)
  OBVIOUS
<1>5. PICK best : best = PickNewer(manifest, newest, Checkpoint(manifest, records))
  OBVIOUS
<1>6. PICK rows : rows = RowsWith(records)
  OBVIOUS
<1>7. /\ Syncing
      /\ IF ~LastPage(next)
         THEN /\ page' = page + 1 /\ cursor' = next /\ got' = rows /\ newest' = best
              /\ UNCHANGED <<pc, since, stored, touched, shifted>>
         ELSE Store(rows, best, next # 0) /\ EndOfSync
      /\ UNCHANGED <<manifest, source>>
  BY <1>1, <1>2, <1>3, <1>4, <1>5, <1>6 DEF Page, RowsWith
<1>8. /\ rows \in [Records -> Nat]
      /\ \A r \in Records \ touched : rows[r] \in {0, stamp[r]}
      /\ best \in Nat /\ best <= clock /\ next \in Nat
  BY <1>1, <1>2, <1>3, <1>4, <1>5, <1>6, <1>7, PageIsTrue
<1>9. ASSUME ~shifted, since = 0 \/ ~Lossy(manifest), NEW r \in live \ touched, stamp[r] >= since,
             next = 0 \/ (IF Positional(manifest) THEN Position(r, live) <= next ELSE r <= next)
      PROVE  rows[r] = stamp[r]
  <2>1. RowsWith(records)[r] = stamp[r]
    BY <1>1, <1>2, <1>3, <1>4, <1>7, <1>9, PageReads
  <2> QED BY <1>6, <2>1
<1>10. UNCHANGED <<manifest, live, stamp, clock>>
  BY <1>7 DEF source
<1>11. /\ live \in SUBSET Records /\ stamp \in [Records -> 0..MaxStamp] /\ file \in [Records -> Nat]
       /\ since = (IF pc = "full" THEN 0 ELSE last) /\ last \in Nat
       /\ NoRows \in [Records -> Nat]
  BY <1>7 DEF PagingInv, PagingTyped, ReadSoFar, NoRows
<1>12. CASE ~LastPage(next)
  <2>1. /\ cursor' = next /\ got' = rows /\ newest' = best
        /\ UNCHANGED <<pc, since, last, file, passed, gaps, touched, shifted>>
    BY <1>7, <1>12 DEF stored
  <2>2. PagingTyped'
    BY <1>8, <1>10, <2>1 DEF PagingInv, PagingTyped
  <2>3. StampsKnown' /\ FetchedSoFar'
    BY <1>8, <1>10, <2>1 DEF PagingInv, StampsKnown, FetchedSoFar, Fetched
  <2>4. ASSUME ~shifted', since' = 0 \/ ~Lossy(manifest'), NEW r \in live' \ touched', stamp'[r] >= since', Behind(r)'
        PROVE  got'[r] = stamp'[r]
    <3>1. IF Positional(manifest) THEN Position(r, live) <= next ELSE r <= next
      <4>1. Position(r, live') = Position(r, live)
        BY <1>10
      <4> QED BY <1>10, <2>1, <2>4, <4>1 DEF Behind
    <3> QED BY <1>9, <1>10, <2>1, <2>4, <3>1
  <2>5. ReadSoFar'
    <3>1. Lossy(manifest') = Lossy(manifest)
      BY <1>10
    <3>2. \A r \in touched' : r \in Records /\ last' <= stamp'[r]
      BY <1>7, <1>10, <2>1 DEF PagingInv, ReadSoFar
    <3> QED BY <1>8, <1>10, <1>11, <2>1, <2>4, <3>1, <3>2 DEF ReadSoFar
  <2> QED BY <2>2, <2>3, <2>5 DEF PagingInv
<1>13. CASE LastPage(next)
  <2>1. PICK gap : gap = (IF next # 0 THEN {"cap"} ELSE {}) \cup (IF shifted THEN {"shift"} ELSE {})
                            \cup (IF since # 0 /\ Lossy(manifest) THEN {"filter"} ELSE {})
    OBVIOUS
  <2>2. /\ last' = (IF pc = "incremental" THEN best ELSE last)
        /\ file' = [r \in Records |-> IF rows[r] = 0 /\ pc # "full" THEN file[r] ELSE rows[r]]
        /\ gaps' = (IF pc = "full" THEN gap ELSE gaps \cup gap)
        /\ passed' = (IF pc = "full" THEN {} ELSE passed \cup touched)
    BY <1>7, <1>13, <2>1 DEF Store
  <2>3. /\ pc' = "idle" /\ since' = 0 /\ cursor' = 0 /\ got' = NoRows /\ newest' = 0
        /\ touched' = {} /\ shifted' = FALSE
    BY <1>7, <1>13 DEF EndOfSync
  <2>4. \A r \in Records : file'[r] = (IF rows[r] = 0 /\ pc # "full" THEN file[r] ELSE rows[r])
    BY <2>2
  <2>5. PagingTyped'
    <3>1. file' \in [Records -> Nat]
      BY <1>8, <1>11, <2>2
    <3> QED BY <1>8, <1>10, <1>11, <2>2, <2>3, <3>1 DEF PagingInv, PagingTyped
  <2>6. StampsKnown'
    <3>1. clock \in Nat
      BY DEF PagingInv, PagingTyped
    <3> QED BY <1>8, <1>10, <2>2, <2>3, <3>1 DEF PagingInv, StampsKnown
  <2>7. FetchedSoFar'
    <3>1. SUFFICES ASSUME gaps' = {}, NEW r \in live \ passed', stamp[r] < last'
                   PROVE  file'[r] = stamp[r]
      BY <1>10 DEF FetchedSoFar, Fetched
    <3>2. gap = {} /\ r \in Records /\ r \in live \ touched
      <4>1. gap = {} /\ r \in Records
        BY <1>11, <2>2, <3>1
      <4>2. pc = "full" => r \notin touched
        <5>1. pc = "full" => ~(last <= stamp[r])
          BY <1>11, <2>2, <3>1, <4>1
        <5> QED BY <1>7, <5>1 DEF PagingInv, ReadSoFar
      <4>3. pc # "full" => r \notin touched
        BY <2>2, <3>1
      <4> QED BY <4>1, <4>2, <4>3
    <3>3. next = 0 /\ ~shifted /\ (since = 0 \/ ~Lossy(manifest))
      BY <2>1, <3>2
    <3>4. stamp[r] \in Nat /\ stamp[r] # 0
      BY <1>11, <3>2 DEF PagingInv, StampsKnown
    <3>5. CASE stamp[r] >= since
      <4>1. rows[r] = stamp[r]
        BY <1>9, <3>2, <3>3, <3>5
      <4> QED BY <2>4, <3>2, <3>4, <4>1
    <3>6. CASE stamp[r] < since
      <4>1. pc # "full" /\ since = last
        BY <1>11, <3>4, <3>6
      <4>2. gaps = {} /\ r \in live \ passed
        BY <2>2, <3>1, <4>1
      <4>3. file[r] = stamp[r]
        BY <3>6, <4>1, <4>2 DEF PagingInv, FetchedSoFar, Fetched
      <4>4. rows[r] \in {0, stamp[r]}
        BY <1>8, <3>2
      <4> QED BY <2>4, <3>2, <4>1, <4>3, <4>4
    <3> QED BY <1>11, <3>4, <3>5, <3>6
  <2>8. ReadSoFar'
    BY <2>3 DEF ReadSoFar, Syncing
  <2> QED BY <2>5, <2>6, <2>7, <2>8 DEF PagingInv
<1> QED BY <1>12, <1>13

LEMMA PagingStep == PagingInv /\ [PagingNext]_pagingVars => PagingInv'
<1> SUFFICES ASSUME PagingInv, [PagingNext]_pagingVars PROVE PagingInv'
  OBVIOUS
<1>1. CASE \E r \in Records, s \in Stamps : ChangeRecord(r, s)
  BY <1>1, ChangeKeeps
<1>2. CASE \E r \in Records : Delete(r)
  BY <1>2, DeleteKeeps
<1>3. CASE Begin("full") \/ Begin("incremental")
  BY <1>3, BeginKeeps
<1>4. CASE Page
  BY <1>4, PageKeeps
<1>5. CASE UNCHANGED pagingVars
  <2>1. UNCHANGED <<manifest, live, stamp, clock, pc, since, cursor, page, got, newest, last, file, passed, gaps,
                    touched, shifted>>
    BY <1>5 DEF pagingVars, source, syncing, stored
  <2>2. PagingTyped' /\ StampsKnown' /\ FetchedSoFar'
    BY <2>1 DEF PagingInv, PagingTyped, StampsKnown, FetchedSoFar, Fetched
  <2>3. \A r \in live : Behind(r)' <=> Behind(r)
    <3>1. \A r \in live : Position(r, live') = Position(r, live)
      BY <2>1
    <3> QED BY <2>1, <3>1 DEF Behind
  <2>4. Lossy(manifest') = Lossy(manifest)
    BY <2>1
  <2>5. ReadSoFar'
    BY <2>1, <2>3, <2>4 DEF PagingInv, ReadSoFar, Syncing
  <2> QED BY <2>2, <2>5 DEF PagingInv
<1> QED BY <1>1, <1>2, <1>3, <1>4, <1>5 DEF PagingNext

\* Nothing older than the stored cursor is missing (_next_cursor,
\* _filter_incremental_records, _pick_newer_cursor and the page loop of
\* sync_dataset together), with the exceptions that the property names, for any
\* source, page size, page budget and manifest.
THEOREM PagesMissNothing == PagingSpec => []NothingMissed
<1>1. PagingInv => NothingMissed
  BY DEF PagingInv, FetchedSoFar, NothingMissed
<1> QED BY <1>1, PagingInitInv, PagingStep, PTL DEF PagingSpec

-----------------------------------------------------------------------------
(* Merging: what a reader of rows sees last                                *)

Latest(rows, i, k) ==
    /\ k \in DOMAIN rows /\ RowIdentity(rows[k]) = i
    /\ \A l \in DOMAIN rows : RowIdentity(rows[l]) = i => l <= k

\* The last row of an identity is the one that counts.
LEMMA LastCounts ==
    ASSUME NEW rows \in Seq(SyncedRows), NEW i, NEW k, Latest(rows, i, k)
    PROVE  VersionIn(rows, i) = rows[k].version
<1> DEFINE at == {l \in DOMAIN rows : RowIdentity(rows[l]) = i}
<1>1. k \in at /\ \A l \in at : k >= l
  BY DEF Latest
<1>2. DOMAIN rows = 1..Len(rows) /\ Len(rows) \in Nat
  OBVIOUS
<1>3. \A l \in at : l \in Int
  BY <1>2
<1>4. PICK c : c = CHOOSE l \in at : \A j \in at : l >= j
  OBVIOUS
<1>5. c \in at /\ \A j \in at : c >= j
  <2> HIDE DEF at
  <2> QED BY <1>1, <1>4
<1>6. c = k
  <2> HIDE DEF at
  <2> QED BY <1>1, <1>3, <1>5
<1>7. VersionIn(rows, i) = rows[c].version
  BY <1>1, <1>4 DEF VersionIn
<1> QED BY <1>6, <1>7

LEMMA NoneCounts ==
    ASSUME NEW rows, NEW i, \A l \in DOMAIN rows : RowIdentity(rows[l]) # i
    PROVE  VersionIn(rows, i) = 0
  BY DEF VersionIn

\* A list that has rows of an identity has a last one.
LEMMA SomeLast ==
    ASSUME NEW rows \in Seq(SyncedRows), NEW i,
           \E l \in DOMAIN rows : RowIdentity(rows[l]) = i
    PROVE  \E k : Latest(rows, i, k)
<1> DEFINE at == {l \in DOMAIN rows : RowIdentity(rows[l]) = i}
<1>1. DOMAIN rows = 1..Len(rows) /\ Len(rows) \in Nat
  OBVIOUS
<1>2. at \in SUBSET (1..Len(rows)) /\ at # {}
  BY <1>1
<1>3. Max(at) \in at /\ \A l \in at : l <= Max(at)
  <2> HIDE DEF at
  <2> QED BY <1>1, <1>2, GreatestUpTo
<1>4. PICK k : k = Max(at)
  OBVIOUS
<1>5. k \in at /\ \A l \in at : l <= k
  BY <1>3, <1>4
<1> QED BY <1>5 DEF Latest

\* A version that is seen is one of the rows', and so not 0.
LEMMA SeenIsPositive ==
    ASSUME NEW rows \in Seq(SyncedRows), NEW i, NEW k, Latest(rows, i, k)
    PROVE  VersionIn(rows, i) # 0 /\ rows[k].version # 0
<1>1. rows[k] \in SyncedRows
  BY DEF Latest
<1>2. rows[k].version \in Nat \ {0}
  BY <1>1, VersionsAssumption DEF SyncedRows
<1> QED BY <1>2, LastCounts

\* What is appended counts for the identities it has.
LEMMA Appended ==
    ASSUME NEW a \in Seq(SyncedRows), NEW b \in Seq(SyncedRows), NEW i
    PROVE  VersionIn(a \o b, i) = IF VersionIn(b, i) # 0 THEN VersionIn(b, i) ELSE VersionIn(a, i)
<1>1. PICK c \in Seq(SyncedRows) : c = a \o b
  BY ConcatProperties
<1>2. /\ Len(c) = Len(a) + Len(b) /\ DOMAIN c = 1..Len(c) /\ DOMAIN a = 1..Len(a)
      /\ DOMAIN b = 1..Len(b) /\ Len(a) \in Nat /\ Len(b) \in Nat
  BY <1>1
<1>3. /\ \A l \in 1..Len(a) : c[l] = a[l]
      /\ \A l \in 1..Len(b) : c[l + Len(a)] = b[l]
  BY <1>1, <1>2
<1>4. \A l \in DOMAIN c : l \in 1..Len(a) \/ (l - Len(a) \in 1..Len(b) /\ c[l] = b[l - Len(a)])
  <2>1. ASSUME NEW l \in DOMAIN c, l \notin 1..Len(a)
        PROVE  l - Len(a) \in 1..Len(b) /\ c[l] = b[l - Len(a)]
    <3>1. PICK m : m = l - Len(a)
      OBVIOUS
    <3>2. m \in 1..Len(b) /\ m + Len(a) = l
      BY <1>2, <2>1, <3>1
    <3> QED BY <1>3, <3>1, <3>2
  <2> QED BY <2>1
<1>5. CASE \E l \in DOMAIN b : RowIdentity(b[l]) = i
  <2>1. PICK k : Latest(b, i, k)
    BY <1>5, SomeLast
  <2>2. k \in 1..Len(b) /\ RowIdentity(b[k]) = i /\ \A l \in 1..Len(b) : RowIdentity(b[l]) = i => l <= k
    BY <1>2, <2>1 DEF Latest
  <2>3. PICK n : n = k + Len(a)
    OBVIOUS
  <2>4. n \in DOMAIN c /\ c[n] = b[k]
    BY <1>2, <1>3, <2>2, <2>3
  <2>5. ASSUME NEW l \in DOMAIN c, RowIdentity(c[l]) = i
        PROVE  l <= n
    BY <1>2, <1>4, <2>2, <2>3, <2>5
  <2>6. Latest(c, i, n)
    BY <2>2, <2>4, <2>5 DEF Latest
  <2>7. VersionIn(c, i) = c[n].version /\ VersionIn(b, i) = b[k].version /\ VersionIn(b, i) # 0
    BY <2>1, <2>6, LastCounts, SeenIsPositive
  <2> QED BY <1>1, <2>4, <2>7
<1>6. CASE ~\E l \in DOMAIN b : RowIdentity(b[l]) = i
  <2>1. VersionIn(b, i) = 0
    BY <1>6, NoneCounts
  <2>2. \A l \in DOMAIN c : RowIdentity(c[l]) = i => l \in 1..Len(a)
    BY <1>2, <1>4, <1>6
  <2>3. CASE \E l \in DOMAIN a : RowIdentity(a[l]) = i
    <3>1. PICK k : Latest(a, i, k)
      BY <2>3, SomeLast
    <3>2. k \in 1..Len(a) /\ k \in DOMAIN c /\ c[k] = a[k] /\ RowIdentity(a[k]) = i
      BY <1>2, <1>3, <3>1 DEF Latest
    <3>3. ASSUME NEW l \in DOMAIN c, RowIdentity(c[l]) = i
          PROVE  l <= k
      <4>1. l \in DOMAIN a /\ RowIdentity(a[l]) = i
        BY <1>2, <1>3, <2>2, <3>3
      <4> QED BY <3>1, <4>1 DEF Latest
    <3>4. Latest(c, i, k)
      BY <3>2, <3>3 DEF Latest
    <3>5. VersionIn(c, i) = c[k].version /\ VersionIn(a, i) = a[k].version
      BY <3>1, <3>4, LastCounts
    <3> QED BY <1>1, <2>1, <3>2, <3>5
  <2>4. CASE ~\E l \in DOMAIN a : RowIdentity(a[l]) = i
    <3>1. \A l \in DOMAIN c : RowIdentity(c[l]) # i
      BY <1>2, <1>3, <2>2, <2>4
    <3> QED BY <1>1, <2>1, <2>4, <3>1, NoneCounts
  <2> QED BY <2>3, <2>4
<1> QED BY <1>5, <1>6

\* One row, by itself and at the end of a list.
LEMMA OneRow ==
    ASSUME NEW one \in SyncedRows, NEW i
    PROVE  VersionIn(<<one>>, i) = IF RowIdentity(one) = i THEN one.version ELSE 0
<1>1. <<one>> \in Seq(SyncedRows) /\ DOMAIN <<one>> = {1} /\ <<one>>[1] = one
  OBVIOUS
<1>2. CASE RowIdentity(one) = i
  <2>1. Latest(<<one>>, i, 1)
    BY <1>1, <1>2 DEF Latest
  <2> QED BY <1>1, <1>2, <2>1, LastCounts
<1>3. CASE RowIdentity(one) # i
  BY <1>1, <1>3, NoneCounts
<1> QED BY <1>2, <1>3

LEMMA AppendedRow ==
    ASSUME NEW a \in Seq(SyncedRows), NEW one \in SyncedRows, NEW i
    PROVE  VersionIn(Append(a, one), i) = IF RowIdentity(one) = i THEN one.version ELSE VersionIn(a, i)
<1>1. Append(a, one) = a \o <<one>> /\ <<one>> \in Seq(SyncedRows)
  OBVIOUS
<1>2. one.version # 0
  BY VersionsAssumption DEF SyncedRows
<1>3. VersionIn(<<one>>, i) = IF RowIdentity(one) = i THEN one.version ELSE 0
  BY OneRow
<1>4. VersionIn(a \o <<one>>, i) = IF VersionIn(<<one>>, i) # 0 THEN VersionIn(<<one>>, i) ELSE VersionIn(a, i)
  BY <1>1, Appended
<1> QED BY <1>1, <1>2, <1>3, <1>4

-----------------------------------------------------------------------------
(* Merging: the loops                                                      *)

\* merged[key] = row replaces what is seen of its identity, and nothing else.
LEMMA PutRowCounts ==
    ASSUME NEW merged \in Seq(SyncedRows), NEW one \in SyncedRows, NEW i
    PROVE  /\ PutRow(merged, one) \in Seq(SyncedRows)
           /\ VersionIn(PutRow(merged, one), i)
                = IF RowIdentity(one) = i THEN one.version ELSE VersionIn(merged, i)
<1> DEFINE same == {k \in DOMAIN merged : RowIdentity(merged[k]) = RowIdentity(one)}
<1>1. CASE same = {}
  <2>1. PutRow(merged, one) = Append(merged, one)
    BY <1>1 DEF PutRow
  <2> QED BY <2>1, AppendedRow
<1>2. CASE same # {}
  <2>1. PICK put : put = [k \in DOMAIN merged |-> IF k \in same THEN one ELSE merged[k]]
    OBVIOUS
  <2>2. PutRow(merged, one) = put
    BY <1>2, <2>1 DEF PutRow
  <2>3. Len(merged) \in Nat /\ DOMAIN merged = 1..Len(merged) /\ DOMAIN put = DOMAIN merged
    BY <2>1
  <2>4. \A k \in DOMAIN merged : /\ put[k] \in SyncedRows
                                 /\ k \in same => put[k] = one
                                 /\ k \notin same => put[k] = merged[k]
    BY <2>1
  <2>5. put \in Seq(SyncedRows)
    BY <2>1, <2>3, <2>4
  <2>6. \A k \in DOMAIN merged : RowIdentity(put[k]) = RowIdentity(merged[k])
    BY <2>4
  <2>7. CASE \E l \in DOMAIN merged : RowIdentity(merged[l]) = i
    <3>1. PICK k : Latest(merged, i, k)
      BY <2>7, SomeLast
    <3>2. k \in DOMAIN merged /\ RowIdentity(merged[k]) = i
      BY <3>1 DEF Latest
    <3>3. Latest(put, i, k)
      BY <2>3, <2>6, <3>1 DEF Latest
    <3>4. VersionIn(put, i) = put[k].version /\ VersionIn(merged, i) = merged[k].version
      BY <2>5, <3>1, <3>3, LastCounts
    <3>5. CASE RowIdentity(one) = i
      <4>1. k \in same
        BY <3>2, <3>5
      <4> QED BY <2>2, <2>4, <2>5, <3>2, <3>4, <3>5, <4>1
    <3>6. CASE RowIdentity(one) # i
      <4>1. k \notin same
        BY <3>2, <3>6
      <4> QED BY <2>2, <2>4, <2>5, <3>2, <3>4, <3>6, <4>1
    <3> QED BY <3>5, <3>6
  <2>8. CASE ~\E l \in DOMAIN merged : RowIdentity(merged[l]) = i
    <3>1. RowIdentity(one) # i
      BY <1>2, <2>8
    <3>2. VersionIn(put, i) = 0 /\ VersionIn(merged, i) = 0
      BY <2>3, <2>6, <2>8, NoneCounts
    <3> QED BY <2>2, <2>5, <3>1, <3>2
  <2> QED BY <2>7, <2>8
<1> QED BY <1>1, <1>2

\* What the loops have gathered of a prefix of the rows.
Taken(rows, k, acc) ==
    /\ acc = [merged |-> acc.merged, extras |-> acc.extras]
    /\ acc.merged \in Seq(SyncedRows) /\ acc.extras \in Seq(SyncedRows)
    /\ \A l \in DOMAIN acc.extras : ~HasIdentity(acc.extras[l])
    /\ \A i \in Identities : VersionIn(acc.merged, i) = VersionIn(SubSeq(rows, 1, k), i)

LEMMA TakeRowGathers ==
    ASSUME NEW rows \in Seq(SyncedRows), NEW k \in 1..Len(rows), NEW acc, Taken(rows, k - 1, acc)
    PROVE  Taken(rows, k, TakeRow(acc, rows[k]))
<1>1. PICK one \in SyncedRows : one = rows[k]
  OBVIOUS
<1>2. PICK before \in Seq(SyncedRows) : before = SubSeq(rows, 1, k - 1)
  <2>1. \A l \in 1..(k - 1) : rows[l] \in SyncedRows
    OBVIOUS
  <2>2. SubSeq(rows, 1, k - 1) \in Seq(SyncedRows)
    <3>1. k - 1 \in Int /\ 1 \in Int
      OBVIOUS
    <3> QED BY <2>1, <3>1, SubSeqProperties
  <2> QED BY <2>2
<1>3. SubSeq(rows, 1, k) = Append(before, one)
  <2>1. SubSeq(rows, 1, k) = before \o <<one>>
    <3>1. k \in 1..k
      OBVIOUS
    <3>2. 1 \in 1..Len(rows)
      OBVIOUS
    <3> QED BY <1>1, <1>2, <3>2, SubSeqRecursiveSecond
  <2> QED BY <1>2, <2>1
<1>4. /\ acc.merged \in Seq(SyncedRows) /\ acc.extras \in Seq(SyncedRows)
      /\ \A l \in DOMAIN acc.extras : ~HasIdentity(acc.extras[l])
      /\ \A i \in Identities : VersionIn(acc.merged, i) = VersionIn(before, i)
      /\ acc = [merged |-> acc.merged, extras |-> acc.extras]
  BY <1>2 DEF Taken
<1>5. PICK new : new = TakeRow(acc, rows[k])
  OBVIOUS
<1>6. ASSUME NEW i
      PROVE  VersionIn(SubSeq(rows, 1, k), i) = IF RowIdentity(one) = i THEN one.version ELSE VersionIn(before, i)
  <2>1. VersionIn(Append(before, one), i) = IF RowIdentity(one) = i THEN one.version ELSE VersionIn(before, i)
    BY AppendedRow
  <2> QED BY <1>3, <2>1
<1>7. CASE HasIdentity(one)
  <2>1. new = [acc EXCEPT !.merged = PutRow(@, one)]
    BY <1>1, <1>5, <1>7 DEF TakeRow
  <2>2. new = [merged |-> PutRow(acc.merged, one), extras |-> acc.extras]
    BY <1>4, <2>1
  <2>3. PutRow(acc.merged, one) \in Seq(SyncedRows)
    BY <1>4, PutRowCounts
  <2>4. ASSUME NEW i \in Identities
        PROVE  VersionIn(new.merged, i) = VersionIn(SubSeq(rows, 1, k), i)
    <3>1. new.merged = PutRow(acc.merged, one)
      BY <2>2
    <3>2. VersionIn(PutRow(acc.merged, one), i)
            = IF RowIdentity(one) = i THEN one.version ELSE VersionIn(acc.merged, i)
      BY <1>4, PutRowCounts
    <3>3. VersionIn(acc.merged, i) = VersionIn(before, i)
      BY <1>4
    <3> QED BY <1>6, <3>1, <3>2, <3>3
  <2>5. new.merged = PutRow(acc.merged, one) /\ new.extras = acc.extras
    BY <2>2
  <2> QED BY <1>4, <1>5, <2>2, <2>3, <2>4, <2>5 DEF Taken
<1>8. CASE ~HasIdentity(one)
  <2>1. new = [acc EXCEPT !.extras = Append(@, one)]
    BY <1>1, <1>5, <1>8 DEF TakeRow
  <2>2. new = [merged |-> acc.merged, extras |-> Append(acc.extras, one)]
    BY <1>4, <2>1
  <2>3. new.merged = acc.merged /\ new.extras = Append(acc.extras, one)
    BY <2>2
  <2>4. ASSUME NEW i \in Identities
        PROVE  VersionIn(new.merged, i) = VersionIn(SubSeq(rows, 1, k), i)
    <3>1. RowIdentity(one) # i
      BY <1>8 DEF HasIdentity, Identities
    <3> QED BY <1>4, <1>6, <2>3, <3>1
  <2>5. \A l \in DOMAIN new.extras : ~HasIdentity(new.extras[l])
    <3>1. PICK x \in Seq(SyncedRows) : x = acc.extras
      BY <1>4
    <3>2. \A l \in DOMAIN x : ~HasIdentity(x[l])
      BY <1>4, <3>1
    <3>3. \A l \in DOMAIN Append(x, one) : Append(x, one)[l] = one \/ (l \in DOMAIN x /\ Append(x, one)[l] = x[l])
      OBVIOUS
    <3> QED BY <1>8, <2>3, <3>1, <3>2, <3>3
  <2>6. new.extras \in Seq(SyncedRows) /\ new.merged \in Seq(SyncedRows)
    BY <1>4, <2>3
  <2>7. new = [merged |-> new.merged, extras |-> new.extras]
    BY <2>2, <2>3
  <2> QED BY <1>5, <2>4, <2>5, <2>6, <2>7 DEF Taken
<1> QED BY <1>7, <1>8

Accumulators == [merged : Seq(SyncedRows), extras : Seq(SyncedRows)]

LEMMA LoopsGather ==
    ASSUME NEW rows \in Seq(SyncedRows)
    PROVE  Taken(rows, Len(rows), FoldLeft(TakeRow, [merged |-> <<>>, extras |-> <<>>], rows))
<1> DEFINE n == Len(rows)
           base == [merged |-> <<>>, extras |-> <<>>]
           G == [p \in (1..n) \X Accumulators |-> TakeRow(p[2], rows[p[1]])]
           Eq(i) == i = [t \in SUBSET DOMAIN rows |->
                           IF t = {} THEN base ELSE TakeRow(i[t \ {Max(t)}], rows[Max(t)])]
           c == CHOOSE i : Eq(i)
<1>1. n \in Nat /\ DOMAIN rows = 1..n /\ \A k \in 1..n : rows[k] \in SyncedRows
  OBVIOUS
<1> HIDE DEF n
<1>2. base \in Accumulators
  BY DEF Accumulators
<1>3. ASSUME NEW acc \in Accumulators, NEW one \in SyncedRows
      PROVE  TakeRow(acc, one) \in Accumulators
  <2>1. acc.merged \in Seq(SyncedRows) /\ acc.extras \in Seq(SyncedRows)
    BY DEF Accumulators
  <2>2. PutRow(acc.merged, one) \in Seq(SyncedRows) /\ Append(acc.extras, one) \in Seq(SyncedRows)
    <3>1. PutRow(acc.merged, one) \in Seq(SyncedRows)
      BY <2>1, PutRowCounts
    <3> QED BY <2>1, <3>1
  <2> QED BY <2>2 DEF TakeRow, Accumulators
<1>4. G \in [(1..n) \X Accumulators -> Accumulators]
  BY <1>1, <1>3
<1>5. PICK it : IsFoldTable(it, Accumulators, base, n, G)
  <2> HIDE DEF G, base
  <2> QED BY <1>1, <1>2, <1>4, FoldTableExists, Zenon
<1>6. ASSUME NEW t \in SUBSET (1..n), t # {}
      PROVE  it[t] = TakeRow(it[t \ {Max(t)}], rows[Max(t)])
  <2>1. PICK top : top = Max(t)
    OBVIOUS
  <2>2. top \in 1..n
    BY <1>1, <1>6, <2>1, GreatestUpTo
  <2>3. it[t \ {top}] \in Accumulators /\ it[t] = G[<<top, it[t \ {top}]>>]
    <3> HIDE DEF G
    <3> QED BY <1>5, <1>6, <2>1 DEF IsFoldTable
  <2> QED BY <2>1, <2>2, <2>3
<1>7. it \in [SUBSET (1..n) -> Accumulators] /\ it[{}] = base
  BY <1>5 DEF IsFoldTable
<1>8. Eq(it)
  <2> HIDE DEF base
  <2> QED BY <1>1, <1>6, <1>7
<1>9. Eq(c)
  <2> HIDE DEF Eq
  <2> QED BY <1>8, Zenon
<1>10. FoldLeft(TakeRow, base, rows) = c[DOMAIN rows]
  BY Zenon DEF FoldLeft, MapThenFoldSet
<1> HIDE DEF c
<1>11. c[{}] = base /\ \A k \in 1..n : c[1..k] = TakeRow(c[1..(k - 1)], rows[k])
  <2>1. \A t \in SUBSET (1..n) : c[t] = IF t = {} THEN base ELSE TakeRow(c[t \ {Max(t)}], rows[Max(t)])
    <3> HIDE DEF base
    <3> QED BY <1>1, <1>9
  <2>2. ASSUME NEW k \in 1..n
        PROVE  c[1..k] = TakeRow(c[1..(k - 1)], rows[k])
    <3>1. Max(1..k) = k /\ (1..k) \ {k} = 1..(k - 1) /\ 1..k # {}
      <4>1. k \in Nat /\ k # 0
        BY <1>1
      <4> QED BY <4>1, LastOfInterval
    <3>2. 1..k \in SUBSET (1..n)
      BY <1>1
    <3> QED BY <2>1, <3>1, <3>2
  <2> QED BY <2>1, <2>2
<1> DEFINE Good == {m \in Nat : m <= n => Taken(rows, m, c[1..m])}
<1>12. 0 \in Good
  <2>1. 1..0 = {} /\ SubSeq(rows, 1, 0) = <<>>
    OBVIOUS
  <2>2. PICK b : b = base
    OBVIOUS
  <2>3. /\ b = [merged |-> b.merged, extras |-> b.extras] /\ b.merged = <<>> /\ b.extras = <<>>
    BY <2>2
  <2>4. \A i \in Identities : VersionIn(b.merged, i) = VersionIn(SubSeq(rows, 1, 0), i)
    BY <2>1, <2>3
  <2>5. Taken(rows, 0, b)
    BY <2>3, <2>4 DEF Taken
  <2> QED BY <1>11, <2>1, <2>2, <2>5
<1>13. ASSUME NEW m \in Nat, m \in Good
       PROVE  m + 1 \in Good
  <2>1. SUFFICES ASSUME m + 1 <= n PROVE Taken(rows, m + 1, c[1..(m + 1)])
    OBVIOUS
  <2>2. PICK k \in 1..Len(rows) : k = m + 1
    BY <1>1, <2>1 DEF n
  <2>3. k - 1 = m /\ m <= n /\ k \in 1..n
    BY <1>1, <2>1, <2>2
  <2>4. Taken(rows, k - 1, c[1..(k - 1)])
    BY <1>13, <2>3
  <2>5. Taken(rows, k, TakeRow(c[1..(k - 1)], rows[k]))
    BY <2>4, TakeRowGathers
  <2> QED BY <1>11, <2>2, <2>3, <2>5
<1>14. n \in Good
  <2> HIDE DEF Good
  <2> QED BY <1>1, <1>12, <1>13, SetInduction
<1>15. Taken(rows, n, c[1..n])
  BY <1>1, <1>14
<1> QED BY <1>1, <1>10, <1>15 DEF n

-----------------------------------------------------------------------------
(* Merging: the theorem                                                    *)

\* What _merge_rows returns: rows, with each identity's version of the batch or
\* else of the file.
LEMMA MergedCounts ==
    ASSUME NEW existing \in Seq(SyncedRows), NEW new \in Seq(SyncedRows), NEW refresh \in BOOLEAN
    PROVE  /\ MergedRows(existing, new, refresh) \in Seq(SyncedRows)
           /\ \A i \in Identities :
                 VersionIn(MergedRows(existing, new, refresh), i)
                   = IF refresh \/ VersionIn(new, i) # 0 THEN VersionIn(new, i) ELSE VersionIn(existing, i)
<1>1. CASE refresh
  BY <1>1 DEF MergedRows
<1>2. CASE ~refresh /\ ~HasPrimaryKey
  <2>1. MergedRows(existing, new, refresh) = existing \o new
    BY <1>2 DEF MergedRows
  <2> QED BY <1>2, <2>1, Appended
<1>3. CASE ~refresh /\ HasPrimaryKey
  <2>1. PICK rows \in Seq(SyncedRows) : rows = existing \o new
    BY ConcatProperties
  <2>2. PICK taken : taken = FoldLeft(TakeRow, [merged |-> <<>>, extras |-> <<>>], rows)
    OBVIOUS
  <2>3. MergedRows(existing, new, refresh) = taken.merged \o taken.extras
    BY <1>3, <2>1, <2>2 DEF MergedRows
  <2>4. Taken(rows, Len(rows), taken)
    BY <2>2, LoopsGather
  <2>5. SubSeq(rows, 1, Len(rows)) = rows
    OBVIOUS
  <2>6. /\ taken.merged \in Seq(SyncedRows) /\ taken.extras \in Seq(SyncedRows)
        /\ \A l \in DOMAIN taken.extras : ~HasIdentity(taken.extras[l])
        /\ \A i \in Identities : VersionIn(taken.merged, i) = VersionIn(rows, i)
    BY <2>4, <2>5 DEF Taken
  <2>7. ASSUME NEW i \in Identities
        PROVE  VersionIn(taken.merged \o taken.extras, i)
                 = IF VersionIn(new, i) # 0 THEN VersionIn(new, i) ELSE VersionIn(existing, i)
    <3>1. VersionIn(taken.extras, i) = 0
      <4>1. i # NoIdentity
        BY DEF Identities
      <4>2. \A l \in DOMAIN taken.extras : RowIdentity(taken.extras[l]) # i
        BY <2>6, <4>1 DEF HasIdentity
      <4> QED BY <4>2, NoneCounts
    <3>2. VersionIn(taken.merged \o taken.extras, i) = VersionIn(taken.merged, i)
      BY <2>6, <3>1, Appended
    <3>3. VersionIn(rows, i) = IF VersionIn(new, i) # 0 THEN VersionIn(new, i) ELSE VersionIn(existing, i)
      BY <2>1, Appended
    <3> QED BY <2>6, <3>2, <3>3
  <2> QED BY <1>3, <2>3, <2>6, <2>7
<1> QED BY <1>1, <1>2, <1>3

\* The list algorithm of _merge_rows does to each identity what DatasetSync's view
\* of the file does.
THEOREM MergesKeepVersions == MergeSpec => ActsAsMergeRows
<1>1. MergeInit => MergeTypeOK
  BY DEF MergeInit, MergeTypeOK
<1>2. ASSUME MergeTypeOK, NEW new \in Batches, NEW refresh \in BOOLEAN, Sync(new, refresh)
      PROVE  /\ MergeTypeOK'
             /\ \A i \in Identities :
                   VersionIn(keptRows', i) = IF wasFull' \/ VersionIn(batch', i) # 0
                                              THEN VersionIn(batch', i) ELSE VersionIn(keptRows, i)
  <2>1. new \in Seq(SyncedRows)
    BY DEF Batches, BoundedSeq, SeqOf
  <2>2. PICK existing \in Seq(SyncedRows) : existing = keptRows
    BY <1>2 DEF MergeTypeOK
  <2>3. keptRows' = MergedRows(existing, new, refresh) /\ batch' = new /\ wasFull' = refresh
    BY <1>2, <2>2 DEF Sync
  <2>4. /\ MergedRows(existing, new, refresh) \in Seq(SyncedRows)
        /\ \A i \in Identities :
              VersionIn(MergedRows(existing, new, refresh), i)
                = IF refresh \/ VersionIn(new, i) # 0 THEN VersionIn(new, i) ELSE VersionIn(existing, i)
    BY <2>1, MergedCounts
  <2>5. MergeTypeOK'
    BY <2>1, <2>3, <2>4 DEF MergeTypeOK
  <2> QED BY <2>2, <2>3, <2>4, <2>5
<1>3. MergeTypeOK /\ MergeNext => /\ MergeTypeOK'
                                  /\ \A i \in Identities :
                                        VersionIn(keptRows', i) = IF wasFull' \/ VersionIn(batch', i) # 0
                                                                   THEN VersionIn(batch', i) ELSE VersionIn(keptRows, i)
  BY <1>2 DEF MergeNext
<1>4. MergeTypeOK /\ UNCHANGED mergeVars => MergeTypeOK'
  BY DEF MergeTypeOK, mergeVars
<1> QED BY <1>1, <1>3, <1>4, PTL DEF MergeSpec, ActsAsMergeRows
===============================================================================
