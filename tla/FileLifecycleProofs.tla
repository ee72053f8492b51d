------------------------ MODULE FileLifecycleProofs ------------------------
(***************************************************************************)
(* Safety of FileLifecycle for any files, contents and bounds: IInv is     *)
(* inductive, and with it no file that nothing interfered with is searched *)
(* with a text it no longer has; what an inventory could read it heals.    *)
(* Then CourseCatalog, the table the same inventories write beside: its    *)
(* counts are those of the files it holds.                                 *)
(***************************************************************************)
EXTENDS FileLifecycle, CourseCatalog, TLAPS

USE CorpusAssumption DEF Missing, Transient

\* The row of a file never seen is a row.
LEMMA NoRowType == NoRow \in RowType
  BY DEF NoRow, RowType

LEMMA InitInv == Init => IInv
<1> SUFFICES ASSUME Init PROVE IInv
  OBVIOUS
<1> USE NoRowType DEF Init
<1>1. TypeOK
  BY DEF TypeOK, Stamps, Idle, NoRun, WalkType, RunType
<1>2. RowsFaithful /\ RowsListed
  <2>1. \A f \in Files : disk[f].stamp # None
    OBVIOUS
  <2> QED BY <2>1 DEF RowsFaithful, RowsListed, Faithful, NoRow
<1>3. StagedFaithful /\ IndexedHaveText /\ InFlightPending /\ KeywordIsCurrent
  BY DEF StagedFaithful, IndexedHaveText, InFlightPending, InFlight, KeywordIsCurrent, Idle, NoRun, NoRow
<1> QED BY <1>1, <1>2, <1>3 DEF IInv

\* NextStatus only keeps a status or asks for the file again.
LEMMA NextStatusIs ==
  ASSUME NEW f \in Files, NEW old \in RowType, NEW stamp, NEW hash
  PROVE  LET s == NextStatus(f, old, stamp, hash) IN
         /\ s.status \in {old.status, "pending", "metadata_only"}
         /\ s.reason \in {old.reason, "none", "class"}
         /\ s.status = old.status \/ s = Classified(f)
  BY DEF NextStatus, Classified, RowType

LEMMA StatusType ==
  ASSUME NEW f \in Files, NEW old \in RowType, NEW stamp \in Stamps \cup {None},
         NEW hash \in Contents \cup {None}
  PROVE  Row(stamp, hash, NextStatus(f, old, stamp, hash)) \in RowType
  BY DEF Row, NextStatus, Classified, RowType

\* An upsert keeps the transaction well typed.
LEMMA UpsertType ==
  ASSUME TypeOK, NEW STATE f, NEW STATE row, f \in walk.todo, row \in RowType, Upsert(f, row)
  PROVE  /\ walk' \in WalkType /\ walk'.todo \cap walk'.visited = {} /\ walk'.hashing = None
         /\ walk'.on /\ walk'.todo = walk.todo \ {f}
         /\ walk'.visited = walk.visited \cup {f}
         /\ walk'.staged = [walk.staged EXCEPT ![f] = row]
<1>1. walk.todo \subseteq Files /\ walk.visited \subseteq Files /\ walk.staged \in [Files -> RowType]
  BY DEF TypeOK, WalkType
<1>2. f \in Files /\ [walk.staged EXCEPT ![f] = row] \in [Files -> RowType]
  BY <1>1
<1> QED BY <1>1, <1>2 DEF TypeOK, Upsert, WalkType

LEMMA EditType == ASSUME TypeOK, NEW f \in Files, NEW c \in Contents \cup {Gone}, Edit(f, c)
                  PROVE  TypeOK'
<1> USE DEF Edit, indexes
<1>0. edits \in Nat /\ edits < MaxEdits /\ edits' = edits + 1
  BY DEF TypeOK
<1>1. edits' \in 0 .. MaxEdits /\ Stamps \subseteq Stamps' /\ edits + 1 \in Stamps'
  BY <1>0 DEF Stamps
<1>2. RowType \subseteq RowType'
  BY <1>1 DEF RowType
<1>3. WalkType \subseteq WalkType' /\ RunType \subseteq RunType'
  BY <1>1, <1>2 DEF WalkType, RunType
<1>4. disk' \in [Files -> [content : Contents \cup {Gone}, stamp : Stamps']]
  BY <1>1 DEF TypeOK
<1>5. rows' \in [Files -> RowType']
  BY <1>2 DEF TypeOK
<1> QED BY <1>1, <1>3, <1>4, <1>5 DEF TypeOK

LEMMA InventoryType == ASSUME TypeOK,
                              \/ \E hidden \in SUBSET Existing : BeginInventory(hidden)
                              \/ \E f \in Files : StatFails(f) \/ StatUnchanged(f) \/ StatChanged(f)
                              \/ HashOk \/ HashFails \/ CommitInventory \/ AbortInventory
                       PROVE  TypeOK'
<1> USE NoRowType DEF corpus, indexes, Fault
<1>0. /\ faults \in Nat /\ faults \in 0 .. MaxFaults /\ walk \in WalkType /\ rows \in [Files -> RowType]
      /\ walk.staged \in [Files -> RowType]
  BY DEF TypeOK, WalkType
<1>1. ASSUME NEW hidden \in SUBSET Existing, BeginInventory(hidden) PROVE TypeOK'
  <2>0. faults' = faults \/ (faults < MaxFaults /\ faults' = faults + 1)
    BY <1>1 DEF BeginInventory
  <2>1. faults' \in 0 .. MaxFaults
    BY <1>0, <2>0
  <2>2. /\ walk' \in WalkType /\ walk'.todo \cap walk'.visited = {} /\ walk'.hashing = None
    BY <1>0, <1>1 DEF BeginInventory, Idle, WalkType, Existing
  <2> QED BY <1>1, <2>1, <2>2 DEF BeginInventory, TypeOK, Stamps, RowType, WalkType, RunType
<1>2. ASSUME NEW f \in Files, StatFails(f) PROVE TypeOK'
  <2>1. faults' \in 0 .. MaxFaults
    BY <1>0, <1>2 DEF StatFails
  <2>2. Row(None, None, [status |-> "failed", reason |-> "metadata"]) \in RowType
    BY DEF Row, RowType
  <2>3. /\ walk' \in WalkType /\ walk'.todo \cap walk'.visited = {} /\ walk'.hashing = None
    BY <1>2, <2>2, UpsertType DEF StatFails
  <2> QED BY <1>2, <2>1, <2>3 DEF StatFails, TypeOK, Stamps, RowType, WalkType, RunType
<1>3. ASSUME NEW f \in Files, StatUnchanged(f) PROVE TypeOK'
  <2> DEFINE old == walk.staged[f]
             row == Row(disk[f].stamp, old.hash, NextStatus(f, old, disk[f].stamp, old.hash))
  <2>1. old \in RowType /\ old.hash \in Contents \cup {None} /\ disk[f].stamp \in Stamps
    BY <1>0 DEF TypeOK, RowType
  <2>2. row \in RowType
    BY <2>1, StatusType
  <2>3. Upsert(f, row) /\ walk.hashing = None /\ f \in walk.todo
    BY <1>3 DEF StatUnchanged
  <2>4. /\ walk' \in WalkType /\ walk'.todo \cap walk'.visited = {} /\ walk'.hashing = None
    <3> HIDE DEF row
    <3> QED BY <2>2, <2>3, UpsertType
  <2> QED BY <1>3, <2>4 DEF StatUnchanged, TypeOK, Stamps, RowType, WalkType, RunType
<1>4. ASSUME NEW f \in Files, StatChanged(f) PROVE TypeOK'
  <2>1. [file |-> f, stamp |-> disk[f].stamp] \in [file : Files, stamp : Stamps]
    BY DEF TypeOK
  <2>2. /\ walk' \in WalkType /\ walk'.todo \cap walk'.visited = {} /\ walk'.hashing.file \in walk'.todo
    BY <1>0, <1>4, <2>1 DEF StatChanged, WalkType, TypeOK
  <2> QED BY <1>4, <2>2 DEF StatChanged, TypeOK, Stamps, RowType, WalkType, RunType
<1>5. CASE HashOk
  <2> DEFINE f == walk.hashing.file
             old == walk.staged[f]
             hash == disk[f].content
             row == Row(walk.hashing.stamp, hash, NextStatus(f, old, walk.hashing.stamp, hash))
  <2>1. /\ f \in Files /\ f \in walk.todo /\ walk.hashing.stamp \in Stamps /\ hash \in Contents
        /\ old \in RowType
    BY <1>0, <1>5 DEF HashOk, TypeOK, WalkType
  <2>2. row \in RowType
    BY <2>1, StatusType
  <2>3. Upsert(f, row) /\ hashed' = hashed \cup {f}
    BY <1>5 DEF HashOk
  <2>4. /\ walk' \in WalkType /\ walk'.todo \cap walk'.visited = {} /\ walk'.hashing = None
    <3> HIDE DEF row
    <3> QED BY <2>1, <2>2, <2>3, UpsertType
  <2> QED BY <1>5, <2>1, <2>3, <2>4 DEF HashOk, TypeOK, Stamps, RowType, WalkType, RunType
<1>6. CASE HashFails
  <2> DEFINE f == walk.hashing.file
             row == Row(walk.hashing.stamp, walk.staged[f].hash, [status |-> "failed", reason |-> "hashing"])
  <2>1. /\ f \in Files /\ f \in walk.todo /\ walk.hashing.stamp \in Stamps
        /\ walk.staged[f].hash \in Contents \cup {None}
    BY <1>0, <1>6 DEF HashFails, TypeOK, WalkType, RowType
  <2>2. row \in RowType
    BY <2>1 DEF Row, RowType
  <2>3. Upsert(f, row) /\ raced' = raced \cup {f} /\ faults' \in 0 .. MaxFaults
    BY <1>0, <1>6 DEF HashFails
  <2>4. /\ walk' \in WalkType /\ walk'.todo \cap walk'.visited = {} /\ walk'.hashing = None
    <3> HIDE DEF row
    <3> QED BY <2>1, <2>2, <2>3, UpsertType
  <2> QED BY <1>6, <2>1, <2>3, <2>4 DEF HashFails, TypeOK, Stamps, RowType, WalkType, RunType
<1>7. CASE CommitInventory
  <2>1. \A f \in Files : MarkMissing(f) \in RowType
    BY <1>0 DEF MarkMissing, RowType
  <2>2. rows' \in [Files -> RowType]
    BY <1>7, <2>1 DEF CommitInventory
  <2>3. raced' \subseteq Files /\ listed' \subseteq Files
    BY <1>0, <1>7 DEF CommitInventory, TypeOK, WalkType, InFlight, RunType
  <2>4. /\ walk' \in WalkType /\ walk'.todo \cap walk'.visited = {} /\ walk'.hashing = None
    BY <1>7 DEF CommitInventory, Idle, WalkType
  <2> QED BY <1>7, <2>2, <2>3, <2>4 DEF CommitInventory, TypeOK, Stamps, RowType, WalkType, RunType
<1>8. CASE AbortInventory
  <2>1. /\ walk' \in WalkType /\ walk'.todo \cap walk'.visited = {} /\ walk'.hashing = None
    BY <1>8 DEF AbortInventory, Idle, WalkType
  <2> QED BY <1>8, <2>1 DEF AbortInventory, TypeOK, Stamps, RowType, WalkType, RunType
<1> QED BY <1>1, <1>2, <1>3, <1>4, <1>5, <1>6, <1>7, <1>8

LEMMA ExtractionType == ASSUME TypeOK,
                               \/ \E chosen \in SUBSET Files : BeginExtraction(chosen) \/ BeginSummaries(chosen)
                               \/ \E f \in Files : Extract(f) \/ ExtractRaises(f)
                               \/ Persist \/ AbortExtraction \/ SyncKeyword
                        PROVE  TypeOK'
<1> USE DEF corpus, indexes, Fault
<1>1. ASSUME NEW c, NEW chosen, Load(c, chosen) PROVE TypeOK'
  <2>1. run' \in RunType /\ run'.file \notin run'.queue /\ run'.read \notin NoText
    BY <1>1 DEF Load, NoRun, RunType, Pending
  <2> QED BY <1>1, <2>1 DEF Load, TypeOK, Stamps, RowType, WalkType, RunType
<1>2. ASSUME NEW f \in Files, Extract(f) PROVE TypeOK'
  <2>1. run' \in RunType /\ run'.file \notin run'.queue /\ run'.read \notin NoText
    BY <1>2 DEF Extract, RunType, TypeOK
  <2> QED BY <1>2, <2>1 DEF Extract, TypeOK, Stamps, RowType, WalkType, RunType
<1>3. ASSUME NEW f \in Files, ExtractRaises(f) PROVE TypeOK'
  <2>1. run' \in RunType /\ run'.file \notin run'.queue /\ run'.read \notin NoText
    BY <1>3 DEF ExtractRaises, RunType, TypeOK
  <2>2. faults' \in 0 .. MaxFaults
    BY <1>3 DEF ExtractRaises, TypeOK
  <2> QED BY <1>3, <2>1, <2>2 DEF ExtractRaises, TypeOK, Stamps, RowType, WalkType, RunType
<1>4. CASE Persist
  <2>1. run' \in RunType /\ run'.file \notin run'.queue /\ run'.read \notin NoText
    BY <1>4 DEF Persist, RunType, TypeOK
  <2>2. rows' \in [Files -> RowType]
    <3> DEFINE row == Row(rows[run.file].stamp, rows[run.file].hash, Outcome(run.read))
    <3>1. run.file \in Files /\ rows[run.file] \in RowType /\ rows \in [Files -> RowType]
      BY <1>4 DEF Persist, TypeOK, RunType
    <3>2. row \in RowType
      BY <3>1 DEF Row, Outcome, RowType
    <3>3. rows' = [rows EXCEPT ![run.file] = row]
      BY <1>4 DEF Persist
    <3> HIDE DEF row
    <3> QED BY <3>1, <3>2, <3>3
  <2>3. /\ text' \in [Files -> (Contents \ NoText) \cup {None}]
        /\ fts' \in [Files -> (Contents \ NoText) \cup {None}]
    BY <1>4 DEF Persist, ReplaceChunks, TypeOK, RunType
  <2> QED BY <1>4, <2>1, <2>2, <2>3 DEF Persist, TypeOK, Stamps, RowType, WalkType, RunType
<1>5. CASE AbortExtraction
  BY <1>5 DEF AbortExtraction, NoRun, TypeOK, Stamps, RowType, WalkType, RunType
<1>6. CASE SyncKeyword
  BY <1>6 DEF SyncKeyword, TypeOK, Stamps, RowType, WalkType, RunType
<1> QED BY <1>1, <1>2, <1>3, <1>4, <1>5, <1>6 DEF BeginExtraction, BeginSummaries

-----------------------------------------------------------------------------
\* An upsert of a faithful row keeps the invariant.
LEMMA UpsertInv ==
  ASSUME IInv, TypeOK', walk.on, NEW STATE f, NEW STATE row, f \in walk.todo, row \in RowType, Upsert(f, row),
         UNCHANGED <<corpus, rows, indexes, run, listed>>,
         raced' \in {raced, raced \cup {f}}, hashed' \in {hashed, hashed \cup {f}},
         f \notin raced' => Faithful(f, row),
         f \in hashed' => (row.status = "pending" => Faithful(f, row)),
         row.status = "indexed" => text[f] # None
  PROVE  IInv'
<1> USE DEF corpus, indexes
<1>1. /\ f \in Files /\ f \notin walk.visited /\ walk.visited \subseteq Files
      /\ walk.staged \in [Files -> RowType]
  BY DEF IInv, TypeOK, WalkType
<1>2. /\ walk'.on /\ walk'.visited = walk.visited \cup {f} /\ walk'.hashing = None
      /\ walk'.staged = [walk.staged EXCEPT ![f] = row]
  BY UpsertType DEF IInv
<1>3. /\ walk'.staged[f] = row /\ \A g \in Files \ {f} : walk'.staged[g] = walk.staged[g]
  BY <1>1, <1>2
<1>4. RowsFaithful' /\ RowsListed'
  BY DEF IInv, RowsFaithful, RowsListed, Faithful
<1>5. StagedFaithful'
  <2>1. \A g \in Files \ walk'.visited : walk'.staged[g] = rows'[g]
    BY <1>1, <1>2, <1>3 DEF IInv, StagedFaithful
  <2>2. ASSUME NEW g \in walk'.visited \ raced' PROVE Faithful(g, walk.staged[g])'
    <3>1. CASE g = f
      BY <1>3, <2>2, <3>1 DEF Faithful
    <3>2. CASE g # f
      <4>1. g \in walk.visited \ raced /\ walk'.staged[g] = walk.staged[g]
        BY <1>1, <1>2, <1>3, <2>2, <3>2
      <4> QED BY <4>1 DEF IInv, StagedFaithful, Faithful
    <3> QED BY <3>1, <3>2
  <2>3. ASSUME NEW g \in hashed'
        PROVE  g \in walk'.visited /\ (walk'.staged[g].status = "pending" => Faithful(g, walk.staged[g])')
    <3>1. CASE g = f
      BY <1>2, <1>3, <2>3, <3>1 DEF Faithful
    <3>2. CASE g # f
      <4>1. g \in hashed /\ g \in walk.visited /\ walk'.staged[g] = walk.staged[g]
        BY <1>1, <1>3, <2>3, <3>2 DEF IInv, StagedFaithful
      <4> QED BY <1>2, <4>1 DEF IInv, StagedFaithful, Faithful
    <3> QED BY <3>1, <3>2
  <2> QED BY <1>2, <2>1, <2>2, <2>3 DEF StagedFaithful
<1>6. IndexedHaveText' /\ InFlightPending' /\ KeywordIsCurrent'
  BY <1>1, <1>3 DEF IInv, IndexedHaveText, InFlightPending, InFlight, KeywordIsCurrent
<1> QED BY <1>4, <1>5, <1>6 DEF IInv

LEMMA StatFailsInv == ASSUME IInv, TypeOK', NEW f \in Files, StatFails(f) PROVE IInv'
<1> DEFINE row == Row(None, None, [status |-> "failed", reason |-> "metadata"])
<1>1. row \in RowType /\ row.status = "failed" /\ row.stamp = None
  BY DEF Row, RowType
<1>2. disk[f].stamp # None
  BY DEF IInv, TypeOK, Stamps
<1>3. Faithful(f, row)
  BY <1>1, <1>2 DEF Faithful
<1>4. /\ walk.on /\ f \in walk.todo /\ Upsert(f, row) /\ raced' = raced /\ hashed' = hashed
      /\ UNCHANGED <<corpus, rows, indexes, run, listed>>
  BY DEF StatFails
<1> HIDE DEF row
<1> QED BY <1>1, <1>3, <1>4, UpsertInv

LEMMA StatUnchangedInv == ASSUME IInv, TypeOK', NEW f \in Files, StatUnchanged(f) PROVE IInv'
<1> DEFINE old == walk.staged[f]
           s == NextStatus(f, old, disk[f].stamp, old.hash)
           row == Row(disk[f].stamp, old.hash, s)
<1>1. /\ walk.on /\ f \in walk.todo /\ f \notin walk.visited /\ f \notin hashed /\ old = rows[f]
      /\ old \in RowType /\ old.hash \in Contents \cup {None} /\ disk[f].stamp \in Stamps
      /\ old.stamp = disk[f].stamp
  BY DEF IInv, TypeOK, WalkType, RowType, StatUnchanged, StagedFaithful, NeedsHash
<1>2. row \in RowType
  BY <1>1, StatusType
<1>3. s.status \in {old.status, "pending", "metadata_only"}
  BY <1>1, NextStatusIs
<1>4. row.status = s.status /\ row.hash = old.hash /\ row.stamp = old.stamp
  BY <1>1 DEF Row
<1>5. f \notin raced => Faithful(f, row)
  <2>1. f \notin raced => Faithful(f, old)
    BY <1>1 DEF IInv, RowsFaithful
  <2> HIDE DEF s, row, old
  <2> QED BY <1>1, <1>3, <1>4, <2>1 DEF Faithful
<1>6. row.status = "indexed" => text[f] # None
  BY <1>1, <1>3, <1>4 DEF IInv, IndexedHaveText
<1>7. /\ Upsert(f, row) /\ raced' = raced /\ hashed' = hashed
      /\ UNCHANGED <<corpus, rows, indexes, run, listed>>
  BY DEF StatUnchanged
<1> HIDE DEF row
<1> QED BY <1>1, <1>2, <1>5, <1>6, <1>7, UpsertInv

LEMMA HashOkInv == ASSUME IInv, TypeOK', HashOk PROVE IInv'
<1> DEFINE f == walk.hashing.file
           stamp == walk.hashing.stamp
           old == walk.staged[f]
           hash == disk[f].content
           s == NextStatus(f, old, stamp, hash)
           row == Row(stamp, hash, s)
<1>1. /\ walk.on /\ f \in Files /\ f \in walk.todo /\ f \notin walk.visited /\ old = rows[f]
      /\ old \in RowType /\ hash \in Contents /\ stamp \in Stamps
  BY DEF IInv, TypeOK, WalkType, HashOk, StagedFaithful
<1>2. row \in RowType
  BY <1>1, StatusType
<1>3. s.status \in {old.status, "pending", "metadata_only"}
  BY <1>1, NextStatusIs
<1>4. row.status = s.status /\ row.hash = hash
  BY DEF Row
<1>5. row.status = "indexed" => old.status = "indexed" /\ text[f] # None
  BY <1>1, <1>3, <1>4 DEF IInv, IndexedHaveText
<1>6. ASSUME f \notin raced, row.status = "indexed" PROVE hash = text[f]
  <2>1. old.status = "indexed" /\ old.hash = text[f] /\ text[f] # None
    BY <1>1, <1>5, <1>6 DEF IInv, RowsFaithful, Faithful
  <2>2. old.stamp # stamp
    BY <1>1, <2>1 DEF IInv, StagedFaithful, NeedsHash, HashOk, NoRow
  <2>3. old.hash = hash
    BY <1>4, <1>6, <2>2 DEF NextStatus, Classified
  <2> QED BY <2>1, <2>3
<1>7. f \notin raced => Faithful(f, row)
  <2> HIDE DEF row, s
  <2> QED BY <1>4, <1>6 DEF Faithful
<1>8. row.status = "pending" => Faithful(f, row)
  <2> HIDE DEF row, s
  <2> QED BY <1>4 DEF Faithful
<1>9. /\ Upsert(f, row) /\ raced' = raced /\ hashed' = hashed \cup {f}
      /\ UNCHANGED <<corpus, rows, indexes, run, listed>>
  BY DEF HashOk
<1> HIDE DEF row, f
<1> QED BY <1>1, <1>2, <1>5, <1>7, <1>8, <1>9, UpsertInv

LEMMA HashFailsInv == ASSUME IInv, TypeOK', HashFails PROVE IInv'
<1> DEFINE f == walk.hashing.file
           row == Row(walk.hashing.stamp, walk.staged[f].hash, [status |-> "failed", reason |-> "hashing"])
<1>1. /\ walk.on /\ f \in Files /\ f \in walk.todo /\ f \notin walk.visited /\ f \notin hashed
      /\ walk.staged[f].hash \in Contents \cup {None} /\ walk.hashing.stamp \in Stamps
  BY DEF IInv, TypeOK, WalkType, RowType, HashFails, StagedFaithful
<1>2. row \in RowType /\ row.status = "failed"
  BY <1>1 DEF Row, RowType
<1>3. /\ Upsert(f, row) /\ raced' = raced \cup {f} /\ hashed' = hashed
      /\ UNCHANGED <<corpus, rows, indexes, run, listed>>
  BY DEF HashFails
<1> HIDE DEF row, f
<1> QED BY <1>1, <1>2, <1>3, UpsertInv

-----------------------------------------------------------------------------
LEMMA EditInv == ASSUME IInv, TypeOK', NEW f \in Files, NEW c \in Contents \cup {Gone}, Edit(f, c)
                 PROVE  IInv'
<1> USE DEF indexes
<1>1. /\ rows' = rows /\ text' = text /\ fts' = fts /\ walk' = walk /\ run' = run /\ listed' = listed
      /\ raced \subseteq raced' /\ hashed' = hashed \ {f}
      /\ walk.on \/ rows[f].status = "pending" => f \in raced'
      /\ disk'[f].stamp = edits + 1 /\ \A g \in Files \ {f} : disk'[g] = disk[g]
  BY DEF Edit, IInv, TypeOK
<1>2. rows[f].stamp # edits + 1
  BY DEF IInv, TypeOK, RowType, Stamps
<1>3. ASSUME NEW g \in Files \ raced' PROVE Faithful(g, rows[g])'
  <2>1. g # f => Faithful(g, rows[g])'
    BY <1>1, <1>3 DEF IInv, RowsFaithful, Faithful
  <2>2. g = f => Faithful(g, rows[g])'
    BY <1>1, <1>2, <1>3 DEF IInv, RowsFaithful, Faithful
  <2> QED BY <2>1, <2>2
<1>4. StagedFaithful'
  <2>1. ASSUME walk.on, NEW g \in walk.visited \ raced' PROVE Faithful(g, walk.staged[g])'
    BY <1>1, <2>1 DEF IInv, TypeOK, WalkType, StagedFaithful, Faithful
  <2>2. ASSUME walk.on, NEW g \in hashed', walk.staged[g].status = "pending"
        PROVE  Faithful(g, walk.staged[g])'
    BY <1>1, <2>2 DEF IInv, TypeOK, StagedFaithful, Faithful
  <2> QED BY <1>1, <2>1, <2>2 DEF IInv, StagedFaithful, NeedsHash
<1>5. RowsFaithful'
  BY <1>1, <1>3 DEF RowsFaithful
<1>6. /\ RowsListed' /\ IndexedHaveText' /\ InFlightPending' /\ KeywordIsCurrent'
  BY <1>1 DEF IInv, RowsListed, IndexedHaveText, InFlightPending, InFlight, KeywordIsCurrent
<1> QED BY <1>4, <1>5, <1>6 DEF IInv

LEMMA BeginInventoryInv == ASSUME IInv, TypeOK', NEW hidden \in SUBSET Existing, BeginInventory(hidden)
                           PROVE  IInv'
<1> USE DEF corpus, indexes
<1>1. /\ disk' = disk /\ rows' = rows /\ text' = text /\ fts' = fts /\ run' = run /\ raced' = raced
      /\ listed' = listed /\ hashed' = {}
      /\ walk'.on /\ walk'.visited = {} /\ walk'.staged = rows /\ walk'.hashing = None
  BY DEF BeginInventory, Idle
<1>2. StagedFaithful'
  BY <1>1 DEF StagedFaithful
<1> QED BY <1>1, <1>2 DEF IInv, RowsFaithful, RowsListed, Faithful, IndexedHaveText, InFlightPending,
                          InFlight, KeywordIsCurrent

LEMMA StatChangedInv == ASSUME IInv, TypeOK', NEW f \in Files, StatChanged(f) PROVE IInv'
<1> USE DEF corpus, indexes
<1>1. walk \in WalkType
  BY DEF IInv, TypeOK
<1>2. /\ disk' = disk /\ rows' = rows /\ text' = text /\ fts' = fts /\ run' = run /\ raced' = raced
      /\ listed' = listed /\ hashed' = hashed
      /\ walk'.on = walk.on /\ walk'.visited = walk.visited /\ walk'.staged = walk.staged
      /\ walk'.hashing.file = f /\ walk'.hashing.stamp = disk[f].stamp
      /\ NeedsHash(walk.staged[f], disk[f].stamp)
  BY <1>1 DEF StatChanged, WalkType
<1>3. StagedFaithful'
  BY <1>2 DEF IInv, StagedFaithful, Faithful, NeedsHash
<1> QED BY <1>2, <1>3 DEF IInv, RowsFaithful, RowsListed, Faithful, IndexedHaveText, InFlightPending,
                          InFlight, KeywordIsCurrent

LEMMA CommitInventoryInv == ASSUME IInv, TypeOK', CommitInventory PROVE IInv'
<1> USE DEF corpus, indexes
<1>1. /\ disk' = disk /\ text' = text /\ fts' = fts /\ run' = run /\ walk.on /\ ~ walk'.on
      /\ listed' = walk.visited /\ walk.visited \subseteq Files /\ hashed \subseteq walk.visited
      /\ walk.staged \in [Files -> RowType] /\ InFlight' = InFlight
  BY DEF IInv, TypeOK, WalkType, CommitInventory, Idle, StagedFaithful, InFlight
<1>2. \A f \in walk.visited : rows'[f] = walk.staged[f]
  BY <1>1 DEF CommitInventory, MarkMissing
<1>3. \A f \in Files \ walk.visited :
        /\ rows'[f].stamp = rows[f].stamp /\ rows'[f].hash = rows[f].hash
        /\ rows'[f].status \in {"none", "skipped"}
  <2> SUFFICES ASSUME NEW f \in Files \ walk.visited
               PROVE  /\ rows'[f].stamp = rows[f].stamp /\ rows'[f].hash = rows[f].hash
                      /\ rows'[f].status \in {"none", "skipped"}
    OBVIOUS
  <2>1. walk.staged[f] = rows[f] /\ rows[f] \in RowType /\ rows'[f] = MarkMissing(f)
    BY <1>1 DEF IInv, StagedFaithful, CommitInventory
  <2> QED BY <2>1 DEF MarkMissing, NoRow, RowType
<1>4. ASSUME NEW f \in Files \ raced'
      PROVE  /\ f \in raced => f \in hashed \ InFlight /\ rows'[f].status = "pending"
             /\ f \in InFlight => rows'[f] = rows[f]
  BY <1>4 DEF CommitInventory
<1>5. ASSUME NEW f \in Files \ raced' PROVE Faithful(f, rows[f])' /\ (rows'[f].status \in {"pending", "indexed"} => f \in listed')
  <2>1. CASE f \in walk.visited
    <3>1. Faithful(f, walk.staged[f])
      BY <1>1, <1>2, <1>4, <1>5, <2>1 DEF IInv, StagedFaithful
    <3> QED BY <1>1, <1>2, <2>1, <3>1 DEF Faithful
  <2>2. CASE f \notin walk.visited
    <3>1. f \notin raced
      BY <1>1, <1>4, <1>5, <2>2
    <3> QED BY <1>1, <1>3, <1>5, <2>2, <3>1 DEF IInv, RowsFaithful, Faithful
  <2> QED BY <2>1, <2>2
<1>6. ASSUME NEW f \in Files, rows'[f].status = "indexed" PROVE text[f] # None
  BY <1>1, <1>2, <1>3, <1>6 DEF IInv, IndexedHaveText
<1>7. ASSUME NEW f \in InFlight \ raced', f \in Files PROVE rows'[f] = rows[f] /\ f \notin raced
  BY <1>4, <1>7
<1>8. InFlight \subseteq Files
  BY DEF IInv, TypeOK, RunType, InFlight
<1>9. RowsFaithful' /\ RowsListed' /\ StagedFaithful' /\ IndexedHaveText'
  BY <1>1, <1>5, <1>6 DEF RowsFaithful, RowsListed, StagedFaithful, IndexedHaveText
<1>10. InFlightPending' /\ KeywordIsCurrent'
  BY <1>1, <1>7, <1>8 DEF IInv, InFlightPending, KeywordIsCurrent
<1> QED BY <1>9, <1>10 DEF IInv

LEMMA AbortInventoryInv == ASSUME IInv, TypeOK', AbortInventory PROVE IInv'
  BY DEF AbortInventory, Idle, corpus, indexes, IInv, RowsFaithful, RowsListed, StagedFaithful, Faithful,
         IndexedHaveText, InFlightPending, InFlight, KeywordIsCurrent

-----------------------------------------------------------------------------
\* A step of an extraction that writes nothing to the tables.
LEMMA RunInv ==
  ASSUME IInv, TypeOK', UNCHANGED <<corpus, rows, text, walk, raced, hashed, listed>>,
         InFlightPending', KeywordIsCurrent'
  PROVE  IInv'
<1>1. RowsFaithful' /\ RowsListed'
  BY DEF corpus, IInv, RowsFaithful, RowsListed, Faithful
<1>2. StagedFaithful' /\ IndexedHaveText'
  BY DEF corpus, IInv, StagedFaithful, Faithful, NeedsHash, IndexedHaveText
<1> QED BY <1>1, <1>2 DEF IInv

LEMMA ExtractionInv == ASSUME IInv, TypeOK',
                              \/ \E chosen \in SUBSET Files : BeginExtraction(chosen) \/ BeginSummaries(chosen)
                              \/ \E f \in Files : Extract(f) \/ ExtractRaises(f)
                              \/ AbortExtraction \/ SyncKeyword
                       PROVE  IInv'
<1> USE DEF indexes
<1>1. ASSUME NEW c, NEW chosen, Load(c, chosen) PROVE IInv'
  <2>1. /\ UNCHANGED <<corpus, rows, text, fts, walk, raced, hashed, listed>>
        /\ run'.queue \subseteq Pending(c) /\ run'.file = None /\ run'.read = None
    BY <1>1 DEF Load, NoRun
  <2>2. InFlightPending'
    BY <2>1 DEF InFlightPending, InFlight, Pending
  <2> QED BY <2>1, <2>2, RunInv DEF IInv, KeywordIsCurrent
<1>2. ASSUME NEW f \in Files, Extract(f) \/ ExtractRaises(f) PROVE IInv'
  <2>1. /\ UNCHANGED <<corpus, rows, text, fts, walk, raced, hashed, listed>>
        /\ f \in run.queue /\ run'.queue = run.queue \ {f} /\ run'.file = f
        /\ run'.read # None => run'.read = disk[f].content
    BY <1>2 DEF Extract, ExtractRaises
  <2>2. InFlight' \subseteq InFlight /\ f \in InFlight
    BY <2>1 DEF InFlight
  <2>3. f \notin raced => rows[f].status = "pending" /\ rows[f].hash = disk[f].content
    BY <2>2 DEF IInv, InFlightPending, RowsFaithful, Faithful
  <2>4. InFlightPending'
    BY <2>1, <2>2, <2>3 DEF IInv, InFlightPending
  <2> QED BY <2>1, <2>4, RunInv DEF IInv, KeywordIsCurrent
<1>3. CASE AbortExtraction
  <2>1. UNCHANGED <<corpus, rows, text, fts, walk, raced, hashed, listed>> /\ InFlight' = {}
    BY <1>3 DEF AbortExtraction, NoRun, InFlight
  <2> QED BY <2>1, RunInv DEF IInv, InFlightPending, KeywordIsCurrent
<1>4. CASE SyncKeyword
  <2>1. UNCHANGED <<corpus, rows, text, run, walk, raced, hashed, listed>> /\ KeywordIsCurrent'
    BY <1>4 DEF SyncKeyword, KeywordIsCurrent, IInv, TypeOK
  <2>2. InFlightPending'
    BY <2>1 DEF IInv, InFlightPending, InFlight
  <2> QED BY <2>1, <2>2, RunInv
<1> QED BY <1>1, <1>2, <1>3, <1>4 DEF BeginExtraction, BeginSummaries

LEMMA PersistInv == ASSUME IInv, TypeOK', Persist PROVE IInv'
<1>0. PICK f \in Files : f = run.file
  BY DEF IInv, TypeOK, RunType, Persist
<1>1. /\ f \in InFlight /\ ~ walk.on /\ walk' = walk /\ raced' = raced /\ listed' = listed
      /\ disk' = disk /\ run'.queue = run.queue /\ run'.file = None /\ run'.read = None
      /\ text' = [text EXCEPT ![f] = run.read] /\ fts' = [fts EXCEPT ![f] = None]
      /\ rows' = [rows EXCEPT ![f] = Row(rows[f].stamp, rows[f].hash, Outcome(run.read))]
  BY <1>0 DEF IInv, TypeOK, RunType, Persist, Locked, ReplaceChunks, InFlight, corpus
<1>2. /\ text \in [Files -> (Contents \ NoText) \cup {None}] /\ rows \in [Files -> RowType]
      /\ fts \in [Files -> (Contents \ NoText) \cup {None}]
  BY DEF IInv, TypeOK
<1>3. \A g \in Files \ {f} : rows'[g] = rows[g] /\ text'[g] = text[g] /\ fts'[g] = fts[g]
  BY <1>1, <1>2
<1>4. /\ rows'[f].stamp = rows[f].stamp /\ rows'[f].hash = rows[f].hash
      /\ rows'[f].status \in {"failed", "indexed"}
      /\ rows'[f].status = "indexed" => run.read # None
      /\ text'[f] = run.read /\ fts'[f] = None
  BY <1>1, <1>2 DEF Row, Outcome
<1>5. ASSUME f \notin raced
      PROVE  /\ Faithful(f, rows[f]) /\ f \in listed
             /\ rows'[f].status = "indexed" => run.read = rows[f].hash
  BY <1>0, <1>1, <1>4, <1>5 DEF IInv, InFlightPending, RowsFaithful, RowsListed
<1>6. RowsFaithful'
  <2>1. f \notin raced => Faithful(f, rows[f])'
    BY <1>1, <1>4, <1>5 DEF Faithful
  <2>2. \A g \in (Files \ {f}) \ raced : Faithful(g, rows[g])'
    BY <1>1, <1>3 DEF IInv, RowsFaithful, Faithful
  <2> QED BY <1>1, <2>1, <2>2 DEF RowsFaithful
<1>7. RowsListed' /\ StagedFaithful'
  BY <1>1, <1>3, <1>5 DEF IInv, RowsListed, StagedFaithful
<1>8. IndexedHaveText' /\ KeywordIsCurrent'
  BY <1>1, <1>3, <1>4 DEF IInv, IndexedHaveText, KeywordIsCurrent
<1>9. InFlightPending'
  <2>1. InFlight' = run.queue /\ f \notin run.queue /\ run.queue \subseteq Files /\ run.queue \subseteq InFlight
    BY <1>0, <1>1 DEF InFlight, IInv, TypeOK, RunType
  <2> QED BY <1>1, <1>3, <2>1 DEF IInv, InFlightPending
<1> QED BY <1>6, <1>7, <1>8, <1>9 DEF IInv

-----------------------------------------------------------------------------
LEMMA StepInv == IInv /\ [Next]_vars => IInv'
<1> SUFFICES ASSUME IInv, [Next]_vars PROVE IInv'
  OBVIOUS
<1>1. TypeOK
  BY DEF IInv
<1>2. ASSUME NEW f \in Files, NEW c \in Contents \cup {Gone}, Edit(f, c) PROVE IInv'
  BY <1>1, <1>2, EditType, EditInv
<1>3. ASSUME NEW hidden \in SUBSET Existing, BeginInventory(hidden) PROVE IInv'
  BY <1>1, <1>3, InventoryType, BeginInventoryInv
<1>4. ASSUME NEW f \in Files, StatFails(f) \/ StatUnchanged(f) \/ StatChanged(f) PROVE IInv'
  BY <1>1, <1>4, InventoryType, StatFailsInv, StatUnchangedInv, StatChangedInv
<1>5. CASE HashOk \/ HashFails
  BY <1>1, <1>5, InventoryType, HashOkInv, HashFailsInv
<1>6. CASE CommitInventory \/ AbortInventory
  BY <1>1, <1>6, InventoryType, CommitInventoryInv, AbortInventoryInv
<1>7. CASE \/ \E chosen \in SUBSET Files : BeginExtraction(chosen) \/ BeginSummaries(chosen)
           \/ AbortExtraction \/ SyncKeyword
  BY <1>1, <1>7, ExtractionType, ExtractionInv
<1>8. ASSUME NEW f \in Files, Extract(f) \/ ExtractRaises(f) PROVE IInv'
  BY <1>1, <1>8, ExtractionType, ExtractionInv
<1>9. CASE Persist
  BY <1>1, <1>9, ExtractionType, PersistInv
<1>10. CASE UNCHANGED vars
  BY <1>10 DEF vars, corpus, indexes, IInv, TypeOK, Stamps, RowType, WalkType, RunType, RowsFaithful,
               RowsListed, StagedFaithful, Faithful, NeedsHash, IndexedHaveText, InFlightPending,
               InFlight, KeywordIsCurrent
<1> QED BY <1>2, <1>3, <1>4, <1>5, <1>6, <1>7, <1>8, <1>9, <1>10 DEF Next

\* The inductive invariant of the file life cycle, for any corpus and any history.
THEOREM FileInvariant == Spec => []IInv
  BY InitInv, StepInv, PTL DEF Spec

\* A file that was not raced is searched with its own text (extraction/core.py,
\* inventory/core.py: _next_inventory_status).
THEOREM StaleOnlyAfterARace == Spec => []StaleOnlyIfRaced
<1>1. IInv => StaleOnlyIfRaced
  BY DEF IInv, StaleOnlyIfRaced, Current, RowsFaithful, Faithful
<1> QED BY <1>1, FileInvariant, PTL

\* Missing files are not searchable (mark_missing_files).
THEOREM MissingStaysHidden == Spec => []MissingIsHidden
<1>1. IInv => MissingIsHidden
  BY DEF IInv, MissingIsHidden, RowsListed
<1> QED BY <1>1, FileInvariant, PTL

\* Searchable files have chunks, and the keyword index only has their words.
THEOREM IndexesMatchChunks == Spec => [](IndexedHasText /\ KeywordIsCurrent)
<1>1. IInv => IndexedHasText /\ KeywordIsCurrent
  BY DEF IInv, IndexedHasText, IndexedHaveText
<1> QED BY <1>1, FileInvariant, PTL

-----------------------------------------------------------------------------
\* Why a file is failed: extraction, or a reason of the moment.  What this
\* inventory hashed it does not leave failed by an earlier inventory.
FailedHow(row) == row.status = "failed" => row.reason \in Transient \cup {"extraction"}

HealInv ==
  /\ \A f \in Files : FailedHow(rows[f])
  /\ walk.on => \A f \in Files : FailedHow(walk.staged[f])
  /\ walk.on => \A f \in hashed : walk.staged[f].status = "failed" => walk.staged[f].reason = "extraction"

\* A file that could be stat'ed keeps no failure of an earlier inventory.
LEMMA HealedStatus ==
  ASSUME NEW f \in Files, NEW old \in RowType, FailedHow(old), NEW stamp, NEW hash
  PROVE  LET s == NextStatus(f, old, stamp, hash) IN s.status = "failed" => s.reason = "extraction"
  BY DEF NextStatus, Classified, RowType, FailedHow

LEMMA HealStep == ASSUME IInv, HealInv, [Next]_vars PROVE HealInv'
<1>0. TypeOK /\ (walk.on => hashed \subseteq walk.visited)
  BY DEF IInv, StagedFaithful
<1>1. /\ rows \in [Files -> RowType] /\ walk.staged \in [Files -> RowType] /\ hashed \subseteq Files
      /\ walk.todo \subseteq Files /\ walk.todo \cap walk.visited = {}
      /\ walk.hashing # None => walk.on /\ walk.hashing.file \in walk.todo
  BY <1>0 DEF TypeOK, WalkType
\* One row upserted, with a status that says why; what was hashed stays hashed.
<1>2. ASSUME NEW f \in walk.todo, NEW stamp, NEW hash, NEW s, walk.on, rows' = rows,
             Upsert(f, Row(stamp, hash, s)), FailedHow(s),
             hashed' \subseteq hashed \cup {f},
             f \in hashed' => (s.status = "failed" => s.reason = "extraction")
      PROVE  HealInv'
  <2>1. /\ walk'.staged = [walk.staged EXCEPT ![f] = Row(stamp, hash, s)]
        /\ Row(stamp, hash, s).status = s.status /\ Row(stamp, hash, s).reason = s.reason
    BY <1>2 DEF Upsert, Row
  <2>2. \A g \in Files : walk'.staged[g] = IF g = f THEN Row(stamp, hash, s) ELSE walk.staged[g]
    BY <2>1, <1>1
  <2> QED BY <2>1, <2>2, <1>0, <1>1, <1>2 DEF HealInv, FailedHow
<1>3. ASSUME NEW f \in Files, NEW c \in Contents \cup {Gone}, Edit(f, c) PROVE HealInv'
  BY <1>3 DEF Edit, indexes, HealInv, FailedHow
<1>4. ASSUME NEW hidden \in SUBSET Existing, BeginInventory(hidden) PROVE HealInv'
  BY <1>4 DEF BeginInventory, Idle, HealInv, FailedHow
<1>5. ASSUME NEW f \in Files, StatFails(f) PROVE HealInv'
  <2>1. f \notin hashed
    BY <1>0, <1>1, <1>5 DEF StatFails
  <2> QED BY <2>1, <1>2, <1>5 DEF StatFails, FailedHow
<1>6. ASSUME NEW f \in Files, StatUnchanged(f) PROVE HealInv'
  <2> DEFINE s == NextStatus(f, walk.staged[f], disk[f].stamp, walk.staged[f].hash)
  <2>1. s.status = "failed" => s.reason = "extraction"
    BY <1>1, <1>6, HealedStatus DEF StatUnchanged, HealInv
  <2>2. f \in walk.todo /\ walk.on /\ rows' = rows /\ hashed' = hashed
        /\ Upsert(f, Row(disk[f].stamp, walk.staged[f].hash, s))
    BY <1>6 DEF StatUnchanged
  <2> HIDE DEF s
  <2>3. FailedHow(s)
    BY <2>1 DEF FailedHow
  <2> QED BY <2>1, <2>2, <2>3, <1>2
<1>7. ASSUME NEW f \in Files, StatChanged(f) PROVE HealInv'
  BY <1>1, <1>7 DEF StatChanged, HealInv, FailedHow
<1>8. CASE HashOk
  <2> DEFINE f == walk.hashing.file
             s == NextStatus(f, walk.staged[f], walk.hashing.stamp, disk[f].content)
  <2>1. f \in walk.todo /\ walk.on /\ rows' = rows /\ hashed' = hashed \cup {f}
        /\ Upsert(f, Row(walk.hashing.stamp, disk[f].content, s))
    BY <1>1, <1>8 DEF HashOk
  <2>2. s.status = "failed" => s.reason = "extraction"
    BY <1>1, <2>1, HealedStatus DEF HealInv
  <2> HIDE DEF s
  <2>3. FailedHow(s)
    BY <2>2 DEF FailedHow
  <2> QED BY <2>1, <2>2, <2>3, <1>2
<1>9. CASE HashFails
  <2> DEFINE f == walk.hashing.file
  <2>1. /\ f \in walk.todo /\ walk.on /\ rows' = rows /\ hashed' = hashed
        /\ Upsert(f, Row(walk.hashing.stamp, walk.staged[f].hash, [status |-> "failed", reason |-> "hashing"]))
    BY <1>1, <1>9 DEF HashFails
  <2>2. f \notin hashed
    BY <2>1, <1>0, <1>1
  <2> HIDE DEF f
  <2> QED BY <2>1, <2>2, <1>2 DEF FailedHow
<1>10. CASE CommitInventory
  <2>1. \A f \in Files : rows'[f] = walk.staged[f] \/ rows'[f].status = "skipped"
    <3>1. \A f \in Files : rows'[f] = MarkMissing(f)
      BY <1>10 DEF CommitInventory
    <3>2. \A r \in RowType : [r EXCEPT !.status = "skipped", !.reason = Missing].status = "skipped"
      BY DEF RowType
    <3>3. \A f \in Files : MarkMissing(f) = walk.staged[f] \/ MarkMissing(f).status = "skipped"
      BY <1>1, <3>2 DEF MarkMissing
    <3> QED BY <3>1, <3>3
  <2> QED BY <2>1, <1>10 DEF CommitInventory, Idle, HealInv, FailedHow
<1>11. CASE AbortInventory
  BY <1>11 DEF AbortInventory, Idle, HealInv, FailedHow
<1>12. CASE Persist
  <2>1. \A f \in Files : \/ rows'[f] = rows[f]
                         \/ rows'[f].status = "failed" => rows'[f].reason = "extraction"
    <3>1. rows' = [rows EXCEPT ![run.file] = Row(rows[run.file].stamp, rows[run.file].hash, Outcome(run.read))]
      BY <1>12 DEF Persist
    <3>2. \A a, b, c : Row(a, b, Outcome(c)).status = "failed" => Row(a, b, Outcome(c)).reason = "extraction"
      BY DEF Row, Outcome
    <3> QED BY <1>1, <3>1, <3>2
  <2>2. walk' = walk /\ hashed' = hashed
    BY <1>12 DEF Persist
  <2> QED BY <2>1, <2>2 DEF HealInv, FailedHow
<1>13. ASSUME UNCHANGED <<rows, walk, hashed>> PROVE HealInv'
  BY <1>13 DEF HealInv, FailedHow
<1>14. ASSUME NEW chosen \in SUBSET Files, BeginExtraction(chosen) \/ BeginSummaries(chosen) PROVE HealInv'
  BY <1>13, <1>14 DEF BeginExtraction, BeginSummaries, Load
<1>15. ASSUME NEW f \in Files, Extract(f) \/ ExtractRaises(f) PROVE HealInv'
  BY <1>13, <1>15 DEF Extract, ExtractRaises
<1>16. CASE AbortExtraction \/ SyncKeyword \/ UNCHANGED vars
  BY <1>13, <1>16 DEF AbortExtraction, SyncKeyword, vars
<1> QED BY <1>3, <1>4, <1>5, <1>6, <1>7, <1>8, <1>9, <1>10, <1>11, <1>12, <1>14, <1>15, <1>16 DEF Next

\* A failure of the moment is not kept: what an inventory could read it does not
\* leave failed by an earlier one (inventory/core.py: _next_inventory_status).
THEOREM FailuresHeal == Spec => TransientFailuresHeal
<1>1. Init => HealInv
  BY DEF Init, HealInv, FailedHow, NoRow, Idle
<1>2. IInv /\ HealInv /\ [Next]_vars => HealInv'
  BY HealStep
<1> DEFINE Commits == ~ walk'.on /\ walk.on /\ rows' # rows
           Heals == \A f \in hashed : rows'[f].status = "failed" => rows'[f].reason = "extraction"
<1>3. ASSUME IInv, HealInv, [Next]_vars PROVE [Commits => Heals]_vars
  <2>1. SUFFICES ASSUME ~ walk'.on, walk.on, rows' # rows PROVE Heals
    OBVIOUS
  <2>2. CommitInventory
    <3>1. /\ \A f : ~ (StatFails(f) \/ StatUnchanged(f) \/ StatChanged(f))
          /\ ~ HashOk /\ ~ HashFails
      BY <2>1 DEF StatFails, StatUnchanged, StatChanged, HashOk, HashFails, Upsert
    <3>2. /\ \A f, c : ~ Edit(f, c) /\ \A h : ~ BeginInventory(h) /\ ~ AbortInventory /\ ~ Persist
          /\ \A c : ~ BeginExtraction(c) /\ ~ BeginSummaries(c) /\ \A f : ~ Extract(f) /\ ~ ExtractRaises(f)
          /\ ~ AbortExtraction /\ ~ SyncKeyword /\ ~ UNCHANGED vars
      BY <2>1 DEF Edit, BeginInventory, AbortInventory, Persist, BeginExtraction, BeginSummaries, Load,
                  Extract, ExtractRaises, AbortExtraction, SyncKeyword, vars
    <3> QED BY <3>1, <3>2, <1>3 DEF Next
  <2>3. \A f \in hashed : f \in walk.visited /\ f \in Files
    BY <1>3, <2>1 DEF IInv, StagedFaithful, TypeOK
  <2>4. \A f \in hashed : rows'[f] = walk.staged[f]
    BY <2>2, <2>3 DEF CommitInventory, MarkMissing
  <2> QED BY <1>3, <2>1, <2>4 DEF HealInv
<1>4. [][Commits => Heals]_vars <=> TransientFailuresHeal
  BY DEF TransientFailuresHeal
<1> HIDE DEF Commits, Heals
<1> QED BY <1>1, <1>2, <1>3, <1>4, FileInvariant, PTL DEF Spec

-----------------------------------------------------------------------------
\* The catalogue of courses (CourseCatalog): its types, with those of a run.
CourseRow == [path : Roots \cup CourseDirs, files : SUBSET CourseFiles]
Tables == [courses : [CourseNames -> CourseRow \cup {NoCourse}],
           courseOf : [CourseFiles -> CourseNames \cup {NoCourse}], present : SUBSET CourseFiles]
Records == [status : {"running", "completed", "failed"}, seen : SUBSET CourseFiles]
Passes == {NoPass} \cup [stage : {"discover"}, root : Roots]
          \cup [stage : {"walk"}, root : Roots, files : SUBSET CourseFiles, dirs : SUBSET CourseDirs,
                view : Tables, seenCourses : SUBSET CourseNames, seen : SUBSET CourseFiles]

CatalogType == /\ coursesRoot \in Roots
               /\ catalog \in Tables
               /\ records \in Seq(Records)
               /\ pass \in Passes

Place(n, path) == IF n = General THEN InRoot[path] ELSE Below[path]

\* Rows of the given names count exactly the given files, which lie where the rows say.
Tallied(courses, courseOf, names, seen) ==
  /\ \A n \in names : courses[n] # NoCourse =>
       /\ courses[n].files = {f \in seen : courseOf[f] = n}
       /\ courses[n].files \subseteq Place(n, courses[n].path)
  /\ \A f \in seen : courseOf[f] \in names
PathsDiffer(courses) ==
  \A n \in CourseNames : courses[n] # NoCourse =>
    \A m \in CourseNames \ {n} : courses[m] = NoCourse \/ courses[m].path # courses[n].path

TablesInv == /\ Tallied(catalog.courses, catalog.courseOf, CourseNames, catalog.present)
             /\ PathsDiffer(catalog.courses)

\* The run in progress: what it has counted, and what it has yet to visit.
WalkInv ==
  pass.stage = "walk" =>
    /\ Tallied(pass.view.courses, pass.view.courseOf, pass.seenCourses, pass.seen)
    /\ PathsDiffer(pass.view.courses)
    /\ pass.files \subseteq InRoot[pass.root]
    /\ pass.files # {} => pass.seen = {} /\ pass.seenCourses = {}
    /\ pass.dirs \subseteq DirsIn(pass.root)
    /\ \A d \in pass.dirs : /\ Below[d] \cap pass.seen = {}
                            /\ NameOf[d] \notin Reserved => NameOf[d] \notin pass.seenCourses

Newest(k) == records[k].status = "completed" /\ \A l \in k + 1 .. Len(records) : records[l].status # "completed"
RecordsInv == /\ \A k \in 1 .. Len(records) : Newest(k) => records[k].seen = catalog.present
              /\ pass # NoPass => Len(records) > 0 /\ records[Len(records)].status = "running"

CatalogInv == CatalogType /\ TablesInv /\ WalkInv /\ RecordsInv

LEMMA CatalogInitInv == CatalogInit => CatalogInv
<1> USE CatalogAssumption
<1> SUFFICES ASSUME CatalogInit PROVE CatalogInv  OBVIOUS
<1>1. CatalogType  BY DEF CatalogInit, CatalogType, Tables, Passes, NoPass
<1>2. TablesInv /\ WalkInv /\ RecordsInv
  BY DEF CatalogInit, TablesInv, Tallied, PathsDiffer, WalkInv, RecordsInv, NoPass
<1> QED  BY <1>1, <1>2 DEF CatalogInv

\* Only a run in its walk stage has a view.
LEMMA WalkShape ==
  ASSUME CatalogType, pass.stage = "walk"
  PROVE  /\ pass \in [stage : {"walk"}, root : Roots, files : SUBSET CourseFiles, dirs : SUBSET CourseDirs,
                       view : Tables, seenCourses : SUBSET CourseNames, seen : SUBSET CourseFiles]
         /\ pass # NoPass
BY DEF CatalogType, Passes, NoPass

\* Counting new files under a name that was not counted keeps the tally.
LEMMA CountedTally ==
  ASSUME CatalogType, WalkInv, pass.stage = "walk", CatalogAssumption,
         NEW n \in CourseNames, NEW path \in Roots \cup CourseDirs, NEW files \in SUBSET CourseFiles,
         n \notin pass.seenCourses, files \cap pass.seen = {}, files \subseteq Place(n, path),
         Others(n, path) = {}
  PROVE  LET p == Counted(n, path, files)
         IN  /\ p \in [stage : {"walk"}, root : Roots, files : SUBSET CourseFiles, dirs : SUBSET CourseDirs,
                        view : Tables, seenCourses : SUBSET CourseNames, seen : SUBSET CourseFiles]
             /\ p.root = pass.root /\ p.files = pass.files /\ p.dirs = pass.dirs
             /\ p.seenCourses = pass.seenCourses \cup {n} /\ p.seen = pass.seen \cup files
             /\ Tallied(p.view.courses, p.view.courseOf, p.seenCourses, p.seen)
             /\ PathsDiffer(p.view.courses)
<1> DEFINE p == Counted(n, path, files)
           row == [path |-> path, files |-> files]
           entries == [pass.view.courses EXCEPT ![n] = row]
           of == [f \in CourseFiles |-> IF f \in files THEN n ELSE pass.view.courseOf[f]]
           view == [courses |-> entries, courseOf |-> of, present |-> pass.view.present]
<1>1. pass \in [stage : {"walk"}, root : Roots, files : SUBSET CourseFiles, dirs : SUBSET CourseDirs,
                view : Tables, seenCourses : SUBSET CourseNames, seen : SUBSET CourseFiles]
  BY WalkShape
<1>2. /\ p = [stage |-> "walk", root |-> pass.root, files |-> pass.files, dirs |-> pass.dirs,
              view |-> view, seenCourses |-> pass.seenCourses \cup {n}, seen |-> pass.seen \cup files]
      /\ row \in CourseRow
  <2>1. p = [pass EXCEPT !.seenCourses = pass.seenCourses \cup {n}, !.seen = pass.seen \cup files, !.view = view]
    BY DEF Counted
  <2>2. row \in CourseRow  BY DEF CourseRow
  <2> HIDE DEF p, row, entries, of, view
  <2> QED  BY <2>1, <2>2, <1>1
<1>3. /\ pass.view.courses \in [CourseNames -> CourseRow \cup {NoCourse}]
      /\ pass.view.courseOf \in [CourseFiles -> CourseNames \cup {NoCourse}]
      /\ row # NoCourse /\ row.path = path /\ row.files = files
  BY <1>1, <1>2 DEF Tables, CatalogAssumption, CourseRow
<1> HIDE DEF p, row
<1>4. /\ p.view.courses = [pass.view.courses EXCEPT ![n] = row]
      /\ p.view.courseOf = [f \in CourseFiles |-> IF f \in files THEN n ELSE pass.view.courseOf[f]]
      /\ p.seenCourses = pass.seenCourses \cup {n} /\ p.seen = pass.seen \cup files
      /\ p.view \in Tables
  <2>1. /\ p.view.courses = [pass.view.courses EXCEPT ![n] = row]
        /\ p.view.courseOf = [f \in CourseFiles |-> IF f \in files THEN n ELSE pass.view.courseOf[f]]
        /\ p.seenCourses = pass.seenCourses \cup {n} /\ p.seen = pass.seen \cup files
    BY <1>2
  <2>2. /\ [pass.view.courses EXCEPT ![n] = row] \in [CourseNames -> CourseRow \cup {NoCourse}]
        /\ [f \in CourseFiles |-> IF f \in files THEN n ELSE pass.view.courseOf[f]]
             \in [CourseFiles -> CourseNames \cup {NoCourse}]
    BY <1>2, <1>3
  <2> QED  BY <2>1, <2>2, <1>1, <1>2 DEF Tables
<1>5. Tallied(pass.view.courses, pass.view.courseOf, pass.seenCourses, pass.seen) /\ PathsDiffer(pass.view.courses)
  BY DEF WalkInv
<1>6. Tallied(p.view.courses, p.view.courseOf, p.seenCourses, p.seen)
  <2>1. \A f \in pass.seen : f \in CourseFiles /\ f \notin files /\ p.view.courseOf[f] = pass.view.courseOf[f]
    BY <1>1, <1>4
  <2>2. \A f \in files : p.view.courseOf[f] = n
    BY <1>4
  <2>3. \A f \in p.seen : p.view.courseOf[f] \in p.seenCourses
    BY <2>1, <2>2, <1>4, <1>5 DEF Tallied
  <2>4. ASSUME NEW m \in p.seenCourses, p.view.courses[m] # NoCourse
        PROVE  /\ p.view.courses[m].files = {f \in p.seen : p.view.courseOf[f] = m}
               /\ p.view.courses[m].files \subseteq Place(m, p.view.courses[m].path)
    <3>1. CASE m = n
      <4>1. p.view.courses[m] = row  BY <3>1, <1>3, <1>4
      <4>2. {f \in p.seen : p.view.courseOf[f] = m} = files
        BY <3>1, <2>1, <2>2, <1>4, <1>5 DEF Tallied
      <4> QED  BY <4>1, <4>2, <1>3, <3>1
    <3>2. CASE m # n
      <4>1. m \in pass.seenCourses /\ p.view.courses[m] = pass.view.courses[m]
        BY <3>2, <1>1, <1>3, <1>4
      <4>2. {f \in p.seen : p.view.courseOf[f] = m} = {f \in pass.seen : pass.view.courseOf[f] = m}
        BY <3>2, <2>1, <2>2, <1>4
      <4> QED  BY <4>1, <4>2, <2>4, <1>5 DEF Tallied
    <3> QED  BY <3>1, <3>2
  <2> QED  BY <2>3, <2>4 DEF Tallied
<1>7. PathsDiffer(p.view.courses)
  <2> SUFFICES ASSUME NEW a \in CourseNames, NEW b \in CourseNames \ {a},
                      p.view.courses[a] # NoCourse, p.view.courses[b] # NoCourse
               PROVE  p.view.courses[b].path # p.view.courses[a].path
    BY DEF PathsDiffer
  <2>1. \A m \in CourseNames \ {n} : pass.view.courses[m] = NoCourse \/ pass.view.courses[m].path # path
    BY DEF Others
  <2>2. \A m \in CourseNames : p.view.courses[m] = IF m = n THEN row ELSE pass.view.courses[m]
    BY <1>3, <1>4
  <2> QED  BY <2>1, <2>2, <1>3, <1>5 DEF PathsDiffer
<1>8. p \in [stage : {"walk"}, root : Roots, files : SUBSET CourseFiles, dirs : SUBSET CourseDirs,
             view : Tables, seenCourses : SUBSET CourseNames, seen : SUBSET CourseFiles]
      /\ p.root = pass.root /\ p.files = pass.files /\ p.dirs = pass.dirs
  <2>1. /\ p.stage = "walk" /\ p.root = pass.root /\ p.files = pass.files /\ p.dirs = pass.dirs
        /\ p = [stage |-> p.stage, root |-> p.root, files |-> p.files, dirs |-> p.dirs, view |-> p.view,
                seenCourses |-> p.seenCourses, seen |-> p.seen]
    BY <1>2
  <2>2. p.seenCourses \in SUBSET CourseNames /\ p.seen \in SUBSET CourseFiles /\ pass.root \in Roots
        /\ pass.files \in SUBSET CourseFiles /\ pass.dirs \in SUBSET CourseDirs
    BY <1>1, <1>4
  <2> QED  BY <2>1, <2>2, <1>4
<1> QED  BY <1>4, <1>6, <1>7, <1>8 DEF p

\* The record of the run in progress gets its final form.
LEMMA FinishRecords ==
  ASSUME CatalogType, RecordsInv, pass # NoPass, pass' = NoPass,
         NEW status \in {"failed", "completed"}, NEW seen \in SUBSET CourseFiles, Finish(status, seen),
         status = "completed" => catalog'.present = seen,
         status = "failed" => catalog' = catalog
  PROVE  records' \in Seq(Records) /\ RecordsInv'
<1> DEFINE last == Len(records)
<1>1. /\ records \in Seq(Records) /\ last \in Nat /\ last > 0 /\ records[last].status = "running"
      /\ [status |-> status, seen |-> seen] \in Records
  BY DEF CatalogType, RecordsInv, Records
<1>2. /\ records' \in Seq(Records) /\ Len(records') = last
      /\ records'[last] = [status |-> status, seen |-> seen]
      /\ \A k \in 1 .. last : k # last => records'[k] = records[k]
  BY <1>1 DEF Finish
<1>3. ASSUME NEW k \in 1 .. last, records'[k].status = "completed",
             \A l \in k + 1 .. last : records'[l].status # "completed"
      PROVE  records'[k].seen = catalog'.present
  <2>1. CASE k = last
    <3>1. records'[last].status = status /\ records'[last].seen = seen  BY <1>2
    <3> QED  BY <2>1, <3>1, <1>3
  <2>2. CASE k # last
    <3>1. last \in k + 1 .. last  BY <2>2, <1>1
    <3>2. status = "failed"  BY <3>1, <1>2, <1>3
    <3>3. \A l \in k + 1 .. last : records[l].status # "completed"
      BY <1>1, <1>2, <1>3
    <3>4. Newest(k)  BY <3>3, <2>2, <1>2, <1>3 DEF Newest
    <3> QED  BY <3>2, <3>4, <2>2, <1>2 DEF RecordsInv
  <2> QED  BY <2>1, <2>2
<1> QED  BY <1>2, <1>3 DEF RecordsInv, Newest

LEMMA CatalogInvStep == CatalogInv /\ [CatalogNext]_catalogVars => CatalogInv'
<1> USE CatalogAssumption
<1> SUFFICES ASSUME CatalogInv, [CatalogNext]_catalogVars PROVE CatalogInv'  OBVIOUS
<1> USE DEF CatalogInv
<1>1. CASE UNCHANGED catalogVars
  BY <1>1 DEF catalogVars, CatalogType, TablesInv, WalkInv, RecordsInv, Newest
<1>2. ASSUME Move, coursesRoot' \in Roots PROVE CatalogInv'
  BY <1>2 DEF Move, CatalogType, TablesInv, WalkInv, RecordsInv, Newest
<1>3. CASE StartRun
  <2>1. /\ records \in Seq(Records) /\ Len(records) \in Nat
        /\ [status |-> "running", seen |-> {}] \in Records
    BY DEF CatalogType, Records
  <2>2. /\ records' \in Seq(Records) /\ Len(records') = Len(records) + 1
        /\ records'[Len(records) + 1] = [status |-> "running", seen |-> {}]
        /\ \A k \in 1 .. Len(records) : records'[k] = records[k]
        /\ catalog' = catalog /\ coursesRoot' = coursesRoot
    BY <1>3, <2>1 DEF StartRun
  <2>3. pass' = [stage |-> "discover", root |-> coursesRoot]  BY <1>3 DEF StartRun
  <2>4. CatalogType'  BY <2>2, <2>3 DEF CatalogType, Passes
  <2>5. WalkInv'  BY <2>3 DEF WalkInv
  <2>6. RecordsInv'
    <3>1. ASSUME NEW k \in 1 .. Len(records) + 1, records'[k].status = "completed",
                 \A l \in k + 1 .. Len(records) + 1 : records'[l].status # "completed"
          PROVE  records'[k].seen = catalog.present
      <4>1. k \in 1 .. Len(records)  BY <2>1, <2>2, <3>1
      <4>2. \A l \in k + 1 .. Len(records) : records[l].status # "completed"
        BY <2>1, <2>2, <3>1
      <4> QED  BY <4>1, <4>2, <2>2, <3>1 DEF RecordsInv, Newest
    <3> QED  BY <3>1, <2>1, <2>2 DEF RecordsInv, Newest
  <2> QED  BY <2>2, <2>4, <2>5, <2>6 DEF TablesInv
<1>4. ASSUME NEW found, Discover(found) PROVE CatalogInv'
  <2>1. /\ pass \in [stage : {"discover"}, root : Roots] /\ catalog \in Tables /\ pass # NoPass
    BY <1>4 DEF Discover, CatalogType, Passes, NoPass
  <2>2. /\ pass' = [stage |-> "walk", root |-> pass.root, files |-> found \cap CourseFiles,
                    dirs |-> found \cap CourseDirs, view |-> catalog, seenCourses |-> {}, seen |-> {}]
        /\ UNCHANGED <<coursesRoot, catalog, records>> /\ found \subseteq InRoot[pass.root]
    BY <1>4 DEF Discover
  <2>3. CatalogType'
    <3>1. pass' \in [stage : {"walk"}, root : Roots, files : SUBSET CourseFiles, dirs : SUBSET CourseDirs,
                     view : Tables, seenCourses : SUBSET CourseNames, seen : SUBSET CourseFiles]
      BY <2>1, <2>2
    <3> QED  BY <3>1, <2>2 DEF CatalogType, Passes
  <2>4. WalkInv'  BY <2>2 DEF WalkInv, TablesInv, Tallied, DirsIn
  <2>5. RecordsInv'  BY <2>1, <2>2 DEF RecordsInv, Newest, NoPass
  <2> QED  BY <2>2, <2>3, <2>4, <2>5 DEF TablesInv
<1>5. CASE RootFiles
  <2>1. /\ pass \in [stage : {"walk"}, root : Roots, files : SUBSET CourseFiles, dirs : SUBSET CourseDirs,
                     view : Tables, seenCourses : SUBSET CourseNames, seen : SUBSET CourseFiles]
        /\ pass # NoPass /\ pass.stage = "walk" /\ General \in CourseNames /\ GeneralPath = pass.root
    BY <1>5, WalkShape DEF RootFiles, GeneralFits, GeneralPath, CourseNames
  <2>2. /\ pass.seen = {} /\ pass.seenCourses = {} /\ pass.files \subseteq InRoot[pass.root]
        /\ pass.dirs \subseteq DirsIn(pass.root) /\ Others(General, pass.root) = {}
    BY <1>5, <2>1 DEF RootFiles, WalkInv, GeneralFits
  <2> DEFINE p == Counted(General, pass.root, pass.files)
  <2>3. /\ p \in [stage : {"walk"}, root : Roots, files : SUBSET CourseFiles, dirs : SUBSET CourseDirs,
                   view : Tables, seenCourses : SUBSET CourseNames, seen : SUBSET CourseFiles]
        /\ p.root = pass.root /\ p.files = pass.files /\ p.dirs = pass.dirs
        /\ p.seenCourses = {General} /\ p.seen = pass.files
        /\ Tallied(p.view.courses, p.view.courseOf, p.seenCourses, p.seen)
        /\ PathsDiffer(p.view.courses)
    <3>1. pass.files \subseteq Place(General, pass.root)  BY <2>2 DEF Place
    <3> QED  BY <2>1, <2>2, <3>1, CountedTally
  <2>4. pass' = [p EXCEPT !.files = {}] /\ UNCHANGED <<coursesRoot, catalog, records>>
    BY <1>5, <2>1 DEF RootFiles
  <2> HIDE DEF p
  <2>5. /\ pass' \in [stage : {"walk"}, root : Roots, files : SUBSET CourseFiles, dirs : SUBSET CourseDirs,
                      view : Tables, seenCourses : SUBSET CourseNames, seen : SUBSET CourseFiles]
        /\ pass'.root = pass.root /\ pass'.files = {} /\ pass'.dirs = pass.dirs /\ pass'.view = p.view
        /\ pass'.seenCourses = {General} /\ pass'.seen = pass.files
    BY <2>3, <2>4
  <2>6. WalkInv'
    <3>1. ASSUME NEW d \in pass.dirs
          PROVE  /\ Below[d] \cap pass.files = {}
                 /\ NameOf[d] \notin Reserved => NameOf[d] \notin {General}
      BY <2>1, <2>2
    <3> QED  BY <3>1, <2>2, <2>3, <2>5 DEF WalkInv
  <2>7. CatalogType'  BY <2>4, <2>5 DEF CatalogType, Passes
  <2>8. RecordsInv' /\ TablesInv'  BY <2>1, <2>4 DEF RecordsInv, TablesInv, Newest
  <2> QED  BY <2>6, <2>7, <2>8
<1>6. ASSUME NEW d \in CourseDirs, NEW found \in SUBSET Below[d], VisitCourse(d, found) PROVE CatalogInv'
  <2>1. /\ pass \in [stage : {"walk"}, root : Roots, files : SUBSET CourseFiles, dirs : SUBSET CourseDirs,
                     view : Tables, seenCourses : SUBSET CourseNames, seen : SUBSET CourseFiles]
        /\ pass # NoPass /\ pass.stage = "walk" /\ pass.files = {} /\ d \in pass.dirs
        /\ NameOf[d] \in CourseNames /\ NameOf[d] \notin Reserved
    BY <1>6, WalkShape DEF VisitCourse, CourseNames
  <2>2. /\ pass.dirs \subseteq DirsIn(pass.root) /\ NameOf[d] \notin pass.seenCourses
        /\ Others(NameOf[d], d) = {} /\ found \cap pass.seen = {} /\ found \in SUBSET CourseFiles
    BY <1>6, <2>1 DEF VisitCourse, WalkInv
  <2> DEFINE p == Counted(NameOf[d], d, found)
  <2>3. /\ p \in [stage : {"walk"}, root : Roots, files : SUBSET CourseFiles, dirs : SUBSET CourseDirs,
                   view : Tables, seenCourses : SUBSET CourseNames, seen : SUBSET CourseFiles]
        /\ p.root = pass.root /\ p.files = pass.files /\ p.dirs = pass.dirs
        /\ p.seenCourses = pass.seenCourses \cup {NameOf[d]} /\ p.seen = pass.seen \cup found
        /\ Tallied(p.view.courses, p.view.courseOf, p.seenCourses, p.seen)
        /\ PathsDiffer(p.view.courses)
    <3>1. found \subseteq Place(NameOf[d], d)  BY <2>1 DEF Place
    <3> QED  BY <2>1, <2>2, <3>1, CountedTally
  <2>4. pass' = [p EXCEPT !.dirs = p.dirs \ {d}] /\ UNCHANGED <<coursesRoot, catalog, records>>
    BY <1>6 DEF VisitCourse
  <2> HIDE DEF p
  <2>5. /\ pass' \in [stage : {"walk"}, root : Roots, files : SUBSET CourseFiles, dirs : SUBSET CourseDirs,
                      view : Tables, seenCourses : SUBSET CourseNames, seen : SUBSET CourseFiles]
        /\ pass'.root = pass.root /\ pass'.files = {} /\ pass'.dirs = pass.dirs \ {d} /\ pass'.view = p.view
        /\ pass'.seenCourses = pass.seenCourses \cup {NameOf[d]} /\ pass'.seen = pass.seen \cup found
    BY <2>1, <2>3, <2>4
  <2>6. WalkInv'
    <3>1. ASSUME NEW e \in pass.dirs \ {d}
          PROVE  /\ Below[e] \cap (pass.seen \cup found) = {}
                 /\ NameOf[e] \notin Reserved => NameOf[e] \notin pass.seenCourses \cup {NameOf[d]}
      <4>1. NameOf[d] # NameOf[e] /\ Below[d] \cap Below[e] = {}  BY <2>1, <2>2
      <4> QED  BY <4>1, <2>1 DEF WalkInv
    <3> QED  BY <3>1, <2>2, <2>3, <2>5 DEF WalkInv
  <2>7. CatalogType'  BY <2>4, <2>5 DEF CatalogType, Passes
  <2>8. RecordsInv' /\ TablesInv'  BY <2>1, <2>4 DEF RecordsInv, TablesInv, Newest
  <2> QED  BY <2>6, <2>7, <2>8
<1>7. CASE CommitRun
  <2>1. /\ pass \in [stage : {"walk"}, root : Roots, files : SUBSET CourseFiles, dirs : SUBSET CourseDirs,
                     view : Tables, seenCourses : SUBSET CourseNames, seen : SUBSET CourseFiles]
        /\ pass # NoPass
    BY <1>7, WalkShape DEF CommitRun
  <2>2. /\ Tallied(pass.view.courses, pass.view.courseOf, pass.seenCourses, pass.seen)
        /\ PathsDiffer(pass.view.courses)
    BY <1>7 DEF CommitRun, WalkInv
  <2> DEFINE entries == pass.view.courses
  <2>3. entries \in [CourseNames -> CourseRow \cup {NoCourse}]
        /\ pass.view.courseOf \in [CourseFiles -> CourseNames \cup {NoCourse}]
    BY <2>1 DEF Tables
  <2>4. \A n \in CourseNames : entries[n] # NoCourse =>
          [entries[n] EXCEPT !.files = {}] \in CourseRow /\ [entries[n] EXCEPT !.files = {}].path = entries[n].path
          /\ [entries[n] EXCEPT !.files = {}].files = {} /\ [entries[n] EXCEPT !.files = {}] # NoCourse
    BY <2>3 DEF CourseRow
  <2>5. /\ catalog' = [courses |-> ResetTotals(entries), courseOf |-> pass.view.courseOf, present |-> pass.seen]
        /\ Finish("completed", pass.seen) /\ pass' = NoPass /\ coursesRoot' = coursesRoot
    BY <1>7 DEF CommitRun
  <2>6. PICK after \in [CourseNames -> CourseRow \cup {NoCourse}] :
          /\ after = ResetTotals(entries)
          /\ \A n \in CourseNames : /\ after[n] = NoCourse <=> entries[n] = NoCourse
                                    /\ entries[n] # NoCourse => after[n].path = entries[n].path
                                    /\ n \in pass.seenCourses => after[n] = entries[n]
                                    /\ entries[n] # NoCourse /\ n \notin pass.seenCourses => after[n].files = {}
    <3> DEFINE after == ResetTotals(entries)
    <3>1. after \in [CourseNames -> CourseRow \cup {NoCourse}]
      BY <2>3, <2>4 DEF ResetTotals
    <3>2. \A n \in CourseNames : /\ after[n] = NoCourse <=> entries[n] = NoCourse
                                 /\ entries[n] # NoCourse => after[n].path = entries[n].path
                                 /\ n \in pass.seenCourses => after[n] = entries[n]
                                 /\ entries[n] # NoCourse /\ n \notin pass.seenCourses => after[n].files = {}
      BY <2>3, <2>4 DEF ResetTotals
    <3> QED  BY <3>1, <3>2
  <2>7. TablesInv'
    <3>1. Tallied(after, pass.view.courseOf, CourseNames, pass.seen)
      <4>1. \A f \in pass.seen : pass.view.courseOf[f] \in pass.seenCourses /\ pass.seenCourses \subseteq CourseNames
        BY <2>1, <2>2 DEF Tallied
      <4>2. ASSUME NEW n \in CourseNames, after[n] # NoCourse, n \in pass.seenCourses
            PROVE  /\ after[n].files = {f \in pass.seen : pass.view.courseOf[f] = n}
                   /\ after[n].files \subseteq Place(n, after[n].path)
        <5>1. after[n] = entries[n]  BY <4>2, <2>6
        <5> QED  BY <5>1, <4>2, <2>2 DEF Tallied
      <4>3. ASSUME NEW n \in CourseNames, after[n] # NoCourse, n \notin pass.seenCourses
            PROVE  /\ after[n].files = {f \in pass.seen : pass.view.courseOf[f] = n}
                   /\ after[n].files \subseteq Place(n, after[n].path)
        <5>1. after[n].files = {}  BY <4>3, <2>6
        <5> QED  BY <5>1, <4>1, <4>3
      <4> QED  BY <4>1, <4>2, <4>3 DEF Tallied
    <3>2. PathsDiffer(after)
      <4>1. \A n \in CourseNames : /\ after[n] = NoCourse <=> entries[n] = NoCourse
                                   /\ entries[n] # NoCourse => after[n].path = entries[n].path
        BY <2>6
      <4> HIDE DEF entries
      <4>2. PathsDiffer(entries)  BY <2>2 DEF entries
      <4> QED  BY <4>1, <4>2 DEF PathsDiffer
    <3> QED  BY <3>1, <3>2, <2>5, <2>6 DEF TablesInv
  <2>8. records' \in Seq(Records) /\ RecordsInv'
    BY <2>1, <2>5, FinishRecords
  <2>9. CatalogType'
    <3>1. catalog' \in Tables  BY <2>1, <2>3, <2>5, <2>6 DEF Tables
    <3> QED  BY <3>1, <2>5, <2>8 DEF CatalogType, Passes
  <2>10. WalkInv'  BY <2>5 DEF WalkInv, NoPass
  <2> QED  BY <2>7, <2>8, <2>9, <2>10
<1>8. CASE FailRun
  <2>1. /\ Finish("failed", IF pass.stage = "walk" THEN pass.seen ELSE {}) /\ pass # NoPass
        /\ pass' = NoPass /\ UNCHANGED <<coursesRoot, catalog>>
    BY <1>8 DEF FailRun
  <2>2. (IF pass.stage = "walk" THEN pass.seen ELSE {}) \in SUBSET CourseFiles
    BY WalkShape
  <2>3. records' \in Seq(Records) /\ RecordsInv'
    BY <2>1, <2>2, FinishRecords
  <2> QED  BY <2>1, <2>3 DEF CatalogType, Passes, TablesInv, WalkInv, NoPass
<1>9. CASE RunKilled
  BY <1>9 DEF RunKilled, CatalogType, Passes, TablesInv, WalkInv, RecordsInv, Newest, NoPass
<1> QED
  <2>1. ASSUME NEW r \in Roots, Reconfigure(r) PROVE CatalogInv'  BY <2>1, <1>2 DEF Reconfigure
  <2>2. ASSUME NEW x, Appears(x) \/ Vanishes(x) PROVE CatalogInv'
    BY <2>2, <1>2 DEF Appears, Vanishes, CatalogType
  <2> QED  BY <2>1, <2>2, <1>1, <1>3, <1>4, <1>5, <1>6, <1>7, <1>8, <1>9 DEF CatalogNext

\* The inductive invariant of the courses table, for any directories and any failures.
THEOREM CatalogInvariant == CatalogSpec => []CatalogInv
BY CatalogInitInv, CatalogInvStep, PTL DEF CatalogSpec

\* What the catalogue says after any history of inventories is what its rows add up
\* to (upsert_course, reset_course_totals, inventory_summary).
THEOREM CatalogHonest == CatalogSpec => []CatalogIsHonest
<1>1. CatalogInv => CatalogIsHonest
  <2> SUFFICES ASSUME CatalogInv PROVE CatalogIsHonest  OBVIOUS
  <2>1. /\ catalog.present \subseteq CourseFiles /\ NoCourse \notin CourseNames
        /\ \A f \in catalog.present : catalog.courseOf[f] \in CourseNames
    BY CatalogAssumption DEF CatalogInv, CatalogType, Tables, TablesInv, Tallied
  <2>2. Summary.files \ Summary.files_missing = catalog.present
    BY <2>1 DEF Summary
  <2>3. \A n \in CourseNames : Holds(n) = Place(n, catalog.courses[n].path)
    BY DEF Holds, Place, Summary
  <2>4. Summary.by_course = catalog.courses /\ Summary.latest_inventory_run_id = Len(records)
    BY DEF Summary
  <2> QED  BY <2>2, <2>3, <2>4 DEF CatalogIsHonest, CatalogInv, TablesInv, Tallied, PathsDiffer, RecordsInv, Newest
<1> QED  BY <1>1, CatalogInvariant, PTL
=============================================================================
