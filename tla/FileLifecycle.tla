--------------------------- MODULE FileLifecycle ---------------------------
(***************************************************************************)
(* The life of a course file in SQLite: inventory (inventory/core.py),     *)
(* extraction and data summaries (extraction/), and the keyword index      *)
(* (indexing/keyword.py).  Each is a command of its own process; they meet *)
(* in one database, and the user edits files whenever he likes.            *)
(*                                                                         *)
(* An inventory writes everything in one transaction, so it holds SQLite's *)
(* write lock from its first upsert to its commit; extraction writes one   *)
(* transaction per file.  A "stamp" is the pair (modified_at, size_bytes): *)
(* every edit gives the file a stamp it never had.                         *)
(***************************************************************************)
EXTENDS Naturals, FiniteSets

CONSTANTS
  Files,      \* paths below the Courses root
  Category,   \* classify_file: "text", "data" or "other" (metadata only)
  Contents,   \* file contents, identified with their sha256
  NoText,     \* contents no extractor gets text from
  Gone, None, \* no file; no value
  MaxEdits,   \* bound: edits of files
  MaxFaults   \* bound: I/O errors

ASSUME CorpusAssumption ==
  /\ Category \in [Files -> {"text", "data", "other"}]
  /\ NoText \subseteq Contents /\ Gone \notin Contents
  /\ None \notin Files \cup Contents \cup Nat /\ None # Gone
  /\ MaxEdits \in Nat /\ MaxFaults \in Nat

VARIABLES
  disk,    \* content and stamp of each file
  edits,   \* edits so far
  faults,  \* I/O errors so far
  rows,    \* table files
  text,    \* table chunks (and data_summaries): the content a file's chunks are of
  fts,     \* table chunk_fts: the content a file's entries are of
  walk,    \* the inventory run: "on", files to visit, upserted rows, the file being hashed
  run,     \* the extraction run: files left, the file being extracted and what was read
  raced,   \* ghost: files whose row and text an edit, an I/O error or an overlap set apart
  hashed,  \* ghost: files hashed by this inventory and not edited since
  listed   \* ghost: the files the last committed inventory visited

corpus  == <<disk, edits>>
indexes == <<text, fts>>
vars == <<corpus, faults, rows, indexes, walk, run, raced, hashed, listed>>

-----------------------------------------------------------------------------
NoRow == [stamp |-> None, hash |-> None, status |-> "none", reason |-> "none"]
Missing == "missing"
Transient == {"metadata", "hashing"} \* TRANSIENT_INVENTORY_FAILURE_PREFIXES

Idle == [on |-> FALSE, todo |-> {}, visited |-> {}, staged |-> [f \in Files |-> NoRow],
         hashing |-> None]
NoRun == [queue |-> {}, file |-> None, read |-> None]

Existing == {f \in Files : disk[f].content # Gone}
Pending(c) == {f \in Files : rows[f].status = "pending" /\ Category[f] = c}
InFlight == run.queue \cup (IF run.file = None THEN {} ELSE {run.file})
Locked == walk.on

Init ==
  /\ disk \in [Files -> [content : Contents \cup {Gone}, stamp : {0}]]
  /\ edits = 0 /\ faults = 0
  /\ rows = [f \in Files |-> NoRow]
  /\ text = [f \in Files |-> None] /\ fts = [f \in Files |-> None]
  /\ walk = Idle /\ run = NoRun
  /\ raced = {} /\ hashed = {} /\ listed = {}

Fault == faults < MaxFaults /\ faults' = faults + 1

\* The user writes, touches, removes or restores a file.
Edit(f, c) ==
  /\ edits < MaxEdits
  /\ disk[f].content # Gone \/ c # Gone
  /\ edits' = edits + 1
  /\ disk' = [disk EXCEPT ![f] = [content |-> c, stamp |-> edits + 1]]
  /\ raced' = IF walk.on \/ rows[f].status = "pending" THEN raced \cup {f} ELSE raced
  /\ hashed' = hashed \ {f}
  /\ UNCHANGED <<faults, rows, indexes, walk, run, listed>>

-----------------------------------------------------------------------------
\* The inventory run.  A directory that cannot be listed hides its files.
BeginInventory(hidden) ==
  /\ ~ walk.on
  /\ IF hidden = {} THEN faults' = faults ELSE Fault
  /\ walk' = [Idle EXCEPT !.on = TRUE, !.todo = Existing \ hidden, !.staged = rows]
  /\ hashed' = {}
  /\ UNCHANGED <<corpus, rows, indexes, run, raced, listed>>

Classified(f) == IF Category[f] = "other" THEN [status |-> "metadata_only", reason |-> "class"]
                                          ELSE [status |-> "pending", reason |-> "none"]

\* Mutant: a recorded hash is never computed again.
NeedsHashOnce(old, stamp) == old = NoRow \/ old.hash = None

NeedsHash(old, stamp) == old = NoRow \/ old.stamp # stamp \/ old.hash = None

\* Mutant: a failure of an earlier inventory is kept with the rest.
NextStatusKeepsFailures(f, old, stamp, hash) ==
  LET unchanged == old.stamp = stamp \/ (old.hash # None /\ old.hash = hash)
      kept == /\ old # NoRow /\ Category[f] # "other" /\ unchanged
              /\ ~ (old.status = "skipped" /\ old.reason = Missing)
  IN IF kept THEN [status |-> old.status, reason |-> old.reason] ELSE Classified(f)

\* The status the inventory gives to a file it could stat and hash.
NextStatus(f, old, stamp, hash) ==
  LET unchanged == old.stamp = stamp \/ (old.hash # None /\ old.hash = hash)
      kept == /\ old # NoRow /\ Category[f] # "other"
              /\ ~ (old.status = "failed" /\ old.reason \in Transient)
              /\ unchanged
              /\ ~ (old.status = "skipped" /\ old.reason = Missing)
  IN IF kept THEN [status |-> old.status, reason |-> old.reason] ELSE Classified(f)

Upsert(f, row) ==
  walk' = [on |-> TRUE, todo |-> walk.todo \ {f}, visited |-> walk.visited \cup {f},
           staged |-> [walk.staged EXCEPT ![f] = row], hashing |-> None]
Row(stamp, hash, s) == [stamp |-> stamp, hash |-> hash, status |-> s.status, reason |-> s.reason]

\* path.stat() raised.
StatFails(f) ==
  /\ walk.on /\ walk.hashing = None /\ f \in walk.todo
  /\ IF disk[f].content = Gone THEN faults' = faults ELSE Fault
  /\ Upsert(f, Row(None, None, [status |-> "failed", reason |-> "metadata"]))
  /\ UNCHANGED <<corpus, rows, indexes, run, raced, hashed, listed>>

\* The metadata is as recorded: the file is not read.
StatUnchanged(f) ==
  /\ walk.on /\ walk.hashing = None /\ f \in walk.todo /\ f \in Existing
  /\ LET old == walk.staged[f] IN
       /\ ~ NeedsHash(old, disk[f].stamp)
       /\ Upsert(f, Row(disk[f].stamp, old.hash, NextStatus(f, old, disk[f].stamp, old.hash)))
  /\ UNCHANGED <<corpus, faults, rows, indexes, run, raced, hashed, listed>>

\* The metadata differs: remember it and open the file.
StatChanged(f) ==
  /\ walk.on /\ walk.hashing = None /\ f \in walk.todo /\ f \in Existing
  /\ NeedsHash(walk.staged[f], disk[f].stamp)
  /\ walk' = [walk EXCEPT !.hashing = [file |-> f, stamp |-> disk[f].stamp]]
  /\ UNCHANGED <<corpus, faults, rows, indexes, run, raced, hashed, listed>>

HashOk ==
  /\ walk.hashing # None
  /\ LET f == walk.hashing.file stamp == walk.hashing.stamp
         old == walk.staged[f] hash == disk[f].content
     IN /\ hash # Gone
        /\ Upsert(f, Row(stamp, hash, NextStatus(f, old, stamp, hash)))
        /\ hashed' = hashed \cup {f}
  /\ UNCHANGED <<corpus, faults, rows, indexes, run, raced, listed>>

\* sha256_file raised: the new metadata is stored beside the old hash.
HashFails ==
  /\ walk.hashing # None
  /\ LET f == walk.hashing.file IN
       /\ IF disk[f].content = Gone THEN faults' = faults ELSE Fault
       /\ Upsert(f, Row(walk.hashing.stamp, walk.staged[f].hash,
                        [status |-> "failed", reason |-> "hashing"]))
       /\ raced' = raced \cup {f}
  /\ UNCHANGED <<corpus, rows, indexes, run, hashed, listed>>

\* Mutant: files that were not visited keep their status.
MarkNothing(f) == walk.staged[f]

\* mark_missing_files: last_seen_at is not this run's.
MarkMissing(f) == IF f \in walk.visited \/ walk.staged[f] = NoRow THEN walk.staged[f]
                  ELSE [walk.staged[f] EXCEPT !.status = "skipped", !.reason = Missing]

CommitInventory ==
  /\ walk.on /\ walk.todo = {} /\ walk.hashing = None
  /\ rows' = [f \in Files |-> MarkMissing(f)]
  /\ raced' = (raced \ {f \in hashed \ InFlight : rows'[f].status = "pending"})
              \cup {f \in InFlight : rows'[f] # rows[f]}
  /\ listed' = walk.visited
  /\ walk' = Idle /\ hashed' = {}
  /\ UNCHANGED <<corpus, faults, indexes, run>>

\* Any exception, or the end of the process: the transaction is rolled back.
AbortInventory ==
  /\ walk.on
  /\ walk' = Idle /\ hashed' = {}
  /\ UNCHANGED <<corpus, faults, rows, indexes, run, raced, listed>>

-----------------------------------------------------------------------------
\* A run loads the pending files of its categories once; an option may narrow
\* them to one category or one file.
Load(c, chosen) ==
  /\ run = NoRun /\ ~ Locked
  /\ chosen \subseteq Pending(c) /\ chosen # {}
  /\ run' = [NoRun EXCEPT !.queue = chosen]
  /\ UNCHANGED <<corpus, faults, rows, indexes, walk, raced, hashed, listed>>

BeginExtraction(chosen) == Load("text", chosen)
BeginSummaries(chosen)  == Load("data", chosen)

\* extract_file: the file is read now, whatever its row says by now.
Extract(f) ==
  /\ run.file = None /\ f \in run.queue
  /\ run' = [queue |-> run.queue \ {f}, file |-> f,
             read |-> IF disk[f].content \in Contents \ NoText THEN disk[f].content ELSE None]
  /\ UNCHANGED <<corpus, faults, rows, indexes, walk, raced, hashed, listed>>

\* The file cannot be read just now.
ExtractRaises(f) ==
  /\ run.file = None /\ f \in run.queue
  /\ Fault
  /\ run' = [queue |-> run.queue \ {f}, file |-> f, read |-> None]
  /\ UNCHANGED <<corpus, rows, indexes, walk, raced, hashed, listed>>

\* _delete_existing_chunks removes the chunks and their index entries.
ReplaceChunks(f, c) == text' = [text EXCEPT ![f] = c] /\ fts' = [fts EXCEPT ![f] = None]

Outcome(read) == IF read = None THEN [status |-> "failed", reason |-> "extraction"]
                                ELSE [status |-> "indexed", reason |-> "none"]

\* One transaction per file; the row is addressed by its id alone.
Persist ==
  /\ run.file # None /\ ~ Locked
  /\ ReplaceChunks(run.file, run.read)
  /\ rows' = [rows EXCEPT ![run.file] = Row(@.stamp, @.hash, Outcome(run.read))]
  /\ run' = [run EXCEPT !.file = None, !.read = None]
  /\ UNCHANGED <<corpus, faults, walk, raced, hashed, listed>>

\* A storage error, such as the lock of a long inventory, or the end of the
\* process: the files left stay pending.
AbortExtraction ==
  /\ run # NoRun
  /\ run' = NoRun
  /\ UNCHANGED <<corpus, faults, rows, indexes, walk, raced, hashed, listed>>

\* sync_keyword_index: one transaction over the chunks of indexed files.
SyncKeyword ==
  /\ ~ Locked
  /\ fts' = [f \in Files |-> IF rows[f].status = "indexed" THEN text[f] ELSE None]
  /\ UNCHANGED <<corpus, faults, rows, text, walk, run, raced, hashed, listed>>

Next ==
  \/ \E f \in Files, c \in Contents \cup {Gone} : Edit(f, c)
  \/ \E hidden \in SUBSET Existing : BeginInventory(hidden)
  \/ \E f \in Files : StatFails(f) \/ StatUnchanged(f) \/ StatChanged(f)
  \/ HashOk \/ HashFails \/ CommitInventory \/ AbortInventory
  \/ \E chosen \in SUBSET Files : BeginExtraction(chosen) \/ BeginSummaries(chosen)
  \/ \E f \in Files : Extract(f) \/ ExtractRaises(f)
  \/ Persist \/ AbortExtraction \/ SyncKeyword

Spec == Init /\ [][Next]_vars

-----------------------------------------------------------------------------
Stamps == 0 .. edits
RowType == [stamp : Stamps \cup {None}, hash : Contents \cup {None},
            status : {"none", "pending", "indexed", "failed", "skipped", "metadata_only"},
            reason : {"none", "class", "metadata", "hashing", "extraction", Missing}]

WalkType == [on : BOOLEAN, todo : SUBSET Files, visited : SUBSET Files, staged : [Files -> RowType],
             hashing : [file : Files, stamp : Stamps] \cup {None}]
RunType == [queue : SUBSET Files, file : Files \cup {None}, read : Contents \cup {None}]

TypeOK ==
  /\ disk \in [Files -> [content : Contents \cup {Gone}, stamp : Stamps]]
  /\ edits \in 0 .. MaxEdits /\ faults \in 0 .. MaxFaults
  /\ rows \in [Files -> RowType]
  /\ text \in [Files -> (Contents \ NoText) \cup {None}]
  /\ fts \in [Files -> (Contents \ NoText) \cup {None}]
  /\ walk \in WalkType /\ walk.todo \cap walk.visited = {}
  /\ walk.hashing # None => walk.on /\ walk.hashing.file \in walk.todo
  /\ run \in RunType /\ run.file \notin run.queue /\ run.read \notin NoText
  /\ raced \subseteq Files /\ hashed \subseteq Files /\ listed \subseteq Files

\* A searchable file has chunks, whatever inventories, extractions and aborts
\* happened since they were written.
IndexedHasText == \A f \in Files : rows[f].status = "indexed" => text[f] # None

\* The keyword index never holds the words of a text that has been replaced.
KeywordIsCurrent == \A f \in Files : fts[f] \in {None, text[f]}

\* Once the inventory has recorded the file as it is, a searchable file's text
\* is the text of that file.
Current(f) == rows[f].status = "indexed" /\ rows[f].stamp = disk[f].stamp
                => text[f] = disk[f].content

\* Files that no edit, no I/O error and no overlap of commands caught between
\* their hash and their text are never stale, however long the history.
StaleOnlyIfRaced == \A f \in Files \ raced : Current(f)

\* A file that the last inventory did not see is not searchable, unless an
\* extraction that was running over that inventory brought it back.
MissingIsHidden == \A f \in Files \ raced : rows[f].status = "indexed" => f \in listed

(* The inductive invariant.                                                *)
\* What a row says of a file nothing interfered with: a file waiting for
\* extraction has not changed since it was hashed, the chunks of a searchable one
\* are of the hash beside them, and a recorded stamp belongs to the recorded hash.
Faithful(f, row) ==
  /\ row.status = "pending" => row.hash = disk[f].content
  /\ row.status = "indexed" => row.hash = text[f]
  /\ row.stamp = disk[f].stamp => row.hash = disk[f].content

RowsFaithful == \A f \in Files \ raced : Faithful(f, rows[f])
RowsListed   == \A f \in Files \ raced : rows[f].status \in {"pending", "indexed"} => f \in listed

\* An upserted row is faithful unless the file was edited since, and one that
\* was hashed afresh whatever happened before.
StagedFaithful ==
  walk.on =>
    /\ \A f \in Files \ walk.visited : walk.staged[f] = rows[f]
    /\ \A f \in walk.visited \ raced : Faithful(f, walk.staged[f])
    /\ \A f \in hashed : /\ f \in walk.visited
                         /\ walk.staged[f].status = "pending" => Faithful(f, walk.staged[f])
    /\ walk.hashing # None => NeedsHash(walk.staged[walk.hashing.file], walk.hashing.stamp)

\* No chunks, no searchable row, in the table or in the transaction.
IndexedHaveText ==
  \A f \in Files : /\ rows[f].status = "indexed" => text[f] # None
                   /\ walk.on /\ walk.staged[f].status = "indexed" => text[f] # None

\* The row of a file in extraction is as it was loaded.
InFlightPending ==
  \A f \in InFlight \ raced : /\ rows[f].status = "pending"
                              /\ f = run.file /\ run.read # None => run.read = rows[f].hash

IInv == /\ TypeOK /\ RowsFaithful /\ RowsListed /\ StagedFaithful /\ IndexedHaveText
        /\ InFlightPending /\ KeywordIsCurrent

\* A file that fails for a reason of the moment is tried again: an inventory
\* that could read the file never leaves it failed by an earlier inventory.
TransientFailuresHeal ==
  [][~ walk'.on /\ walk.on /\ rows' # rows =>
       \A f \in hashed : rows'[f].status = "failed" => rows'[f].reason = "extraction"]_vars

=============================================================================
