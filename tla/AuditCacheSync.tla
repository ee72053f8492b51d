--------------------------- MODULE AuditCacheSync ---------------------------
(***************************************************************************)
(* The audit dashboard's SQLite cache (app/audit_cache.py) and the paged   *)
(* readers it synchronizes from (app/ask_audit.py).  The ledger keeps      *)
(* being written while pages are read: a page is one consistent query, the *)
(* pages of one sync are not a snapshot.  A sync is one SQLite transaction,*)
(* so its upserts stay in "staged" until Commit.                           *)
(*                                                                         *)
(* Firestore stamps updated_at with its commit time: a write after a query *)
(* is stamped later than everything that query could see, and writes with  *)
(* no query between them may share a stamp.                                *)
(***************************************************************************)
EXTENDS Naturals, FiniteSets

CONSTANTS
  R,         \* documents are 1 .. R, in __name__ order
  PageSize,  \* page_size
  MaxWrites, \* bound: writes to one document
  MaxDeletes, \* bound: documents that are deleted
  MaxClock   \* bound: no write once the clock is here

ASSUME BoundsAssumption == R \in Nat /\ PageSize \in Nat \ {0} /\ MaxDeletes \in Nat
                           /\ MaxWrites \in Nat \ {0} /\ MaxClock \in Nat \ {0}

Records == 1 .. R

VARIABLES
  clock,        \* Firestore commit time
  remote,       \* the ledger
  deleted,      \* documents an operator deleted
  cached,       \* audit_records, as committed
  bootstrapped, \* bootstrap_complete
  cursor,       \* firestore_cursor_updated_at
  lastError,    \* last_error # NULL
  phase,        \* "idle", "all", "updated", "allRead", "updatedRead"
  rebuild,      \* the running sync is a rebuild
  staged,       \* audit_records inside the transaction
  latest,       \* largest updated_at upserted so far
  position,     \* the document after which the next page starts
  deletedFirst, \* ghost: documents deleted before this sync started
  racing,       \* ghost: documents written while this bootstrap was reading
  raced         \* ghost: that set, of the last bootstrap that committed

ledger == <<clock, remote, deleted>>
cache  == <<cached, bootstrapped, cursor, lastError>>
sync   == <<phase, rebuild, staged, latest, position>>
ghost  == <<deletedFirst, racing, raced>>
cacheVars == <<ledger, cache, sync, ghost>>

-----------------------------------------------------------------------------
Epoch  == 0
NoDocument == [version |-> 0, at |-> Epoch, stamped |-> FALSE]
Legacy == [version |-> 1, at |-> Epoch, stamped |-> FALSE] \* schema v1: no updated_at
Nowhere == <<Epoch, 0>>

Present(docs) == {r \in Records : docs[r].version > 0}

CacheInit ==
  /\ clock = 1
  /\ remote \in [Records -> {NoDocument, Legacy}]
  /\ deleted = {} /\ deletedFirst = {} /\ racing = {} /\ raced = {}
  /\ cached = [r \in Records |-> NoDocument]
  /\ bootstrapped = FALSE /\ cursor = Epoch /\ lastError = FALSE
  /\ phase = "idle" /\ rebuild = FALSE
  /\ staged = [r \in Records |-> NoDocument] /\ latest = Epoch /\ position = Nowhere

\* start and update of the ask ledger: SERVER_TIMESTAMP on every write.
Write(r) ==
  /\ clock < MaxClock
  /\ r \notin deleted /\ remote[r].version < MaxWrites
  /\ remote' = [remote EXCEPT ![r] = [version |-> @.version + 1, at |-> clock, stamped |-> TRUE]]
  /\ racing' = IF phase = "all" THEN racing \cup {r} ELSE racing
  /\ raced' = raced \ {r}
  /\ UNCHANGED <<clock, deleted, cache, sync, deletedFirst>>

\* An operator removes a document; its random id is never used again.
Delete(r) ==
  /\ Cardinality(deleted) < MaxDeletes
  /\ remote[r].version > 0
  /\ remote' = [remote EXCEPT ![r] = NoDocument]
  /\ deleted' = deleted \cup {r}
  /\ UNCHANGED <<clock, cache, sync, ghost>>

Tick ==
  /\ clock < MaxClock
  /\ clock' = clock + 1
  /\ UNCHANGED <<remote, deleted, cache, sync, ghost>>

\* Mutant: --rebuild-cache does not empty the table.
BeginAllKeeps(again) ==
  /\ phase = "idle"
  /\ again \/ ~ bootstrapped
  /\ phase' = "all" /\ rebuild' = again
  /\ staged' = cached
  /\ latest' = Epoch /\ position' = Nowhere
  /\ deletedFirst' = deleted /\ racing' = {}
  /\ UNCHANGED <<ledger, cache, raced>>

\* sync -> _bootstrap
BeginAll(again) ==
  /\ phase = "idle"
  /\ again \/ ~ bootstrapped
  /\ phase' = "all" /\ rebuild' = again
  /\ staged' = IF again THEN [r \in Records |-> NoDocument] ELSE cached
  /\ latest' = Epoch /\ position' = Nowhere
  /\ deletedFirst' = deleted /\ racing' = {}
  /\ UNCHANGED <<ledger, cache, raced>>

\* sync -> _incremental: where updated_at >= cursor, so the position is before
\* every document stamped with the cursor itself.
BeginUpdated ==
  /\ phase = "idle" /\ bootstrapped
  /\ phase' = "updated" /\ rebuild' = FALSE
  /\ staged' = cached
  /\ latest' = cursor /\ position' = <<cursor, 0>>
  /\ deletedFirst' = deleted /\ racing' = {}
  /\ UNCHANGED <<ledger, cache, raced>>

Before(p, q) == p[1] < q[1] \/ (p[1] = q[1] /\ p[2] < q[2])

\* Where a document sorts in each query.
Place(r) == IF phase = "all" THEN <<Epoch, r>> ELSE <<remote[r].at, r>>

\* Mutant: the next page starts after the last timestamp, whatever the name.
MatchesAfterTies ==
  {r \in Present(remote) : /\ Before(position, Place(r))
                           /\ phase = "updated" => /\ remote[r].stamped
                                                   /\ position[2] # 0 => position[1] < remote[r].at}

\* What the query still has after the position, and its first PageSize documents.
Matches == {r \in Present(remote) : /\ Before(position, Place(r))
                                    /\ phase = "updated" => remote[r].stamped}
Page == {r \in Matches : Cardinality({q \in Matches : Before(Place(q), Place(r))}) < PageSize}

\* The pages are exhausted.
Finished == IF phase = "all" THEN "allRead" ELSE "updatedRead"

\* One page is read and upserted; a short one is the last.
PageRead ==
  /\ phase \in {"all", "updated"}
  /\ staged' = [r \in Records |-> IF r \in Page THEN remote[r] ELSE staged[r]]
  /\ \E m \in {latest} \cup {remote[r].at : r \in Page} :
       m >= latest /\ (\A r \in Page : remote[r].at <= m) /\ latest' = m
  /\ \E p \in {position} \cup {Place(r) : r \in Page} :
       (p = position => Page = {}) /\ (\A r \in Page : ~ Before(p, Place(r))) /\ position' = p
  /\ phase' = IF Cardinality(Page) < PageSize THEN Finished ELSE phase
  /\ clock' = IF clock < MaxClock THEN clock + 1 ELSE clock
  /\ UNCHANGED <<remote, deleted, cache, rebuild, ghost>>

\* The transaction is over; nothing of its working state is kept.
EndSync == /\ phase' = "idle" /\ rebuild' = FALSE
           /\ staged' = [r \in Records |-> NoDocument]
           /\ latest' = Epoch /\ position' = Nowhere
           /\ deletedFirst' = {} /\ racing' = {}

\* The transaction commits the rows together with the cursor.
Commit ==
  /\ phase \in {"allRead", "updatedRead"}
  /\ cached' = staged /\ cursor' = latest
  /\ bootstrapped' = TRUE /\ lastError' = FALSE
  /\ raced' = IF phase = "allRead" THEN racing ELSE raced
  /\ EndSync
  /\ UNCHANGED ledger

\* Any error: rollback, then mark_sync_error.
Fail ==
  /\ phase # "idle"
  /\ lastError' = TRUE
  /\ EndSync
  /\ UNCHANGED <<ledger, cached, bootstrapped, cursor, raced>>

\* The dashboard's process ends; SQLite discards the transaction.
Crash ==
  /\ phase # "idle"
  /\ EndSync
  /\ UNCHANGED <<ledger, cache, raced>>

CacheNext ==
  \/ \E r \in Records : Write(r) \/ Delete(r)
  \/ Tick
  \/ \E again \in BOOLEAN : BeginAll(again)
  \/ BeginUpdated \/ PageRead \/ Commit \/ Fail \/ Crash

CacheSpec == CacheInit /\ [][CacheNext]_cacheVars

-----------------------------------------------------------------------------
\* The next incremental sync reads the document, or the cache has its last write.
Reaches(r) == (remote[r].stamped /\ remote[r].at >= cursor) \/ cached[r] = remote[r]

\* Apart from what was written while a bootstrap was reading, no committed sync
\* ever puts the cursor past a write it did not see.
IncrementalMissesNothing ==
  bootstrapped => \A r \in Records \ (raced \cup deleted) : remote[r].version > 0 => Reaches(r)

\* An ordinary sync never takes a row back to an older write or drops it; a
\* rebuild is exact: what was deleted before it started is not in the cache.
SyncsAreExact ==
  [][\A r \in Records : /\ ~ rebuild => cached[r].version <= cached'[r].version
                        /\ rebuild /\ r \in deletedFirst => cached'[r] = NoDocument]_<<cached, cursor>>
=============================================================================
