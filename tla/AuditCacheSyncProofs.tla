------------------------ MODULE AuditCacheSyncProofs ------------------------
(* Theorems about AuditCacheSync: for any number of documents and any page   *)
(* size, whatever is written, deleted or lost between the pages, no          *)
(* committed synchronization leaves a write behind its cursor.  Then         *)
(* AuditDashboard, the page that lists the cache: its pages add up.          *)
EXTENDS AuditCacheSync, AuditDashboard, FiniteSetTheorems, WellFoundedInduction, TLAPS

Document == [version : Nat, at : Nat, stamped : BOOLEAN]

TypeInv ==
  /\ clock \in Nat \ {0}
  /\ remote \in [Records -> Document]
  /\ cached \in [Records -> Document]
  /\ staged \in [Records -> Document]
  /\ deleted \in SUBSET Records
  /\ cursor \in Nat /\ latest \in Nat
  /\ position \in Nat \X Nat
  /\ bootstrapped \in BOOLEAN
  /\ phase \in {"idle", "all", "updated", "allRead", "updatedRead"}

\* Nothing is stamped later than now.
ClockInv ==
  /\ \A r \in Records : remote[r].at <= clock
  /\ cursor <= clock /\ latest <= clock

\* An incremental query stands at the largest stamp it read, and whatever is
\* written from now on comes after it.
PositionInv ==
  /\ phase = "all" => position[1] = Epoch
  /\ phase \in {"updated", "updatedRead"} =>
       /\ bootstrapped
       /\ position[1] = latest
       /\ clock < MaxClock /\ position[1] = clock => position[2] = 0

\* The document is in the ledger, and its last write was no exception.
Settled(r, exceptions) == r \notin exceptions \cup deleted /\ remote[r].version > 0

\* What the running sync has not staged is still ahead of it.
SyncInv ==
  \A r \in Records :
    /\ phase = "all" /\ Settled(r, racing) =>
         staged[r] = remote[r] \/ Before(position, <<Epoch, r>>)
    /\ phase = "allRead" /\ Settled(r, racing) =>
         staged[r] = remote[r] \/ (remote[r].stamped /\ remote[r].at >= latest)
    /\ phase \in {"updated", "updatedRead"} /\ Settled(r, raced) =>
         staged[r] = remote[r] \/ (remote[r].stamped /\ Before(position, <<remote[r].at, r>>))

\* Neither copy is ahead of the ledger, and a rebuild holds nothing that was
\* gone when it began.
VersionInv ==
  /\ \A r \in deleted : remote[r].version = 0
  /\ \A r \in Records \ deleted : cached[r].version <= remote[r].version
  /\ phase # "idle" => deletedFirst \subseteq deleted
  /\ phase # "idle" /\ ~ rebuild => \A r \in Records : cached[r].version <= staged[r].version
  /\ phase # "idle" => \A r \in Records \ deleted : staged[r].version <= remote[r].version
  /\ phase # "idle" /\ rebuild => \A r \in deletedFirst : staged[r] = NoDocument
  /\ phase = "idle" => ~ rebuild

CacheInv == TypeInv /\ ClockInv /\ PositionInv /\ SyncInv /\ VersionInv /\ IncrementalMissesNothing

-----------------------------------------------------------------------------
(* What one page holds. *)

Ahead(r) == {q \in Matches : Before(Place(q), Place(r))}

LEMMA AheadIsFinite ==
  ASSUME NEW r
  PROVE  /\ IsFiniteSet(Matches) /\ IsFiniteSet(Ahead(r)) /\ IsFiniteSet(Page)
         /\ Cardinality(Ahead(r)) \in Nat /\ Cardinality(Page) \in Nat
<1>1. R \in Int
  BY BoundsAssumption
<1>2. IsFiniteSet(Records)
  BY <1>1, FS_Interval DEF Records
<1>3. Matches \in SUBSET Records /\ Ahead(r) \in SUBSET Matches /\ Page \in SUBSET Matches
  BY DEF Matches, Present, Ahead, Page
<1>4. IsFiniteSet(Matches)
  BY <1>2, <1>3, FS_Subset
<1>5. IsFiniteSet(Ahead(r)) /\ IsFiniteSet(Page)
  BY <1>3, <1>4, FS_Subset
<1>6. QED
  BY <1>4, <1>5, FS_CardinalityType

LEMMA PageMembers == ASSUME NEW r \in Matches PROVE r \in Page <=> Cardinality(Ahead(r)) < PageSize
BY DEF Page, Ahead

\* Two documents have two places, and places are pairs of numbers.
LEMMA PlacesDiffer ==
  ASSUME TypeInv, NEW r \in Records, NEW q \in Records
  PROVE  /\ Place(r) \in Nat \X Nat /\ Place(r)[2] = r
         /\ r = q \/ Before(Place(r), Place(q)) \/ Before(Place(q), Place(r))
         /\ ~ (Before(Place(r), Place(q)) /\ Before(Place(q), Place(r)))
         /\ ~ Before(Place(r), Place(r))
<1>1. ASSUME NEW s \in Records PROVE s \in Nat /\ remote[s].at \in Nat
  BY <1>1, BoundsAssumption DEF TypeInv, Records, Document
<1>2. ASSUME NEW s \in Records PROVE Place(s) \in Nat \X Nat /\ Place(s)[2] = s
  BY <1>1 DEF Place, Epoch
<1>3. QED
  BY <1>1, <1>2 DEF Before

LEMMA BeforeIsTransitive ==
  ASSUME NEW p \in Nat \X Nat, NEW q \in Nat \X Nat, NEW r \in Nat \X Nat,
         Before(p, q), Before(q, r)
  PROVE  Before(p, r)
BY DEF Before

\* What a page leaves comes after everything it holds.
LEMMA PageIsFirst ==
  ASSUME TypeInv, NEW q \in Page, NEW r \in Matches \ Page
  PROVE  Before(Place(q), Place(r))
<1>1. q \in Matches /\ q \in Records /\ r \in Records /\ r # q
  BY DEF Page, Matches, Present
<1>2. SUFFICES ASSUME Before(Place(r), Place(q)) PROVE FALSE
  BY <1>1, PlacesDiffer
<1>3. Ahead(r) \in SUBSET Ahead(q)
  <2>1. SUFFICES ASSUME NEW s \in Ahead(r) PROVE s \in Ahead(q)
    OBVIOUS
  <2>2. s \in Matches /\ s \in Records /\ Before(Place(s), Place(r))
    BY DEF Ahead, Matches, Present
  <2>3. Place(s) \in Nat \X Nat /\ Place(r) \in Nat \X Nat /\ Place(q) \in Nat \X Nat
    BY <1>1, <2>2, PlacesDiffer
  <2>4. Before(Place(s), Place(q))
    BY <1>2, <2>2, <2>3, BeforeIsTransitive
  <2>5. QED
    BY <2>2, <2>4 DEF Ahead
<1>4. Cardinality(Ahead(r)) <= Cardinality(Ahead(q))
  BY <1>3, AheadIsFinite, FS_Subset
<1>5. Cardinality(Ahead(q)) < PageSize /\ ~ (Cardinality(Ahead(r)) < PageSize)
  BY <1>1, PageMembers
<1>6. QED
  BY <1>4, <1>5, AheadIsFinite, BoundsAssumption

\* A page that is not full leaves nothing.
LEMMA ShortPageIsLast ==
  ASSUME TypeInv, Cardinality(Page) < PageSize
  PROVE  Matches \subseteq Page
<1>1. SUFFICES ASSUME Matches \ Page # {} PROVE FALSE
  OBVIOUS
<1> DEFINE Left == {Ahead(r) : r \in Matches \ Page}
<1>2. Left \subseteq FiniteSubsetsOf(Matches) /\ Left # {}
  BY <1>1, AheadIsFinite DEF FiniteSubsetsOf, Ahead
<1>3. PICK A \in Left : \A B \in Left : ~ (<<B, A>> \in StrictSubsetOrdering(Matches))
  <2> HIDE DEF Left
  <2>1. QED
    BY <1>2, FS_StrictSubsetOrderingWellFounded, WFMin
<1>4. PICK r \in Matches \ Page : A = Ahead(r)
  BY <1>3
<1>5. Ahead(r) \in SUBSET Page
  <2>1. SUFFICES ASSUME NEW q \in Ahead(r), q \notin Page PROVE FALSE
    OBVIOUS
  <2>2. q \in Matches /\ q \in Records /\ r \in Records /\ Before(Place(q), Place(r))
    BY DEF Ahead, Matches, Present
  <2>3. Ahead(q) \in SUBSET Ahead(r)
    <3>1. SUFFICES ASSUME NEW s \in Ahead(q) PROVE s \in Ahead(r)
      OBVIOUS
    <3>2. s \in Matches /\ s \in Records /\ Before(Place(s), Place(q))
      BY DEF Ahead, Matches, Present
    <3>3. Place(s) \in Nat \X Nat /\ Place(r) \in Nat \X Nat /\ Place(q) \in Nat \X Nat
      BY <2>2, <3>2, PlacesDiffer
    <3>4. Before(Place(s), Place(r))
      BY <2>2, <3>2, <3>3, BeforeIsTransitive
    <3>5. QED
      BY <3>2, <3>4 DEF Ahead
  <2>4. q \notin Ahead(q)
    BY <2>2, PlacesDiffer DEF Ahead
  <2>5. <<Ahead(q), Ahead(r)>> \in StrictSubsetOrdering(Matches)
    BY <2>1, <2>3, <2>4 DEF StrictSubsetOrdering, Ahead
  <2>6. Ahead(q) \in Left
    BY <2>1, <2>2
  <2>7. QED
    BY <1>3, <1>4, <2>5, <2>6
<1>6. Cardinality(Ahead(r)) <= Cardinality(Page)
  BY <1>5, AheadIsFinite, FS_Subset
<1>7. ~ (Cardinality(Ahead(r)) < PageSize)
  BY PageMembers
<1>8. QED
  BY <1>6, <1>7, AheadIsFinite, BoundsAssumption

-----------------------------------------------------------------------------
(* The inductive invariant. *)

LEMMA InitInv == CacheInit => CacheInv
<1> SUFFICES ASSUME CacheInit PROVE CacheInv
  OBVIOUS
<1>1. /\ NoDocument \in Document /\ NoDocument.version = 0 /\ NoDocument.at = 0
      /\ Legacy \in Document /\ Legacy.at = 0
  BY DEF NoDocument, Legacy, Document, Epoch
<1>2. /\ remote \in [Records -> {NoDocument, Legacy}]
      /\ cached = [r \in Records |-> NoDocument] /\ staged = [r \in Records |-> NoDocument]
      /\ \A r \in Records : remote[r].at = 0
  BY <1>1 DEF CacheInit
<1>3. TypeInv
  <2>1. remote \in [Records -> Document]
    <3>1. \A r \in Records : remote[r] \in Document
      BY <1>1, <1>2
    <3>2. QED
      BY <1>2, <3>1
  <2>2. remote \in [Records -> Document] /\ cached \in [Records -> Document] /\ staged \in [Records -> Document]
    BY <1>1, <1>2, <2>1
  <2>3. position \in Nat \X Nat
    BY DEF CacheInit, Epoch, Nowhere
  <2>4. clock \in Nat \ {0} /\ cursor \in Nat /\ latest \in Nat
    BY DEF CacheInit, Epoch
  <2>5. deleted \in SUBSET Records /\ bootstrapped \in BOOLEAN /\ phase = "idle"
    BY DEF CacheInit
  <2>6. QED
    BY <2>2, <2>3, <2>4, <2>5 DEF TypeInv
<1>4. ClockInv
  BY <1>2 DEF CacheInit, ClockInv, Epoch
<1>5. PositionInv /\ SyncInv /\ IncrementalMissesNothing
  BY DEF CacheInit, PositionInv, SyncInv, IncrementalMissesNothing
<1>6. VersionInv
  <2>1. \A r \in Records : cached[r].version = 0 /\ remote[r].version \in Nat
    BY <1>1, <1>2 DEF Document
  <2>2. QED
    BY <2>1 DEF CacheInit, VersionInv
<1>7. QED
  BY <1>3, <1>4, <1>5, <1>6 DEF CacheInv

\* A new write is stamped after whatever any sync has seen.
LEMMA WriteInv == ASSUME CacheInv, NEW w \in Records, Write(w) PROVE CacheInv'
<1> USE DEF CacheInv
<1>1. /\ clock < MaxClock /\ w \notin deleted
      /\ remote' = [remote EXCEPT ![w] = [version |-> @.version + 1, at |-> clock, stamped |-> TRUE]]
      /\ racing' = IF phase = "all" THEN racing \cup {w} ELSE racing
      /\ raced' = raced \ {w}
      /\ UNCHANGED <<clock, deleted, cached, bootstrapped, cursor>>
      /\ UNCHANGED <<phase, rebuild, staged, latest, position, deletedFirst>>
  BY DEF Write, cache, sync
<1>2. /\ remote'[w] = [version |-> remote[w].version + 1, at |-> clock, stamped |-> TRUE]
      /\ remote'[w] \in Document /\ remote'[w].version = remote[w].version + 1
      /\ remote'[w].at = clock /\ remote'[w].stamped
      /\ remote[w].version \in Nat /\ w \in Nat \ {0}
  BY <1>1, BoundsAssumption DEF TypeInv, Document, Records
<1>3. ASSUME NEW r \in Records, r # w PROVE remote'[r] = remote[r]
  BY <1>1, <1>3 DEF TypeInv
<1>4. TypeInv'
  BY <1>1, <1>2 DEF TypeInv
<1>5. ClockInv'
  BY <1>1, <1>2, <1>3 DEF ClockInv, TypeInv
<1>6. PositionInv'
  BY <1>1 DEF PositionInv
<1>7. SyncInv'
  <2>1. SUFFICES ASSUME NEW r \in Records
        PROVE  (/\ phase = "all" /\ Settled(r, racing) =>
                     staged[r] = remote[r] \/ Before(position, <<Epoch, r>>)
                /\ phase = "allRead" /\ Settled(r, racing) =>
                     staged[r] = remote[r] \/ (remote[r].stamped /\ remote[r].at >= latest)
                /\ phase \in {"updated", "updatedRead"} /\ Settled(r, raced) =>
                     staged[r] = remote[r] \/ (remote[r].stamped /\ Before(position, <<remote[r].at, r>>)))'
    BY DEF SyncInv
  <2>2. CASE r # w
    BY <1>1, <1>3, <2>2 DEF SyncInv, Settled, Before
  <2>3. CASE r = w
    <3>1. phase # "all" \/ r \in racing'
      BY <1>1, <2>3
    <3>2. clock >= latest /\ clock \in Nat /\ latest \in Nat /\ position \in Nat \X Nat
      BY DEF ClockInv, TypeInv
    <3>3. phase \in {"updated", "updatedRead"} => Before(position, <<clock, r>>)
      BY <1>1, <1>2, <2>3, <3>2 DEF PositionInv, Before
    <3>4. QED
      BY <1>1, <1>2, <2>3, <3>1, <3>2, <3>3 DEF Settled, Before
  <2>4. QED
    BY <2>2, <2>3
<1>8. VersionInv'
  <2>1. ASSUME NEW r \in Records
        PROVE  /\ remote[r].version \in Nat /\ cached[r].version \in Nat /\ staged[r].version \in Nat
               /\ remote[r].version <= remote'[r].version
    <3>1. remote[r].version \in Nat /\ cached[r].version \in Nat /\ staged[r].version \in Nat
      BY DEF TypeInv, Document
    <3>2. CASE r = w
      BY <1>2, <3>1, <3>2
    <3>3. CASE r # w
      BY <1>3, <3>1, <3>3
    <3>4. QED
      BY <3>2, <3>3
  <2>2. \A r \in deleted : remote'[r].version = 0
    BY <1>1, <1>3 DEF VersionInv, TypeInv
  <2>3. ASSUME NEW r \in Records \ deleted
        PROVE  /\ cached[r].version <= remote'[r].version
               /\ phase # "idle" => staged[r].version <= remote'[r].version
    <3>1. /\ cached[r].version <= remote[r].version
          /\ phase # "idle" => staged[r].version <= remote[r].version
      BY DEF VersionInv
    <3>2. remote'[r].version \in Nat
      BY <1>4 DEF TypeInv, Document
    <3>3. QED
      BY <2>1, <3>1, <3>2
  <2>4. QED
    BY <1>1, <2>2, <2>3 DEF VersionInv
<1>9. IncrementalMissesNothing'
  BY <1>1, <1>2, <1>3 DEF IncrementalMissesNothing, Reaches, ClockInv, TypeInv
<1>10. QED
  BY <1>4, <1>5, <1>6, <1>7, <1>8, <1>9

LEMMA DeleteInv == ASSUME CacheInv, NEW d \in Records, Delete(d) PROVE CacheInv'
<1> USE DEF CacheInv
<1>1. /\ remote' = [remote EXCEPT ![d] = NoDocument] /\ deleted' = deleted \cup {d}
      /\ UNCHANGED <<clock, cached, bootstrapped, cursor>>
      /\ UNCHANGED <<phase, rebuild, staged, latest, position>>
      /\ UNCHANGED <<deletedFirst, racing, raced>>
  BY DEF Delete, cache, sync, ghost
<1>2. NoDocument \in Document /\ NoDocument.version = 0 /\ NoDocument.at = 0
  BY DEF NoDocument, Document, Epoch
<1>3. remote'[d] = NoDocument /\ \A r \in Records \ {d} : remote'[r] = remote[r]
  BY <1>1 DEF TypeInv
<1>4. TypeInv'
  BY <1>1, <1>2 DEF TypeInv
<1>5. ClockInv'
  BY <1>1, <1>2, <1>3 DEF ClockInv, TypeInv
<1>6. PositionInv'
  BY <1>1 DEF PositionInv
<1>7. SyncInv'
  BY <1>1, <1>3 DEF SyncInv, Settled, Before
<1>8. VersionInv'
  BY <1>1, <1>2, <1>3 DEF VersionInv, TypeInv
<1>9. IncrementalMissesNothing'
  BY <1>1, <1>3 DEF IncrementalMissesNothing, Reaches
<1>10. QED
  BY <1>4, <1>5, <1>6, <1>7, <1>8, <1>9

LEMMA TickInv == ASSUME CacheInv, Tick PROVE CacheInv'
<1> USE DEF CacheInv
<1>1. /\ clock' = clock + 1 /\ clock \in Nat
      /\ UNCHANGED <<remote, deleted, cached, bootstrapped, cursor>>
      /\ UNCHANGED <<phase, rebuild, staged, latest, position>>
      /\ UNCHANGED <<deletedFirst, racing, raced>>
  BY DEF Tick, cache, sync, ghost, TypeInv
<1>2. TypeInv'
  BY <1>1 DEF TypeInv
<1>3. ClockInv'
  BY <1>1 DEF ClockInv, TypeInv, Document
<1>4. PositionInv'
  BY <1>1 DEF PositionInv, ClockInv, TypeInv
<1>5. SyncInv' /\ VersionInv' /\ IncrementalMissesNothing'
  BY <1>1 DEF SyncInv, Settled, Before, VersionInv, IncrementalMissesNothing, Reaches
<1>6. QED
  BY <1>2, <1>3, <1>4, <1>5

\* A query starts before every document it is for.
LEMMA BeginAllInv == ASSUME CacheInv, NEW again \in BOOLEAN, BeginAll(again) PROVE CacheInv'
<1> USE DEF CacheInv
<1>1. /\ phase = "idle" /\ phase' = "all" /\ rebuild' = again
      /\ staged' = IF again THEN [r \in Records |-> NoDocument] ELSE cached
      /\ latest' = 0 /\ position' = <<0, 0>>
      /\ deletedFirst' = deleted
      /\ UNCHANGED <<clock, remote, deleted, cached, bootstrapped, cursor, raced>>
  BY DEF BeginAll, ledger, cache, Epoch, Nowhere
<1>2. NoDocument \in Document /\ NoDocument.version = 0
  BY DEF NoDocument, Document, Epoch
<1>3. TypeInv'
  BY <1>1, <1>2 DEF TypeInv
<1>4. ClockInv' /\ PositionInv'
  BY <1>1 DEF ClockInv, PositionInv, Epoch, TypeInv
<1>5. SyncInv'
  BY <1>1, BoundsAssumption DEF SyncInv, Before, Epoch, Records
<1>6. VersionInv'
  <2>1. ASSUME NEW r \in Records PROVE remote[r].version \in Nat /\ cached[r].version \in Nat
    BY DEF TypeInv, Document
  <2>2. \A r \in Records : staged'[r] = IF again THEN NoDocument ELSE cached[r]
    BY <1>1
  <2>3. \A r \in Records \ deleted : staged'[r].version <= remote[r].version
    BY <1>2, <2>1, <2>2 DEF VersionInv
  <2>4. deleted \subseteq Records
    BY DEF TypeInv
  <2>5. QED
    BY <1>1, <2>1, <2>2, <2>3, <2>4 DEF VersionInv
<1>7. IncrementalMissesNothing'
  BY <1>1 DEF IncrementalMissesNothing, Reaches
<1>8. QED
  BY <1>3, <1>4, <1>5, <1>6, <1>7

LEMMA BeginUpdatedInv == ASSUME CacheInv, BeginUpdated PROVE CacheInv'
<1> USE DEF CacheInv
<1>1. /\ phase = "idle" /\ bootstrapped /\ phase' = "updated" /\ rebuild' = FALSE
      /\ staged' = cached /\ latest' = cursor /\ position' = <<cursor, 0>>
      /\ deletedFirst' = deleted
      /\ UNCHANGED <<clock, remote, deleted, cached, bootstrapped, cursor, raced>>
  BY DEF BeginUpdated, ledger, cache
<1>2. TypeInv'
  BY <1>1 DEF TypeInv
<1>3. ClockInv' /\ PositionInv'
  BY <1>1 DEF ClockInv, PositionInv, TypeInv
<1>4. SyncInv'
  <2>1. SUFFICES ASSUME NEW r \in Records, Settled(r, raced)
        PROVE  cached[r] = remote[r] \/ (remote[r].stamped /\ Before(<<cursor, 0>>, <<remote[r].at, r>>))
    BY <1>1 DEF SyncInv, Settled, Before
  <2>2. Reaches(r)
    BY <1>1, <2>1 DEF IncrementalMissesNothing, Settled
  <2>3. r \in Nat \ {0} /\ cursor \in Nat /\ remote[r].at \in Nat
    BY BoundsAssumption DEF Records, TypeInv, Document
  <2>4. QED
    BY <2>2, <2>3 DEF Reaches, Before
<1>5. VersionInv'
  <2>1. \A r \in Records : cached[r].version \in Nat
    BY DEF TypeInv, Document
  <2>2. QED
    BY <1>1, <2>1 DEF VersionInv
<1>6. IncrementalMissesNothing'
  BY <1>1 DEF IncrementalMissesNothing, Reaches
<1>7. QED
  BY <1>2, <1>3, <1>4, <1>5, <1>6

\* A page takes what is next, and leaves the query before the rest.
LEMMA PageReadInv == ASSUME CacheInv, PageRead PROVE CacheInv'
<1> USE DEF CacheInv
<1>1. /\ phase \in {"all", "updated"}
      /\ staged' = [r \in Records |-> IF r \in Page THEN remote[r] ELSE staged[r]]
      /\ phase' = IF Cardinality(Page) < PageSize THEN Finished ELSE phase
      /\ clock' = IF clock < MaxClock THEN clock + 1 ELSE clock
      /\ UNCHANGED <<remote, deleted, cached, bootstrapped, cursor, rebuild>>
      /\ UNCHANGED <<deletedFirst, racing, raced>>
  BY DEF PageRead, cache, ghost
<1>2. PICK m \in {latest} \cup {remote[r].at : r \in Page} :
        m >= latest /\ (\A r \in Page : remote[r].at <= m) /\ latest' = m
  BY DEF PageRead
<1>3. PICK p \in {position} \cup {Place(r) : r \in Page} :
        (p = position => Page = {}) /\ (\A r \in Page : ~ Before(p, Place(r))) /\ position' = p
  BY DEF PageRead
<1>4. /\ phase = "all" => phase' \in {"all", "allRead"}
      /\ phase = "updated" => phase' \in {"updated", "updatedRead"}
      /\ phase' = "all" => phase = "all"
      /\ phase' = "allRead" => phase = "all" /\ Cardinality(Page) < PageSize
      /\ phase' \in {"updated", "updatedRead"} => phase = "updated"
  BY <1>1 DEF Finished
<1>5. ASSUME NEW r \in Page
      PROVE  /\ r \in Matches /\ r \in Records /\ remote[r].version > 0
             /\ Place(r) \in Nat \X Nat /\ Before(position, Place(r))
             /\ remote[r] \in Document /\ remote[r].at \in Nat /\ remote[r].at <= clock
             /\ r \in Nat \ {0}
  <2>1. r \in Matches /\ r \in Records /\ remote[r].version > 0 /\ Before(position, Place(r))
    BY DEF Page, Matches, Present
  <2>2. Place(r) \in Nat \X Nat
    BY <2>1, PlacesDiffer
  <2>3. remote[r] \in Document /\ remote[r].at \in Nat /\ remote[r].at <= clock
    BY <2>1 DEF TypeInv, Document, ClockInv
  <2>4. r \in Nat \ {0}
    BY <2>1, BoundsAssumption DEF Records
  <2>5. QED
    BY <2>1, <2>2, <2>3, <2>4
<1>6. /\ clock \in Nat \ {0} /\ clock' \in Nat \ {0} /\ clock <= clock'
      /\ MaxClock \in Nat /\ (clock' < MaxClock => clock' = clock + 1)
      /\ latest \in Nat /\ position \in Nat \X Nat
  BY <1>1, BoundsAssumption DEF TypeInv
<1>7. latest' \in Nat /\ latest' <= clock
  BY <1>2, <1>5, <1>6 DEF ClockInv
<1>8. position' \in Nat \X Nat
  BY <1>3, <1>5, <1>6
<1>9. TypeInv'
  <2>1. staged' \in [Records -> Document]
    BY <1>1, <1>5 DEF TypeInv
  <2>2. QED
    BY <1>1, <1>4, <1>6, <1>7, <1>8, <2>1 DEF TypeInv
<1>10. ClockInv'
  <2>1. ASSUME NEW r \in Records PROVE remote[r].at <= clock'
    BY <1>6 DEF ClockInv, TypeInv, Document
  <2>2. QED
    BY <1>1, <1>6, <1>7, <2>1 DEF ClockInv, TypeInv
<1>11. PositionInv'
  <2>1. phase = "all" => position'[1] = Epoch
    BY <1>3 DEF PositionInv, Place
  <2>2. ASSUME phase = "updated"
        PROVE  /\ position'[1] = latest'
               /\ clock' < MaxClock /\ position'[1] = clock' => position'[2] = 0
    <3>1. /\ position[1] = latest
          /\ clock < MaxClock /\ position[1] = clock => position[2] = 0
      BY <2>2 DEF PositionInv
    <3>2. \A r \in Page : Place(r) = <<remote[r].at, r>>
      BY <2>2 DEF Place
    <3>3. \A r \in Page : remote[r].at <= position'[1]
      BY <1>3, <1>5, <1>8, <3>2 DEF Before
    <3>4. position[1] <= position'[1]
      BY <1>3, <1>5, <1>6, <1>8 DEF Before
    <3>5. latest' <= position'[1]
      BY <1>2, <3>1, <3>3, <3>4
    <3>6. position'[1] <= latest'
      BY <1>2, <1>3, <3>1, <3>2
    <3>7. position'[1] = latest'
      BY <1>7, <1>8, <3>5, <3>6
    <3>8. clock' < MaxClock => position'[1] # clock'
      BY <1>6, <1>7, <3>7
    <3>9. QED
      BY <3>7, <3>8
  <2>3. QED
    BY <1>1, <1>4, <2>1, <2>2 DEF PositionInv
<1>12. SyncInv'
  <2>1. ASSUME NEW r \in Records, remote[r].version > 0,
               staged[r] = remote[r] \/ (r \in Matches)
        PROVE  staged'[r] = remote[r] \/ (r \in Matches \ Page /\ Before(position', Place(r)))
    <3>1. CASE r \in Page \/ staged[r] = remote[r]
      BY <1>1, <3>1
    <3>2. CASE r \in Matches \ Page
      <4>1. CASE position' = position
        BY <3>2, <4>1 DEF Matches
      <4>2. CASE position' # position
        BY <1>3, <3>2, <4>2, PageIsFirst
      <4>3. QED
        BY <4>1, <4>2
    <3>3. QED
      BY <2>1, <3>1, <3>2
  <2>2. ASSUME NEW r \in Records, phase = "all", Settled(r, racing)
        PROVE  /\ staged'[r] = remote[r] \/ Before(position', <<Epoch, r>>)
               /\ phase' = "allRead" => staged'[r] = remote[r]
    <3>1. Place(r) = <<Epoch, r>> /\ r \in Present(remote)
      BY <2>2 DEF Place, Settled, Present
    <3>2. staged[r] = remote[r] \/ r \in Matches
      BY <2>2, <3>1 DEF SyncInv, Matches
    <3>3. phase' = "allRead" => r \notin Matches \ Page
      BY <1>4, ShortPageIsLast
    <3>4. QED
      BY <2>1, <2>2, <3>1, <3>2, <3>3 DEF Settled
  <2>3. ASSUME NEW r \in Records, phase = "updated", Settled(r, raced)
        PROVE  staged'[r] = remote[r] \/ (remote[r].stamped /\ Before(position', <<remote[r].at, r>>))
    <3>1. Place(r) = <<remote[r].at, r>> /\ r \in Present(remote)
      BY <2>3 DEF Place, Settled, Present
    <3>2. staged[r] = remote[r] \/ r \in Matches
      BY <2>3, <3>1 DEF SyncInv, Matches
    <3>3. r \in Matches => remote[r].stamped
      BY <2>3 DEF Matches
    <3>4. QED
      BY <2>1, <2>3, <3>1, <3>2, <3>3 DEF Settled
  <2>4. QED
    BY <1>1, <1>4, <2>2, <2>3 DEF SyncInv, Settled, Before
<1>13. VersionInv'
  <2>1. ASSUME NEW r \in Records
        PROVE  /\ remote[r].version \in Nat /\ cached[r].version \in Nat /\ staged[r].version \in Nat
               /\ staged'[r] = IF r \in Page THEN remote[r] ELSE staged[r]
    BY <1>1 DEF TypeInv, Document
  <2>2. ASSUME NEW r \in Page PROVE r \notin deleted /\ cached[r].version <= remote[r].version
    BY <1>5 DEF VersionInv
  <2>3. ~ rebuild => \A r \in Records : cached[r].version <= staged'[r].version
    BY <1>1, <2>1, <2>2 DEF VersionInv
  <2>4. \A r \in Records \ deleted : staged'[r].version <= remote[r].version
    BY <1>1, <2>1 DEF VersionInv
  <2>5. rebuild => \A r \in deletedFirst : staged'[r] = NoDocument
    BY <1>1, <2>1, <2>2 DEF VersionInv, TypeInv
  <2>6. QED
    BY <1>1, <1>4, <2>3, <2>4, <2>5 DEF VersionInv
<1>14. IncrementalMissesNothing'
  BY <1>1 DEF IncrementalMissesNothing, Reaches
<1>15. QED
  BY <1>9, <1>10, <1>11, <1>12, <1>13, <1>14

\* However a sync ends, nothing of it is left.
LEMMA EndSyncInv ==
  ASSUME CacheInv, EndSync, UNCHANGED ledger, TypeInv',
         cursor' <= clock,
         \A r \in Records \ deleted : cached'[r].version <= remote[r].version
  PROVE  ClockInv' /\ PositionInv' /\ SyncInv' /\ VersionInv'
<1> USE DEF CacheInv
<1>1. /\ phase' = "idle" /\ ~ rebuild' /\ latest' = 0
      /\ UNCHANGED <<clock, remote, deleted>>
  BY DEF EndSync, ledger, Epoch
<1>2. ClockInv'
  BY <1>1 DEF ClockInv, TypeInv
<1>3. PositionInv' /\ SyncInv'
  BY <1>1 DEF PositionInv, SyncInv
<1>4. VersionInv'
  BY <1>1 DEF VersionInv
<1>5. QED
  BY <1>2, <1>3, <1>4

\* What is committed reaches every write the cursor has passed.
LEMMA CommitInv == ASSUME CacheInv, Commit PROVE CacheInv'
<1> USE DEF CacheInv
<1>1. /\ phase \in {"allRead", "updatedRead"}
      /\ cached' = staged /\ cursor' = latest /\ bootstrapped'
      /\ raced' = IF phase = "allRead" THEN racing ELSE raced
      /\ EndSync /\ UNCHANGED ledger /\ bootstrapped' \in BOOLEAN
      /\ UNCHANGED <<clock, remote, deleted>>
  BY DEF Commit, ledger
<1>2. TypeInv'
  <2>1. NoDocument \in Document
    BY DEF NoDocument, Document, Epoch
  <2>2. phase' = "idle" /\ staged' = [r \in Records |-> NoDocument] /\ latest' = 0 /\ position' = <<0, 0>>
    BY <1>1 DEF EndSync, Epoch, Nowhere
  <2>3. QED
    BY <1>1, <2>1, <2>2 DEF TypeInv
<1>3. IncrementalMissesNothing'
  <2>1. SUFFICES ASSUME NEW r \in Records, r \notin raced' \cup deleted, remote[r].version > 0
        PROVE  (remote[r].stamped /\ remote[r].at >= latest) \/ staged[r] = remote[r]
    BY <1>1 DEF IncrementalMissesNothing, Reaches
  <2>2. latest \in Nat /\ remote[r].at \in Nat /\ position \in Nat \X Nat
    BY DEF TypeInv, Document
  <2>3. CASE phase = "allRead"
    BY <1>1, <2>1, <2>3 DEF SyncInv, Settled
  <2>4. CASE phase = "updatedRead"
    <3>1. position[1] = latest
      BY <2>4 DEF PositionInv
    <3>2. staged[r] = remote[r] \/ (remote[r].stamped /\ Before(position, <<remote[r].at, r>>))
      BY <1>1, <2>1, <2>4 DEF SyncInv, Settled
    <3>3. QED
      BY <2>2, <3>1, <3>2 DEF Before
  <2>5. QED
    BY <1>1, <2>3, <2>4
<1>4. ClockInv' /\ PositionInv' /\ SyncInv' /\ VersionInv'
  <2>1. cursor' <= clock
    BY <1>1 DEF ClockInv
  <2>2. \A r \in Records \ deleted : cached'[r].version <= remote[r].version
    BY <1>1 DEF VersionInv
  <2>3. QED
    BY <1>1, <1>2, <2>1, <2>2, EndSyncInv
<1>5. QED
  BY <1>2, <1>3, <1>4

\* A failure and a crash leave the committed rows and their cursor.
LEMMA AbandonInv ==
  ASSUME CacheInv, EndSync, UNCHANGED <<ledger, cached, bootstrapped, cursor, raced>>
  PROVE  CacheInv'
<1> USE DEF CacheInv
<1>1. NoDocument \in Document
  BY DEF NoDocument, Document, Epoch
<1>2. /\ phase' = "idle" /\ staged' = [r \in Records |-> NoDocument] /\ latest' = 0 /\ position' = <<0, 0>>
      /\ UNCHANGED <<clock, remote, deleted>>
  BY DEF EndSync, Epoch, Nowhere, ledger
<1>3. TypeInv'
  BY <1>1, <1>2 DEF TypeInv
<1>4. IncrementalMissesNothing'
  BY <1>2 DEF IncrementalMissesNothing, Reaches
<1>5. cursor' <= clock /\ \A r \in Records \ deleted : cached'[r].version <= remote[r].version
  BY DEF ClockInv, VersionInv
<1>6. QED
  BY <1>3, <1>4, <1>5, EndSyncInv

LEMMA StutterInv == ASSUME CacheInv, UNCHANGED cacheVars PROVE CacheInv'
<1>1. /\ UNCHANGED <<clock, remote, deleted, cached, bootstrapped, cursor, lastError>>
      /\ UNCHANGED <<phase, rebuild, staged, latest, position, deletedFirst, racing, raced>>
  BY DEF cacheVars, ledger, cache, sync, ghost
<1>2. QED
  BY <1>1 DEF CacheInv, TypeInv, ClockInv, PositionInv, SyncInv, Settled, Before, VersionInv,
              IncrementalMissesNothing, Reaches

LEMMA InvStep == CacheInv /\ [CacheNext]_cacheVars => CacheInv'
<1> SUFFICES ASSUME CacheInv, [CacheNext]_cacheVars PROVE CacheInv'
  OBVIOUS
<1>1. ASSUME NEW r \in Records, Write(r) PROVE CacheInv'
  BY <1>1, WriteInv
<1>2. ASSUME NEW r \in Records, Delete(r) PROVE CacheInv'
  BY <1>2, DeleteInv
<1>3. CASE Tick
  BY <1>3, TickInv
<1>4. ASSUME NEW again \in BOOLEAN, BeginAll(again) PROVE CacheInv'
  BY <1>4, BeginAllInv
<1>5. CASE BeginUpdated
  BY <1>5, BeginUpdatedInv
<1>6. CASE PageRead
  BY <1>6, PageReadInv
<1>7. CASE Commit
  BY <1>7, CommitInv
<1>8. CASE Fail
  BY <1>8, AbandonInv DEF Fail, ledger
<1>9. CASE Crash
  BY <1>9, AbandonInv DEF Crash, cache, ledger
<1>10. CASE UNCHANGED cacheVars
  BY <1>10, StutterInv
<1>11. QED
  BY <1>1, <1>2, <1>3, <1>4, <1>5, <1>6, <1>7, <1>8, <1>9, <1>10 DEF CacheNext

-----------------------------------------------------------------------------
\* The inductive invariant of the cache (audit_cache.py, AuditCache.sync).
THEOREM CacheInvariant == CacheSpec => []CacheInv
<1>1. QED
  BY InitInv, InvStep, PTL DEF CacheSpec

\* Apart from what was written while a bootstrap was reading, no committed sync
\* puts the cursor past a write it did not see, whatever the page size.
THEOREM NothingIsMissed == CacheSpec => []IncrementalMissesNothing
<1>1. CacheInv => IncrementalMissesNothing
  BY DEF CacheInv
<1>2. QED
  BY <1>1, CacheInvariant, PTL

\* An ordinary sync takes no row back and drops none; a rebuild is exact.
THEOREM EverySyncIsExact == CacheSpec => SyncsAreExact
<1>1. CacheInv /\ [CacheNext]_cacheVars =>
        [\A r \in Records : /\ ~ rebuild => cached[r].version <= cached'[r].version
                            /\ rebuild /\ r \in deletedFirst => cached'[r] = NoDocument]_<<cached, cursor>>
  <2>1. SUFFICES ASSUME CacheInv, [CacheNext]_cacheVars
        PROVE  [\A r \in Records : /\ ~ rebuild => cached[r].version <= cached'[r].version
                                   /\ rebuild /\ r \in deletedFirst => cached'[r] = NoDocument]_<<cached, cursor>>
    OBVIOUS
  <2>2. CASE Commit
    BY <2>1, <2>2 DEF CacheInv, VersionInv, Commit
  <2>3. CASE ~ Commit
    BY <2>1, <2>3 DEF CacheNext, Write, Delete, Tick, BeginAll, BeginUpdated, PageRead, Fail, Crash, cache, cacheVars
  <2>4. QED
    BY <2>2, <2>3
<1>2. QED
  BY <1>1, CacheInvariant, PTL DEF CacheSpec, SyncsAreExact

-----------------------------------------------------------------------------
\* The page of the dashboard (AuditDashboard): its types, and what the list and
\* the one request on its way hold while no two loads overlapped.
Requests == [number : Nat, reset : BOOLEAN, before : Nat, read : BOOLEAN,
             page : Seq(Asks), next : Nat, rows : SUBSET Asks]

DashboardType ==
  /\ table \in SUBSET Asks /\ shown \in Seq(Asks) /\ next \in Nat /\ more \in BOOLEAN
  /\ requests \in SUBSET Requests /\ sent \in Nat
  /\ known \in SUBSET Asks /\ overlapped \in BOOLEAN

Descending(list) == \A j, k \in 1 .. Len(list) : j < k => Newer(list[j], list[k])

\* The list has an ask of the time of r.
HasTime(list, r) == \E k \in 1 .. Len(list) : ReceivedAt[list[k]] = ReceivedAt[r]

\* It goes back to the time of its next page, or to the first ask.
GoesBackTo(list, n) == n # 0 => \A k \in 1 .. Len(list) : ReceivedAt[list[k]] >= n

\* What is shown is in order and has everything known above its next page.
ListInv ==
  /\ Descending(shown) /\ GoesBackTo(shown, next)
  /\ known \subseteq table
  /\ \A r \in known : next = 0 \/ ReceivedAt[r] >= next => HasTime(shown, r)
  /\ next = 0 /\ (more \/ requests # {}) => shown = <<>> /\ known = {}

\* What a request has read continues that.
ReadInv(q) ==
  /\ known \subseteq q.rows /\ q.rows \subseteq table
  /\ Descending(q.page) /\ GoesBackTo(q.page, q.next)
  /\ \A k \in 1 .. Len(q.page) : next # 0 => ReceivedAt[q.page[k]] < next
  /\ next # 0 => q.next < next
  /\ \A r \in q.rows : /\ next = 0 \/ ReceivedAt[r] < next
                       /\ q.next = 0 \/ ReceivedAt[r] >= q.next
                       => HasTime(q.page, r)

RequestInv ==
  /\ \A p, q \in requests : p = q
  /\ \A q \in requests : /\ q.before = next /\ (q.reset => next = 0)
                         /\ q.read => ReadInv(q)

DashboardInv == DashboardType /\ (~ overlapped => ListInv /\ RequestInv)

-----------------------------------------------------------------------------
\* Distinct places from 1 up to the size of a set are all taken.
LEMMA PlacesAreTaken ==
  ASSUME NEW S, IsFiniteSet(S), NEW place \in [S -> 1 .. Cardinality(S)],
         \A r, s \in S : place[r] = place[s] => r = s
  PROVE  \A i \in 1 .. Cardinality(S) : \E r \in S : place[r] = i
<1> DEFINE n == Cardinality(S)
<1>1. n \in Nat
  BY FS_CardinalityType
<1>2. IsFiniteSet(1 .. n) /\ Cardinality(1 .. n) = n
  BY <1>1, FS_Interval
<1>3. place \in Injection(S, 1 .. n)
  BY DEF Injection, IsInjective
<1>4. place \in Surjection(S, 1 .. n)
  BY <1>2, <1>3, FS_Injection
<1> QED BY <1>4 DEF Surjection

\* The order of a page is strict and total.
LEMMA NewerIsTotal ==
  ASSUME NEW r \in Asks, NEW s \in Asks
  PROVE  /\ ~ Newer(r, r) /\ (r # s => Newer(r, s) \/ Newer(s, r))
         /\ Newer(r, s) => ReceivedAt[r] >= ReceivedAt[s] /\ ~ Newer(s, r)
         /\ \A t \in Asks : Newer(r, s) /\ Newer(s, t) => Newer(r, t)
BY DashboardAssumption DEF Newer

LEMMA PositionIsPlace ==
  ASSUME NEW rows \in SUBSET Asks, NEW r \in rows
  PROVE  /\ IsFiniteSet(rows) /\ Position(r, rows) \in 1 .. Cardinality(rows)
         /\ \A s \in rows : Newer(r, s) => Position(r, rows) < Position(s, rows)
<1>1. IsFiniteSet(rows) /\ Cardinality(rows) \in Nat
  BY DashboardAssumption, FS_Subset, FS_CardinalityType
<1> DEFINE Upto(s) == {t \in rows : t = s \/ Newer(t, s)}
<1>2. \A s \in rows : Upto(s) \subseteq rows /\ IsFiniteSet(Upto(s)) /\ Cardinality(Upto(s)) \in Nat
  BY <1>1, FS_Subset, FS_CardinalityType
<1>3. Cardinality(Upto(r)) <= Cardinality(rows)
  BY <1>1, <1>2, FS_Subset
<1>4. Cardinality(Upto(r)) # 0
  BY <1>2, FS_EmptySet
<1>5. ASSUME NEW s \in rows, Newer(r, s) PROVE Cardinality(Upto(r)) < Cardinality(Upto(s))
  <2>1. Upto(r) \subseteq Upto(s) /\ s \in Upto(s) /\ s \notin Upto(r)
    BY <1>5, NewerIsTotal
  <2> QED BY <2>1, <1>2, FS_Subset
<1>6. \A s \in rows : Position(s, rows) = Cardinality(Upto(s))
  BY DEF Position
<1> HIDE DEF Upto
<1> QED BY <1>1, <1>2, <1>3, <1>4, <1>5, <1>6

\* What a page is cut from: every row of the query, the newest first.
LEMMA OrderedIsDescending ==
  ASSUME NEW rows \in SUBSET Asks
  PROVE  /\ ByRecency(rows) \in Seq(rows) /\ Len(ByRecency(rows)) = Cardinality(rows)
         /\ Descending(ByRecency(rows))
         /\ \A r \in rows : \E k \in 1 .. Len(ByRecency(rows)) : ByRecency(rows)[k] = r
<1> DEFINE n == Cardinality(rows)
           o == ByRecency(rows)
           place == [r \in rows |-> Position(r, rows)]
<1>1. IsFiniteSet(rows) /\ n \in Nat
  BY DashboardAssumption, FS_Subset, FS_CardinalityType
<1>2. \A r \in rows : Position(r, rows) \in 1 .. n
  BY PositionIsPlace
<1>3. \A r, s \in rows : Newer(r, s) => Position(r, rows) < Position(s, rows)
  BY PositionIsPlace
<1>4. \A r, s \in rows : Position(r, rows) = Position(s, rows) => r = s
  BY <1>2, <1>3, NewerIsTotal
<1>5. \A i \in 1 .. n : \E r \in rows : Position(r, rows) = i
  <2>1. place \in [rows -> 1 .. n] /\ \A r, s \in rows : place[r] = place[s] => r = s
    BY <1>2, <1>4
  <2>2. \A i \in 1 .. n : \E r \in rows : place[r] = i
    BY <1>1, <2>1, PlacesAreTaken
  <2> QED BY <2>2
<1>6. \A i \in 1 .. n : o[i] \in rows /\ Position(o[i], rows) = i
  BY <1>5 DEF ByRecency
<1>7. o \in Seq(rows) /\ Len(o) = n
  <2>1. o \in [1 .. n -> rows]
    BY <1>6 DEF ByRecency
  <2> HIDE DEF o, n
  <2> QED BY <1>1, <2>1
<1>8. Descending(o)
  <2> SUFFICES ASSUME NEW j \in 1 .. n, NEW k \in 1 .. n, j < k PROVE Newer(o[j], o[k])
    BY <1>7 DEF Descending
  <2>1. o[j] # o[k] /\ ~ Newer(o[k], o[j])
    BY <1>3, <1>6
  <2> QED BY <1>6, <2>1, NewerIsTotal
<1>9. \A r \in rows : o[Position(r, rows)] = r
  BY <1>2, <1>4, <1>6
<1> QED BY <1>2, <1>7, <1>8, <1>9

\* A page is in order, and what it leaves is not above the next one.
LEMMA PageIsExact ==
  ASSUME NEW before \in Nat, table \in SUBSET Asks
  PROVE  LET rows == Older(before)
             page == ListRecent(before).page
             n == ListRecent(before).next
         IN  /\ page \in Seq(rows) /\ n \in Nat
             /\ Descending(page) /\ GoesBackTo(page, n)
             /\ before # 0 => n < before
             /\ \A r \in rows : n = 0 \/ ReceivedAt[r] >= n => HasTime(page, r)
<1> DEFINE rows == Older(before)
           o == ByRecency(rows)
           cut == SubSeq(o, 1, PageLimit)
           page == IF Len(o) > PageLimit THEN cut ELSE o
           n == IF Len(o) > PageLimit THEN ReceivedAt[cut[PageLimit]] ELSE 0
<1>1. ListRecent(before).page = page /\ ListRecent(before).next = n
  BY DEF ListRecent
<1>2. rows \in SUBSET Asks /\ \A r \in rows : before # 0 => ReceivedAt[r] < before
  BY DEF Older
<1>3. /\ o \in Seq(rows) /\ Descending(o) /\ Len(o) \in Nat
      /\ \A r \in rows : \E k \in 1 .. Len(o) : o[k] = r
  BY <1>2, OrderedIsDescending
<1>4. PageLimit \in Nat \ {0} /\ \A r \in rows : ReceivedAt[r] \in Nat \ {0}
  BY <1>2, DashboardAssumption
<1> HIDE DEF rows, o
<1>7. \A j, k \in 1 .. Len(o) : j < k => Newer(o[j], o[k])
  BY <1>3 DEF Descending
<1>5. CASE Len(o) > PageLimit
  <2>1. /\ cut \in Seq(rows) /\ Len(cut) = PageLimit
        /\ \A k \in 1 .. PageLimit : cut[k] = o[k] /\ o[k] \in rows
    BY <1>3, <1>4, <1>5
  <2> DEFINE last == o[PageLimit]
  <2>2. last \in rows /\ cut[PageLimit] = last /\ PageLimit \in 1 .. PageLimit
    BY <1>4, <2>1
  <2>3. n = ReceivedAt[last] /\ n \in Nat \ {0} /\ page = cut
    BY <1>4, <1>5, <2>2
  <2>0. \A k \in 1 .. PageLimit : k \in 1 .. Len(o) /\ PageLimit \in 1 .. Len(o)
    BY <1>3, <1>4, <1>5
  <2>4. \A k \in 1 .. PageLimit : k = PageLimit \/ Newer(o[k], last)
    BY <1>4, <1>7, <2>0
  <2>5. \A k \in 1 .. PageLimit : ReceivedAt[o[k]] >= n
    BY <1>2, <1>4, <2>1, <2>2, <2>3, <2>4, NewerIsTotal
  <2>6. Descending(cut)
    BY <1>7, <2>0, <2>1 DEF Descending
  <2>7. ASSUME NEW r \in rows, ReceivedAt[r] >= n PROVE HasTime(cut, r)
    <3>1. PICK k \in 1 .. Len(o) : o[k] = r
      BY <1>3
    <3>2. CASE k <= PageLimit
      BY <1>4, <2>1, <3>1, <3>2 DEF HasTime
    <3>3. CASE k > PageLimit
      <4>1. Newer(last, r)
        BY <1>4, <1>7, <2>0, <2>2, <3>1, <3>3
      <4>2. ReceivedAt[last] = ReceivedAt[r]
        BY <4>1, <2>2, <2>3, <2>7, <1>2, <1>4, NewerIsTotal
      <4> QED BY <4>2, <2>1, <2>2 DEF HasTime
    <3> QED BY <3>2, <3>3, <1>4
  <2> HIDE DEF n, page, cut
  <2> QED BY <1>1, <1>2, <2>1, <2>2, <2>3, <2>5, <2>6, <2>7 DEF GoesBackTo, rows
<1>6. CASE ~ (Len(o) > PageLimit)
  <2>1. n = 0 /\ page = o
    BY <1>6
  <2>2. \A r \in rows : HasTime(o, r)
    BY <1>3 DEF HasTime
  <2> HIDE DEF n, page
  <2> QED BY <1>1, <1>3, <2>1, <2>2 DEF GoesBackTo, rows
<1> QED BY <1>5, <1>6

-----------------------------------------------------------------------------
LEMMA DashboardInitInv == DashboardInit => DashboardInv
<1> SUFFICES ASSUME DashboardInit PROVE DashboardInv
  OBVIOUS
<1>1. DashboardType
  <2>1. shown \in Seq(Asks) /\ requests \in SUBSET Requests
    BY DEF DashboardInit
  <2>2. /\ table \in SUBSET Asks /\ next \in Nat /\ more \in BOOLEAN
        /\ sent \in Nat /\ known \in SUBSET Asks /\ overlapped \in BOOLEAN
    BY DEF DashboardInit
  <2> QED BY <2>1, <2>2 DEF DashboardType
<1>2. ListInv /\ RequestInv
  BY DEF DashboardInit, ListInv, RequestInv, Descending, GoesBackTo
<1> QED BY <1>1, <1>2 DEF DashboardInv

\* A new row of the table is behind no list.
LEMMA RowCommittedInv == ASSUME DashboardInv, RowCommitted PROVE DashboardInv'
<1>1. /\ table \subseteq table' /\ table' \in SUBSET Asks
      /\ UNCHANGED <<shown, next, more, requests, sent, known, overlapped>>
  BY DEF RowCommitted, DashboardInv, DashboardType
<1>2. DashboardType'
  BY <1>1 DEF DashboardInv, DashboardType
<1>3. ASSUME ~ overlapped PROVE ListInv' /\ RequestInv'
  BY <1>1, <1>3 DEF DashboardInv, ListInv, RequestInv, ReadInv, Descending, GoesBackTo, HasTime
<1> QED BY <1>1, <1>2, <1>3 DEF DashboardInv

Request(reset, n) == [number |-> sent + 1, reset |-> reset, before |-> n,
                      read |-> FALSE, page |-> <<>>, next |-> 0, rows |-> {}]

LEMMA LoadFirstInv == ASSUME DashboardInv, LoadFirst PROVE DashboardInv'
<1> DEFINE q == Request(TRUE, 0)
<1>1. /\ requests' = requests \cup {q} /\ sent' = sent + 1
      /\ shown' = <<>> /\ next' = 0 /\ known' = {} /\ overlapped' = (requests # {})
      /\ UNCHANGED <<table, more>>
  BY DEF LoadFirst, Sends, Request
<1>2. q \in Requests /\ q.before = 0 /\ ~ q.read
  BY DEF Request, Requests, DashboardInv, DashboardType
<1> HIDE DEF q
<1>3. DashboardType'
  BY <1>1, <1>2 DEF DashboardInv, DashboardType
<1>4. ListInv'
  BY <1>1 DEF ListInv, Descending, GoesBackTo
<1>5. requests = {} => RequestInv'
  BY <1>1, <1>2 DEF RequestInv
<1> QED BY <1>1, <1>3, <1>4, <1>5 DEF DashboardInv

LEMMA LoadOlderInv == ASSUME DashboardInv, LoadOlder PROVE DashboardInv'
<1> DEFINE q == Request(FALSE, next)
<1>1. /\ requests' = requests \cup {q} /\ sent' = sent + 1 /\ more
      /\ overlapped' = (overlapped \/ requests # {})
      /\ UNCHANGED <<table, shown, next, more, known>>
  BY DEF LoadOlder, Sends, Request
<1>2. q \in Requests /\ q.before = next /\ ~ q.read /\ ~ q.reset
  BY DEF Request, Requests, DashboardInv, DashboardType
<1> HIDE DEF q
<1>3. DashboardType'
  BY <1>1, <1>2 DEF DashboardInv, DashboardType
<1>4. ASSUME ~ overlapped, requests = {} PROVE ListInv' /\ RequestInv'
  <2>1. ListInv'
    BY <1>1, <1>4 DEF DashboardInv, ListInv, HasTime, Descending, GoesBackTo
  <2>2. RequestInv'
    BY <1>1, <1>2, <1>4 DEF RequestInv
  <2> QED BY <2>1, <2>2
<1> QED BY <1>1, <1>3, <1>4 DEF DashboardInv

\* The reply of the server: a page of the table as it is now.
LEMMA ListAsksInv == ASSUME DashboardInv, NEW q \in requests, ListAsks(q) PROVE DashboardInv'
<1> DEFINE result == ListRecent(q.before)
           new == [q EXCEPT !.read = TRUE, !.page = result.page, !.next = result.next, !.rows = table]
<1>1. /\ requests' = (requests \ {q}) \cup {new}
      /\ UNCHANGED <<table, shown, next, more, sent, known, overlapped>>
  BY DEF ListAsks
<1>2. /\ table \in SUBSET Asks /\ q \in Requests /\ q.before \in Nat
  BY DEF DashboardInv, DashboardType, Requests
<1>3. /\ result.page \in Seq(Older(q.before)) /\ result.next \in Nat
      /\ Descending(result.page) /\ GoesBackTo(result.page, result.next)
      /\ q.before # 0 => result.next < q.before
      /\ \A r \in Older(q.before) : result.next = 0 \/ ReceivedAt[r] >= result.next => HasTime(result.page, r)
  BY <1>2, PageIsExact
<1>4. /\ \A r \in Older(q.before) : r \in Asks /\ (q.before # 0 => ReceivedAt[r] < q.before)
      /\ \A r \in table : q.before = 0 \/ ReceivedAt[r] < q.before => r \in Older(q.before)
  BY <1>2 DEF Older
<1>5. \A k \in 1 .. Len(result.page) : result.page[k] \in Older(q.before)
  BY <1>3
<1>6. result.page \in Seq(Asks)
  <2>1. Older(q.before) \subseteq Asks
    BY <1>4
  <2> QED BY <1>3, <2>1
<1> HIDE DEF result
<1>7. /\ new \in Requests /\ new.read /\ new.reset = q.reset /\ new.before = q.before
      /\ new.page = result.page /\ new.next = result.next /\ new.rows = table
  BY <1>2, <1>3, <1>6 DEF Requests
<1> HIDE DEF new
<1>8. PICK p \in Requests :
        /\ requests' = (requests \ {q}) \cup {p} /\ p.read /\ p.reset = q.reset /\ p.before = q.before
        /\ p.page = result.page /\ p.next = result.next /\ p.rows = table
  BY <1>1, <1>7
<1>9. DashboardType'
  BY <1>1, <1>8 DEF DashboardInv, DashboardType
<1>10. ASSUME ~ overlapped PROVE ListInv' /\ RequestInv'
  <2>1. ListInv'
    BY <1>1, <1>10 DEF DashboardInv, ListInv, HasTime, Descending, GoesBackTo
  <2>2. requests' = {p} /\ q.before = next /\ (q.reset => next = 0)
    BY <1>1, <1>8, <1>10 DEF DashboardInv, RequestInv
  <2>3. known \subseteq table
    BY <1>10 DEF DashboardInv, ListInv
  <2>4. ReadInv(p)'
    <3>1. \A k \in 1 .. Len(p.page) : next # 0 => ReceivedAt[p.page[k]] < next
      BY <1>4, <1>5, <1>8, <2>2
    <3>2. \A r \in table : /\ next = 0 \/ ReceivedAt[r] < next
                           /\ p.next = 0 \/ ReceivedAt[r] >= p.next
                           => HasTime(p.page, r)
      BY <1>3, <1>4, <1>8, <2>2
    <3>3. Descending(p.page) /\ GoesBackTo(p.page, p.next) /\ (next # 0 => p.next < next) /\ p.rows = table
      BY <1>3, <1>8, <2>2
    <3> QED BY <1>1, <2>3, <3>1, <3>2, <3>3 DEF ReadInv
  <2>5. RequestInv'
    BY <1>1, <1>8, <2>2, <2>4 DEF RequestInv
  <2> QED BY <2>1, <2>5
<1> QED BY <1>1, <1>9, <1>10 DEF DashboardInv

\* The page is appended to what is shown.
LEMMA LoadedInv == ASSUME DashboardInv, NEW q \in requests, Loaded(q) PROVE DashboardInv'
<1>1. /\ q.read /\ shown' = shown \o q.page /\ next' = q.next /\ more' = (q.next # 0)
      /\ requests' = requests \ {q} /\ known' = IF q.reset THEN q.rows ELSE known
      /\ UNCHANGED <<table, sent, overlapped>>
  BY DEF Loaded
<1>2. q \in Requests /\ q.page \in Seq(Asks) /\ q.next \in Nat /\ q.rows \in SUBSET Asks /\ shown \in Seq(Asks)
  BY DEF DashboardInv, DashboardType, Requests
<1>3. DashboardType'
  BY <1>1, <1>2 DEF DashboardInv, DashboardType
<1>4. ASSUME ~ overlapped PROVE ListInv' /\ RequestInv'
  <2>1. ListInv /\ ReadInv(q) /\ (q.reset => next = 0) /\ requests' = {} /\ next \in Nat /\ requests # {}
    BY <1>1, <1>4 DEF DashboardInv, RequestInv, DashboardType
  <2>2. next = 0 => shown = <<>> /\ known = {}
    BY <2>1 DEF ListInv
  <2> DEFINE m == Len(shown)
             l == Len(q.page)
  <2>3. /\ m \in Nat /\ l \in Nat /\ Len(shown') = m + l
        /\ \A k \in 1 .. m : shown'[k] = shown[k] /\ shown[k] \in Asks
        /\ \A k \in 1 .. l : shown'[m + k] = q.page[k] /\ q.page[k] \in Asks
        /\ \A k \in 1 .. m + l : k \in 1 .. m \/ (k - m \in 1 .. l /\ k = m + (k - m))
    BY <1>1, <1>2
  <2>4. \A k \in 1 .. m : next # 0 /\ ReceivedAt[shown[k]] >= next /\ ReceivedAt[shown[k]] \in Nat
    <3>1. m # 0 => next # 0
      BY <2>2
    <3>2. next # 0 => \A k \in 1 .. m : ReceivedAt[shown[k]] >= next
      BY <2>1 DEF ListInv, GoesBackTo
    <3>3. \A r \in Asks : ReceivedAt[r] \in Nat
      BY DashboardAssumption
    <3> HIDE DEF m
    <3>4. \A k \in 1 .. m : m # 0
      BY <2>3
    <3> QED BY <2>3, <3>1, <3>2, <3>3, <3>4
  <2>5. \A k \in 1 .. l : /\ next # 0 => ReceivedAt[q.page[k]] < next
                          /\ q.next # 0 => ReceivedAt[q.page[k]] >= q.next
                          /\ ReceivedAt[q.page[k]] \in Nat
    BY <2>1, <2>3, DashboardAssumption DEF ReadInv, GoesBackTo
  <2>6. \A j \in 1 .. m, k \in 1 .. l : Newer(shown[j], q.page[k])
    BY <2>1, <2>3, <2>4, <2>5 DEF Newer
  <2> HIDE DEF m, l
  <2>7. Descending(shown')
    <3> SUFFICES ASSUME NEW j \in 1 .. m + l, NEW k \in 1 .. m + l, j < k PROVE Newer(shown'[j], shown'[k])
      BY <2>3 DEF Descending
    <3>1. CASE k \in 1 .. m
      <4>1. j \in 1 .. m
        BY <2>3, <3>1
      <4> QED BY <4>1, <3>1, <2>1, <2>3 DEF ListInv, Descending, m
    <3>2. CASE k - m \in 1 .. l /\ j \in 1 .. m
      BY <2>3, <2>6, <3>2
    <3>3. CASE k - m \in 1 .. l /\ j - m \in 1 .. l
      <4>1. j - m < k - m /\ shown'[j] = q.page[j - m] /\ shown'[k] = q.page[k - m]
        BY <2>3, <3>3
      <4> QED BY <4>1, <3>3, <2>1 DEF ReadInv, Descending, l
    <3> QED BY <2>3, <3>1, <3>2, <3>3
  <2>8. GoesBackTo(shown', next')
    <3> SUFFICES ASSUME q.next # 0, NEW k \in 1 .. m + l PROVE ReceivedAt[shown'[k]] >= q.next
      BY <1>1, <2>3 DEF GoesBackTo
    <3>1. CASE k \in 1 .. m
      <4>1. next # 0 /\ ReceivedAt[shown[k]] >= next /\ q.next < next
        BY <2>1, <2>4, <3>1 DEF ReadInv
      <4> QED BY <4>1, <1>2, <2>1, <2>3, <2>4, <3>1
    <3>2. CASE k - m \in 1 .. l /\ k = m + (k - m)
      <4>1. shown'[k] = q.page[k - m] /\ ReceivedAt[q.page[k - m]] >= q.next
        BY <2>3, <2>5, <3>2
      <4> QED BY <4>1
    <3> QED BY <2>3, <3>1, <3>2
  <2>9. known' \subseteq table'
    BY <1>1, <2>1 DEF ListInv, ReadInv
  <2>10. ASSUME NEW r \in known', next' = 0 \/ ReceivedAt[r] >= next' PROVE HasTime(shown', r)
    <3>1. r \in q.rows /\ ReceivedAt[r] \in Nat /\ (r \in known \/ next = 0)
      BY <1>1, <1>2, <2>1, <2>10, DashboardAssumption DEF ReadInv
    <3>2. CASE next = 0 \/ ReceivedAt[r] < next
      <4>1. HasTime(q.page, r)
        BY <1>1, <2>1, <2>10, <3>1, <3>2 DEF ReadInv
      <4>2. PICK k \in 1 .. l : ReceivedAt[q.page[k]] = ReceivedAt[r]
        BY <4>1 DEF HasTime, l
      <4>3. m + k \in 1 .. m + l /\ shown'[m + k] = q.page[k]
        BY <2>3
      <4> QED BY <4>2, <4>3, <2>3 DEF HasTime
    <3>3. CASE next # 0 /\ ReceivedAt[r] >= next
      <4>1. HasTime(shown, r)
        BY <2>1, <3>1, <3>3 DEF ListInv
      <4>2. PICK k \in 1 .. m : ReceivedAt[shown[k]] = ReceivedAt[r]
        BY <4>1 DEF HasTime, m
      <4>3. k \in 1 .. m + l /\ shown'[k] = shown[k]
        BY <2>3
      <4> QED BY <4>2, <4>3, <2>3 DEF HasTime
    <3> QED BY <2>1, <3>1, <3>2, <3>3
  <2>11. ListInv'
    <3>1. next' = 0 => ~ more'
      BY <1>1
    <3> QED BY <2>1, <2>7, <2>8, <2>9, <2>10, <3>1 DEF ListInv, Descending, GoesBackTo, HasTime
  <2>12. RequestInv'
    BY <2>1 DEF RequestInv
  <2> QED BY <2>11, <2>12
<1> QED BY <1>1, <1>3, <1>4 DEF DashboardInv

LEMMA LoadFailsInv == ASSUME DashboardInv, NEW q \in requests, LoadFails(q) PROVE DashboardInv'
<1>1. /\ requests' \subseteq requests /\ UNCHANGED <<table, shown, next, more, sent, known, overlapped>>
  BY DEF LoadFails
<1>2. DashboardType'
  BY <1>1 DEF DashboardInv, DashboardType
<1>3. ASSUME ~ overlapped PROVE ListInv' /\ RequestInv'
  BY <1>1, <1>3 DEF DashboardInv, ListInv, RequestInv, ReadInv, Descending, GoesBackTo, HasTime
<1> QED BY <1>1, <1>2, <1>3 DEF DashboardInv

LEMMA DashboardStep == ASSUME DashboardInv, [DashboardNext]_dashboardVars PROVE DashboardInv'
<1>1. ASSUME NEW q \in requests, ListAsks(q) \/ Loaded(q) \/ LoadFails(q) PROVE DashboardInv'
  BY <1>1, ListAsksInv, LoadedInv, LoadFailsInv
<1>2. CASE RowCommitted \/ LoadFirst \/ LoadOlder
  BY <1>2, RowCommittedInv, LoadFirstInv, LoadOlderInv
<1>3. CASE UNCHANGED dashboardVars
  <2>1. UNCHANGED <<table, shown, next, more, requests, sent, known, overlapped>>
    BY <1>3 DEF dashboardVars
  <2>2. DashboardType'
    BY <2>1 DEF DashboardInv, DashboardType
  <2>3. ASSUME ~ overlapped PROVE ListInv' /\ RequestInv'
    BY <2>1, <2>3 DEF DashboardInv, ListInv, RequestInv, ReadInv, Descending, GoesBackTo, HasTime
  <2> QED BY <2>1, <2>2, <2>3 DEF DashboardInv
<1> QED BY <1>1, <1>2, <1>3 DEF DashboardNext

\* Without overlapping loads the pages put together are the list: in order, none
\* twice, and every time of it there, for any asks, times and page size.
THEOREM PagesAddUp == DashboardSpec => []PagesShowEveryRecordOnce
<1>1. DashboardInv => PagesShowEveryRecordOnce
  <2> SUFFICES ASSUME DashboardInv, requests = {}, ~ overlapped
               PROVE  /\ IsInjective(shown)
                      /\ next = 0 => \A r \in known : \E k \in DOMAIN shown : ReceivedAt[shown[k]] = ReceivedAt[r]
    BY DEF PagesShowEveryRecordOnce
  <2>1. shown \in Seq(Asks) /\ DOMAIN shown = 1 .. Len(shown) /\ ListInv
    BY DEF DashboardInv, DashboardType
  <2>2. \A j, k \in 1 .. Len(shown) : j # k => shown[j] # shown[k]
    <3>1. \A j, k \in 1 .. Len(shown) : j < k => Newer(shown[j], shown[k])
      BY <2>1 DEF ListInv, Descending
    <3>2. \A j, k \in 1 .. Len(shown) : j < k => shown[j] # shown[k]
      BY <2>1, <3>1, NewerIsTotal
    <3>3. \A j, k \in 1 .. Len(shown) : j # k => j < k \/ k < j
      BY <2>1
    <3> QED BY <3>2, <3>3
  <2> QED BY <2>1, <2>2 DEF IsInjective, ListInv, HasTime
<1> QED BY <1>1, DashboardInitInv, DashboardStep, PTL DEF DashboardSpec
=============================================================================
