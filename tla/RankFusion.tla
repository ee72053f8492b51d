----------------------------- MODULE RankFusion -----------------------------
(* Reciprocal rank fusion (retrieval/rrf.py) as operators. A result set is  *)
(* [method, results]; a result names a chunk, or NoChunk when it is only a  *)
(* file. Scores are exact: RankShare(r) stands for 1 / (k + r) in units of   *)
(* 1 / RankUnit, so equal scores are equal whatever the order of addition.   *)
EXTENDS Integers, Sequences, FiniteSets, SequencesExt, FiniteSetsExt, Ordering

CONSTANTS RrfK,     \* config.rrf_k
          RankUnit, \* a common multiple of every k + rank that occurs
          NoChunk,  \* chunk_id is None
          Nothing   \* a field that is None

ASSUME FusionAssumption == /\ RrfK \in Nat
                           /\ RankUnit \in Nat \ {0}

RankShare(rank) == RankUnit \div (RrfK + rank)

\* Every hit of the sets, in the order they are read.
Cells(sets) ==
  FlattenSeq([i \in DOMAIN sets |-> [r \in DOMAIN sets[i].results |-> [set |-> i, rank |-> r]]])

ResultAt(sets, cell) == sets[cell.set].results[cell.rank]

Identity(result) == IF result.chunk # NoChunk THEN <<"chunk", result.chunk>>
                                              ELSE <<"file", result.file>>

OrElse(left, right) == IF left = Nothing THEN right ELSE left

\* The first result is the base; a later one fills the fields it left open.
PreferredResult(left, right) ==
  [left EXCEPT !.course = OrElse(@, right.course), !.type = OrElse(@, right.type),
               !.status = OrElse(@, right.status), !.text = OrElse(@, right.text),
               !.location = OrElse(@, right.location)]

MergeMetadata(result, metadata) ==
  [result EXCEPT !.course = OrElse(@, metadata.course), !.status = OrElse(@, metadata.status)]

FusedScore(builder) == MapThenSumSet(LAMBDA c : RankShare(c.rank), builder.cells)
BestRank(builder)   == Min({c.rank : c \in builder.cells})

NewBuilder(result) == [result |-> result, cells |-> {}]

Contribute(builder, cell) == [builder EXCEPT !.cells = @ \cup {cell}]

AddContent(sets, builders, cell) ==
  LET result == ResultAt(sets, cell)
      id     == Identity(result)
      known  == IF id \in DOMAIN builders
                THEN [builders[id] EXCEPT !.result = PreferredResult(@, result)]
                ELSE NewBuilder(result)
  IN  [i \in DOMAIN builders \cup {id} |-> IF i = id THEN Contribute(known, cell) ELSE builders[i]]

\* Lexicographic comparison of two equally long tuples of numbers.
Precedes(s, t) == \E i \in DOMAIN s : /\ s[i] < t[i]
                                      /\ \A j \in 1 .. i - 1 : s[j] = t[j]

WithinFile(b) == <<-FusedScore(b), BestRank(b), -Cardinality(b.cells), b.result.chunk>>

AddMetadataToAll(sets, builders, cell) ==
  LET metadata == ResultAt(sets, cell)
      ofFile   == {i \in DOMAIN builders : builders[i].result.file = metadata.file}
  IN  IF ofFile = {} THEN AddContent(sets, builders, cell)
      ELSE [i \in DOMAIN builders |-> IF i \in ofFile THEN Contribute(builders[i], cell) ELSE builders[i]]

\* A metadata hit supports the best chunk of its file, if there is one.
AddMetadata(sets, builders, cell) ==
  LET metadata == ResultAt(sets, cell)
      ofFile   == {i \in DOMAIN builders : /\ builders[i].result.file = metadata.file
                                           /\ builders[i].result.chunk # NoChunk}
      chosen   == CHOOSE i \in ofFile :
                    \A j \in ofFile \ {i} : Precedes(WithinFile(builders[i]), WithinFile(builders[j]))
      known  == [builders[chosen] EXCEPT !.result = MergeMetadata(@, metadata)]
  IN  IF ofFile = {} THEN AddContent(sets, builders, cell)
      ELSE [builders EXCEPT ![chosen] = Contribute(known, cell)]

FusionKey(b) ==
  LET fileLevel == b.result.chunk = NoChunk
  IN  <<-FusedScore(b), BestRank(b), -Cardinality(b.cells), IF fileLevel THEN 1 ELSE 0,
        b.result.file, IF fileLevel THEN 0 ELSE b.result.chunk>>

\* The builders once the content searches are read, and once the metadata is added.
WithContent(sets) ==
  FoldLeft(LAMBDA b, c : IF sets[c.set].method = "metadata" THEN b ELSE AddContent(sets, b, c),
           <<>>, Cells(sets))
WithMetadata(sets, searched) ==
  FoldLeft(LAMBDA b, c : IF sets[c.set].method = "metadata" THEN AddMetadata(sets, b, c) ELSE b,
           searched, Cells(sets))

\* merge_with_rrf with final_top_k=None: content first, then metadata, then order.
MergeWithRrf(sets) ==
  LET merged == WithMetadata(sets, WithContent(sets))
      ranked == InOrder({merged[i] : i \in DOMAIN merged},
                        LAMBDA a, b : Precedes(FusionKey(a), FusionKey(b)))
  IN  [r \in DOMAIN ranked |-> [result |-> ranked[r].result, rank |-> r,
                                score |-> FusedScore(ranked[r]), cells |-> ranked[r].cells]]
=============================================================================
