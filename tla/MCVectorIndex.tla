--------------------------- MODULE MCVectorIndex ---------------------------
\* Two files of two logical indexes and two courses; a near, a far and a blank text.
EXTENDS VectorIndex, TLC
CONSTANTS f1, f2, i1, i2, near, far, blank, c1, c2, unknown
MCIndexOf == (f1 :> i1) @@ (f2 :> i2)
MCOrder == <<i1, i2>>
MCStart == [chunk |-> (1 :> [file |-> f1, text |-> near]) @@ (2 :> [file |-> f2, text |-> far]) @@ (3 :> None),
            file |-> [f \in {f1, f2} |-> [indexed |-> TRUE, course |-> c1]]]
MCScopes == [indexes : {{i1, i2}}, courses : {{c1}}] \cup [indexes : {{i1}}, courses : {{c2, unknown}}]
MCDistance == (near :> 1) @@ (far :> 2) @@ (blank :> 3)
=============================================================================
