------------------------------ MODULE MCClient ------------------------------
\* One page of the web application; its ids are interchangeable.
EXTENDS BrowserClient, TLC
CONSTANTS s1, s2, s3, a1, a2, r1, r2
Symmetry == Permutations(SessionIds) \cup Permutations(Asks) \cup Permutations(Resumes)
=============================================================================
