---------------------------- MODULE EvidenceProofs ----------------------------
(* What a recorded retrieval and its answer keep, for any corpus, plans,    *)
(* replies, limits and budgets.  First what the folds, sorts, flattenings   *)
(* and sums of the model return (the library states no theorem of them that *)
(* these provers can use); then the fusion, the searches, the selection and *)
(* the answer, operator by operator; then the inductive invariant           *)
(* EvidenceInv, one lemma per action; last, what follows from it.           *)
EXTENDS EvidenceRun, FiniteSetTheorems, SequenceTheorems, WellFoundedInduction, NaturalsInduction, TLAPS

----------------------------------------------------------------------------
(* Induction and recursion over data, with functions for the step.          *)
\* A set of numbers has a least element.
LEMMA LeastOf ==
  ASSUME NEW S \in SUBSET Nat, S # {}
  PROVE  \E k \in S : \A j \in S : k <= j
<1>1. PICK k \in S : \A j \in S : <<j, k>> \notin OpToRel(<, Nat)
  BY WFMin, NatLessThanWellFounded, Zenon
<1>2. \A j \in S : ~ (j < k)
  BY <1>1, Zenon DEF OpToRel
<1> QED BY <1>2

\* Induction along an interval, over a set rather than a predicate.
LEMMA UpTo ==
  ASSUME NEW N \in Nat, NEW S, 0 \in S, \A n \in 1 .. N : n - 1 \in S => n \in S
  PROVE  \A n \in 0 .. N : n \in S
<1> DEFINE Out == {n \in 0 .. N : n \notin S}
<1>1. SUFFICES ASSUME Out # {} PROVE FALSE
  OBVIOUS
<1>2. PICK k \in Out : \A j \in Out : k <= j
  <2>1. Out \in SUBSET Nat
    OBVIOUS
  <2> HIDE DEF Out
  <2> QED BY <1>1, <2>1, LeastOf
<1> QED BY <1>2

IsFold(g, D, b, T, ch) == /\ g[{}] = b
                          /\ \A s \in SUBSET D : s # {} => g[s] = T[ch[s]][g[s \ {ch[s]}]]

Picks(ch, D) == \A s \in SUBSET D : s # {} => ch[s] \in s

\* A fold over a finite set that takes the elements in some order is well defined.
LEMMA FoldIsDefined ==
  ASSUME NEW D, IsFiniteSet(D), NEW V, NEW b \in V, NEW T \in [D -> [V -> V]],
         NEW ch, Picks(ch, D)
  PROVE  \E g \in [SUBSET D -> V] : IsFold(g, D, b, T, ch)
<1> DEFINE N == Cardinality(D)
           Small(n) == {s \in SUBSET D : Cardinality(s) <= n}
           Fold(n, g) == /\ g[{}] = b
                         /\ \A s \in Small(n) : s # {} => g[s] = T[ch[s]][g[s \ {ch[s]}]]
           Reached == {n \in 0 .. N : \E g \in [Small(n) -> V] : Fold(n, g)}
<1>1. N \in Nat /\ \A s \in SUBSET D : IsFiniteSet(s) /\ Cardinality(s) \in 0 .. N
  BY FS_Subset, FS_CardinalityType
<1>2. {} \in SUBSET D /\ Cardinality({}) = 0 /\ \A s \in SUBSET D : Cardinality(s) = 0 <=> s = {}
  BY <1>1, FS_EmptySet
<1> HIDE DEF N, Small, Fold
<1>9. \A n \in 0 .. N : n \in Reached <=> \E g \in [Small(n) -> V] : Fold(n, g)
  OBVIOUS
<1> HIDE DEF Reached
<1>3. 0 \in Reached
  <2>1. [s \in Small(0) |-> b] \in [Small(0) -> V] /\ Fold(0, [s \in Small(0) |-> b])
    BY <1>1, <1>2 DEF Small, Fold
  <2>2. \E g \in [Small(0) -> V] : Fold(0, g)
    BY <2>1, Zenon
  <2> QED BY <1>1, <1>9, <2>2
<1>4. ASSUME NEW n \in 1 .. N, n - 1 \in Reached PROVE n \in Reached
  <2>0. n \in 0 .. N /\ n - 1 \in 0 .. N
    BY <1>1
  <2>1. PICK g \in [Small(n - 1) -> V] : Fold(n - 1, g)
    BY <1>4, <1>9, <2>0
  <2> DEFINE h == [s \in Small(n) |-> IF s \in Small(n - 1) THEN g[s] ELSE T[ch[s]][g[s \ {ch[s]}]]]
  <2>2. ASSUME NEW s \in Small(n), s # {}
        PROVE  ch[s] \in D /\ s \ {ch[s]} \in Small(n - 1)
    <3>0. ch[s] \in s
      BY <1>1, <2>2 DEF Small, Picks
    <3>1. ch[s] \in s /\ Cardinality(s \ {ch[s]}) = Cardinality(s) - 1
      BY <1>1, <2>2, <3>0, FS_RemoveElement DEF Small
    <3> QED BY <1>1, <3>1 DEF Small
  <2>3. ASSUME NEW s \in Small(n), s \notin Small(n - 1) PROVE s # {}
    BY <1>1, <1>2, <2>3 DEF Small
  <2>4. \A s \in Small(n) : h[s] \in V
    BY <2>2, <2>3
  <2>5. \A s \in Small(n - 1) : s \in Small(n) /\ h[s] = g[s]
    BY <1>1 DEF Small
  <2>6. ASSUME NEW s \in Small(n), s # {} PROVE h[s] = T[ch[s]][h[s \ {ch[s]}]]
    <3>1. h[s \ {ch[s]}] = g[s \ {ch[s]}]
      BY <2>2, <2>5, <2>6
    <3> QED BY <2>1, <2>5, <2>6, <3>1 DEF Fold
  <2>7. h[{}] = b
    BY <1>1, <1>2, <2>1, <2>5 DEF Small, Fold
  <2>8. h \in [Small(n) -> V]
    BY <2>4
  <2> HIDE DEF h
  <2>9. Fold(n, h)
    BY <2>6, <2>7 DEF Fold
  <2>10. \E x \in [Small(n) -> V] : Fold(n, x)
    BY <2>8, <2>9, Zenon
  <2> QED BY <1>9, <2>0, <2>10
<1>5. N \in Reached
  <2>1. \A n \in 1 .. N : n - 1 \in Reached => n \in Reached
    BY <1>4
  <2>2. N \in Nat
    BY <1>1
  <2>3. \A n \in 0 .. N : n \in Reached
    BY <1>3, <2>1, <2>2, UpTo
  <2> QED BY <2>2, <2>3
<1>6. Small(N) = SUBSET D
  BY <1>1 DEF Small
<1>7. PICK g \in [SUBSET D -> V] : Fold(N, g)
  <2>1. N \in 0 .. N
    BY <1>1
  <2>2. \E g \in [Small(N) -> V] : Fold(N, g)
    BY <1>5, <1>9, <2>1
  <2> QED BY <1>6, <2>2, Zenon
<1>8. IsFold(g, D, b, T, ch)
  BY <1>6, <1>7 DEF Fold, IsFold
<1> QED BY <1>8, Zenon

\* What has been read of a sequence is an interval, and its last position is its greatest.
LEMMA PrefixMax ==
  ASSUME NEW N \in Nat
  PROVE  /\ \A s \in SUBSET (1 .. N) : s # {} => Max(s) \in s
         /\ \A i \in 1 .. N : Max(1 .. i) = i /\ (1 .. i) \ {i} = 1 .. (i - 1) /\ 1 .. i # {}
         /\ 1 .. 0 = {}
<1>1. ASSUME NEW s \in SUBSET (1 .. N), s # {} PROVE \E k \in s : \A j \in s : k >= j
  <2> DEFINE Gaps == {N - k : k \in s}
  <2>1. Gaps \in SUBSET Nat /\ Gaps # {}
    <3>1. \A k \in s : N - k \in Nat
      OBVIOUS
    <3> QED BY <1>1, <3>1
  <2>2. PICK d \in Gaps : \A e \in Gaps : d <= e
    <3> HIDE DEF Gaps
    <3> QED BY <2>1, LeastOf
  <2>3. PICK k \in s : d = N - k
    BY <2>2
  <2>4. \A j \in s : k >= j
    BY <2>2, <2>3
  <2> QED BY <2>4
<1>2. ASSUME NEW i \in 1 .. N PROVE Max(1 .. i) = i
  <2>1. i \in 1 .. i /\ (\A j \in 1 .. i : i >= j) /\ \A k \in 1 .. i : (\A j \in 1 .. i : k >= j) => k = i
    OBVIOUS
  <2> QED BY <2>1 DEF Max
<1>3. ASSUME NEW s \in SUBSET (1 .. N), s # {} PROVE Max(s) \in s
  <2>1. \E k \in s : \A j \in s : k >= j
    BY <1>1, <1>3
  <2> QED BY <2>1, Zenon DEF Max
<1>4. ASSUME NEW i \in 1 .. N PROVE (1 .. i) \ {i} = 1 .. (i - 1) /\ 1 .. i # {}
  <2>1. \A j : j \in (1 .. i) \ {i} <=> j \in 1 .. (i - 1)
    OBVIOUS
  <2>2. i \in 1 .. i
    OBVIOUS
  <2> QED BY <2>1, <2>2
<1>5. 1 .. 0 = {}
  OBVIOUS
<1> QED BY <1>2, <1>3, <1>4, <1>5

IsFoldLeft(g, N, V, b, T) ==
  /\ g[{}] = b
  /\ \A s \in SUBSET (1 .. N) : s # {} => /\ Max(s) \in 1 .. N /\ g[s \ {Max(s)}] \in V
                                          /\ g[s] = T[Max(s)][g[s \ {Max(s)}]]

\* The fold over a prefix of a sequence is a function that some g is.
LEMMA FoldLeftIsDefined ==
  ASSUME NEW N \in Nat, NEW V, NEW b \in V, NEW T \in [1 .. N -> [V -> V]]
  PROVE  \E g \in [SUBSET (1 .. N) -> V] : IsFoldLeft(g, N, V, b, T)
<1> DEFINE D == 1 .. N
           ch == [s \in SUBSET D |-> Max(s)]
<1>1. \A s \in SUBSET D : ch[s] = Max(s)
  OBVIOUS
<1>2. Picks(ch, D)
  BY <1>1, PrefixMax DEF Picks
<1>3. IsFiniteSet(D)
  BY FS_Interval
<1>4. T \in [D -> [V -> V]]
  OBVIOUS
<1>5. \E g \in [SUBSET D -> V] : IsFold(g, D, b, T, ch)
  <2> HIDE DEF D, ch
  <2> QED BY <1>2, <1>3, <1>4, FoldIsDefined
<1>6. PICK g \in [SUBSET D -> V] : IsFold(g, D, b, T, ch)
  BY <1>5
<1> HIDE DEF ch
<1>7. IsFoldLeft(g, N, V, b, T)
  BY <1>1, <1>2, <1>6 DEF IsFold, IsFoldLeft, Picks
<1> QED BY <1>6, <1>7, Zenon

\* A recursion step by step stays where each of its steps stays.
LEMMA TraceStays ==
  ASSUME NEW N \in Nat, NEW V, NEW h, DOMAIN h = 0 .. N, h = [i \in 0 .. N |-> h[i]], h[0] \in V,
         \A i \in 1 .. N : h[i - 1] \in V => h[i] \in V
  PROVE  h \in [0 .. N -> V]
<1> DEFINE S == {i \in 0 .. N : h[i] \in V}
<1>1. 0 \in S /\ \A n \in 1 .. N : n - 1 \in S => n \in S
  OBVIOUS
<1>2. \A n \in 0 .. N : n \in S
  <2> HIDE DEF S
  <2> QED BY <1>1, UpTo
<1> QED BY <1>2

IsTrace(h, N, V, b, T) == /\ h \in [0 .. N -> V] /\ h[0] = b
                          /\ \A i \in 1 .. N : h[i - 1] \in V /\ h[i] = T[i][h[i - 1]]

HasTrace(iter, N, V, b, T) == \E h : IsTrace(h, N, V, b, T) /\ h[N] = iter[1 .. N]

Unrolls(iter, N, V, b, T) ==
  /\ iter[{}] = b
  /\ \A s \in SUBSET (1 .. N) : (s # {} /\ iter[s \ {Max(s)}] \in V)
                                  => iter[s] = T[Max(s)][iter[s \ {Max(s)}]]

\* What a left fold unrolls to is the trace of its steps over the sequence.
LEMMA TraceOf ==
  ASSUME NEW N \in Nat, NEW V, NEW b \in V, NEW T \in [1 .. N -> [V -> V]],
         NEW iter, Unrolls(iter, N, V, b, T)
  PROVE  HasTrace(iter, N, V, b, T)
<1> DEFINE h == [i \in 0 .. N |-> iter[1 .. i]]
<1>1. h[0] = b
  BY PrefixMax DEF Unrolls
<1>2. ASSUME NEW i \in 1 .. N, h[i - 1] \in V PROVE h[i] = T[i][h[i - 1]] /\ h[i] \in V
  <2>1. 1 .. i \in SUBSET (1 .. N) /\ i \in 0 .. N /\ i - 1 \in 0 .. N
    OBVIOUS
  <2>2. 1 .. i # {} /\ Max(1 .. i) = i /\ (1 .. i) \ {i} = 1 .. (i - 1)
    BY PrefixMax
  <2>3. h[i] = iter[1 .. i] /\ h[i - 1] = iter[1 .. (i - 1)]
    BY <2>1
  <2>4. h[i] = T[i][h[i - 1]]
    BY <1>2, <2>1, <2>2, <2>3 DEF Unrolls
  <2> QED BY <1>2, <2>4
<1>3. h = [i \in 0 .. N |-> h[i]] /\ DOMAIN h = 0 .. N /\ h[N] = iter[1 .. N]
  OBVIOUS
<1> HIDE DEF h
<1>4. \A i \in 1 .. N : h[i - 1] \in V => h[i] \in V
  BY <1>2
<1>5. h \in [0 .. N -> V]
  BY <1>1, <1>3, <1>4, TraceStays
<1>6. \A i \in 1 .. N : h[i - 1] \in V
  <2> TAKE i \in 1 .. N
  <2>1. i - 1 \in 0 .. N
    OBVIOUS
  <2> QED BY <1>5, <2>1
<1>7. IsTrace(h, N, V, b, T)
  BY <1>1, <1>2, <1>5, <1>6 DEF IsTrace
<1>8. \E x : IsTrace(x, N, V, b, T) /\ x[N] = iter[1 .. N]
  BY <1>3, <1>7, Zenon
<1> QED BY <1>8 DEF HasTrace

\* before[x] is the set of what comes before x.
StrictlyOrders(before, S) ==
  /\ \A x \in S : x \notin before[x]
  /\ \A x, y \in S : x # y => x \in before[y] \/ y \in before[x]
  /\ \A x, y \in S : y \in before[x] => before[y] \subseteq before[x]

IsSortedBy(s, before, S) ==
  /\ s \in [1 .. Cardinality(S) -> S]
  /\ \A m, n \in DOMAIN s : s[m] = s[n] => m = n
  /\ \A x \in S : \E n \in DOMAIN s : s[n] = x
  /\ \A m, n \in DOMAIN s : s[m] \in before[s[n]] => m < n

\* Each place of s holds an element with as many before it, if there is one.
Placed(s, before, S) ==
  /\ s = [n \in 1 .. Cardinality(S) |-> s[n]]
  /\ \A n \in 1 .. Cardinality(S) :
       (\E x \in S : Cardinality(before[x]) = n - 1) => s[n] \in S /\ Cardinality(before[s[n]]) = n - 1

\* Placing by the number of elements before it sorts.
LEMMA Sorting ==
  ASSUME NEW S, IsFiniteSet(S), NEW before \in [S -> SUBSET S], StrictlyOrders(before, S),
         NEW s, Placed(s, before, S)
  PROVE  IsSortedBy(s, before, S)
<1> DEFINE N == Cardinality(S)
           place == [x \in S |-> Cardinality(before[x]) + 1]
<1>1. N \in Nat /\ \A x \in S : IsFiniteSet(before[x]) /\ Cardinality(before[x]) \in Nat
  BY FS_Subset, FS_CardinalityType
<1>2. ASSUME NEW x \in S PROVE Cardinality(before[x]) < N
  <2>1. before[x] \subseteq S \ {x}
    BY DEF StrictlyOrders
  <2>2. IsFiniteSet(S \ {x}) /\ Cardinality(S \ {x}) = N - 1
    BY FS_RemoveElement
  <2>3. Cardinality(before[x]) <= Cardinality(S \ {x})
    BY <2>1, <2>2, FS_Subset
  <2> QED BY <1>1, <2>2, <2>3
<1>3. ASSUME NEW x \in S, NEW y \in S, y \in before[x]
      PROVE  Cardinality(before[y]) < Cardinality(before[x])
  <2>1. before[y] \subseteq before[x] /\ y \notin before[y]
    BY <1>3 DEF StrictlyOrders
  <2>2. Cardinality(before[y]) <= Cardinality(before[x]) /\ (Cardinality(before[y]) = Cardinality(before[x]) => before[y] = before[x])
    BY <1>1, <2>1, FS_Subset
  <2> QED BY <1>1, <1>3, <2>1, <2>2
<1>4. ASSUME NEW x \in S, NEW y \in S, Cardinality(before[x]) = Cardinality(before[y]) PROVE x = y
  <2>1. x \notin before[y] /\ y \notin before[x]
    BY <1>1, <1>3, <1>4
  <2> QED BY <2>1 DEF StrictlyOrders
<1>5. place \in [S -> 1 .. N] /\ \A x, y \in S : place[x] = place[y] => x = y
  <2>1. \A x \in S : Cardinality(before[x]) + 1 \in 1 .. N
    BY <1>1, <1>2
  <2> QED BY <1>1, <1>4, <2>1
<1>6. \A i \in 1 .. N : \E x \in S : place[x] = i
  <2> HIDE DEF place
  <2>2. IsFiniteSet(1 .. N) /\ Cardinality(1 .. N) = N
    BY <1>1, FS_Interval
  <2>3. place \in Injection(S, 1 .. N)
    BY <1>5 DEF Injection, IsInjective
  <2>4. place \in Surjection(S, 1 .. N)
    BY <2>2, <2>3, FS_Injection
  <2> QED BY <2>4 DEF Surjection
<1>7. ASSUME NEW n \in 1 .. N PROVE s[n] \in S /\ Cardinality(before[s[n]]) = n - 1
  <2>1. PICK x \in S : place[x] = n
    BY <1>6
  <2>2. Cardinality(before[x]) = n - 1
    BY <1>1, <2>1
  <2> QED BY <2>2 DEF Placed
<1>8. s \in [1 .. N -> S] /\ DOMAIN s = 1 .. N
  <2>1. s = [n \in 1 .. N |-> s[n]]
    BY DEF Placed
  <2> QED BY <1>7, <2>1
<1>9. \A m, n \in 1 .. N : s[m] = s[n] => m = n
  BY <1>7
<1>10. ASSUME NEW x \in S PROVE \E n \in 1 .. N : s[n] = x
  <2>1. place[x] \in 1 .. N /\ Cardinality(before[x]) = place[x] - 1
    BY <1>1, <1>5
  <2>2. s[place[x]] = x
    BY <1>4, <1>7, <2>1
  <2> QED BY <2>1, <2>2
<1>11. \A m, n \in 1 .. N : s[m] \in before[s[n]] => m < n
  BY <1>3, <1>7
<1> QED BY <1>8, <1>9, <1>10, <1>11 DEF IsSortedBy

----------------------------------------------------------------------------
(* FlattenSeq: everything of every sequence, in order.                      *)
\* What a concatenation holds, and where.
LEMMA ConcatOf ==
  ASSUME NEW E, NEW s \in Seq(E), NEW t \in Seq(E)
  PROVE  /\ s \o t \in Seq(E) /\ Len(s \o t) = Len(s) + Len(t)
         /\ \A i \in 1 .. Len(s) : (s \o t)[i] = s[i]
         /\ \A i \in 1 .. Len(t) : (s \o t)[Len(s) + i] = t[i]
         /\ Range(s \o t) = Range(s) \cup Range(t)
<1>1. /\ s \o t \in Seq(E) /\ Len(s \o t) = Len(s) + Len(t)
      /\ \A i \in 1 .. Len(s) : (s \o t)[i] = s[i]
      /\ \A i \in 1 .. Len(t) : (s \o t)[Len(s) + i] = t[i]
  OBVIOUS
<1>2. Range(s \o t) = Range(s) \cup Range(t)
  <2>1. DOMAIN s = 1 .. Len(s) /\ DOMAIN t = 1 .. Len(t) /\ DOMAIN (s \o t) = 1 .. Len(s \o t) /\ Len(s) \in Nat /\ Len(t) \in Nat
    OBVIOUS
  <2>2. \A i \in 1 .. Len(s) + Len(t) : i \in 1 .. Len(s) \/ \E j \in 1 .. Len(t) : i = Len(s) + j
    <3>1. \A i \in 1 .. Len(s) + Len(t) : i \notin 1 .. Len(s) => i - Len(s) \in 1 .. Len(t) /\ i = Len(s) + (i - Len(s))
      BY <2>1
    <3> QED BY <3>1
  <2>3. \A e : e \in Range(s \o t) => e \in Range(s) \cup Range(t)
    <3> SUFFICES ASSUME NEW i \in 1 .. Len(s) + Len(t) PROVE (s \o t)[i] \in Range(s) \cup Range(t)
      BY <1>1, <2>1 DEF Range
    <3> QED BY <1>1, <2>1, <2>2 DEF Range
  <2>4. \A i \in 1 .. Len(s) : i \in DOMAIN (s \o t)
    BY <1>1, <2>1
  <2>5. \A i \in 1 .. Len(t) : Len(s) + i \in DOMAIN (s \o t)
    BY <1>1, <2>1
  <2>6. \A e \in Range(s) : e \in Range(s \o t)
    BY <1>1, <2>1, <2>4 DEF Range
  <2>7. \A e \in Range(t) : e \in Range(s \o t)
    BY <1>1, <2>1, <2>5 DEF Range
  <2> QED BY <2>3, <2>6, <2>7
<1> QED BY <1>1, <1>2

Flattened(g, seqs) ==
  /\ g[1] = seqs[1]
  /\ \A i \in 2 .. Len(seqs) : g[i] = g[i - 1] \o seqs[i]

\* The flattening is the last of a list of partial concatenations.
LEMMA FlattenIsDefined ==
  ASSUME NEW E, NEW seqs \in Seq(Seq(E)), Len(seqs) # 0
  PROVE  \E g \in [1 .. Len(seqs) -> Seq(E)] : Flattened(g, seqs) /\ FlattenSeq(seqs) = g[Len(seqs)]
<1> DEFINE N == Len(seqs)
           T == [i \in 1 .. N |-> [v \in Seq(E) |-> IF i = 1 THEN seqs[1] ELSE v \o seqs[i]]]
           It == CHOOSE flatten : flatten = [i \in 1 .. Len(seqs) |->
                     IF i = 1 THEN seqs[i] ELSE flatten[i - 1] \o seqs[i]]
<1>1. N \in Nat \ {0} /\ \A i \in 1 .. N : seqs[i] \in Seq(E)
  OBVIOUS
<1>2. T \in [1 .. N -> [Seq(E) -> Seq(E)]] /\ <<>> \in Seq(E)
  <2>1. \A i \in 1 .. N : \A v \in Seq(E) : v \o seqs[i] \in Seq(E)
    BY <1>1, ConcatOf
  <2> QED BY <1>1, <2>1
<1>3. PICK f \in [SUBSET (1 .. N) -> Seq(E)] : IsFoldLeft(f, N, Seq(E), <<>>, T)
  <2> HIDE DEF T, N
  <2> QED BY <1>1, <1>2, FoldLeftIsDefined, Zenon
<1> DEFINE g == [i \in 1 .. N |-> f[1 .. i]]
<1>4. g \in [1 .. N -> Seq(E)] /\ \A i \in 1 .. N : g[i] = f[1 .. i]
  <2>1. \A i \in 1 .. N : 1 .. i \in SUBSET (1 .. N)
    BY <1>1
  <2>2. \A i \in 1 .. N : f[1 .. i] \in Seq(E)
    BY <1>3, <2>1
  <2> HIDE DEF T, N
  <2> QED BY <2>2
<1>5. ASSUME NEW i \in 1 .. N PROVE f[1 .. i] = T[i][f[1 .. (i - 1)]] /\ f[1 .. (i - 1)] \in Seq(E)
  <2>1. 1 .. i \in SUBSET (1 .. N) /\ 1 .. i # {} /\ Max(1 .. i) = i /\ (1 .. i) \ {i} = 1 .. (i - 1)
    <3>1. 1 .. i \in SUBSET (1 .. N)
      BY <1>1
    <3> HIDE DEF N, T, It, g
    <3> QED BY <1>1, <3>1, PrefixMax
  <2> HIDE DEF T, N
  <2> QED BY <1>3, <2>1 DEF IsFoldLeft
<1>6. \A i \in 1 .. N : g[i] = IF i = 1 THEN seqs[i] ELSE g[i - 1] \o seqs[i]
  <2> SUFFICES ASSUME NEW i \in 1 .. N PROVE f[1 .. i] = IF i = 1 THEN seqs[i] ELSE g[i - 1] \o seqs[i]
    BY <1>4
  <2>1. T[i][f[1 .. (i - 1)]] = IF i = 1 THEN seqs[1] ELSE f[1 .. (i - 1)] \o seqs[i]
    BY <1>5
  <2>2. i # 1 => i - 1 \in 1 .. N
    BY <1>1
  <2> HIDE DEF T, N, g
  <2> QED BY <1>4, <1>5, <2>1, <2>2
<1> HIDE DEF T, g
<1>7. g = [i \in 1 .. Len(seqs) |-> IF i = 1 THEN seqs[i] ELSE g[i - 1] \o seqs[i]]
  BY <1>4, <1>6
<1>8. It = [i \in 1 .. Len(seqs) |-> IF i = 1 THEN seqs[i] ELSE It[i - 1] \o seqs[i]]
  BY <1>7, Zenon
<1>9. FlattenSeq(seqs) = It[Len(seqs)]
  BY DEF FlattenSeq
<1> HIDE DEF It
<1>10. DOMAIN It = 1 .. N /\ Flattened(It, seqs)
  <2>1. 1 \in 1 .. N /\ \A i \in 2 .. Len(seqs) : i \in 1 .. N /\ i # 1
    BY <1>1
  <2> QED BY <1>8, <2>1 DEF Flattened
<1>11. It \in [1 .. N -> Seq(E)]
  <2> DEFINE S == {0} \cup {i \in 1 .. N : It[i] \in Seq(E)}
  <2>1. \A n \in 1 .. N : n - 1 \in S => n \in S
    <3> SUFFICES ASSUME NEW n \in 1 .. N, n - 1 \in S PROVE It[n] \in Seq(E)
      OBVIOUS
    <3>1. CASE n = 1
      BY <1>1, <1>10, <3>1 DEF Flattened
    <3>2. CASE n # 1
      <4>0. n \in 2 .. Len(seqs) /\ n - 1 \in 1 .. N
        BY <1>1, <3>2
      <4>1. It[n - 1] \in Seq(E)
        BY <3>2, <4>0
      <4>2. It[n] = It[n - 1] \o seqs[n]
        BY <1>10, <4>0, Zenon DEF Flattened
      <4> QED BY <1>1, <4>1, <4>2, ConcatOf
    <3> QED BY <3>1, <3>2
  <2>2. 0 \in S
    OBVIOUS
  <2> HIDE DEF S
  <2>3. \A n \in 0 .. N : n \in S
    BY <1>1, <2>1, <2>2, UpTo
  <2>4. \A n \in 1 .. N : It[n] \in Seq(E)
    BY <2>3 DEF S
  <2> QED BY <1>8, <2>4
<1> QED BY <1>9, <1>10, <1>11, Zenon

\* Two sequences without repeats and without a common element have none together.
LEMMA InjectiveConcat ==
  ASSUME NEW E, NEW s \in Seq(E), NEW t \in Seq(E), IsInjective(s), IsInjective(t),
         Range(s) \cap Range(t) = {}
  PROVE  IsInjective(s \o t)
<1>1. /\ DOMAIN s = 1 .. Len(s) /\ DOMAIN t = 1 .. Len(t) /\ DOMAIN (s \o t) = 1 .. Len(s) + Len(t)
      /\ Len(s) \in Nat /\ Len(t) \in Nat
  OBVIOUS
<1>2. /\ \A i \in 1 .. Len(s) : (s \o t)[i] = s[i] /\ s[i] \in Range(s)
      /\ \A i \in 1 .. Len(t) : (s \o t)[Len(s) + i] = t[i] /\ t[i] \in Range(t)
  <2>1. \A i \in 1 .. Len(s) : s[i] \in Range(s)
    BY <1>1 DEF Range
  <2>2. \A i \in 1 .. Len(t) : t[i] \in Range(t)
    BY <1>1 DEF Range
  <2> QED BY <2>1, <2>2, ConcatOf
<1>3. \A i \in 1 .. Len(s) + Len(t) : i \in 1 .. Len(s) \/ (i - Len(s) \in 1 .. Len(t) /\ i = Len(s) + (i - Len(s)))
  BY <1>1
<1> DEFINE u == s \o t
<1> HIDE DEF u
<1> SUFFICES ASSUME NEW i \in 1 .. Len(s) + Len(t), NEW j \in 1 .. Len(s) + Len(t), u[i] = u[j] PROVE i = j
  BY <1>1 DEF IsInjective, u
<1>4. CASE i \in 1 .. Len(s) /\ j \in 1 .. Len(s)
  BY <1>1, <1>2, <1>4 DEF IsInjective, u
<1>5. CASE i \in 1 .. Len(s) /\ j \notin 1 .. Len(s)
  <2>1. u[i] \in Range(s) /\ u[j] \in Range(t)
    BY <1>2, <1>3, <1>5 DEF u
  <2> QED BY <2>1
<1>6. CASE i \notin 1 .. Len(s) /\ j \in 1 .. Len(s)
  <2>1. u[i] \in Range(t) /\ u[j] \in Range(s)
    BY <1>2, <1>3, <1>6 DEF u
  <2> QED BY <2>1
<1>7. CASE i \notin 1 .. Len(s) /\ j \notin 1 .. Len(s)
  <2>1. u[i] = t[i - Len(s)] /\ u[j] = t[j - Len(s)] /\ i - Len(s) \in DOMAIN t /\ j - Len(s) \in DOMAIN t
    BY <1>1, <1>2, <1>3, <1>7 DEF u
  <2>2. i - Len(s) = j - Len(s)
    BY <2>1 DEF IsInjective
  <2> QED BY <1>1, <2>2
<1> QED BY <1>4, <1>5, <1>6, <1>7

\* The flattening has the elements of its sequences, and repeats none if they share none.
LEMMA FlattenHas ==
  ASSUME NEW E, NEW seqs \in Seq(Seq(E))
  PROVE  /\ FlattenSeq(seqs) \in Seq(E)
         /\ \A e : e \in Range(FlattenSeq(seqs)) <=> \E i \in 1 .. Len(seqs) : e \in Range(seqs[i])
         /\ (/\ \A i \in 1 .. Len(seqs) : IsInjective(seqs[i])
             /\ \A i, j \in 1 .. Len(seqs) : i # j => Range(seqs[i]) \cap Range(seqs[j]) = {})
            => IsInjective(FlattenSeq(seqs))
<1>1. CASE Len(seqs) = 0
  <2>1. FlattenSeq(seqs) = <<>>
    BY <1>1 DEF FlattenSeq
  <2>2. Range(<<>>) = {} /\ IsInjective(<<>>)
    BY DEF Range, IsInjective
  <2> QED BY <1>1, <2>1, <2>2
<1>2. CASE Len(seqs) # 0
  <2> DEFINE N == Len(seqs)
             Apart == /\ \A i \in 1 .. N : IsInjective(seqs[i])
                      /\ \A i, j \in 1 .. N : i # j => Range(seqs[i]) \cap Range(seqs[j]) = {}
  <2>1. PICK g \in [1 .. N -> Seq(E)] : Flattened(g, seqs) /\ FlattenSeq(seqs) = g[N]
    BY <1>2, FlattenIsDefined
  <2>2. N \in Nat \ {0} /\ \A i \in 1 .. N : seqs[i] \in Seq(E)
    BY <1>2
  <2> DEFINE Has(n) == /\ \A e : e \in Range(g[n]) <=> \E i \in 1 .. n : e \in Range(seqs[i])
                       /\ Apart => IsInjective(g[n])
             S == {0} \cup {n \in 1 .. N : Has(n)}
  <2>3. ASSUME NEW n \in 1 .. N, n - 1 \in S PROVE n \in S
    <3>1. CASE n = 1
      <4>1. g[n] = seqs[1] /\ \A i \in 1 .. n : i = 1
        BY <2>1, <3>1 DEF Flattened
      <4>2. Has(n)
        BY <2>2, <3>1, <4>1
      <4> QED BY <4>2
    <3>2. CASE n # 1
      <4>1. n \in 2 .. N /\ n - 1 \in 1 .. N
        BY <2>2, <3>2
      <4>2. Has(n - 1)
        <5> HIDE DEF Has, N
        <5>1. n - 1 # 0 /\ n - 1 \in S
          BY <2>3, <4>1
        <5> QED BY <5>1
      <4> HIDE DEF S
      <4>3. g[n] = g[n - 1] \o seqs[n] /\ g[n - 1] \in Seq(E) /\ seqs[n] \in Seq(E)
        BY <2>1, <2>2, <4>1 DEF Flattened
      <4>4. Range(g[n]) = Range(g[n - 1]) \cup Range(seqs[n])
        BY <4>3, ConcatOf
      <4>5. \A i : i \in 1 .. n <=> i \in 1 .. (n - 1) \/ i = n
        BY <4>1
      <4>6. \A e : e \in Range(g[n]) <=> \E i \in 1 .. n : e \in Range(seqs[i])
        BY <4>2, <4>4, <4>5
      <4>7. Apart => IsInjective(g[n])
        <5> SUFFICES ASSUME Apart PROVE IsInjective(g[n])
          OBVIOUS
        <5>1. \A i \in 1 .. (n - 1) : i \in 1 .. N /\ i # n
          BY <4>1
        <5>2. Range(g[n - 1]) \cap Range(seqs[n]) = {}
          BY <4>2, <5>1
        <5>3. IsInjective(g[n - 1]) /\ IsInjective(seqs[n])
          BY <4>2
        <5> QED BY <4>3, <5>2, <5>3, InjectiveConcat
      <4> QED BY <4>6, <4>7 DEF S
    <3> QED BY <3>1, <3>2
  <2>4. 0 \in S
    OBVIOUS
  <2>5. N \in S
    <3> HIDE DEF S, N
    <3>1. N \in Nat
      BY <2>2
    <3>2. \A n \in 1 .. N : n - 1 \in S => n \in S
      BY <2>3
    <3>3. \A n \in 0 .. N : n \in S
      BY <2>4, <3>1, <3>2, UpTo
    <3> QED BY <3>1, <3>3
  <2>6. Has(N)
    BY <2>2, <2>5
  <2>7. g[N] \in Seq(E)
    BY <2>2
  <2> QED BY <2>1, <2>6, <2>7
<1> QED BY <1>1, <1>2

Pick(s) == CHOOSE x \in s : TRUE
IsSum(f, U, w) == /\ f[{}] = 0
                  /\ \A s \in SUBSET U : s # {} => f[s] = w[Pick(s)] + f[s \ {Pick(s)}]

\* The element a sum takes next is one of the set.
LEMMA PickIs == \A s : s # {} => Pick(s) \in s
BY DEF Pick

\* Induction over the sizes of the subsets of a finite set.
LEMMA BySize ==
  ASSUME NEW U, IsFiniteSet(U), NEW Good, {} \in Good,
         \A s \in SUBSET U : (s # {} /\ \A x \in s : s \ {x} \in Good) => s \in Good
  PROVE  SUBSET U \subseteq Good
<1> DEFINE N == Cardinality(U)
           S == {n \in 0 .. N : \A s \in SUBSET U : Cardinality(s) = n => s \in Good}
<1>1. N \in Nat /\ \A s \in SUBSET U : IsFiniteSet(s) /\ Cardinality(s) \in 0 .. N
  BY FS_Subset, FS_CardinalityType
<1>2. 0 \in S
  BY <1>1, FS_EmptySet
<1>3. ASSUME NEW n \in 1 .. N, n - 1 \in S PROVE n \in S
  <2> SUFFICES ASSUME NEW s \in SUBSET U, Cardinality(s) = n PROVE s \in Good
    BY <1>1
  <2>1. s # {}
    BY <1>1, FS_EmptySet
  <2>2. ASSUME NEW x \in s PROVE s \ {x} \in Good
    <3>1. s \ {x} \in SUBSET U /\ Cardinality(s \ {x}) = n - 1
      BY <1>1, FS_RemoveElement
    <3> QED BY <1>3, <3>1
  <2> QED BY <2>1, <2>2
<1>4. \A n \in 0 .. N : n \in S
  <2> HIDE DEF S, N
  <2>1. \A n \in 1 .. N : n - 1 \in S => n \in S
    BY <1>3
  <2> QED BY <1>1, <1>2, <2>1, UpTo
<1> QED BY <1>1, <1>4

\* Whatever element is taken first, a sum is that element and the sum of the rest.
LEMMA SumTakesAny ==
  ASSUME NEW U, IsFiniteSet(U), NEW w \in [U -> Nat], NEW f, IsSum(f, U, w)
  PROVE  \A s \in SUBSET U : f[s] \in Nat /\ \A x \in s : f[s] = w[x] + f[s \ {x}]
<1> DEFINE Typed == {s \in SUBSET U : f[s] \in Nat}
           Good == {s \in SUBSET U : \A x \in s : f[s] = w[x] + f[s \ {x}]}
<1>0. ASSUME NEW s \in SUBSET U, s # {} PROVE Pick(s) \in s /\ f[s] = w[Pick(s)] + f[s \ {Pick(s)}]
  BY <1>0, PickIs DEF IsSum
<1>1. {} \in Good /\ {} \in Typed
  BY DEF IsSum
<1>2. SUBSET U \subseteq Typed
  <2>1. ASSUME NEW s \in SUBSET U, s # {}, \A x \in s : s \ {x} \in Typed PROVE s \in Typed
    <3>1. w[Pick(s)] \in Nat /\ f[s \ {Pick(s)}] \in Nat
      BY <1>0, <2>1
    <3>2. f[s] = w[Pick(s)] + f[s \ {Pick(s)}]
      BY <1>0, <2>1
    <3>3. f[s] \in Nat
      BY <3>1, <3>2
    <3> QED BY <3>3
  <2> HIDE DEF Typed
  <2> QED BY <1>1, <2>1, BySize
<1>3. ASSUME NEW s \in SUBSET U, s # {}, \A x \in s : s \ {x} \in Good PROVE s \in Good
  <2> SUFFICES ASSUME NEW x \in s PROVE f[s] = w[x] + f[s \ {x}]
    OBVIOUS
  <2> DEFINE p == Pick(s)
             rest == s \ {p, x}
  <2>1. p \in s /\ f[s] = w[p] + f[s \ {p}]
    BY <1>0, <1>3
  <2>2. CASE x = p
    BY <2>1, <2>2
  <2>3. CASE x # p
    <3>1. x \in s \ {p} /\ p \in s \ {x} /\ (s \ {p}) \ {x} = rest /\ (s \ {x}) \ {p} = rest
      BY <2>1, <2>3
    <3>2. f[s \ {p}] = w[x] + f[rest]
      BY <1>3, <2>1, <3>1
    <3>3. f[s \ {x}] = w[p] + f[rest]
      BY <1>3, <3>1
    <3>4. w[x] \in Nat /\ w[p] \in Nat /\ f[rest] \in Nat
      BY <1>2, <2>1
    <3> HIDE DEF p, rest
    <3> QED BY <2>1, <3>2, <3>3, <3>4
  <2> QED BY <2>2, <2>3
<1>4. SUBSET U \subseteq Good
  <2> HIDE DEF Good
  <2> QED BY <1>1, <1>3, BySize
<1> QED BY <1>2, <1>4

\* Two sums with the same weights agree.
LEMMA SumsAgree ==
  ASSUME NEW U, IsFiniteSet(U), NEW w \in [U -> Nat], NEW f, IsSum(f, U, w),
         NEW A \in SUBSET U, NEW g, IsSum(g, A, w)
  PROVE  \A s \in SUBSET A : f[s] = g[s]
<1> DEFINE Good == {s \in SUBSET A : f[s] = g[s]}
<1>1. IsFiniteSet(A)
  BY FS_Subset
<1>2. {} \in Good
  BY DEF IsSum
<1>3. ASSUME NEW s \in SUBSET A, s # {}, \A x \in s : s \ {x} \in Good PROVE s \in Good
  <2>1. Pick(s) \in s
    BY <1>3, PickIs
  <2>2. f[s] = w[Pick(s)] + f[s \ {Pick(s)}] /\ g[s] = w[Pick(s)] + g[s \ {Pick(s)}]
    <3>1. s \in SUBSET U
      OBVIOUS
    <3> QED BY <1>3, <3>1 DEF IsSum
  <2>3. f[s \ {Pick(s)}] = g[s \ {Pick(s)}]
    BY <1>3, <2>1
  <2>4. f[s] = g[s]
    BY <2>2, <2>3
  <2> QED BY <2>4
<1>4. SUBSET A \subseteq Good
  <2> HIDE DEF Good
  <2> QED BY <1>1, <1>2, <1>3, BySize
<1> QED BY <1>4

\* A set that injects into another with weights at least as large weighs no more.
LEMMA SumsCompare ==
  ASSUME NEW U, IsFiniteSet(U), NEW w \in [U -> Nat], NEW f, IsSum(f, U, w),
         NEW A \in SUBSET U, NEW B \in SUBSET U, NEW phi \in [A -> B],
         \A x, y \in A : phi[x] = phi[y] => x = y, \A x \in A : w[x] <= w[phi[x]]
  PROVE  f[A] <= f[B]
<1> DEFINE Image(s) == {phi[x] : x \in s}
           Good == {s \in SUBSET A : f[s] <= f[Image(s)]}
           Rest == {t \in SUBSET B : f[B \ t] <= f[B]}
<1>1. IsFiniteSet(A) /\ IsFiniteSet(B)
  BY FS_Subset
<1>2. \A s \in SUBSET U : f[s] \in Nat /\ \A x \in s : f[s] = w[x] + f[s \ {x}]
  BY SumTakesAny
<1>3. {} \in Good
  <2>1. Image({}) = {} /\ f[{}] \in Nat
    BY <1>2
  <2> QED BY <2>1
<1>4. ASSUME NEW s \in SUBSET A, s # {}, \A x \in s : s \ {x} \in Good PROVE s \in Good
  <2>1. PICK x \in s : TRUE
    BY <1>4
  <2>2. Image(s) \in SUBSET U /\ phi[x] \in Image(s) /\ Image(s) \ {phi[x]} = Image(s \ {x})
    OBVIOUS
  <2>3. f[s \ {x}] <= f[Image(s \ {x})]
    BY <1>4, <2>1
  <2>4. f[s] = w[x] + f[s \ {x}] /\ f[Image(s)] = w[phi[x]] + f[Image(s \ {x})]
    <3>1. s \in SUBSET U
      OBVIOUS
    <3> HIDE DEF Image
    <3> QED BY <1>2, <2>1, <2>2, <3>1
  <2>5. f[s \ {x}] \in Nat /\ f[Image(s \ {x})] \in Nat /\ w[x] \in Nat /\ w[phi[x]] \in Nat /\ w[x] <= w[phi[x]]
    <3>1. s \ {x} \in SUBSET U /\ Image(s \ {x}) \in SUBSET U /\ x \in A /\ phi[x] \in U
      OBVIOUS
    <3> HIDE DEF Image
    <3> QED BY <1>2, <3>1
  <2>6. f[s] <= f[Image(s)]
    <3> HIDE DEF Image
    <3> QED BY <2>3, <2>4, <2>5
  <2> QED BY <2>6
<1>5. SUBSET A \subseteq Good
  <2> HIDE DEF Good
  <2> QED BY <1>1, <1>3, <1>4, BySize
<1>6. \A t \in SUBSET B : f[B \ t] <= f[B]
  <2>1. {} \in Rest
    <3>1. B \ {} = B /\ f[B] \in Nat
      BY <1>2
    <3> QED BY <3>1
  <2>2. ASSUME NEW t \in SUBSET B, t # {}, \A x \in t : t \ {x} \in Rest PROVE t \in Rest
    <3>1. PICK x \in t : TRUE
      BY <2>2
    <3>2. x \in B \ (t \ {x}) /\ (B \ (t \ {x})) \ {x} = B \ t /\ B \ (t \ {x}) \in SUBSET U
      BY <3>1
    <3>3. f[B \ (t \ {x})] = w[x] + f[B \ t]
      BY <1>2, <3>2
    <3>4. f[B \ (t \ {x})] <= f[B]
      BY <2>2, <3>1
    <3>5. w[x] \in Nat /\ f[B \ t] \in Nat /\ f[B] \in Nat
      <4>1. B \ t \in SUBSET U /\ x \in U
        BY <3>1
      <4> QED BY <1>2, <4>1
    <3>6. f[B \ t] <= f[B]
      BY <3>3, <3>4, <3>5
    <3> QED BY <3>6
  <2>3. SUBSET B \subseteq Rest
    <3> HIDE DEF Rest
    <3> QED BY <1>1, <2>1, <2>2, BySize
  <2> QED BY <2>3
<1>7. f[A] <= f[Image(A)]
  BY <1>5
<1>8. f[Image(A)] <= f[B]
  <2>1. B \ (B \ Image(A)) = Image(A) /\ B \ Image(A) \in SUBSET B
    OBVIOUS
  <2> HIDE DEF Image
  <2> QED BY <1>6, <2>1
<1>9. f[A] \in Nat /\ f[Image(A)] \in Nat /\ f[B] \in Nat
  <2>1. Image(A) \in SUBSET U
    OBVIOUS
  <2> HIDE DEF Image
  <2> QED BY <1>2, <2>1
<1> HIDE DEF Image
<1> QED BY <1>7, <1>8, <1>9
----------------------------------------------------------------------------
(* Scores.                                                                  *)
\* A larger divisor gives no larger quotient.
LEMMA Quotients ==
  ASSUME NEW a \in Nat, NEW b \in Nat \ {0}, NEW c \in Nat \ {0}, b <= c
  PROVE  a \div b \in Nat /\ a \div c \in Nat /\ a \div c <= a \div b
OBVIOUS

\* A lower rank never has the smaller share of the score (reciprocal rank fusion).
LEMMA Shares ==
  ASSUME NEW m \in Nat \ {0}, NEW n \in Nat \ {0}
  PROVE  RankShare(m) \in Nat /\ (m <= n => RankShare(n) <= RankShare(m))
<1>1. RrfK + m \in Nat \ {0} /\ RrfK + n \in Nat \ {0} /\ (m <= n => RrfK + m <= RrfK + n) /\ RankUnit \in Nat
  BY FusionAssumption
<1>2. RankShare(m) \in Nat
  <2>1. RrfK + m <= RrfK + m
    BY <1>1
  <2>2. RankUnit \div (RrfK + m) \in Nat
    BY <1>1, <2>1, Quotients
  <2> QED BY <2>2 DEF RankShare
<1>3. ASSUME m <= n PROVE RankShare(n) <= RankShare(m)
  <2>1. RrfK + m <= RrfK + n
    BY <1>1, <1>3
  <2>2. RankUnit \div (RrfK + n) <= RankUnit \div (RrfK + m)
    BY <1>1, <2>1, Quotients
  <2> QED BY <2>2 DEF RankShare
<1> QED BY <1>2, <1>3

Sums(h, N, numbers) == /\ h \in [0 .. N -> Nat] /\ h[0] = 0
                       /\ \A i \in 1 .. N : h[i] = h[i - 1] + numbers[i]
IsTotal(N, numbers) == \E h : Sums(h, N, numbers) /\ Total(numbers) = h[N]

\* A total is the last of the partial sums.
LEMMA TotalIs ==
  ASSUME NEW N \in Nat, NEW numbers \in [1 .. N -> Nat]
  PROVE  IsTotal(N, numbers)
<1> DEFINE T == [i \in 1 .. N |-> [n \in Nat |-> n + numbers[i]]]
           Iter == CHOOSE iter : iter = [s \in SUBSET DOMAIN numbers |->
                     IF s = {} THEN 0 ELSE iter[s \ {Max(s)}] + numbers[Max(s)]]
<1>1. T \in [1 .. N -> [Nat -> Nat]] /\ 0 \in Nat
  OBVIOUS
<1>2. PICK g \in [SUBSET (1 .. N) -> Nat] : IsFoldLeft(g, N, Nat, 0, T)
  <2> HIDE DEF T
  <2> QED BY <1>1, FoldLeftIsDefined, Zenon
<1>3. g = [s \in SUBSET DOMAIN numbers |-> IF s = {} THEN 0 ELSE g[s \ {Max(s)}] + numbers[Max(s)]]
  BY <1>2 DEF IsFoldLeft
<1>4. Iter = [s \in SUBSET DOMAIN numbers |-> IF s = {} THEN 0 ELSE Iter[s \ {Max(s)}] + numbers[Max(s)]]
  BY <1>3, Zenon
<1>5. Total(numbers) = Iter[1 .. N]
  BY DEF Total, FoldLeft, MapThenFoldSet
<1> HIDE DEF Iter
<1>6. Unrolls(Iter, N, Nat, 0, T)
  BY <1>4, PrefixMax DEF Unrolls
<1>7. HasTrace(Iter, N, Nat, 0, T)
  <2> HIDE DEF T
  <2> QED BY <1>1, <1>6, TraceOf
<1>8. PICK h : IsTrace(h, N, Nat, 0, T) /\ h[N] = Iter[1 .. N]
  BY <1>7 DEF HasTrace
<1>9. Sums(h, N, numbers)
  <2>1. h \in [0 .. N -> Nat] /\ h[0] = 0
    BY <1>8 DEF IsTrace
  <2>2. ASSUME NEW i \in 1 .. N PROVE h[i] = h[i - 1] + numbers[i]
    <3>1. h[i] = T[i][h[i - 1]] /\ h[i - 1] \in Nat
      <4> HIDE DEF T
      <4> QED BY <1>8 DEF IsTrace
    <3> QED BY <3>1
  <2> QED BY <2>1, <2>2 DEF Sums
<1> QED BY <1>5, <1>8, <1>9, Zenon DEF IsTotal

\* Counts add up to a count, no counts to zero.
LEMMA TotalIsNatural ==
  ASSUME NEW N \in Nat, NEW numbers \in [1 .. N -> Nat]
  PROVE  Total(numbers) \in Nat /\ (N = 0 => Total(numbers) = 0)
<1>1. PICK h : Sums(h, N, numbers) /\ Total(numbers) = h[N]
  BY TotalIs DEF IsTotal
<1> QED BY <1>1 DEF Sums

\* One more count adds itself.
LEMMA TotalOfMore ==
  ASSUME NEW N \in Nat, NEW numbers \in [1 .. N -> Nat], NEW more \in [1 .. N + 1 -> Nat],
         \A i \in 1 .. N : more[i] = numbers[i]
  PROVE  Total(more) = Total(numbers) + more[N + 1]
<1>1. PICK h : Sums(h, N, numbers) /\ Total(numbers) = h[N]
  BY TotalIs DEF IsTotal
<1>2. N + 1 \in Nat
  OBVIOUS
<1>3. PICK g : Sums(g, N + 1, more) /\ Total(more) = g[N + 1]
  BY <1>2, TotalIs DEF IsTotal
<1> DEFINE Same == {i \in 0 .. N : g[i] = h[i]}
<1>4. 0 \in Same
  BY <1>1, <1>3 DEF Sums
<1>5. ASSUME NEW n \in 1 .. N, n - 1 \in Same PROVE n \in Same
  <2>1. n \in 1 .. N + 1 /\ n \in 0 .. N
    OBVIOUS
  <2>2. g[n] = g[n - 1] + more[n] /\ h[n] = h[n - 1] + numbers[n]
    BY <1>1, <1>3, <2>1 DEF Sums
  <2> QED BY <1>5, <2>1, <2>2
<1>6. \A n \in 0 .. N : n \in Same
  <2> HIDE DEF Same
  <2> QED BY <1>4, <1>5, UpTo
<1>7. g[N] = h[N]
  BY <1>6
<1>8. g[N + 1] = g[N] + more[N + 1]
  <2>1. N + 1 \in 1 .. N + 1 /\ (N + 1) - 1 = N
    OBVIOUS
  <2> QED BY <1>3, <2>1 DEF Sums
<1> QED BY <1>1, <1>3, <1>7, <1>8

----------------------------------------------------------------------------
(* The order of tuples of numbers.                                          *)
\* Tuples of numbers, as Python compares them, are strictly and totally ordered.
LEMMA TuplesOrder ==
  ASSUME NEW n \in Nat, NEW s \in [1 .. n -> Int], NEW t \in [1 .. n -> Int]
  PROVE  /\ ~ Precedes(s, s)
         /\ s # t => Precedes(s, t) \/ Precedes(t, s)
         /\ \A u \in [1 .. n -> Int] : Precedes(s, t) /\ Precedes(t, u) => Precedes(s, u)
<1>1. ~ Precedes(s, s)
  BY DEF Precedes
<1>2. ASSUME s # t PROVE Precedes(s, t) \/ Precedes(t, s)
  <2> DEFINE Differ == {i \in 1 .. n : s[i] # t[i]}
  <2>1. Differ \in SUBSET Nat /\ Differ # {}
    BY <1>2
  <2>2. PICK k \in Differ : \A j \in Differ : k <= j
    <3> HIDE DEF Differ
    <3> QED BY <2>1, LeastOf
  <2>3. k \in 1 .. n /\ s[k] # t[k] /\ \A j \in 1 .. k - 1 : s[j] = t[j]
    BY <2>2
  <2>4. s[k] < t[k] \/ t[k] < s[k]
    BY <2>3
  <2> QED BY <2>3, <2>4 DEF Precedes
<1>3. ASSUME NEW u \in [1 .. n -> Int], Precedes(s, t), Precedes(t, u) PROVE Precedes(s, u)
  <2>1. PICK i \in 1 .. n : s[i] < t[i] /\ \A j \in 1 .. i - 1 : s[j] = t[j]
    BY <1>3 DEF Precedes
  <2>2. PICK k \in 1 .. n : t[k] < u[k] /\ \A j \in 1 .. k - 1 : t[j] = u[j]
    BY <1>3 DEF Precedes
  <2>3. CASE i <= k
    <3>1. s[i] < u[i] /\ \A j \in 1 .. i - 1 : s[j] = u[j]
      BY <2>1, <2>2, <2>3
    <3> QED BY <3>1 DEF Precedes
  <2>4. CASE k < i
    <3>1. s[k] < u[k] /\ \A j \in 1 .. k - 1 : s[j] = u[j]
      BY <2>1, <2>2, <2>4
    <3> QED BY <3>1 DEF Precedes
  <2> QED BY <2>3, <2>4
<1> QED BY <1>1, <1>2, <1>3

ByKey(key, S) == [x \in S |-> {y \in S : Precedes(key[y], key[x])}]

\* Elements with different keys are strictly ordered by them.
LEMMA KeysOrder ==
  ASSUME NEW n \in Nat, NEW S, NEW key \in [S -> [1 .. n -> Int]],
         \A x, y \in S : key[x] = key[y] => x = y
  PROVE  ByKey(key, S) \in [S -> SUBSET S] /\ StrictlyOrders(ByKey(key, S), S)
<1>1. ByKey(key, S) \in [S -> SUBSET S]
  BY DEF ByKey
<1>2. \A x, y \in S : y \in ByKey(key, S)[x] <=> Precedes(key[y], key[x])
  BY DEF ByKey
<1>3. \A x \in S : ~ Precedes(key[x], key[x])
  BY TuplesOrder
<1>4. ASSUME NEW x \in S, NEW y \in S, x # y PROVE Precedes(key[x], key[y]) \/ Precedes(key[y], key[x])
  <2>1. key[x] # key[y] /\ key[x] \in [1 .. n -> Int] /\ key[y] \in [1 .. n -> Int]
    BY <1>4
  <2> QED BY <2>1, TuplesOrder
<1>5. ASSUME NEW x \in S, NEW y \in S, NEW z \in S, Precedes(key[z], key[y]), Precedes(key[y], key[x])
      PROVE  Precedes(key[z], key[x])
  <2>1. key[x] \in [1 .. n -> Int] /\ key[y] \in [1 .. n -> Int] /\ key[z] \in [1 .. n -> Int]
    OBVIOUS
  <2> QED BY <1>5, <2>1, TuplesOrder
<1> HIDE DEF ByKey
<1> QED BY <1>1, <1>2, <1>3, <1>4, <1>5 DEF StrictlyOrders
\* The values of a function on a finite set.
LEMMA ImageIsFinite ==
  ASSUME NEW S, IsFiniteSet(S), NEW T, NEW f \in [S -> T]
  PROVE  IsFiniteSet({f[x] : x \in S})
<1> DEFINE image == {f[x] : x \in S}
<1>1. f \in Surjection(S, image)
  BY DEF Surjection
<1>2. IsFiniteSet(image)
  <2> HIDE DEF image
  <2> QED BY <1>1, FS_Surjection
<1> QED BY <1>2

CellType == [set : Nat, rank : Nat \ {0}]
ShareOf(U) == [c \in U |-> RankShare(c.rank)]
HasScores(f, U) == IsSum(f, U, ShareOf(U)) /\ \A b : b.cells \in SUBSET U => FusedScore(b) = f[b.cells]

\* The score of a candidate is the sum of the shares of its hits, in any order.
LEMMA ScoresAreSums ==
  ASSUME NEW U \in SUBSET CellType, IsFiniteSet(U)
  PROVE  ShareOf(U) \in [U -> Nat] /\ \E f : HasScores(f, U)
<1> DEFINE w == ShareOf(U)
           T == [c \in U |-> [v \in Nat |-> w[c] + v]]
           ch == [s \in SUBSET U |-> Pick(s)]
<1>1. w \in [U -> Nat]
  <2>1. \A c \in U : c.rank \in Nat \ {0}
    BY DEF CellType
  <2>2. \A c \in U : RankShare(c.rank) \in Nat
    BY <2>1, Shares
  <2> QED BY <2>2 DEF ShareOf
<1> HIDE DEF w
<1>2. T \in [U -> [Nat -> Nat]] /\ 0 \in Nat
  BY <1>1
<1>3. Picks(ch, U) /\ \A s \in SUBSET U : ch[s] = Pick(s)
  BY PickIs DEF Picks
<1>4. PICK f \in [SUBSET U -> Nat] : IsFold(f, U, 0, T, ch)
  <2> HIDE DEF T, ch
  <2> QED BY <1>2, <1>3, FoldIsDefined
<1>5. IsSum(f, U, w)
  <2>1. ASSUME NEW s \in SUBSET U, s # {} PROVE f[s] = w[Pick(s)] + f[s \ {Pick(s)}]
    <3>1. Pick(s) \in s /\ Pick(s) \in U /\ s \ {Pick(s)} \in SUBSET U /\ ch[s] = Pick(s)
      BY <1>3, <2>1, PickIs
    <3>2. f[s] = T[ch[s]][f[s \ {ch[s]}]] /\ f[s \ {Pick(s)}] \in Nat
      BY <1>4, <2>1, <3>1 DEF IsFold
    <3> QED BY <3>1, <3>2
  <2> QED BY <1>4, <2>1 DEF IsFold, IsSum
<1>6. ASSUME NEW b, b.cells \in SUBSET U PROVE FusedScore(b) = f[b.cells]
  <2> DEFINE A == b.cells
             Iter == CHOOSE iter : iter = [s \in SUBSET A |-> IF s = {} THEN 0
                       ELSE RankShare((CHOOSE x \in s : TRUE).rank) + iter[s \ {CHOOSE x \in s : TRUE}]]
             g == [s \in SUBSET A |-> f[s]]
  <2>1. FusedScore(b) = Iter[A]
    BY DEF FusedScore, MapThenSumSet, MapThenFoldSet
  <2>2. A \in SUBSET U
    BY <1>6
  <2> HIDE DEF A
  <2>3. g = [s \in SUBSET A |-> IF s = {} THEN 0
               ELSE RankShare((CHOOSE x \in s : TRUE).rank) + g[s \ {CHOOSE x \in s : TRUE}]]
    <3>1. ASSUME NEW s \in SUBSET A, s # {}
          PROVE  g[s] = RankShare((CHOOSE x \in s : TRUE).rank) + g[s \ {CHOOSE x \in s : TRUE}]
      <4>1. Pick(s) \in s /\ s \in SUBSET U
        BY <2>2, <3>1, PickIs
      <4>2. g[s] = w[Pick(s)] + g[s \ {Pick(s)}]
        BY <1>5, <3>1, <4>1 DEF IsSum
      <4>3. w[Pick(s)] = RankShare(Pick(s).rank)
        BY <4>1 DEF w, ShareOf
      <4> QED BY <4>2, <4>3 DEF Pick
    <3>2. g[{}] = 0
      BY <1>5 DEF IsSum
    <3> QED BY <3>1, <3>2
  <2> HIDE DEF g
  <2>4. Iter = [s \in SUBSET A |-> IF s = {} THEN 0
               ELSE RankShare((CHOOSE x \in s : TRUE).rank) + Iter[s \ {CHOOSE x \in s : TRUE}]]
    BY <2>3, Zenon
  <2> HIDE DEF Iter
  <2>5. IsSum(Iter, A, w)
    <3>1. ASSUME NEW s \in SUBSET A, s # {} PROVE Iter[s] = w[Pick(s)] + Iter[s \ {Pick(s)}]
      <4>1. Pick(s) \in s /\ s \in SUBSET U
        BY <2>2, <3>1, PickIs
      <4>3. w[Pick(s)] = RankShare(Pick(s).rank)
        BY <4>1 DEF w, ShareOf
      <4> QED BY <2>4, <3>1, <4>3 DEF Pick
    <3>2. Iter[{}] = 0
      BY <2>4
    <3> QED BY <3>1, <3>2 DEF IsSum
  <2>6. \A s \in SUBSET A : f[s] = Iter[s]
    BY <1>1, <1>5, <2>2, <2>5, SumsAgree
  <2>7. f[A] = Iter[A]
    BY <2>6
  <2> QED BY <2>1, <2>7 DEF A
<1>7. HasScores(f, U)
  BY <1>5, <1>6 DEF HasScores, w
<1> QED BY <1>1, <1>7 DEF w
----------------------------------------------------------------------------
(* What the searches find, and what is made of it.                          *)
OrNothing(values) == values \cup {Nothing}
ResultType == [chunk : ChunkIds \cup {NoChunk}, file : Files,
               course : OrNothing({FileInfo[f].course : f \in Files}),
               type : OrNothing({FileInfo[f].category : f \in Files}),
               status : OrNothing({"indexed", "failed", "missing"}),
               text : OrNothing(Texts),
               location : OrNothing({TextInfo[t].location : t \in Texts})]
Asked == {"query", "terms"} \cup STRING
FoundType == [method : {"metadata", "keyword", "semantic"}, query : Asked, results : Seq(ResultType)]

\* The cells of a list of found sets, and the identities of their results.
CellsOf(found) == {c \in CellType : c.set \in 1 .. Len(found) /\ c.rank \in 1 .. Len(found[c.set].results)}
IdsOf(found) == {Identity(ResultAt(found, c)) : c \in CellsOf(found)}
IsContent(found, c) == found[c.set].method # "metadata"

\* A content result is a chunk with its text, a metadata result only a file, and a
\* list names nothing twice.
FoundOk(found) ==
  /\ \A c \in CellsOf(found) : IF IsContent(found, c)
                               THEN ResultAt(found, c).chunk \in ChunkIds /\ ResultAt(found, c).text \in Texts
                               ELSE ResultAt(found, c).chunk = NoChunk
  /\ \A c, d \in CellsOf(found) :
       c.set = d.set /\ Identity(ResultAt(found, c)) = Identity(ResultAt(found, d)) => c.rank = d.rank
FoundLists == {found \in Seq(FoundType) : FoundOk(found)}

\* A hit of a search is a result of one of its lists, at a rank of it.
LEMMA CellFacts ==
  ASSUME NEW found \in FoundLists
  PROVE  /\ \A c \in CellsOf(found) : /\ c.set \in 1 .. Len(found)
                                      /\ c.rank \in 1 .. Len(found[c.set].results)
                                      /\ ResultAt(found, c) \in ResultType
                                      /\ found[c.set].method \in {"metadata", "keyword", "semantic"}
                                      /\ c = [set |-> c.set, rank |-> c.rank]
         /\ \A i \in 1 .. Len(found) : \A r \in 1 .. Len(found[i].results) :
              [set |-> i, rank |-> r] \in CellsOf(found)
<1>0. found \in Seq(FoundType)
  BY DEF FoundLists
<1>1. ASSUME NEW c \in CellsOf(found) PROVE ResultAt(found, c) \in ResultType /\ found[c.set].method \in {"metadata", "keyword", "semantic"}
  <2>1. c.set \in 1 .. Len(found) /\ c.rank \in 1 .. Len(found[c.set].results)
    BY DEF CellsOf
  <2>2. found[c.set] \in FoundType
    BY <1>0, <2>1
  <2>3. found[c.set].results \in Seq(ResultType) /\ found[c.set].method \in {"metadata", "keyword", "semantic"}
    BY <2>2 DEF FoundType
  <2> QED BY <2>1, <2>3 DEF ResultAt
<1>2. \A i \in 1 .. Len(found) : \A r \in 1 .. Len(found[i].results) : [set |-> i, rank |-> r] \in CellsOf(found)
  BY <1>0 DEF CellsOf, CellType
<1> QED BY <1>1, <1>2 DEF CellsOf, CellType

\* Cells lists every cell of the found sets, each once.
LEMMA CellsAre ==
  ASSUME NEW found \in FoundLists
  PROVE  /\ Cells(found) \in Seq(CellsOf(found))
         /\ Range(Cells(found)) = CellsOf(found)
         /\ IsInjective(Cells(found))
         /\ IsFiniteSet(CellsOf(found))
<1> DEFINE E == CellsOf(found)
           cells(i) == [r \in DOMAIN found[i].results |-> [set |-> i, rank |-> r]]
           seqs == [i \in DOMAIN found |-> cells(i)]
<1>1. found \in Seq(FoundType) /\ Len(found) \in Nat /\ DOMAIN found = 1 .. Len(found)
  BY DEF FoundLists
<1>2. ASSUME NEW i \in 1 .. Len(found)
      PROVE  /\ Len(found[i].results) \in Nat
             /\ cells(i) = [r \in 1 .. Len(found[i].results) |-> [set |-> i, rank |-> r]]
  <2>1. found[i] \in FoundType
    BY <1>1
  <2>2. found[i].results \in Seq(ResultType)
    BY <2>1 DEF FoundType
  <2>3. DOMAIN found[i].results = 1 .. Len(found[i].results) /\ Len(found[i].results) \in Nat
    BY <2>2
  <2> QED BY <2>3
<1> HIDE DEF cells
<1>3. ASSUME NEW i \in 1 .. Len(found)
      PROVE  /\ cells(i) \in Seq(E)
             /\ \A c \in E : c \in Range(cells(i)) <=> c.set = i
             /\ \A c \in Range(cells(i)) : c.set = i /\ c \in E
             /\ IsInjective(cells(i))
  <2> DEFINE n == Len(found[i].results)
  <2>1. n \in Nat /\ cells(i) = [r \in 1 .. n |-> [set |-> i, rank |-> r]]
    BY <1>2
  <2>2. \A r \in 1 .. n : [set |-> i, rank |-> r] \in E
    BY CellFacts
  <2>3. cells(i) \in Seq(E)
    BY <2>1, <2>2
  <2>4. \A c \in E : c.set = i => c.rank \in 1 .. n /\ c = cells(i)[c.rank]
    <3> TAKE c \in E
    <3>1. c = [set |-> c.set, rank |-> c.rank] /\ c.rank \in 1 .. Len(found[c.set].results)
      BY CellFacts
    <3> QED BY <2>1, <3>1
  <2>5. \A c \in Range(cells(i)) : c.set = i /\ c \in E
    <3> TAKE c \in Range(cells(i))
    <3>1. PICK r \in 1 .. n : c = [set |-> i, rank |-> r]
      BY <2>1 DEF Range
    <3> QED BY <2>2, <3>1
  <2>6. \A c \in E : c.set = i => c \in Range(cells(i))
    BY <2>1, <2>4 DEF Range
  <2>7. IsInjective(cells(i))
    <3>1. DOMAIN cells(i) = 1 .. n /\ \A r \in 1 .. n : cells(i)[r].rank = r
      BY <2>1
    <3> QED BY <3>1 DEF IsInjective
  <2> QED BY <2>3, <2>5, <2>6, <2>7
<1>4. seqs \in Seq(Seq(E)) /\ Len(seqs) = Len(found) /\ \A i \in 1 .. Len(found) : seqs[i] = cells(i)
  BY <1>1, <1>3
<1>5. Cells(found) = FlattenSeq(seqs)
  BY DEF Cells, cells
<1> HIDE DEF seqs
<1>6. /\ FlattenSeq(seqs) \in Seq(E)
      /\ \A e : e \in Range(FlattenSeq(seqs)) <=> \E i \in 1 .. Len(seqs) : e \in Range(seqs[i])
  BY <1>4, FlattenHas
<1>7. IsInjective(FlattenSeq(seqs))
  <2>1. \A i \in 1 .. Len(seqs) : IsInjective(seqs[i])
    BY <1>3, <1>4
  <2>2. \A i, j \in 1 .. Len(seqs) : i # j => Range(seqs[i]) \cap Range(seqs[j]) = {}
    <3>1. \A i \in 1 .. Len(found) : \A c \in Range(cells(i)) : c.set = i
      BY <1>3
    <3>2. \A i, j \in 1 .. Len(found) : i # j => Range(cells(i)) \cap Range(cells(j)) = {}
      BY <3>1
    <3> QED BY <1>4, <3>2
  <2> QED BY <1>4, <2>1, <2>2, FlattenHas
<1>8. Range(FlattenSeq(seqs)) = E
  <2>1. ASSUME NEW c \in E PROVE c \in Range(FlattenSeq(seqs))
    <3>1. c.set \in 1 .. Len(found)
      BY CellFacts
    <3>2. c \in Range(seqs[c.set])
      BY <1>3, <1>4, <3>1
    <3> QED BY <1>4, <1>6, <3>1, <3>2
  <2>2. ASSUME NEW c \in Range(FlattenSeq(seqs)) PROVE c \in E
    <3>1. PICK i \in 1 .. Len(found) : c \in Range(seqs[i])
      BY <1>4, <1>6
    <3> QED BY <1>3, <1>4, <3>1
  <2> QED BY <2>1, <2>2
<1>9. IsFiniteSet(E)
  <2> DEFINE s == FlattenSeq(seqs)
  <2>1. s \in Seq(E) /\ Len(s) \in Nat /\ DOMAIN s = 1 .. Len(s)
    BY <1>6
  <2> HIDE DEF s
  <2>2. IsFiniteSet(1 .. Len(s))
    BY <2>1, FS_Interval
  <2>3. IsFiniteSet({s[i] : i \in 1 .. Len(s)})
    <3>1. s \in [1 .. Len(s) -> E]
      BY <2>1
    <3> QED BY <2>2, <3>1, ImageIsFinite
  <2>4. Range(s) = {s[i] : i \in 1 .. Len(s)}
    BY <2>1 DEF Range
  <2> QED BY <1>8, <2>3, <2>4 DEF s
<1> QED BY <1>5, <1>6, <1>7, <1>8, <1>9
----------------------------------------------------------------------------
(* Candidates under construction.                                           *)
\* Chunks are told apart by their id, results without one by their file.
LEMMA Identities ==
  ASSUME NEW q \in ResultType, NEW r \in ResultType
  PROVE  /\ Identity(q) = Identity(r) <=> /\ q.chunk = r.chunk
                                          /\ q.chunk = NoChunk => q.file = r.file
         /\ (q.chunk = r.chunk /\ q.file = r.file) => Identity(q) = Identity(r)
<1>1. ASSUME NEW a, NEW b PROVE /\ <<"chunk", a>> # <<"file", b>>
                                /\ <<"chunk", a>> = <<"chunk", b>> <=> a = b
                                /\ <<"file", a>> = <<"file", b>> <=> a = b
  OBVIOUS
<1> DEFINE x == q.chunk
           y == r.chunk
           f == q.file
           g == r.file
<1>2. Identity(q) = (IF x # NoChunk THEN <<"chunk", x>> ELSE <<"file", f>>)
      /\ Identity(r) = (IF y # NoChunk THEN <<"chunk", y>> ELSE <<"file", g>>)
  BY DEF Identity
<1>3. (IF x # NoChunk THEN <<"chunk", x>> ELSE <<"file", f>>) = (IF y # NoChunk THEN <<"chunk", y>> ELSE <<"file", g>>)
        <=> (x = y /\ (x = NoChunk => f = g))
  <2> HIDE DEF x, y, f, g
  <2> QED BY <1>1
<1> QED BY <1>2, <1>3

RecordsOf(C, F, K, T, S, X, L) ==
  [chunk : C, file : F, course : K, type : T, status : S, text : X, location : L]
IsFilled(p, q, R, x) == p \in R /\ p.chunk = q.chunk /\ p.file = q.file /\ p.text = x

\* Filling the empty fields of a record leaves it a record of the same kind.
LEMMA FieldsFill ==
  ASSUME NEW C, NEW F, NEW K, NEW T, NEW S, NEW X, NEW L, NEW q \in RecordsOf(C, F, K, T, S, X, L),
         NEW k \in K, NEW t \in T, NEW s \in S, NEW x \in X, NEW l \in L
  PROVE  /\ IsFilled([q EXCEPT !.course = k, !.type = t, !.status = s, !.text = x, !.location = l], q,
                      RecordsOf(C, F, K, T, S, X, L), x)
         /\ IsFilled([q EXCEPT !.course = k, !.status = s], q, RecordsOf(C, F, K, T, S, X, L), q.text)
  BY DEF IsFilled, RecordsOf

\* What a candidate takes over from a second hit changes neither its chunk, file nor text.
LEMMA Filling ==
  ASSUME NEW q \in ResultType, NEW r \in ResultType
  PROVE  /\ PreferredResult(q, r) \in ResultType
         /\ PreferredResult(q, r).chunk = q.chunk /\ PreferredResult(q, r).file = q.file
         /\ q.text # Nothing => PreferredResult(q, r).text = q.text
         /\ MergeMetadata(q, r) \in ResultType
         /\ MergeMetadata(q, r).chunk = q.chunk /\ MergeMetadata(q, r).file = q.file
         /\ MergeMetadata(q, r).text = q.text
<1> DEFINE C == ChunkIds \cup {NoChunk}
           K == OrNothing({FileInfo[f].course : f \in Files})
           T == OrNothing({FileInfo[f].category : f \in Files})
           S == OrNothing({"indexed", "failed", "missing"})
           X == OrNothing(Texts)
           L == OrNothing({TextInfo[t].location : t \in Texts})
<1>1. ResultType = RecordsOf(C, Files, K, T, S, X, L)
  BY DEF ResultType, RecordsOf
<1> HIDE DEF C, K, T, S, X, L
<1> DEFINE k == OrElse(q.course, r.course)
           t == OrElse(q.type, r.type)
           s == OrElse(q.status, r.status)
           x == OrElse(q.text, r.text)
           l == OrElse(q.location, r.location)
<1>2. /\ q.course \in K /\ q.type \in T /\ q.status \in S /\ q.text \in X /\ q.location \in L
      /\ r.course \in K /\ r.type \in T /\ r.status \in S /\ r.text \in X /\ r.location \in L
  BY <1>1 DEF RecordsOf
<1>3. k \in K /\ t \in T /\ s \in S /\ x \in X /\ l \in L /\ (q.text # Nothing => x = q.text)
  BY <1>2 DEF OrElse
<1>4. /\ PreferredResult(q, r) = [q EXCEPT !.course = k, !.type = t, !.status = s, !.text = x, !.location = l]
      /\ MergeMetadata(q, r) = [q EXCEPT !.course = k, !.status = s]
  BY DEF PreferredResult, MergeMetadata
<1> HIDE DEF k, t, s, x, l
<1>5. q \in RecordsOf(C, Files, K, T, S, X, L)
  BY <1>1
<1>6. /\ IsFilled([q EXCEPT !.course = k, !.type = t, !.status = s, !.text = x, !.location = l], q,
                  RecordsOf(C, Files, K, T, S, X, L), x)
      /\ IsFilled([q EXCEPT !.course = k, !.status = s], q, RecordsOf(C, Files, K, T, S, X, L), q.text)
  BY <1>3, <1>5, FieldsFill, Zenon
<1>7. /\ IsFilled(PreferredResult(q, r), q, ResultType, x)
      /\ IsFilled(MergeMetadata(q, r), q, ResultType, q.text)
  BY <1>1, <1>4, <1>6, Zenon
<1> QED BY <1>3, <1>7 DEF IsFilled

CandidateType(found) == [result : ResultType, cells : SUBSET CellsOf(found)]

\* A hit supports a candidate of its own identity, or a file's if it is only a file.
Supports(found, c, b) ==
  IF IsContent(found, c) THEN Identity(ResultAt(found, c)) = Identity(b.result)
                         ELSE ResultAt(found, c).file = b.result.file

\* A candidate for a chunk is as some content search found it.
Fresh(found, b) ==
  b.result.chunk # NoChunk =>
    \E c \in CellsOf(found) : /\ IsContent(found, c)
                              /\ ResultAt(found, c).chunk = b.result.chunk
                              /\ ResultAt(found, c).file = b.result.file
                              /\ ResultAt(found, c).text = b.result.text

BuilderOk(found, id, b) ==
  /\ b \in CandidateType(found)
  /\ Identity(b.result) = id
  /\ b.cells # {}
  /\ Fresh(found, b)
  /\ \A c \in b.cells : Supports(found, c, b)

BuildersOf(found) == {b \in UNION {[D -> CandidateType(found)] : D \in SUBSET IdsOf(found)} :
                        \A id \in DOMAIN b : BuilderOk(found, id, b[id])}

\* The set of builders that are sound so far, unfolded once for the provers.
LEMMA BuildersAre ==
  ASSUME NEW found
  PROVE  /\ \A b \in BuildersOf(found) : /\ DOMAIN b \in SUBSET IdsOf(found)
                                         /\ b \in [DOMAIN b -> CandidateType(found)]
                                         /\ \A id \in DOMAIN b : BuilderOk(found, id, b[id])
         /\ \A D \in SUBSET IdsOf(found) : \A b \in [D -> CandidateType(found)] :
              (\A id \in D : BuilderOk(found, id, b[id])) => b \in BuildersOf(found)
  BY DEF BuildersOf

\* Which candidate a cell was given to; the others are as they were.
Gains(b, new, id, c) ==
  /\ id \in DOMAIN new /\ DOMAIN new = DOMAIN b \cup {id}
  /\ new[id].cells = (IF id \in DOMAIN b THEN b[id].cells ELSE {}) \cup {c}
  /\ \A x \in DOMAIN b : x # id => new[x].cells = b[x].cells

\* A content hit joins the candidate of its chunk, or founds it.
LEMMA AddingContent ==
  ASSUME NEW found \in FoundLists, NEW b \in BuildersOf(found), NEW c \in CellsOf(found)
  PROVE  /\ AddContent(found, b, c) \in BuildersOf(found)
         /\ Gains(b, AddContent(found, b, c), Identity(ResultAt(found, c)), c)
<1> DEFINE r == ResultAt(found, c)
           id == Identity(r)
           known == IF id \in DOMAIN b THEN [b[id] EXCEPT !.result = PreferredResult(@, r)]
                                       ELSE NewBuilder(r)
           one == Contribute(known, c)
           D == DOMAIN b \cup {id}
           new == [i \in D |-> IF i = id THEN one ELSE b[i]]
<1>1. r \in ResultType /\ id \in IdsOf(found)
  BY CellFacts DEF IdsOf
<1>2. /\ DOMAIN b \in SUBSET IdsOf(found)
      /\ b \in [DOMAIN b -> CandidateType(found)]
      /\ \A x \in DOMAIN b : BuilderOk(found, x, b[x])
  BY BuildersAre
<1>3. AddContent(found, b, c) = new
  BY DEF AddContent
<1>4. CASE id \in DOMAIN b
  <2> DEFINE old == b[id]
             res == PreferredResult(old.result, r)
  <2>1. BuilderOk(found, id, old) /\ old \in [result : ResultType, cells : SUBSET CellsOf(found)]
    BY <1>2, <1>4 DEF BuilderOk, CandidateType
  <2>2. one = [result |-> res, cells |-> old.cells \cup {c}]
    <3>1. known = [old EXCEPT !.result = res]
      BY <1>4
    <3> HIDE DEF old, res, known
    <3>2. known = [result |-> res, cells |-> old.cells]
      BY <2>1, <3>1
    <3> QED BY <3>2 DEF Contribute
  <2>3. old.result \in ResultType /\ old.cells \in SUBSET CellsOf(found)
    BY <2>1
  <2>4. res \in ResultType /\ res.chunk = old.result.chunk /\ res.file = old.result.file
        /\ (old.result.text # Nothing => res.text = old.result.text)
    BY <1>1, <2>3, Filling
  <2>5. one \in CandidateType(found) /\ one.result = res /\ one.cells = old.cells \cup {c}
    BY <2>2, <2>3, <2>4 DEF CandidateType
  <2> HIDE DEF one, res, known
  <2>6. Identity(res) = id
    <3>1. Identity(res) = Identity(old.result)
      BY <2>3, <2>4, Identities
    <3> QED BY <2>1, <3>1 DEF BuilderOk
  <2>7. Fresh(found, one)
    <3>1. SUFFICES ASSUME one.result.chunk # NoChunk
                   PROVE \E d \in CellsOf(found) : /\ IsContent(found, d)
                              /\ ResultAt(found, d).chunk = one.result.chunk
                              /\ ResultAt(found, d).file = one.result.file
                              /\ ResultAt(found, d).text = one.result.text
      BY DEF Fresh
    <3>2. PICK d \in CellsOf(found) : /\ IsContent(found, d)
                              /\ ResultAt(found, d).chunk = old.result.chunk
                              /\ ResultAt(found, d).file = old.result.file
                              /\ ResultAt(found, d).text = old.result.text
      <4>1. old.result.chunk # NoChunk
        BY <2>4, <2>5, <3>1
      <4> QED BY <2>1, <4>1 DEF BuilderOk, Fresh
    <3>3. old.result.text # Nothing
      <4>1. ResultAt(found, d).text \in Texts
        BY <3>2 DEF FoundLists, FoundOk
      <4> QED BY <3>2, <4>1, CorpusAssumption
    <3> QED BY <2>4, <2>5, <3>2, <3>3
  <2>8. ASSUME NEW d \in one.cells PROVE Supports(found, d, one)
    <3>1. CASE d = c
      <4>1. CASE IsContent(found, c)
        BY <2>5, <2>6, <3>1, <4>1 DEF Supports
      <4>2. CASE ~ IsContent(found, c)
        <5>1. r.chunk = NoChunk
          BY <4>2 DEF FoundLists, FoundOk
        <5>2. Identity(r) = Identity(res)
          BY <2>6
        <5>3. r.file = res.file
          BY <1>1, <2>4, <5>1, <5>2, Identities
        <5> QED BY <2>5, <3>1, <4>2, <5>3 DEF Supports
      <4> QED BY <4>1, <4>2
    <3>2. CASE d \in old.cells
      <4>1. Supports(found, d, old)
        BY <2>1, <3>2 DEF BuilderOk
      <4>2. Identity(old.result) = Identity(one.result) /\ old.result.file = one.result.file
        BY <2>1, <2>4, <2>5, <2>6 DEF BuilderOk
      <4> QED BY <4>1, <4>2 DEF Supports
    <3> QED BY <2>5, <2>8, <3>1, <3>2
  <2>9. BuilderOk(found, id, one)
    BY <2>5, <2>6, <2>7, <2>8 DEF BuilderOk
  <2> QED
    <3>1. D \in SUBSET IdsOf(found) /\ new \in [D -> CandidateType(found)]
      BY <1>1, <1>2, <2>5
    <3>2. \A x \in D : BuilderOk(found, x, new[x])
      BY <1>2, <2>9
    <3>3. new \in BuildersOf(found)
      BY <3>1, <3>2, BuildersAre
    <3>4. Gains(b, new, id, c)
      BY <1>4, <2>5 DEF Gains
    <3> QED BY <1>3, <3>3, <3>4
<1>5. CASE id \notin DOMAIN b
  <2>1. one = [result |-> r, cells |-> {c}]
    BY <1>5 DEF Contribute, NewBuilder
  <2>2. one \in CandidateType(found) /\ one.result = r /\ one.cells = {c}
    BY <1>1, <2>1 DEF CandidateType
  <2> HIDE DEF one, known
  <2>3. Fresh(found, one)
    <3>1. r.chunk # NoChunk => IsContent(found, c)
      BY DEF FoundLists, FoundOk
    <3> QED BY <2>2, <3>1 DEF Fresh
  <2>4. Supports(found, c, one)
    BY <2>2 DEF Supports
  <2>5. BuilderOk(found, id, one)
    BY <2>2, <2>3, <2>4 DEF BuilderOk
  <2> QED
    <3>1. D \in SUBSET IdsOf(found) /\ new \in [D -> CandidateType(found)]
      BY <1>1, <1>2, <2>2
    <3>2. \A x \in D : BuilderOk(found, x, new[x])
      BY <1>2, <2>5
    <3>3. new \in BuildersOf(found)
      BY <3>1, <3>2, BuildersAre
    <3>4. Gains(b, new, id, c)
      BY <1>5, <2>2 DEF Gains
    <3> QED BY <1>3, <3>3, <3>4
<1> QED BY <1>4, <1>5

\* Of finitely many elements with different keys, one precedes the others.
LEMMA LeastByKey ==
  ASSUME NEW n \in Nat, NEW S, IsFiniteSet(S), S # {}, NEW key \in [S -> [1 .. n -> Int]],
         \A x, y \in S : key[x] = key[y] => x = y
  PROVE  \E i \in S : \A j \in S \ {i} : Precedes(key[i], key[j])
<1> DEFINE before == ByKey(key, S)
           N == Cardinality(S)
           s == [k \in 1 .. N |-> CHOOSE x \in S : Cardinality(before[x]) = k - 1]
<1>1. before \in [S -> SUBSET S] /\ StrictlyOrders(before, S)
  BY KeysOrder
<1>2. N \in Nat /\ N # 0
  BY FS_CardinalityType, FS_EmptySet
<1>3. Placed(s, before, S)
  <2> HIDE DEF before
  <2>1. s = [k \in 1 .. N |-> s[k]]
    OBVIOUS
  <2>2. ASSUME NEW k \in 1 .. N, \E x \in S : Cardinality(before[x]) = k - 1
        PROVE  s[k] \in S /\ Cardinality(before[s[k]]) = k - 1
    <3>1. s[k] = CHOOSE x \in S : Cardinality(before[x]) = k - 1
      OBVIOUS
    <3> QED BY <2>2, <3>1, Zenon
  <2> QED BY <2>1, <2>2 DEF Placed
<1>4. IsSortedBy(s, before, S)
  <2> HIDE DEF before, s
  <2> QED BY <1>1, <1>3, Sorting
<1>5. \A x, y \in S : y \in before[x] <=> Precedes(key[y], key[x])
  BY DEF ByKey
<1> HIDE DEF before, s
<1>6. s[1] \in S /\ 1 \in DOMAIN s /\ DOMAIN s = 1 .. N
  BY <1>2, <1>4 DEF IsSortedBy
<1>7. ASSUME NEW j \in S \ {s[1]} PROVE s[1] \in before[j]
  <2>1. PICK m \in 1 .. N : s[m] = j
    BY <1>4, <1>6 DEF IsSortedBy
  <2>2. j \notin before[s[1]]
    <3>1. \A k, l \in DOMAIN s : s[k] \in before[s[l]] => k < l
      BY <1>4 DEF IsSortedBy
    <3>2. s[m] \in before[s[1]] => m < 1
      BY <1>6, <2>1, <3>1
    <3> QED BY <1>2, <2>1, <3>2
  <2> QED BY <1>1, <1>6, <2>2 DEF StrictlyOrders
<1>8. \A j \in S \ {s[1]} : Precedes(key[s[1]], key[j])
  BY <1>5, <1>6, <1>7
<1> QED BY <1>6, <1>8

\* The score, best rank and number of hits of a candidate are numbers.
LEMMA CandidateNumbers ==
  ASSUME NEW found \in FoundLists, NEW b \in CandidateType(found), b.cells # {}
  PROVE  /\ FusedScore(b) \in Nat
         /\ BestRank(b) \in Nat /\ (\E c \in b.cells : c.rank = BestRank(b))
         /\ \A c \in b.cells : BestRank(b) <= c.rank
         /\ IsFiniteSet(b.cells) /\ Cardinality(b.cells) \in Nat
<1> DEFINE U == CellsOf(found)
           ranks == {c.rank : c \in b.cells}
<1>1. IsFiniteSet(U) /\ U \in SUBSET CellType /\ b.cells \in SUBSET U
  BY CellsAre DEF CellsOf, CandidateType
<1>2. FusedScore(b) \in Nat
  <2>1. PICK f : HasScores(f, U)
    BY <1>1, ScoresAreSums
  <2>2. ShareOf(U) \in [U -> Nat]
    BY <1>1, ScoresAreSums
  <2>3. f[b.cells] \in Nat
    BY <1>1, <2>1, <2>2, SumTakesAny DEF HasScores
  <2> QED BY <1>1, <2>1, <2>3 DEF HasScores
<1>3. ranks \in SUBSET Nat /\ ranks # {}
  BY <1>1 DEF CellType
<1>4. Min(ranks) \in ranks /\ \A k \in ranks : Min(ranks) <= k
  <2> HIDE DEF ranks
  <2>1. \E k \in ranks : \A j \in ranks : k <= j
    BY <1>3, LeastOf
  <2> QED BY <2>1, Zenon DEF Min
<1>5. BestRank(b) = Min(ranks)
  BY DEF BestRank
<1>6. IsFiniteSet(b.cells) /\ Cardinality(b.cells) \in Nat
  BY <1>1, FS_Subset, FS_CardinalityType
<1> QED BY <1>2, <1>3, <1>4, <1>5, <1>6

\* There are finitely many identities among the hits.
LEMMA IdsAreFinite ==
  ASSUME NEW found \in FoundLists
  PROVE  IsFiniteSet(IdsOf(found))
<1> DEFINE id == [c \in CellsOf(found) |-> Identity(ResultAt(found, c))]
<1>1. IsFiniteSet(CellsOf(found)) /\ id \in [CellsOf(found) -> IdsOf(found)]
  BY CellsAre DEF IdsOf
<1>2. IdsOf(found) = {id[c] : c \in CellsOf(found)}
  BY DEF IdsOf
<1> HIDE DEF id
<1>3. IsFiniteSet({id[c] : c \in CellsOf(found)})
  BY <1>1, ImageIsFinite
<1> QED BY <1>2, <1>3

\* Among the candidates of a file there is one that precedes the others.
OfFile(b, file) == {i \in DOMAIN b : b[i].result.file = file /\ b[i].result.chunk # NoChunk}
IsBestOf(b, S, i) == i \in S /\ \A j \in S \ {i} : Precedes(WithinFile(b[i]), WithinFile(b[j]))

\* Among the candidates of a file one is the best.
LEMMA BestOfFile ==
  ASSUME NEW found \in FoundLists, NEW b \in BuildersOf(found), NEW file, OfFile(b, file) # {}
  PROVE  \E i : IsBestOf(b, OfFile(b, file), i)
<1> DEFINE S == OfFile(b, file)
           key == [i \in S |-> WithinFile(b[i])]
<1>1. S \subseteq DOMAIN b /\ DOMAIN b \subseteq IdsOf(found) /\ \A i \in DOMAIN b : BuilderOk(found, i, b[i])
  BY BuildersAre DEF OfFile
<1>2. IsFiniteSet(S)
  <2>3. IsFiniteSet(IdsOf(found))
    BY IdsAreFinite
  <2>4. S \in SUBSET IdsOf(found)
    BY <1>1
  <2> HIDE DEF S
  <2> QED BY <2>3, <2>4, FS_Subset
<1>3. ASSUME NEW i \in S
      PROVE  /\ b[i] \in CandidateType(found) /\ b[i].cells # {}
             /\ b[i].result \in ResultType /\ b[i].result.chunk \in ChunkIds
             /\ Identity(b[i].result) = i
  <2>1. BuilderOk(found, i, b[i])
    BY <1>1
  <2>2. b[i] \in CandidateType(found) /\ b[i].cells # {} /\ Identity(b[i].result) = i
    BY <2>1 DEF BuilderOk
  <2>3. b[i].result \in ResultType
    BY <2>2 DEF CandidateType
  <2>4. b[i].result.chunk # NoChunk
    BY DEF OfFile
  <2>5. b[i].result.chunk \in ChunkIds
    BY <2>3, <2>4 DEF ResultType
  <2> QED BY <2>2, <2>3, <2>5
<1>4. ASSUME NEW i \in S
      PROVE  /\ WithinFile(b[i]) \in [1 .. 4 -> Int]
             /\ WithinFile(b[i])[4] = b[i].result.chunk
  <2> DEFINE x == b[i]
             ch == x.result.chunk
  <2>1. FusedScore(x) \in Nat /\ BestRank(x) \in Nat /\ Cardinality(x.cells) \in Nat
    BY <1>3, CandidateNumbers
  <2>2. ch \in Int
    <3>1. ch \in ChunkIds /\ ChunkIds \subseteq Nat
      BY <1>3, RunAssumption
    <3> HIDE DEF ch
    <3> QED BY <3>1
  <2>3. WithinFile(x) = <<-FusedScore(x), BestRank(x), -Cardinality(x.cells), ch>>
    BY DEF WithinFile
  <2> HIDE DEF x, ch
  <2>4. WithinFile(x) \in [1 .. 4 -> Int] /\ WithinFile(x)[4] = ch
    BY <2>1, <2>2, <2>3
  <2> QED BY <2>4 DEF x, ch
<1>5. key \in [S -> [1 .. 4 -> Int]] /\ 4 \in Nat
  BY <1>4
<1>6. \A i, j \in S : key[i] = key[j] => i = j
  <2> TAKE i, j \in S
  <2>1. HAVE key[i] = key[j]
  <2>2. b[i].result.chunk = b[j].result.chunk /\ b[i].result.chunk # NoChunk
    BY <1>3, <1>4, <2>1, CorpusAssumption
  <2>3. Identity(b[i].result) = Identity(b[j].result)
    BY <1>3, <2>2, Identities
  <2> QED BY <1>3, <2>3
<1>7. S # {}
  OBVIOUS
<1>8. \E i \in S : \A j \in S \ {i} : Precedes(key[i], key[j])
  <2> HIDE DEF S, key
  <2> QED BY <1>2, <1>5, <1>6, <1>7, LeastByKey
<1>9. PICK i \in S : \A j \in S \ {i} : Precedes(key[i], key[j])
  BY <1>8
<1>10. IsBestOf(b, S, i)
  BY <1>9 DEF IsBestOf
<1> QED BY <1>10, Zenon

\* A file hit joins the best candidate of its file, or founds one of its own.
LEMMA AddingMetadata ==
  ASSUME NEW found \in FoundLists, NEW b \in BuildersOf(found), NEW c \in CellsOf(found),
         ~ IsContent(found, c)
  PROVE  /\ AddMetadata(found, b, c) \in BuildersOf(found)
         /\ \E id \in DOMAIN AddMetadata(found, b, c) : Gains(b, AddMetadata(found, b, c), id, c)
<1> DEFINE r == ResultAt(found, c)
           S == OfFile(b, r.file)
           best == CHOOSE i \in S : \A j \in S \ {i} : Precedes(WithinFile(b[i]), WithinFile(b[j]))
           old == b[best]
           res == MergeMetadata(old.result, r)
           one == Contribute([old EXCEPT !.result = res], c)
           new == [b EXCEPT ![best] = one]
<1>1. r \in ResultType
  BY CellFacts
<1>2. /\ DOMAIN b \in SUBSET IdsOf(found)
      /\ b \in [DOMAIN b -> CandidateType(found)]
      /\ \A x \in DOMAIN b : BuilderOk(found, x, b[x])
  BY BuildersAre
<1>3. AddMetadata(found, b, c) = IF S = {} THEN AddContent(found, b, c) ELSE new
  BY DEF AddMetadata, OfFile
<1>4. CASE S = {}
  <2>1. Gains(b, AddContent(found, b, c), Identity(r), c) /\ AddContent(found, b, c) \in BuildersOf(found)
    BY AddingContent
  <2>2. Identity(r) \in DOMAIN AddContent(found, b, c)
    BY <2>1 DEF Gains
  <2>3. AddMetadata(found, b, c) = AddContent(found, b, c)
    BY <1>3, <1>4
  <2> HIDE DEF r
  <2> QED BY <2>1, <2>2, <2>3
<1>5. CASE S # {}
  <2>1. best \in S
    <3>1. \E i : IsBestOf(b, S, i)
      BY <1>5, BestOfFile
    <3>2. \E i \in S : \A j \in S \ {i} : Precedes(WithinFile(b[i]), WithinFile(b[j]))
      <4> HIDE DEF S
      <4> QED BY <3>1 DEF IsBestOf
    <3> HIDE DEF S
    <3> QED BY <3>2, Zenon
  <2>2. best \in DOMAIN b /\ old.result.file = r.file
    BY <2>1 DEF OfFile
  <2> HIDE DEF S, best
  <2>3. BuilderOk(found, best, old)
    BY <1>2, <2>2
  <2>4. old \in [result : ResultType, cells : SUBSET CellsOf(found)]
    BY <2>3 DEF BuilderOk, CandidateType
  <2> HIDE DEF old
  <2>5. old.result \in ResultType /\ old.cells \in SUBSET CellsOf(found)
    BY <2>4
  <2>6. res \in ResultType /\ res.chunk = old.result.chunk /\ res.file = old.result.file
        /\ res.text = old.result.text
    BY <1>1, <2>5, Filling
  <2> HIDE DEF res
  <2>7. one = [result |-> res, cells |-> old.cells \cup {c}]
    <3>1. [old EXCEPT !.result = res] = [result |-> res, cells |-> old.cells]
      BY <2>4
    <3> DEFINE mid == [old EXCEPT !.result = res]
    <3>2. one = [mid EXCEPT !.cells = mid.cells \cup {c}]
      BY DEF Contribute
    <3>3. mid = [result |-> res, cells |-> old.cells]
      BY <3>1
    <3> HIDE DEF mid, one
    <3> QED BY <3>2, <3>3
  <2>8. one \in CandidateType(found) /\ one.result = res /\ one.cells = old.cells \cup {c}
    BY <2>5, <2>6, <2>7 DEF CandidateType
  <2> HIDE DEF one
  <2>9. Identity(one.result) = best
    <3>1. Identity(res) = Identity(old.result)
      BY <2>5, <2>6, Identities
    <3> QED BY <2>3, <2>8, <3>1 DEF BuilderOk
  <2>10. Fresh(found, one)
    BY <2>3, <2>6, <2>8 DEF BuilderOk, Fresh
  <2>11. \A d \in one.cells : Supports(found, d, one)
    <3>1. Supports(found, c, one)
      BY <2>2, <2>6, <2>8 DEF Supports
    <3>2. ASSUME NEW d \in old.cells PROVE Supports(found, d, one)
      <4>1. Supports(found, d, old)
        BY <2>3, <3>2 DEF BuilderOk
      <4>2. Identity(old.result) = Identity(one.result) /\ old.result.file = one.result.file
        BY <2>3, <2>6, <2>8, <2>9 DEF BuilderOk
      <4> QED BY <4>1, <4>2 DEF Supports
    <3> QED BY <2>8, <3>1, <3>2
  <2>12. BuilderOk(found, best, one)
    BY <2>8, <2>9, <2>10, <2>11 DEF BuilderOk
  <2>13. /\ DOMAIN new = DOMAIN b /\ new[best] = one
         /\ \A x \in DOMAIN b : x # best => new[x] = b[x]
         /\ new \in [DOMAIN b -> CandidateType(found)]
    BY <1>2, <2>2, <2>8
  <2>14. new \in BuildersOf(found)
    <3>1. \A x \in DOMAIN b : BuilderOk(found, x, new[x])
      BY <1>2, <2>12, <2>13
    <3> QED BY <1>2, <2>13, <3>1, BuildersAre
  <2> HIDE DEF new
  <2>15. Gains(b, new, best, c)
    BY <2>2, <2>8, <2>13 DEF Gains, old
  <2> QED BY <1>3, <1>5, <2>2, <2>13, <2>14, <2>15
<1> QED BY <1>4, <1>5
----------------------------------------------------------------------------
(* Reading the cells: each is given to exactly one candidate.               *)
Holding(b, S) ==
  /\ \A c : c \in S <=> \E id \in DOMAIN b : c \in b[id].cells
  /\ \A x, y \in DOMAIN b : x # y => b[x].cells \cap b[y].cells = {}

\* Giving one more hit to one candidate keeps the hits divided among them.
LEMMA GainsHold ==
  ASSUME NEW b, NEW new, NEW id, NEW c, Gains(b, new, id, c), NEW S, Holding(b, S), c \notin S
  PROVE  Holding(new, S \cup {c})
<1>1. \A d : d \in S \cup {c} <=> \E x \in DOMAIN new : d \in new[x].cells
  BY DEF Gains, Holding
<1>2. ASSUME NEW x \in DOMAIN new, NEW y \in DOMAIN new, x # y PROVE new[x].cells \cap new[y].cells = {}
  <2>1. \A z \in DOMAIN b : c \notin b[z].cells
    BY DEF Holding
  <2>2. CASE x # id /\ y # id
    BY <1>2, <2>2 DEF Gains, Holding
  <2>3. CASE x = id
    <3>1. y \in DOMAIN b /\ new[y].cells = b[y].cells
      BY <1>2, <2>3 DEF Gains
    <3> QED BY <1>2, <2>1, <2>3, <3>1 DEF Gains, Holding
  <2>4. CASE y = id
    <3>1. x \in DOMAIN b /\ new[x].cells = b[x].cells
      BY <1>2, <2>4 DEF Gains
    <3> QED BY <1>2, <2>1, <2>4, <3>1 DEF Gains, Holding
  <2> QED BY <2>2, <2>3, <2>4
<1> QED BY <1>1, <1>2 DEF Holding

\* One pass over the cells gives away those that it wants.
PassOf(h, cs, N, W) ==
  \A i \in 1 .. N : IF cs[i] \in W THEN \E id : Gains(h[i - 1], h[i], id, cs[i]) ELSE h[i] = h[i - 1]

\* After a pass over the hits, those it reads are divided too.
LEMMA PassHolds ==
  ASSUME NEW E, NEW cs \in Seq(E), IsInjective(cs), NEW N, N = Len(cs), NEW W, NEW h, PassOf(h, cs, N, W),
         NEW S, S \cap W = {}, Holding(h[0], S)
  PROVE  Holding(h[N], S \cup (W \cap Range(cs)))
<1> DEFINE Read(i) == S \cup (W \cap {cs[k] : k \in 1 .. i})
           Good == {i \in 0 .. N : Holding(h[i], Read(i))}
<1>1. N \in Nat /\ DOMAIN cs = 1 .. N
  OBVIOUS
<1>2. 0 \in Good
  <2>1. Read(0) = S
    OBVIOUS
  <2> HIDE DEF Read
  <2>2. Holding(h[0], Read(0))
    BY <2>1
  <2> QED BY <1>1, <2>2
<1>3. ASSUME NEW i \in 1 .. N, i - 1 \in Good PROVE i \in Good
  <2>1. Holding(h[i - 1], Read(i - 1)) /\ i \in 0 .. N
    BY <1>1, <1>3
  <2>2. {cs[k] : k \in 1 .. i} = {cs[k] : k \in 1 .. i - 1} \cup {cs[i]}
    <3>1. 1 .. i = (1 .. i - 1) \cup {i}
      BY <1>1
    <3> QED BY <3>1
  <2>3. cs[i] \notin {cs[k] : k \in 1 .. i - 1}
    <3>1. \A k \in 1 .. i - 1 : k \in 1 .. N /\ k # i
      BY <1>1
    <3> QED BY <1>1, <3>1 DEF IsInjective
  <2>4. CASE cs[i] \in W
    <3>1. PICK id : Gains(h[i - 1], h[i], id, cs[i])
      BY <2>4 DEF PassOf
    <3>2. cs[i] \notin Read(i - 1) /\ Read(i) = Read(i - 1) \cup {cs[i]}
      BY <2>2, <2>3, <2>4
    <3> HIDE DEF Read
    <3>3. Holding(h[i], Read(i - 1) \cup {cs[i]})
      BY <2>1, <3>1, <3>2, GainsHold
    <3> QED BY <2>1, <3>2, <3>3
  <2>5. CASE cs[i] \notin W
    <3>1. Read(i) = Read(i - 1)
      BY <2>2, <2>5
    <3>2. h[i] = h[i - 1]
      BY <2>5 DEF PassOf
    <3> HIDE DEF Read
    <3> QED BY <2>1, <3>1, <3>2
  <2> QED BY <2>4, <2>5
<1>4. \A i \in 0 .. N : i \in Good
  <2>1. \A i \in 1 .. N : i - 1 \in Good => i \in Good
    BY <1>3
  <2> HIDE DEF Good
  <2> QED BY <1>1, <1>2, <2>1, UpTo
<1>5. Holding(h[N], Read(N))
  <2>1. N \in 0 .. N
    BY <1>1
  <2>2. N \in Good
    <3> HIDE DEF Good
    <3> QED BY <1>4, <2>1
  <2> HIDE DEF Read
  <2> QED BY <2>2
<1>6. {cs[k] : k \in 1 .. N} = Range(cs)
  BY <1>1 DEF Range
<1> QED BY <1>5, <1>6

ContentStep(found, b, c)  == IF found[c.set].method = "metadata" THEN b ELSE AddContent(found, b, c)
MetadataStep(found, b, c) == IF found[c.set].method = "metadata" THEN AddMetadata(found, b, c) ELSE b

\* A pass that keeps to well made candidates, with the builders after each cell.
HasPass(b, found, W, result) ==
  \E h : /\ h[0] = b /\ h[Len(Cells(found))] = result
         /\ PassOf(h, Cells(found), Len(Cells(found)), W)
         /\ result \in BuildersOf(found)

ContentCells(found)  == {c \in CellsOf(found) : IsContent(found, c)}
MetadataCells(found) == {c \in CellsOf(found) : ~ IsContent(found, c)}

\* The first pass of _merge_with_rrf, over the hits of the content searches.
LEMMA ContentPass ==
  ASSUME NEW found \in FoundLists
  PROVE  HasPass(<<>>, found, ContentCells(found), WithContent(found))
<1> DEFINE cs == Cells(found)
           N == Len(cs)
           V == BuildersOf(found)
           T == [i \in 1 .. N |-> [b \in V |-> ContentStep(found, b, cs[i])]]
           Iter == CHOOSE iter : iter = [s \in SUBSET DOMAIN cs |->
                     IF s = {} THEN <<>> ELSE ContentStep(found, iter[s \ {Max(s)}], cs[Max(s)])]
<1>1. /\ N \in Nat /\ DOMAIN cs = 1 .. N
      /\ \A i \in 1 .. N : cs[i] \in CellsOf(found)
  BY CellsAre
<1>2. <<>> \in V
  <2>1. <<>> \in [{} -> CandidateType(found)] /\ {} \in SUBSET IdsOf(found)
    OBVIOUS
  <2> QED BY <2>1, BuildersAre
<1>3. ASSUME NEW i \in 1 .. N, NEW b \in V
      PROVE  /\ ContentStep(found, b, cs[i]) \in V
             /\ cs[i] \in ContentCells(found) => \E id : Gains(b, ContentStep(found, b, cs[i]), id, cs[i])
             /\ cs[i] \notin ContentCells(found) => ContentStep(found, b, cs[i]) = b
  <2>1. cs[i] \in CellsOf(found)
    BY <1>1
  <2> HIDE DEF cs
  <2>2. /\ AddContent(found, b, cs[i]) \in V
        /\ Gains(b, AddContent(found, b, cs[i]), Identity(ResultAt(found, cs[i])), cs[i])
    BY <2>1, AddingContent
  <2> HIDE DEF V
  <2> QED BY <2>1, <2>2 DEF ContentStep, IsContent, ContentCells
<1>4. WithContent(found) = Iter[1 .. N]
  <2>1. WithContent(found) = Iter[DOMAIN cs]
    BY DEF WithContent, FoldLeft, MapThenFoldSet, ContentStep
  <2> QED BY <1>1, <2>1
<1> HIDE DEF cs, V
<1>5. T \in [1 .. N -> [V -> V]]
  BY <1>3
<1>6. PICK g \in [SUBSET (1 .. N) -> V] : IsFoldLeft(g, N, V, <<>>, T)
  <2> HIDE DEF T, N
  <2> QED BY <1>1, <1>2, <1>5, FoldLeftIsDefined
<1>7. g = [s \in SUBSET DOMAIN cs |->
             IF s = {} THEN <<>> ELSE ContentStep(found, g[s \ {Max(s)}], cs[Max(s)])]
  BY <1>1, <1>6 DEF IsFoldLeft
<1>8. Iter = [s \in SUBSET DOMAIN cs |->
             IF s = {} THEN <<>> ELSE ContentStep(found, Iter[s \ {Max(s)}], cs[Max(s)])]
  BY <1>7, Zenon
<1> HIDE DEF Iter
<1>9. Unrolls(Iter, N, V, <<>>, T)
  BY <1>1, <1>8, PrefixMax DEF Unrolls
<1>10. HasTrace(Iter, N, V, <<>>, T)
  <2> HIDE DEF T, N
  <2> QED BY <1>1, <1>2, <1>5, <1>9, TraceOf
<1>11. PICK h : IsTrace(h, N, V, <<>>, T) /\ h[N] = Iter[1 .. N]
  BY <1>10 DEF HasTrace
<1>12. PassOf(h, cs, N, ContentCells(found))
  <2>1. ASSUME NEW i \in 1 .. N PROVE h[i - 1] \in V /\ h[i] = ContentStep(found, h[i - 1], cs[i])
    BY <1>11 DEF IsTrace
  <2> QED BY <1>3, <2>1 DEF PassOf
<1>13. h[0] = <<>> /\ h[N] \in V
  BY <1>1, <1>11 DEF IsTrace
<1> QED BY <1>4, <1>11, <1>12, <1>13 DEF HasPass, cs, V

\* Its second pass, over the hits of the metadata search.
LEMMA MetadataPass ==
  ASSUME NEW found \in FoundLists, NEW searched \in BuildersOf(found)
  PROVE  HasPass(searched, found, MetadataCells(found), WithMetadata(found, searched))
<1> DEFINE cs == Cells(found)
           N == Len(cs)
           V == BuildersOf(found)
           T == [i \in 1 .. N |-> [b \in V |-> MetadataStep(found, b, cs[i])]]
           Iter == CHOOSE iter : iter = [s \in SUBSET DOMAIN cs |->
                     IF s = {} THEN searched ELSE MetadataStep(found, iter[s \ {Max(s)}], cs[Max(s)])]
<1>1. /\ N \in Nat /\ DOMAIN cs = 1 .. N
      /\ \A i \in 1 .. N : cs[i] \in CellsOf(found)
  BY CellsAre
<1>2. searched \in V
  OBVIOUS
<1>3. ASSUME NEW i \in 1 .. N, NEW b \in V
      PROVE  /\ MetadataStep(found, b, cs[i]) \in V
             /\ cs[i] \in MetadataCells(found) => \E id : Gains(b, MetadataStep(found, b, cs[i]), id, cs[i])
             /\ cs[i] \notin MetadataCells(found) => MetadataStep(found, b, cs[i]) = b
  <2>1. cs[i] \in CellsOf(found)
    BY <1>1
  <2> HIDE DEF cs
  <2>2. ~ IsContent(found, cs[i]) =>
          /\ AddMetadata(found, b, cs[i]) \in V
          /\ \E id : Gains(b, AddMetadata(found, b, cs[i]), id, cs[i])
    BY <2>1, AddingMetadata
  <2> HIDE DEF V
  <2> QED BY <2>1, <2>2 DEF MetadataStep, IsContent, MetadataCells
<1>4. WithMetadata(found, searched) = Iter[1 .. N]
  <2>1. WithMetadata(found, searched) = Iter[DOMAIN cs]
    BY DEF WithMetadata, FoldLeft, MapThenFoldSet, MetadataStep
  <2> QED BY <1>1, <2>1
<1> HIDE DEF cs, V
<1>5. T \in [1 .. N -> [V -> V]]
  BY <1>3
<1>6. PICK g \in [SUBSET (1 .. N) -> V] : IsFoldLeft(g, N, V, searched, T)
  <2> HIDE DEF T, N
  <2> QED BY <1>1, <1>2, <1>5, FoldLeftIsDefined
<1>7. g = [s \in SUBSET DOMAIN cs |->
             IF s = {} THEN searched ELSE MetadataStep(found, g[s \ {Max(s)}], cs[Max(s)])]
  BY <1>1, <1>6 DEF IsFoldLeft
<1>8. Iter = [s \in SUBSET DOMAIN cs |->
             IF s = {} THEN searched ELSE MetadataStep(found, Iter[s \ {Max(s)}], cs[Max(s)])]
  BY <1>7, Zenon
<1> HIDE DEF Iter
<1>9. Unrolls(Iter, N, V, searched, T)
  BY <1>1, <1>8, PrefixMax DEF Unrolls
<1>10. HasTrace(Iter, N, V, searched, T)
  <2> HIDE DEF T, N
  <2> QED BY <1>1, <1>2, <1>5, <1>9, TraceOf
<1>11. PICK h : IsTrace(h, N, V, searched, T) /\ h[N] = Iter[1 .. N]
  BY <1>10 DEF HasTrace
<1>12. PassOf(h, cs, N, MetadataCells(found))
  <2>1. ASSUME NEW i \in 1 .. N PROVE h[i - 1] \in V /\ h[i] = MetadataStep(found, h[i - 1], cs[i])
    BY <1>11 DEF IsTrace
  <2> QED BY <1>3, <2>1 DEF PassOf
<1>13. h[0] = searched /\ h[N] \in V
  BY <1>1, <1>11 DEF IsTrace
<1> QED BY <1>4, <1>11, <1>12, <1>13 DEF HasPass, cs, V

\* Once everything is read, each hit is held by one candidate.
LEMMA MergedHolds ==
  ASSUME NEW found \in FoundLists
  PROVE  LET merged == WithMetadata(found, WithContent(found))
         IN  merged \in BuildersOf(found) /\ Holding(merged, CellsOf(found))
<1> DEFINE cs == Cells(found)
           N == Len(cs)
           E == CellsOf(found)
           searched == WithContent(found)
           merged == WithMetadata(found, searched)
<1>1. cs \in Seq(E) /\ IsInjective(cs) /\ Range(cs) = E
  BY CellsAre
<1>2. HasPass(<<>>, found, ContentCells(found), searched)
  BY ContentPass
<1>3. searched \in BuildersOf(found) /\ \E h : h[0] = <<>> /\ h[N] = searched /\ PassOf(h, cs, N, ContentCells(found))
  BY <1>2 DEF HasPass
<1>4. HasPass(searched, found, MetadataCells(found), merged)
  BY <1>3, MetadataPass
<1>5. merged \in BuildersOf(found) /\ \E h : h[0] = searched /\ h[N] = merged /\ PassOf(h, cs, N, MetadataCells(found))
  BY <1>4 DEF HasPass
<1> HIDE DEF cs, searched, merged, E
<1>6. Holding(<<>>, {}) /\ {} \cap ContentCells(found) = {}
  BY DEF Holding
<1>7. Holding(searched, {} \cup (ContentCells(found) \cap E))
  <2>1. PICK h : h[0] = <<>> /\ h[N] = searched /\ PassOf(h, cs, N, ContentCells(found))
    BY <1>3
  <2>2. Holding(h[N], {} \cup (ContentCells(found) \cap Range(cs)))
    <3>1. Holding(h[0], {})
      BY <1>6, <2>1
    <3> QED BY <1>1, <1>6, <2>1, <3>1, PassHolds
  <2> QED BY <1>1, <2>1, <2>2
<1>8. Holding(searched, ContentCells(found)) /\ ContentCells(found) \cap MetadataCells(found) = {}
  <2>1. {} \cup (ContentCells(found) \cap E) = ContentCells(found)
    BY DEF ContentCells, E
  <2>2. ContentCells(found) \cap MetadataCells(found) = {}
    BY DEF ContentCells, MetadataCells
  <2> QED BY <1>7, <2>1, <2>2
<1>9. Holding(merged, ContentCells(found) \cup (MetadataCells(found) \cap E))
  <2>1. PICK h : h[0] = searched /\ h[N] = merged /\ PassOf(h, cs, N, MetadataCells(found))
    BY <1>5
  <2>2. Holding(h[N], ContentCells(found) \cup (MetadataCells(found) \cap Range(cs)))
    <3>1. Holding(h[0], ContentCells(found))
      BY <1>8, <2>1
    <3> QED BY <1>1, <1>8, <2>1, <3>1, PassHolds
  <2> QED BY <1>1, <2>1, <2>2
<1>10. ContentCells(found) \cup (MetadataCells(found) \cap E) = E
  BY DEF ContentCells, MetadataCells, E
<1> QED BY <1>5, <1>9, <1>10 DEF merged, E, searched
----------------------------------------------------------------------------
(* The fused list.                                                          *)
FusedType(found) == [result : ResultType, rank : Nat \ {0}, score : Nat, cells : SUBSET CellsOf(found)]

FusedOk(found, list) ==
  /\ list \in Seq(FusedType(found))
  /\ \A i \in DOMAIN list : /\ list[i].rank = i
                            /\ list[i].cells # {}
                            /\ Fresh(found, list[i])
                            /\ \A c \in list[i].cells : Supports(found, c, list[i])
  /\ \A c \in CellsOf(found) : \E i \in DOMAIN list : c \in list[i].cells
  /\ \A i, j \in DOMAIN list : list[i].cells \cap list[j].cells # {} => i = j
  /\ \A i, j \in DOMAIN list : Precedes(FusionKey(list[i]), FusionKey(list[j])) => i < j

\* Ids of files and chunks are numbers, as the sort key needs them.
LEMMA IdsAreNumbers == (\A f \in Files : f \in Int) /\ \A c \in ChunkIds : c \in Int
<1>1. Files \subseteq Nat /\ ChunkIds \subseteq Nat
  BY RunAssumption
<1> QED BY <1>1

\* The sort key of a candidate, part by part.
LEMMA KeyIs ==
  ASSUME NEW found \in FoundLists, NEW b, b.result \in ResultType, b.cells \in SUBSET CellsOf(found), b.cells # {}
  PROVE  /\ FusionKey(b) \in [1 .. 6 -> Int]
         /\ FusionKey(b)[1] = -FusedScore(b) /\ FusionKey(b)[2] = BestRank(b)
         /\ FusionKey(b)[4] = (IF b.result.chunk = NoChunk THEN 1 ELSE 0)
         /\ FusionKey(b)[5] = b.result.file
         /\ FusionKey(b)[6] = (IF b.result.chunk = NoChunk THEN 0 ELSE b.result.chunk)
<1> DEFINE d == [result |-> b.result, cells |-> b.cells]
           s == FusedScore(b)
           m == BestRank(b)
           n == Cardinality(b.cells)
           l == IF b.result.chunk = NoChunk THEN 1 ELSE 0
           f == b.result.file
           k == IF b.result.chunk = NoChunk THEN 0 ELSE b.result.chunk
<1>1. d \in CandidateType(found) /\ d.cells # {}
  BY DEF CandidateType
<1>2. s = FusedScore(d) /\ m = BestRank(d) /\ n = Cardinality(d.cells)
  BY DEF FusedScore, BestRank
<1>3. s \in Nat /\ m \in Nat /\ n \in Nat
  <2> HIDE DEF d, s, m, n
  <2> QED BY <1>1, <1>2, CandidateNumbers
<1>4. l \in Int /\ f \in Int /\ k \in Int
  <2>1. b.result.chunk \in ChunkIds \cup {NoChunk} /\ b.result.file \in Files
    BY DEF ResultType
  <2>2. f \in Int
    BY <2>1, IdsAreNumbers
  <2>3. b.result.chunk # NoChunk => b.result.chunk \in Int
    BY <2>1, IdsAreNumbers
  <2> HIDE DEF f
  <2> QED BY <2>2, <2>3
<1>5. FusionKey(b) = <<-s, m, -n, l, f, k>>
  BY DEF FusionKey
<1> HIDE DEF d, s, m, n, l, f, k
<1>6. /\ FusionKey(b) \in [1 .. 6 -> Int] /\ FusionKey(b)[1] = -s /\ FusionKey(b)[2] = m
      /\ FusionKey(b)[4] = l /\ FusionKey(b)[5] = f /\ FusionKey(b)[6] = k
  BY <1>3, <1>4, <1>5
<1> QED BY <1>6 DEF s, m, l, f, k

IsRanking(ranked, S) ==
  /\ ranked \in Seq(S)
  /\ \A i, j \in DOMAIN ranked : ranked[i] = ranked[j] => i = j
  /\ \A x \in S : \E i \in DOMAIN ranked : ranked[i] = x
  /\ \A i, j \in DOMAIN ranked : Precedes(FusionKey(ranked[i]), FusionKey(ranked[j])) => i < j

\* Sorting by the key ranks the candidates, each once.
LEMMA RankedIs ==
  ASSUME NEW found \in FoundLists, NEW merged \in BuildersOf(found)
  PROVE  LET S == {merged[i] : i \in DOMAIN merged}
         IN  IsRanking(InOrder(S, LAMBDA a, b : Precedes(FusionKey(a), FusionKey(b))), S)
<1> DEFINE S == {merged[i] : i \in DOMAIN merged}
           key == [x \in S |-> FusionKey(x)]
           before == ByKey(key, S)
           N == Cardinality(S)
           s == InOrder(S, LAMBDA a, b : Precedes(FusionKey(a), FusionKey(b)))
<1>1. /\ DOMAIN merged \in SUBSET IdsOf(found) /\ merged \in [DOMAIN merged -> CandidateType(found)]
      /\ \A i \in DOMAIN merged : BuilderOk(found, i, merged[i])
  BY BuildersAre
<1>2. IsFiniteSet(S) /\ N \in Nat
  <2>1. IsFiniteSet(IdsOf(found))
    BY IdsAreFinite
  <2>2. IsFiniteSet(DOMAIN merged)
    BY <1>1, <2>1, FS_Subset
  <2>3. IsFiniteSet(S)
    BY <1>1, <2>2, ImageIsFinite
  <2> HIDE DEF S
  <2> QED BY <2>3, FS_CardinalityType
<1>3. ASSUME NEW x \in S
      PROVE  /\ x.result \in ResultType /\ x.cells \in SUBSET CellsOf(found) /\ x.cells # {}
             /\ x = merged[Identity(x.result)]
  <2>1. PICK i \in DOMAIN merged : x = merged[i]
    OBVIOUS
  <2>2. BuilderOk(found, i, x)
    BY <1>1, <2>1
  <2> QED BY <2>1, <2>2 DEF BuilderOk, CandidateType
<1> HIDE DEF S
<1>4. key \in [S -> [1 .. 6 -> Int]] /\ 6 \in Nat
  <2>1. ASSUME NEW x \in S PROVE FusionKey(x) \in [1 .. 6 -> Int]
    BY <1>3, KeyIs
  <2> QED BY <2>1
<1>5. \A x, y \in S : key[x] = key[y] => x = y
  <2> TAKE x, y \in S
  <2>1. HAVE key[x] = key[y]
  <2> DEFINE q == x.result
             r == y.result
  <2>2. q \in ResultType /\ r \in ResultType
    BY <1>3
  <2>3. /\ (IF q.chunk = NoChunk THEN 1 ELSE 0) = (IF r.chunk = NoChunk THEN 1 ELSE 0)
        /\ q.file = r.file
        /\ (IF q.chunk = NoChunk THEN 0 ELSE q.chunk) = (IF r.chunk = NoChunk THEN 0 ELSE r.chunk)
    <3>1. FusionKey(x) = FusionKey(y)
      BY <2>1
    <3>2. /\ FusionKey(x)[4] = (IF q.chunk = NoChunk THEN 1 ELSE 0) /\ FusionKey(x)[5] = q.file
          /\ FusionKey(x)[6] = (IF q.chunk = NoChunk THEN 0 ELSE q.chunk)
      BY <1>3, KeyIs
    <3>3. /\ FusionKey(y)[4] = (IF r.chunk = NoChunk THEN 1 ELSE 0) /\ FusionKey(y)[5] = r.file
          /\ FusionKey(y)[6] = (IF r.chunk = NoChunk THEN 0 ELSE r.chunk)
      BY <1>3, KeyIs
    <3> QED BY <3>1, <3>2, <3>3
  <2>4. q.chunk = r.chunk
    BY <2>3
  <2>5. Identity(q) = Identity(r)
    BY <2>2, <2>3, <2>4, Identities
  <2> QED BY <1>3, <2>5
<1> HIDE DEF key
<1>6. before \in [S -> SUBSET S] /\ StrictlyOrders(before, S)
  BY <1>4, <1>5, KeysOrder
<1>7. \A x \in S : before[x] = {y \in S : Precedes(FusionKey(y), FusionKey(x))}
  BY DEF ByKey, key
<1> HIDE DEF before
<1>8. Placed(s, before, S)
  <2>1. s = [n \in 1 .. N |-> CHOOSE x \in S : Cardinality({y \in S : Precedes(FusionKey(y), FusionKey(x))}) = n - 1]
    BY DEF InOrder
  <2>2. s = [n \in 1 .. N |-> s[n]]
    <3> DEFINE place(n) == CHOOSE x \in S : Cardinality({y \in S : Precedes(FusionKey(y), FusionKey(x))}) = n - 1
    <3>1. s = [n \in 1 .. N |-> place(n)]
      BY <2>1
    <3> HIDE DEF place, s
    <3> QED BY <3>1
  <2> HIDE DEF s
  <2>3. ASSUME NEW k \in 1 .. N, \E x \in S : Cardinality(before[x]) = k - 1
        PROVE  s[k] \in S /\ Cardinality(before[s[k]]) = k - 1
    <3>1. s[k] = CHOOSE x \in S : Cardinality({y \in S : Precedes(FusionKey(y), FusionKey(x))}) = k - 1
      BY <2>1
    <3>2. \E x \in S : Cardinality({y \in S : Precedes(FusionKey(y), FusionKey(x))}) = k - 1
      BY <1>7, <2>3
    <3>3. s[k] \in S /\ Cardinality({y \in S : Precedes(FusionKey(y), FusionKey(s[k]))}) = k - 1
      BY <3>1, <3>2, Zenon
    <3> QED BY <1>7, <3>3
  <2> QED BY <2>2, <2>3 DEF Placed
<1> HIDE DEF s
<1>9. IsSortedBy(s, before, S)
  BY <1>2, <1>6, <1>8, Sorting
<1>10. s \in [1 .. N -> S]
  BY <1>9 DEF IsSortedBy
<1>11. s \in Seq(S) /\ DOMAIN s = 1 .. N
  BY <1>2, <1>10
<1>12. \A i, j \in DOMAIN s : Precedes(FusionKey(s[i]), FusionKey(s[j])) => i < j
  <2>1. \A i, j \in DOMAIN s : s[i] \in S /\ s[j] \in S /\ (s[i] \in before[s[j]] => i < j)
    BY <1>9, <1>10, <1>11 DEF IsSortedBy
  <2> QED BY <1>7, <2>1
<1>13. IsRanking(s, S)
  BY <1>9, <1>11, <1>12 DEF IsRanking, IsSortedBy
<1> QED BY <1>13 DEF s, S

\* What is said of a candidate depends on its result alone.
LEMMA FreshAgrees ==
  ASSUME NEW found, NEW a, NEW b, a.result = b.result
  PROVE  /\ Fresh(found, a) => Fresh(found, b)
         /\ \A c : Supports(found, c, a) => Supports(found, c, b)
  BY DEF Fresh, Supports

\* _merge_with_rrf returns a fused list as it should be, whatever the searches found.
THEOREM MergeIs ==
  ASSUME NEW found \in FoundLists
  PROVE  FusedOk(found, MergeWithRrf(found))
<1> DEFINE merged == WithMetadata(found, WithContent(found))
           S == {merged[i] : i \in DOMAIN merged}
           ranked == InOrder(S, LAMBDA a, b : Precedes(FusionKey(a), FusionKey(b)))
           list == [r \in DOMAIN ranked |-> [result |-> ranked[r].result, rank |-> r,
                                score |-> FusedScore(ranked[r]), cells |-> ranked[r].cells]]
<1>1. MergeWithRrf(found) = list
  BY DEF MergeWithRrf
<1>2. merged \in BuildersOf(found) /\ Holding(merged, CellsOf(found))
  BY MergedHolds
<1>3. IsRanking(ranked, S)
  <2> HIDE DEF merged
  <2> QED BY <1>2, RankedIs
<1> HIDE DEF ranked
<1>4. \A i \in DOMAIN merged : BuilderOk(found, i, merged[i])
  <2> HIDE DEF merged
  <2> QED BY <1>2, BuildersAre
<1> HIDE DEF merged
<1>5. ASSUME NEW x \in S
      PROVE  /\ x.result \in ResultType /\ x.cells \in SUBSET CellsOf(found) /\ x.cells # {}
             /\ Fresh(found, x) /\ (\A c \in x.cells : Supports(found, c, x)) /\ FusedScore(x) \in Nat
  <2>1. PICK i \in DOMAIN merged : x = merged[i]
    OBVIOUS
  <2>2. BuilderOk(found, i, x)
    BY <1>4, <2>1
  <2>3. x \in CandidateType(found) /\ x.cells # {}
    BY <2>2 DEF BuilderOk
  <2>4. FusedScore(x) \in Nat
    BY <2>3, CandidateNumbers
  <2> QED BY <2>2, <2>3, <2>4 DEF BuilderOk, CandidateType
<1>6. \A x, y \in S : x # y => x.cells \cap y.cells = {}
  BY <1>2 DEF Holding
<1>7. \A c \in CellsOf(found) : \E x \in S : c \in x.cells
  BY <1>2 DEF Holding
<1> HIDE DEF S
<1>8. ranked \in Seq(S) /\ Len(ranked) \in Nat /\ DOMAIN ranked = 1 .. Len(ranked) /\ DOMAIN list = DOMAIN ranked
  BY <1>3 DEF IsRanking
<1>9. ASSUME NEW r \in DOMAIN ranked
      PROVE  /\ ranked[r] \in S
             /\ list[r].result = ranked[r].result /\ list[r].rank = r
             /\ list[r].cells = ranked[r].cells /\ list[r].score = FusedScore(ranked[r])
             /\ list[r] \in FusedType(found)
             /\ FusionKey(list[r]) = FusionKey(ranked[r])
  <2>1. ranked[r] \in S /\ r \in Nat \ {0}
    BY <1>8
  <2>2. list[r] = [result |-> ranked[r].result, rank |-> r,
                   score |-> FusedScore(ranked[r]), cells |-> ranked[r].cells]
    OBVIOUS
  <2> HIDE DEF list
  <2>3. /\ list[r].result = ranked[r].result /\ list[r].rank = r
        /\ list[r].cells = ranked[r].cells /\ list[r].score = FusedScore(ranked[r])
    BY <2>2
  <2>4. list[r] \in FusedType(found)
    BY <1>5, <2>1, <2>2 DEF FusedType
  <2>5. FusedScore(list[r]) = FusedScore(ranked[r]) /\ BestRank(list[r]) = BestRank(ranked[r])
    BY <2>3 DEF FusedScore, BestRank
  <2>6. FusionKey(list[r]) = FusionKey(ranked[r])
    BY <2>3, <2>5 DEF FusionKey
  <2> QED BY <2>1, <2>3, <2>4, <2>6
<1>10. list \in Seq(FusedType(found))
  <2>1. list \in [1 .. Len(ranked) -> FusedType(found)]
    BY <1>8, <1>9
  <2> QED BY <1>8, <2>1
<1> HIDE DEF list
<1>11. ASSUME NEW i \in DOMAIN list
       PROVE  /\ list[i].rank = i /\ list[i].cells # {} /\ Fresh(found, list[i])
              /\ \A c \in list[i].cells : Supports(found, c, list[i])
  <2>1. ranked[i] \in S /\ list[i].result = ranked[i].result /\ list[i].cells = ranked[i].cells /\ list[i].rank = i
    BY <1>8, <1>9
  <2>2. Fresh(found, ranked[i]) /\ \A c \in ranked[i].cells : Supports(found, c, ranked[i])
    BY <1>5, <2>1
  <2>3. Fresh(found, list[i]) /\ \A c \in list[i].cells : Supports(found, c, list[i])
    BY <2>1, <2>2, FreshAgrees
  <2> QED BY <1>5, <2>1, <2>3
<1>12. \A c \in CellsOf(found) : \E i \in DOMAIN list : c \in list[i].cells
  <2> TAKE c \in CellsOf(found)
  <2>1. PICK x \in S : c \in x.cells
    BY <1>7
  <2>2. PICK i \in DOMAIN ranked : ranked[i] = x
    BY <1>3 DEF IsRanking
  <2> QED BY <1>8, <1>9, <2>1, <2>2
<1>13. \A i, j \in DOMAIN list : list[i].cells \cap list[j].cells # {} => i = j
  <2> TAKE i, j \in DOMAIN list
  <2>1. HAVE list[i].cells \cap list[j].cells # {}
  <2>2. ranked[i] \in S /\ ranked[j] \in S /\ ranked[i].cells \cap ranked[j].cells # {}
    BY <1>8, <1>9, <2>1
  <2>3. ranked[i] = ranked[j]
    BY <1>6, <2>2
  <2> QED BY <1>3, <1>8, <2>3 DEF IsRanking
<1>14. \A i, j \in DOMAIN list : Precedes(FusionKey(list[i]), FusionKey(list[j])) => i < j
  BY <1>3, <1>8, <1>9 DEF IsRanking
<1>15. FusedOk(found, list)
  BY <1>10, <1>11, <1>12, <1>13, <1>14 DEF FusedOk
<1> QED BY <1>1, <1>15

----------------------------------------------------------------------------
(* What the fused order promises.                                           *)
Outranks(a, b) == \A c \in b.cells : \E d \in a.cells : d.set = c.set /\ d.rank < c.rank

\* A candidate has at most one hit in a list.
LEMMA OneHitPerList ==
  ASSUME NEW found \in FoundLists, NEW b, b.result \in ResultType, b.cells \in SUBSET CellsOf(found),
         \A c \in b.cells : Supports(found, c, b)
  PROVE  \A c, d \in b.cells : c.set = d.set => c = d
<1> TAKE c, d \in b.cells
<1>1. HAVE c.set = d.set
<1>2. c \in CellsOf(found) /\ d \in CellsOf(found) /\ Supports(found, c, b) /\ Supports(found, d, b)
  OBVIOUS
<1> DEFINE q == ResultAt(found, c)
           r == ResultAt(found, d)
<1>3. q \in ResultType /\ r \in ResultType /\ c = [set |-> c.set, rank |-> c.rank] /\ d = [set |-> d.set, rank |-> d.rank]
  BY <1>2, CellFacts
<1>4. Identity(q) = Identity(r)
  <2>1. CASE IsContent(found, c)
    <3>1. IsContent(found, d)
      BY <1>1, <2>1 DEF IsContent
    <3> QED BY <1>2, <2>1, <3>1 DEF Supports
  <2>2. CASE ~ IsContent(found, c)
    <3>1. ~ IsContent(found, d)
      BY <1>1, <2>2 DEF IsContent
    <3>2. q.file = r.file
      BY <1>2, <2>2, <3>1 DEF Supports
    <3>3. q.chunk = NoChunk /\ r.chunk = NoChunk
      BY <1>2, <2>2, <3>1 DEF FoundLists, FoundOk
    <3>4. q.chunk = r.chunk
      BY <3>3
    <3> HIDE DEF q, r
    <3> QED BY <1>3, <3>2, <3>4, Identities
  <2> QED BY <2>1, <2>2
<1>5. c.rank = d.rank
  BY <1>1, <1>2, <1>4 DEF FoundLists, FoundOk
<1> QED BY <1>1, <1>3, <1>5

\* A candidate ahead of another in every list that found the other has the smaller key.
LEMMA OutrankingIsAhead ==
  ASSUME NEW found \in FoundLists, NEW a \in FusedType(found), NEW b \in FusedType(found),
         a.cells # {}, b.cells # {}, \A c \in b.cells : Supports(found, c, b), Outranks(a, b)
  PROVE  Precedes(FusionKey(a), FusionKey(b))
<1> DEFINE U == CellsOf(found)
           A == a.cells
           B == b.cells
           w == ShareOf(U)
           phi == [c \in B |-> CHOOSE d \in A : d.set = c.set /\ d.rank < c.rank]
<1>1. /\ a.result \in ResultType /\ A \in SUBSET U /\ b.result \in ResultType /\ B \in SUBSET U
      /\ IsFiniteSet(U) /\ U \in SUBSET CellType
  BY CellsAre DEF FusedType, CellsOf
<1>2. PICK f : HasScores(f, U)
  BY <1>1, ScoresAreSums
<1>3. w \in [U -> Nat]
  BY <1>1, ScoresAreSums
<1>4. ASSUME NEW c \in B PROVE phi[c] \in A /\ phi[c].set = c.set /\ phi[c].rank < c.rank
  <2>1. \E d \in A : d.set = c.set /\ d.rank < c.rank
    BY DEF Outranks
  <2>2. phi[c] = CHOOSE d \in A : d.set = c.set /\ d.rank < c.rank
    OBVIOUS
  <2> HIDE DEF A, B, phi
  <2> QED BY <2>1, <2>2, Zenon
<1>5. \A c, d \in B : c.set = d.set => c = d
  BY <1>1, OneHitPerList
<1>6. f[B] <= f[A]
  <2>1. phi \in [B -> A]
    BY <1>4
  <2>2. \A x, y \in B : phi[x] = phi[y] => x = y
    <3> HIDE DEF phi, A, B
    <3>1. \A x \in B : phi[x].set = x.set
      BY <1>4
    <3> QED BY <1>5, <3>1
  <2>3. ASSUME NEW x \in B PROVE w[x] <= w[phi[x]]
    <3>1. x \in U /\ phi[x] \in U /\ phi[x].rank < x.rank
      BY <1>1, <1>4
    <3>2. x.rank \in Nat \ {0} /\ phi[x].rank \in Nat \ {0}
      BY <1>1, <3>1 DEF CellType
    <3>3. RankShare(x.rank) <= RankShare(phi[x].rank)
      BY <3>1, <3>2, Shares
    <3>4. w[x] = RankShare(x.rank) /\ w[phi[x]] = RankShare(phi[x].rank)
      BY <3>1 DEF ShareOf
    <3> QED BY <3>3, <3>4
  <2>4. \A x \in B : w[x] <= w[phi[x]]
    BY <2>3
  <2>5. IsSum(f, U, w)
    BY <1>2 DEF HasScores
  <2> HIDE DEF U, A, B, w, phi
  <2> QED BY <1>1, <1>3, <2>1, <2>2, <2>4, <2>5, SumsCompare
<1>7. FusedScore(a) = f[A] /\ FusedScore(b) = f[B]
  BY <1>1, <1>2 DEF HasScores
<1> DEFINE x == [result |-> a.result, cells |-> a.cells]
           y == [result |-> b.result, cells |-> b.cells]
<1>8. FusedScore(a) \in Nat /\ FusedScore(b) \in Nat
  <2>1. \A s \in SUBSET U : f[s] \in Nat
    BY <1>1, <1>2, <1>3, SumTakesAny DEF HasScores
  <2> QED BY <1>1, <1>7, <2>1
<1>9. BestRank(a) \in Nat /\ BestRank(b) \in Nat /\ BestRank(a) < BestRank(b)
  <2>1. x \in CandidateType(found) /\ x.cells # {} /\ y \in CandidateType(found) /\ y.cells # {}
    BY <1>1 DEF CandidateType
  <2>2. BestRank(x) = BestRank(a) /\ BestRank(y) = BestRank(b) /\ x.cells = A /\ y.cells = B
    BY DEF BestRank
  <2> HIDE DEF x, y
  <2>3. /\ BestRank(x) \in Nat /\ BestRank(y) \in Nat
        /\ \A d \in x.cells : BestRank(x) <= d.rank
        /\ \E c \in y.cells : c.rank = BestRank(y)
    BY <2>1, CandidateNumbers
  <2>4. PICK c \in B : c.rank = BestRank(y)
    BY <2>2, <2>3
  <2>5. phi[c] \in A /\ phi[c].rank < c.rank /\ phi[c].rank \in Nat /\ c.rank \in Nat
    <3>1. phi[c] \in CellType /\ c \in CellType
      BY <1>1, <1>4, <2>4
    <3> HIDE DEF phi, A, B
    <3> QED BY <1>4, <2>4, <3>1 DEF CellType
  <2>6. BestRank(x) <= phi[c].rank
    BY <2>2, <2>3, <2>5
  <2> HIDE DEF phi
  <2> QED BY <2>2, <2>3, <2>4, <2>5, <2>6
<1> DEFINE s == FusionKey(a)
           t == FusionKey(b)
<1>10. /\ s \in [1 .. 6 -> Int] /\ s[1] = -FusedScore(a) /\ s[2] = BestRank(a)
       /\ t \in [1 .. 6 -> Int] /\ t[1] = -FusedScore(b) /\ t[2] = BestRank(b)
  BY <1>1, KeyIs
<1> HIDE DEF s, t, x, y, phi, w
<1>11. s[1] < t[1] \/ (s[1] = t[1] /\ s[2] < t[2])
  BY <1>6, <1>7, <1>8, <1>9, <1>10
<1>12. DOMAIN s = 1 .. 6 /\ 1 .. 2 - 1 = {1} /\ 1 .. 1 - 1 = {}
  BY <1>10
<1>13. Precedes(s, t)
  <2>1. CASE s[1] < t[1]
    BY <1>12, <2>1 DEF Precedes
  <2>2. CASE s[1] = t[1] /\ s[2] < t[2]
    <3>1. 2 \in DOMAIN s /\ \A j \in 1 .. 2 - 1 : s[j] = t[j]
      BY <1>12, <2>2
    <3> QED BY <2>2, <3>1 DEF Precedes
  <2> QED BY <1>11, <2>1, <2>2
<1> QED BY <1>13 DEF s, t

\* The two halves of the promise, of any list of found sets and its fusion.
THEOREM FusionKeepsItsPromise ==
  ASSUME NEW found \in FoundLists, NEW list, FusedOk(found, list)
  PROVE  /\ \A c \in Range(Cells(found)) : Cardinality({i \in DOMAIN list : c \in list[i].cells}) = 1
         /\ \A i, j \in DOMAIN list : Outranks(list[i], list[j]) => i < j
<1>1. ASSUME NEW c \in Range(Cells(found)) PROVE Cardinality({i \in DOMAIN list : c \in list[i].cells}) = 1
  <2>1. c \in CellsOf(found)
    BY CellsAre
  <2>2. PICK i \in DOMAIN list : c \in list[i].cells
    BY <2>1 DEF FusedOk
  <2>3. \A j \in DOMAIN list : c \in list[j].cells => j = i
    BY <2>2 DEF FusedOk
  <2>4. {j \in DOMAIN list : c \in list[j].cells} = {i}
    BY <2>2, <2>3
  <2> QED BY <2>4, FS_Singleton
<1>2. ASSUME NEW i \in DOMAIN list, NEW j \in DOMAIN list, Outranks(list[i], list[j]) PROVE i < j
  <2>1. list[i] \in FusedType(found) /\ list[j] \in FusedType(found)
    BY DEF FusedOk
  <2>2. list[i].cells # {} /\ list[j].cells # {} /\ \A c \in list[j].cells : Supports(found, c, list[j])
    BY DEF FusedOk
  <2>3. Precedes(FusionKey(list[i]), FusionKey(list[j]))
    BY <1>2, <2>1, <2>2, OutrankingIsAhead
  <2> QED BY <2>3 DEF FusedOk
<1> QED BY <1>1, <1>2
----------------------------------------------------------------------------
(* What the other folds make.                                               *)
\* What appending does.
LEMMA Appending ==
  ASSUME NEW E, NEW s \in Seq(E), NEW e \in E
  PROVE  Append(s, e) \in Seq(E) /\ Append(s, e) # <<>> /\ Range(Append(s, e)) = Range(s) \cup {e}
<1>1. Append(s, e) \in Seq(E) /\ Len(Append(s, e)) = Len(s) + 1 /\ Len(s) \in Nat
      /\ (\A i \in 1 .. Len(s) : Append(s, e)[i] = s[i]) /\ Append(s, e)[Len(s) + 1] = e
      /\ DOMAIN s = 1 .. Len(s) /\ DOMAIN Append(s, e) = 1 .. Len(s) + 1
  OBVIOUS
<1>2. Append(s, e) # <<>>
  BY <1>1
<1>3. ASSUME NEW x \in Range(Append(s, e)) PROVE x \in Range(s) \cup {e}
  <2>1. PICK i \in 1 .. Len(s) + 1 : x = Append(s, e)[i]
    BY <1>1 DEF Range
  <2>2. CASE i \in 1 .. Len(s)
    BY <1>1, <2>1, <2>2 DEF Range
  <2>3. CASE i = Len(s) + 1
    BY <1>1, <2>1, <2>3
  <2> QED BY <1>1, <2>1, <2>2, <2>3
<1>4. Range(s) \cup {e} \subseteq Range(Append(s, e))
  <2>1. ASSUME NEW x \in Range(s) PROVE x \in Range(Append(s, e))
    <3>1. PICK i \in 1 .. Len(s) : x = s[i]
      BY <1>1 DEF Range
    <3>2. i \in 1 .. Len(s) + 1 /\ Append(s, e)[i] = x
      BY <1>1, <3>1
    <3> QED BY <1>1, <3>2 DEF Range
  <2>2. e \in Range(Append(s, e))
    <3>1. Len(s) + 1 \in 1 .. Len(s) + 1
      BY <1>1
    <3> QED BY <1>1, <3>1 DEF Range
  <2> QED BY <2>1, <2>2
<1> QED BY <1>1, <1>2, <1>3, <1>4

\* Appending what is new keeps a sequence without repeats.
LEMMA AppendingNew ==
  ASSUME NEW E, NEW s \in Seq(E), NEW e \in E, IsInjective(s), e \notin Range(s)
  PROVE  IsInjective(Append(s, e))
<1>1. Len(s) \in Nat
      /\ (\A i \in 1 .. Len(s) : Append(s, e)[i] = s[i]) /\ Append(s, e)[Len(s) + 1] = e
      /\ DOMAIN s = 1 .. Len(s) /\ DOMAIN Append(s, e) = 1 .. Len(s) + 1
  OBVIOUS
<1>2. ASSUME NEW i \in 1 .. Len(s) + 1, NEW j \in 1 .. Len(s) + 1, Append(s, e)[i] = Append(s, e)[j]
      PROVE  i = j
  <2>1. \A k \in 1 .. Len(s) : s[k] \in Range(s)
    BY <1>1 DEF Range
  <2>2. CASE i \in 1 .. Len(s) /\ j \in 1 .. Len(s)
    BY <1>1, <1>2, <2>2 DEF IsInjective
  <2>3. CASE i = Len(s) + 1 /\ j \in 1 .. Len(s)
    BY <1>1, <1>2, <2>1, <2>3
  <2>4. CASE j = Len(s) + 1 /\ i \in 1 .. Len(s)
    BY <1>1, <1>2, <2>1, <2>4
  <2> QED BY <1>1, <2>2, <2>3, <2>4
<1> QED BY <1>1, <1>2 DEF IsInjective

----------------------------------------------------------------------------
(* A selection in the order of its source.                                  *)
Ascending(s) == \A i, j \in 1 .. Len(s) : i < j => s[i].rank < s[j].rank
Picking(h, N, K, cs) ==
  /\ h \in [0 .. N -> Seq(K)] /\ h[0] = <<>>
  /\ \A k \in 1 .. N : h[k] = h[k - 1] \/ (cs[k] \in K /\ h[k] = Append(h[k - 1], cs[k]))
PickedFrom(s, k, cs) == \A i \in 1 .. Len(s) : \E j \in 1 .. k : s[i] = cs[j]

\* What is picked from an ascending sequence, one after another, ascends.
LEMMA PickedInOrder ==
  ASSUME NEW K, NEW N \in Nat, NEW cs, NEW h, Picking(h, N, K, cs),
         \A i \in 1 .. N : cs[i].rank \in Int, \A i, j \in 1 .. N : i < j => cs[i].rank < cs[j].rank
  PROVE  Ascending(h[N])
<1> DEFINE Good == {k \in 0 .. N : PickedFrom(h[k], k, cs) /\ Ascending(h[k])}
<1>1. 0 \in Good
  <2>1. h[0] = <<>> /\ Len(<<>>) = 0 /\ 0 \in 0 .. N
    BY DEF Picking
  <2> QED BY <2>1 DEF PickedFrom, Ascending
<1>2. ASSUME NEW k \in 1 .. N, k - 1 \in Good PROVE k \in Good
  <2> DEFINE s == h[k - 1]
  <2>1. s \in Seq(K) /\ Len(s) \in Nat /\ PickedFrom(s, k - 1, cs) /\ Ascending(s) /\ k \in 0 .. N
    BY <1>2 DEF Picking
  <2>2. h[k] = s \/ (cs[k] \in K /\ h[k] = Append(s, cs[k]))
    BY DEF Picking
  <2> HIDE DEF s
  <2>3. PickedFrom(s, k, cs)
    BY <2>1 DEF PickedFrom
  <2>4. CASE cs[k] \in K /\ h[k] = Append(s, cs[k])
    <3> DEFINE t == Append(s, cs[k])
               n == Len(s)
    <3>1. n \in Nat /\ Len(t) = n + 1 /\ (\A i \in 1 .. n : t[i] = s[i]) /\ t[n + 1] = cs[k]
      BY <2>1, <2>4
    <3> HIDE DEF t
    <3>2. PickedFrom(t, k, cs)
      <4>1. ASSUME NEW i \in 1 .. n + 1 PROVE \E j \in 1 .. k : t[i] = cs[j]
        <5>1. CASE i = n + 1
          BY <3>1, <5>1
        <5>2. CASE i \in 1 .. n
          BY <2>3, <3>1, <5>2 DEF PickedFrom
        <5> QED BY <3>1, <5>1, <5>2
      <4> QED BY <3>1, <4>1 DEF PickedFrom
    <3>3. Ascending(t)
      <4>1. ASSUME NEW i \in 1 .. n + 1, NEW j \in 1 .. n + 1, i < j PROVE t[i].rank < t[j].rank
        <5>1. CASE j \in 1 .. n
          BY <2>1, <3>1, <4>1, <5>1 DEF Ascending
        <5>2. CASE j = n + 1
          <6>1. i \in 1 .. n
            BY <3>1, <4>1, <5>2
          <6>2. PICK m \in 1 .. k - 1 : s[i] = cs[m]
            BY <2>1, <6>1 DEF PickedFrom
          <6>3. m \in 1 .. N /\ m < k
            OBVIOUS
          <6>4. cs[m].rank < cs[k].rank
            BY <6>3
          <6> QED BY <3>1, <5>2, <6>1, <6>2, <6>4
        <5> QED BY <3>1, <5>1, <5>2
      <4> QED BY <3>1, <4>1 DEF Ascending
    <3> QED BY <2>1, <2>4, <3>2, <3>3 DEF t
  <2>5. CASE h[k] = s
    BY <2>1, <2>3, <2>5
  <2> QED BY <2>2, <2>4, <2>5
<1>3. \A k \in 0 .. N : k \in Good
  <2> HIDE DEF Good
  <2> QED BY <1>1, <1>2, UpTo
<1> QED BY <1>3

----------------------------------------------------------------------------
KeepChunk(kept, c) == IF c.result.chunk # NoChunk THEN Append(kept, c) ELSE kept
Hydratables(list) == {c \in Range(list) : c.result.chunk # NoChunk}

\* Hydration reads only fused candidates with a chunk, in their order.
LEMMA HydratableIs ==
  ASSUME NEW E, fused \in Seq(E), \A i \in DOMAIN fused : fused[i].rank = i
  PROVE  Hydratable \in Seq(Hydratables(fused)) /\ Ascending(Hydratable)
<1> DEFINE cs == fused
           N == Len(cs)
           K == Hydratables(fused)
           V == Seq(K)
           T == [i \in 1 .. N |-> [b \in V |-> KeepChunk(b, cs[i])]]
           Iter == CHOOSE iter : iter = [s \in SUBSET DOMAIN cs |->
                     IF s = {} THEN <<>> ELSE KeepChunk(iter[s \ {Max(s)}], cs[Max(s)])]
<1>1. N \in Nat /\ DOMAIN cs = 1 .. N
  OBVIOUS
<1>2. <<>> \in V
  OBVIOUS
<1>3. ASSUME NEW i \in 1 .. N, NEW b \in V PROVE KeepChunk(b, cs[i]) \in V
  <2>1. CASE cs[i].result.chunk # NoChunk
    <3>1. cs[i] \in K
      BY <1>1, <2>1 DEF Hydratables, Range
    <3> HIDE DEF K, cs
    <3>2. Append(b, cs[i]) \in V
      BY <3>1, Appending
    <3> QED BY <2>1, <3>2 DEF KeepChunk
  <2>2. CASE cs[i].result.chunk = NoChunk
    BY <2>2 DEF KeepChunk
  <2> QED BY <2>1, <2>2
<1>4. Hydratable = Iter[1 .. N]
  <2>1. Hydratable = Iter[DOMAIN cs]
    BY DEF Hydratable, FoldLeft, MapThenFoldSet, KeepChunk
  <2> QED BY <1>1, <2>1
<1> HIDE DEF cs, V
<1>5. T \in [1 .. N -> [V -> V]]
  BY <1>3
<1>6. PICK g \in [SUBSET (1 .. N) -> V] : IsFoldLeft(g, N, V, <<>>, T)
  <2> HIDE DEF T, N
  <2> QED BY <1>1, <1>2, <1>5, FoldLeftIsDefined
<1>7. g = [s \in SUBSET DOMAIN cs |-> IF s = {} THEN <<>> ELSE KeepChunk(g[s \ {Max(s)}], cs[Max(s)])]
  BY <1>1, <1>6 DEF IsFoldLeft
<1>8. Iter = [s \in SUBSET DOMAIN cs |-> IF s = {} THEN <<>> ELSE KeepChunk(Iter[s \ {Max(s)}], cs[Max(s)])]
  BY <1>7, Zenon
<1> HIDE DEF Iter
<1>9. Unrolls(Iter, N, V, <<>>, T)
  BY <1>1, <1>8, PrefixMax DEF Unrolls
<1>10. HasTrace(Iter, N, V, <<>>, T)
  <2> HIDE DEF T, N
  <2> QED BY <1>1, <1>2, <1>5, <1>9, TraceOf
<1>11. PICK h : IsTrace(h, N, V, <<>>, T) /\ h[N] = Iter[1 .. N]
  BY <1>10 DEF HasTrace
<1>12. h[N] \in V
  BY <1>1, <1>11 DEF IsTrace
<1>13. Picking(h, N, K, cs)
  <2>1. h \in [0 .. N -> Seq(K)] /\ h[0] = <<>>
    BY <1>11 DEF IsTrace, V
  <2>2. ASSUME NEW i \in 1 .. N PROVE h[i] = h[i - 1] \/ (cs[i] \in K /\ h[i] = Append(h[i - 1], cs[i]))
    <3>1. h[i] = KeepChunk(h[i - 1], cs[i])
      BY <1>11 DEF IsTrace
    <3>2. cs[i].result.chunk # NoChunk => cs[i] \in K
      BY <1>1 DEF cs, Hydratables, Range
    <3> HIDE DEF cs, K
    <3> QED BY <3>1, <3>2 DEF KeepChunk
  <2> QED BY <2>1, <2>2 DEF Picking
<1>14. \A i \in 1 .. N : cs[i].rank \in Int
  BY <1>1 DEF cs
<1>15. \A i, j \in 1 .. N : i < j => cs[i].rank < cs[j].rank
  BY <1>1 DEF cs
<1>16. Ascending(h[N])
  <2> HIDE DEF K, N
  <2> QED BY <1>1, <1>13, <1>14, <1>15, PickedInOrder
<1> QED BY <1>4, <1>11, <1>12, <1>16 DEF V

SelectStep(chosen, c) == IF Len(chosen) < FinalTopK /\ TotalWords(chosen) + Words(c) <= MaxTokens
                         THEN Append(chosen, c) ELSE chosen

\* The selection keeps candidates in their order and adds none.
LEMMA SelectIs ==
  ASSUME NEW K, NEW candidates \in Seq(K), \A k \in K : k.rank \in Int, Ascending(candidates)
  PROVE  Select(candidates) \in Seq(K) /\ Ascending(Select(candidates))
<1> DEFINE cs == candidates
           N == Len(cs)
           V == Seq(K)
           T == [i \in 1 .. N |-> [b \in V |-> SelectStep(b, cs[i])]]
           Iter == CHOOSE iter : iter = [s \in SUBSET DOMAIN cs |->
                     IF s = {} THEN <<>> ELSE SelectStep(iter[s \ {Max(s)}], cs[Max(s)])]
<1>1. N \in Nat /\ DOMAIN cs = 1 .. N
  OBVIOUS
<1>2. <<>> \in V
  OBVIOUS
<1>3. ASSUME NEW i \in 1 .. N, NEW b \in V PROVE SelectStep(b, cs[i]) \in V
  <2>1. cs[i] \in K
    BY <1>1
  <2> HIDE DEF cs
  <2>2. Append(b, cs[i]) \in V
    BY <2>1, Appending
  <2> QED BY <2>2 DEF SelectStep
<1>4. Select(candidates) = Iter[1 .. N]
  <2>1. Select(candidates) = Iter[DOMAIN cs]
    BY DEF Select, SelectStep, FoldLeft, MapThenFoldSet
  <2> QED BY <1>1, <2>1
<1> HIDE DEF cs, V
<1>5. T \in [1 .. N -> [V -> V]]
  BY <1>3
<1>6. PICK g \in [SUBSET (1 .. N) -> V] : IsFoldLeft(g, N, V, <<>>, T)
  <2> HIDE DEF T, N
  <2> QED BY <1>1, <1>2, <1>5, FoldLeftIsDefined
<1>7. g = [s \in SUBSET DOMAIN cs |-> IF s = {} THEN <<>> ELSE SelectStep(g[s \ {Max(s)}], cs[Max(s)])]
  BY <1>1, <1>6 DEF IsFoldLeft
<1>8. Iter = [s \in SUBSET DOMAIN cs |-> IF s = {} THEN <<>> ELSE SelectStep(Iter[s \ {Max(s)}], cs[Max(s)])]
  BY <1>7, Zenon
<1> HIDE DEF Iter
<1>9. Unrolls(Iter, N, V, <<>>, T)
  BY <1>1, <1>8, PrefixMax DEF Unrolls
<1>10. HasTrace(Iter, N, V, <<>>, T)
  <2> HIDE DEF T, N
  <2> QED BY <1>1, <1>2, <1>5, <1>9, TraceOf
<1>11. PICK h : IsTrace(h, N, V, <<>>, T) /\ h[N] = Iter[1 .. N]
  BY <1>10 DEF HasTrace
<1>12. h[N] \in V
  BY <1>1, <1>11 DEF IsTrace
<1>13. Picking(h, N, K, cs)
  <2>1. h \in [0 .. N -> Seq(K)] /\ h[0] = <<>>
    BY <1>11 DEF IsTrace, V
  <2>2. ASSUME NEW i \in 1 .. N PROVE h[i] = h[i - 1] \/ (cs[i] \in K /\ h[i] = Append(h[i - 1], cs[i]))
    <3>1. h[i] = SelectStep(h[i - 1], cs[i])
      BY <1>11 DEF IsTrace
    <3>2. cs[i] \in K
      BY <1>1 DEF cs
    <3> QED BY <3>1, <3>2 DEF SelectStep
  <2> QED BY <2>1, <2>2 DEF Picking
<1>14. \A i \in 1 .. N : cs[i].rank \in Int
  BY <1>1 DEF cs
<1>15. \A i, j \in 1 .. N : i < j => cs[i].rank < cs[j].rank
  BY <1>1 DEF cs, Ascending
<1>16. Ascending(h[N])
  <2> HIDE DEF N
  <2> QED BY <1>1, <1>13, <1>14, <1>15, PickedInOrder
<1> QED BY <1>4, <1>11, <1>12, <1>16 DEF V

\* One more item adds its words to the total of a selection.
LEMMA MoreWords ==
  ASSUME NEW K, NEW s \in Seq(K), NEW c \in K, \A k \in K : Words(k) \in Nat
  PROVE  TotalWords(s) \in Nat /\ TotalWords(Append(s, c)) = TotalWords(s) + Words(c)
<1> DEFINE N == Len(s)
           more == Append(s, c)
           a == [i \in 1 .. N |-> Words(s[i])]
           b == [i \in 1 .. N + 1 |-> Words(more[i])]
<1>1. N \in Nat /\ DOMAIN s = 1 .. N /\ DOMAIN more = 1 .. N + 1
      /\ (\A i \in 1 .. N : more[i] = s[i] /\ s[i] \in K) /\ more[N + 1] = c
      /\ \A i \in 1 .. N + 1 : more[i] \in K
  <2>1. N \in Nat /\ DOMAIN s = 1 .. N /\ \A i \in 1 .. N : s[i] \in K
    OBVIOUS
  <2>2. more \in Seq(K) /\ Len(more) = N + 1
    OBVIOUS
  <2>3. (\A i \in 1 .. N : more[i] = s[i]) /\ more[N + 1] = c
    OBVIOUS
  <2>4. DOMAIN more = 1 .. N + 1 /\ \A i \in 1 .. N + 1 : more[i] \in K
    <3> HIDE DEF more, N
    <3> QED BY <2>2
  <2> QED BY <2>1, <2>3, <2>4
<1> HIDE DEF N, more
<1>2. a \in [1 .. N -> Nat] /\ b \in [1 .. N + 1 -> Nat] /\ (\A i \in 1 .. N : b[i] = a[i]) /\ b[N + 1] = Words(c)
  <2>1. N + 1 \in 1 .. N + 1 /\ \A i \in 1 .. N : i \in 1 .. N + 1
    BY <1>1
  <2> QED BY <1>1, <2>1
<1>3. TotalWords(s) = Total(a) /\ TotalWords(more) = Total(b)
  BY <1>1 DEF TotalWords
<1> HIDE DEF a, b
<1>4. Total(a) \in Nat
  BY <1>1, <1>2, TotalIsNatural
<1>5. Total(b) = Total(a) + b[N + 1]
  BY <1>1, <1>2, TotalOfMore
<1> QED BY <1>2, <1>3, <1>4, <1>5 DEF more

\* A sequence that keeps the limits of a packet.
Within(s) == Len(s) <= FinalTopK /\ TotalWords(s) <= MaxTokens

\* _select_evidence keeps both limits of a packet, whatever it is offered.
THEOREM SelectKeepsLimits ==
  ASSUME NEW K, NEW candidates \in Seq(K), \A k \in K : Words(k) \in Nat
  PROVE  Within(Select(candidates))
<1> DEFINE cs == candidates
           N == Len(cs)
           V == {s \in Seq(K) : Within(s)}
           T == [i \in 1 .. N |-> [b \in V |-> SelectStep(b, cs[i])]]
           Iter == CHOOSE iter : iter = [s \in SUBSET DOMAIN cs |->
                     IF s = {} THEN <<>> ELSE SelectStep(iter[s \ {Max(s)}], cs[Max(s)])]
<1>1. N \in Nat /\ DOMAIN cs = 1 .. N /\ FinalTopK \in Nat /\ MaxTokens \in Nat
  BY RunAssumption
<1>2. <<>> \in V
  <2> DEFINE none == [i \in 1 .. 0 |-> Words(<<>>[i])]
  <2>1. none \in [1 .. 0 -> Nat]
    OBVIOUS
  <2>2. TotalWords(<<>>) = Total(none)
    <3>1. DOMAIN <<>> = 1 .. 0
      OBVIOUS
    <3> QED BY <3>1 DEF TotalWords
  <2> HIDE DEF none
  <2>3. Total(none) = 0
    BY <2>1, TotalIsNatural
  <2>4. <<>> \in Seq(K) /\ Len(<<>>) = 0
    OBVIOUS
  <2> QED BY <1>1, <2>2, <2>3, <2>4 DEF Within
<1>3. ASSUME NEW i \in 1 .. N, NEW b \in V PROVE SelectStep(b, cs[i]) \in V
  <2> DEFINE c == cs[i]
  <2>1. c \in K
    BY <1>1
  <2> HIDE DEF cs, c
  <2>2. b \in Seq(K) /\ Append(b, c) \in Seq(K) /\ Len(Append(b, c)) = Len(b) + 1 /\ Len(b) \in Nat
    BY <2>1
  <2>3. TotalWords(b) \in Nat /\ TotalWords(Append(b, c)) = TotalWords(b) + Words(c)
    BY <2>1, <2>2, MoreWords
  <2>4. CASE Len(b) < FinalTopK /\ TotalWords(b) + Words(c) <= MaxTokens
    <3>1. Within(Append(b, c))
      BY <1>1, <2>2, <2>3, <2>4 DEF Within
    <3> QED BY <2>2, <2>4, <3>1 DEF SelectStep, c
  <2>5. CASE ~ (Len(b) < FinalTopK /\ TotalWords(b) + Words(c) <= MaxTokens)
    <3>1. SelectStep(b, c) = b
      BY <2>5 DEF SelectStep
    <3> QED BY <3>1 DEF c
  <2> QED BY <2>4, <2>5
<1>4. Select(candidates) = Iter[1 .. N]
  <2>1. Select(candidates) = Iter[DOMAIN cs]
    BY DEF Select, SelectStep, FoldLeft, MapThenFoldSet
  <2> QED BY <1>1, <2>1
<1> HIDE DEF cs, V
<1>5. T \in [1 .. N -> [V -> V]]
  BY <1>3
<1>6. PICK g \in [SUBSET (1 .. N) -> V] : IsFoldLeft(g, N, V, <<>>, T)
  <2> HIDE DEF T, N
  <2> QED BY <1>1, <1>2, <1>5, FoldLeftIsDefined
<1>7. g = [s \in SUBSET DOMAIN cs |-> IF s = {} THEN <<>> ELSE SelectStep(g[s \ {Max(s)}], cs[Max(s)])]
  BY <1>1, <1>6 DEF IsFoldLeft
<1>8. Iter = [s \in SUBSET DOMAIN cs |-> IF s = {} THEN <<>> ELSE SelectStep(Iter[s \ {Max(s)}], cs[Max(s)])]
  BY <1>7, Zenon
<1> HIDE DEF Iter
<1>9. Unrolls(Iter, N, V, <<>>, T)
  BY <1>1, <1>8, PrefixMax DEF Unrolls
<1>10. HasTrace(Iter, N, V, <<>>, T)
  <2> HIDE DEF T, N
  <2> QED BY <1>1, <1>2, <1>5, <1>9, TraceOf
<1>11. PICK h : IsTrace(h, N, V, <<>>, T) /\ h[N] = Iter[1 .. N]
  BY <1>10 DEF HasTrace
<1>12. h[N] \in V
  BY <1>1, <1>11 DEF IsTrace
<1> QED BY <1>4, <1>11, <1>12 DEF V

RepeatStep(acc, e) == IF e \in Range(acc) THEN acc ELSE Append(acc, e)

\* Removing repeats keeps a word if there is one.
LEMMA RemoveRepeatsIs ==
  ASSUME NEW E, NEW words \in Seq(E)
  PROVE  RemoveRepeats(words) \in Seq(E) /\ (words # <<>> => RemoveRepeats(words) # <<>>)
<1> DEFINE cs == words
           N == Len(cs)
           V == Seq(E)
           T == [i \in 1 .. N |-> [b \in V |-> RepeatStep(b, cs[i])]]
           Iter == CHOOSE iter : iter = [s \in SUBSET DOMAIN cs |->
                     IF s = {} THEN <<>> ELSE RepeatStep(iter[s \ {Max(s)}], cs[Max(s)])]
<1>1. N \in Nat /\ DOMAIN cs = 1 .. N
  OBVIOUS
<1>2. <<>> \in V
  OBVIOUS
<1>3. ASSUME NEW i \in 1 .. N, NEW b \in V PROVE RepeatStep(b, cs[i]) \in V /\ RepeatStep(b, cs[i]) # <<>>
  <2>1. cs[i] \in E
    BY <1>1
  <2> HIDE DEF cs
  <2>2. Append(b, cs[i]) \in V /\ Append(b, cs[i]) # <<>>
    BY <2>1, Appending
  <2>3. cs[i] \in Range(b) => b # <<>>
    BY DEF Range
  <2> QED BY <2>2, <2>3 DEF RepeatStep
<1>4. RemoveRepeats(words) = Iter[1 .. N]
  <2>1. RemoveRepeats(words) = Iter[DOMAIN cs]
    BY DEF RemoveRepeats, RepeatStep, FoldLeft, MapThenFoldSet
  <2> QED BY <1>1, <2>1
<1> HIDE DEF cs, V
<1>5. T \in [1 .. N -> [V -> V]]
  BY <1>3
<1>6. PICK g \in [SUBSET (1 .. N) -> V] : IsFoldLeft(g, N, V, <<>>, T)
  <2> HIDE DEF T, N
  <2> QED BY <1>1, <1>2, <1>5, FoldLeftIsDefined
<1>7. g = [s \in SUBSET DOMAIN cs |-> IF s = {} THEN <<>> ELSE RepeatStep(g[s \ {Max(s)}], cs[Max(s)])]
  BY <1>1, <1>6 DEF IsFoldLeft
<1>8. Iter = [s \in SUBSET DOMAIN cs |-> IF s = {} THEN <<>> ELSE RepeatStep(Iter[s \ {Max(s)}], cs[Max(s)])]
  BY <1>7, Zenon
<1> HIDE DEF Iter
<1>9. Unrolls(Iter, N, V, <<>>, T)
  BY <1>1, <1>8, PrefixMax DEF Unrolls
<1>10. HasTrace(Iter, N, V, <<>>, T)
  <2> HIDE DEF T, N
  <2> QED BY <1>1, <1>2, <1>5, <1>9, TraceOf
<1>11. PICK h : IsTrace(h, N, V, <<>>, T) /\ h[N] = Iter[1 .. N]
  BY <1>10 DEF HasTrace
<1>12. h[N] \in V
  BY <1>1, <1>11 DEF IsTrace
<1>13. words # <<>> => h[N] # <<>>
  <2>1. HAVE words # <<>>
  <2>2. N \in 1 .. N
    BY <1>1, <2>1 DEF cs
  <2>3. h[N - 1] \in V /\ h[N] = RepeatStep(h[N - 1], cs[N])
    BY <1>11, <2>2 DEF IsTrace
  <2> QED BY <1>3, <2>2, <2>3
<1> QED BY <1>4, <1>11, <1>12, <1>13 DEF V

\* The order by one number and then by another.
ByTwo(a, b, S) == [j \in S |-> {i \in S : a[i] < a[j] \/ (a[i] = a[j] /\ b[i] < b[j])}]

\* Ordering by a number, then by one that tells all apart, is strict and total.
LEMMA TwoOrder ==
  ASSUME NEW S, NEW a \in [S -> Int], NEW b \in [S -> Int], \A x, y \in S : b[x] = b[y] => x = y
  PROVE  ByTwo(a, b, S) \in [S -> SUBSET S] /\ StrictlyOrders(ByTwo(a, b, S), S)
<1>1. ByTwo(a, b, S) \in [S -> SUBSET S]
      /\ \A i, j \in S : i \in ByTwo(a, b, S)[j] <=> a[i] < a[j] \/ (a[i] = a[j] /\ b[i] < b[j])
  BY DEF ByTwo
<1> HIDE DEF ByTwo
<1>2. \A x \in S : x \notin ByTwo(a, b, S)[x]
  BY <1>1
<1>3. \A x, y \in S : x # y => x \in ByTwo(a, b, S)[y] \/ y \in ByTwo(a, b, S)[x]
  BY <1>1
<1>4. ASSUME NEW x \in S, NEW y \in S, y \in ByTwo(a, b, S)[x]
      PROVE  ByTwo(a, b, S)[y] \subseteq ByTwo(a, b, S)[x]
  <2>1. ASSUME NEW z \in ByTwo(a, b, S)[y] PROVE z \in ByTwo(a, b, S)[x]
    <3>1. z \in S
      BY <1>1
    <3> QED BY <1>1, <1>4, <3>1
  <2> QED BY <2>1
<1> QED BY <1>1, <1>2, <1>3, <1>4 DEF StrictlyOrders

\* The items of a prompt are items of the packet.
ItemOrder(evidence) ==
  LET ahead(i, j) == \/ evidence[i].rank < evidence[j].rank
                     \/ (evidence[i].rank = evidence[j].rank /\ i < j)
  IN  InOrder(DOMAIN evidence, ahead)

\* The prompt considers items of the packet.
LEMMA ItemOrderIs ==
  ASSUME NEW n \in Nat, NEW evidence, DOMAIN evidence = 1 .. n, \A i \in 1 .. n : evidence[i].rank \in Int
  PROVE  ItemOrder(evidence) \in Seq(1 .. n)
<1> DEFINE S == 1 .. n
           rank == [i \in S |-> evidence[i].rank]
           place == [i \in S |-> i]
           before == ByTwo(rank, place, S)
           N == Cardinality(S)
           s == ItemOrder(evidence)
<1>1. IsFiniteSet(S) /\ N = n
  BY FS_Interval
<1>2. rank \in [S -> Int] /\ place \in [S -> Int] /\ \A x, y \in S : place[x] = place[y] => x = y
  OBVIOUS
<1>3. before \in [S -> SUBSET S] /\ StrictlyOrders(before, S)
  <2> HIDE DEF S, rank, place
  <2> QED BY <1>2, TwoOrder
<1>4. \A x \in S : before[x] = {y \in S : \/ evidence[y].rank < evidence[x].rank
                                          \/ (evidence[y].rank = evidence[x].rank /\ y < x)}
  BY DEF ByTwo
<1> HIDE DEF before, rank, place
<1>5. s = [m \in 1 .. N |-> CHOOSE x \in S :
             Cardinality({y \in S : \/ evidence[y].rank < evidence[x].rank
                                    \/ (evidence[y].rank = evidence[x].rank /\ y < x)}) = m - 1]
  BY DEF InOrder, ItemOrder
<1> HIDE DEF s, S
<1>6. Placed(s, before, S)
  <2>1. s = [m \in 1 .. N |-> s[m]]
    <3> DEFINE at(m) == CHOOSE x \in S :
             Cardinality({y \in S : \/ evidence[y].rank < evidence[x].rank
                                    \/ (evidence[y].rank = evidence[x].rank /\ y < x)}) = m - 1
    <3>1. s = [m \in 1 .. N |-> at(m)]
      BY <1>5
    <3> HIDE DEF at
    <3> QED BY <3>1
  <2>2. ASSUME NEW k \in 1 .. N, \E x \in S : Cardinality(before[x]) = k - 1
        PROVE  s[k] \in S /\ Cardinality(before[s[k]]) = k - 1
    <3>1. s[k] = CHOOSE x \in S :
             Cardinality({y \in S : \/ evidence[y].rank < evidence[x].rank
                                    \/ (evidence[y].rank = evidence[x].rank /\ y < x)}) = k - 1
      BY <1>5
    <3>2. \E x \in S :
             Cardinality({y \in S : \/ evidence[y].rank < evidence[x].rank
                                    \/ (evidence[y].rank = evidence[x].rank /\ y < x)}) = k - 1
      BY <1>4, <2>2
    <3>3. s[k] \in S /\
             Cardinality({y \in S : \/ evidence[y].rank < evidence[s[k]].rank
                                    \/ (evidence[y].rank = evidence[s[k]].rank /\ y < s[k])}) = k - 1
      BY <3>1, <3>2, Zenon
    <3> QED BY <1>4, <3>3
  <2> QED BY <2>1, <2>2 DEF Placed
<1>7. IsSortedBy(s, before, S)
  BY <1>1, <1>3, <1>6, Sorting
<1>8. s \in [1 .. n -> S]
  BY <1>1, <1>7 DEF IsSortedBy
<1> QED BY <1>8 DEF s, S

PromptStep(evidence, chosen, i) ==
  IF PromptCost(evidence, chosen \cup {i}) <= PromptBudget THEN chosen \cup {i} ELSE chosen

\* What goes into the prompt are items of the packet, and none unless the prompt with them
\* keeps its budget (_select_prompt_evidence).
THEOREM PromptIs ==
  ASSUME NEW n \in Nat, NEW evidence, DOMAIN evidence = 1 .. n, \A i \in 1 .. n : evidence[i].rank \in Int
  PROVE  /\ PromptEvidence(evidence) \in SUBSET (1 .. n)
         /\ PromptEvidence(evidence) # {} => PromptCost(evidence, PromptEvidence(evidence)) <= PromptBudget
<1> DEFINE cs == ItemOrder(evidence)
           N == Len(cs)
           V == {s \in SUBSET (1 .. n) : s # {} => PromptCost(evidence, s) <= PromptBudget}
           T == [i \in 1 .. N |-> [b \in V |-> PromptStep(evidence, b, cs[i])]]
           Iter == CHOOSE iter : iter = [s \in SUBSET DOMAIN cs |->
                     IF s = {} THEN {} ELSE PromptStep(evidence, iter[s \ {Max(s)}], cs[Max(s)])]
<1>1. N \in Nat /\ DOMAIN cs = 1 .. N /\ \A i \in 1 .. N : cs[i] \in 1 .. n
  <2>1. cs \in Seq(1 .. n)
    BY ItemOrderIs
  <2> HIDE DEF cs
  <2> QED BY <2>1
<1>2. {} \in V
  OBVIOUS
<1>3. ASSUME NEW i \in 1 .. N, NEW b \in V PROVE PromptStep(evidence, b, cs[i]) \in V
  <2>1. cs[i] \in 1 .. n
    BY <1>1
  <2> HIDE DEF cs
  <2>2. b \cup {cs[i]} \in SUBSET (1 .. n)
    BY <2>1
  <2> QED BY <2>2 DEF PromptStep
<1>4. PromptEvidence(evidence) = Iter[1 .. N]
  <2>1. PromptEvidence(evidence) = Iter[DOMAIN cs]
    BY DEF PromptEvidence, PromptStep, ItemOrder, FoldLeft, MapThenFoldSet
  <2> QED BY <1>1, <2>1
<1> HIDE DEF cs, V
<1>5. T \in [1 .. N -> [V -> V]]
  BY <1>3
<1>6. PICK g \in [SUBSET (1 .. N) -> V] : IsFoldLeft(g, N, V, {}, T)
  <2> HIDE DEF T, N
  <2> QED BY <1>1, <1>2, <1>5, FoldLeftIsDefined
<1>7. g = [s \in SUBSET DOMAIN cs |-> IF s = {} THEN {} ELSE PromptStep(evidence, g[s \ {Max(s)}], cs[Max(s)])]
  BY <1>1, <1>6 DEF IsFoldLeft
<1>8. Iter = [s \in SUBSET DOMAIN cs |-> IF s = {} THEN {} ELSE PromptStep(evidence, Iter[s \ {Max(s)}], cs[Max(s)])]
  BY <1>7, Zenon
<1> HIDE DEF Iter
<1>9. Unrolls(Iter, N, V, {}, T)
  BY <1>1, <1>8, PrefixMax DEF Unrolls
<1>10. HasTrace(Iter, N, V, {}, T)
  <2> HIDE DEF T, N
  <2> QED BY <1>1, <1>2, <1>5, <1>9, TraceOf
<1>11. PICK h : IsTrace(h, N, V, {}, T) /\ h[N] = Iter[1 .. N]
  BY <1>10 DEF HasTrace
<1>12. h[N] \in V
  BY <1>1, <1>11 DEF IsTrace
<1> QED BY <1>4, <1>11, <1>12 DEF V

CiteStep(evidence, allowed, acc, id) ==
  LET i == CitedIndex(evidence, allowed, id) IN IF i \in Range(acc) THEN acc ELSE Append(acc, i)
IdsIn(reply) == FlattenSeq([i \in DOMAIN reply.paragraphs |-> reply.paragraphs[i].ids])

\* A valid reply cites something, only what it may, and nothing twice.
LEMMA CitationsAre ==
  ASSUME NEW Ids, NEW Prose, NEW reply, reply.paragraphs \in Seq([prose : Prose, ids : Seq(Ids)]),
         NEW evidence, NEW allowed \in SUBSET Nat, ValidReply(reply, evidence, allowed)
  PROVE  LET cited == CitationsOf(reply, evidence, allowed)
         IN  cited \in Seq(allowed) /\ IsInjective(cited) /\ cited # <<>>
<1> DEFINE cs == IdsIn(reply)
           N == Len(cs)
           V == {s \in Seq(allowed) : IsInjective(s)}
           T == [i \in 1 .. N |-> [b \in V |-> CiteStep(evidence, allowed, b, cs[i])]]
           Iter == CHOOSE iter : iter = [s \in SUBSET DOMAIN cs |->
                     IF s = {} THEN <<>> ELSE CiteStep(evidence, allowed, iter[s \ {Max(s)}], cs[Max(s)])]
<1>1. N \in Nat /\ DOMAIN cs = 1 .. N /\ N # 0 /\ \A i \in 1 .. N : CitedIndex(evidence, allowed, cs[i]) \in allowed
  <2> DEFINE ps == reply.paragraphs
             seqs == [i \in DOMAIN ps |-> ps[i].ids]
  <2>1. ps \in Seq([prose : Prose, ids : Seq(Ids)]) /\ ps # <<>>
    BY DEF ValidReply
  <2>2. \A p \in Range(ps) : p.ids # <<>> /\ \A id \in Range(p.ids) : CitedIndex(evidence, allowed, id) # 0
    BY DEF ValidReply
  <2> HIDE DEF ps
  <2>3. /\ Len(ps) \in Nat \ {0} /\ DOMAIN ps = 1 .. Len(ps)
        /\ \A i \in 1 .. Len(ps) : ps[i] \in [prose : Prose, ids : Seq(Ids)]
    <3> DEFINE P == [prose : Prose, ids : Seq(Ids)]
    <3>1. ps \in Seq(P) /\ ps # <<>>
      BY <2>1
    <3> HIDE DEF P
    <3>2. Len(ps) # 0
      BY <3>1, EmptySeq
    <3>3. Len(ps) \in Nat /\ DOMAIN ps = 1 .. Len(ps) /\ \A i \in 1 .. Len(ps) : ps[i] \in P
      BY <3>1
    <3> QED BY <3>2, <3>3 DEF P
  <2>10. \A i \in 1 .. Len(ps) : ps[i] \in Range(ps)
    BY <2>3 DEF Range
  <2>4. /\ seqs \in Seq(Seq(Ids)) /\ Len(seqs) = Len(ps)
        /\ \A i \in 1 .. Len(ps) : /\ seqs[i] \in Seq(Ids) /\ seqs[i] # <<>>
                                    /\ \A id \in Range(seqs[i]) : CitedIndex(evidence, allowed, id) # 0
    <3>1. seqs = [i \in 1 .. Len(ps) |-> ps[i].ids]
      BY <2>3
    <3>2. \A i \in 1 .. Len(ps) : ps[i].ids \in Seq(Ids)
      BY <2>3
    <3> HIDE DEF seqs
    <3>3. \A i \in 1 .. Len(ps) : seqs[i] = ps[i].ids
      BY <3>1
    <3>4. \A i \in 1 .. Len(ps) : /\ ps[i].ids # <<>>
                                    /\ \A id \in Range(ps[i].ids) : CitedIndex(evidence, allowed, id) # 0
      BY <2>2, <2>10
    <3>5. seqs \in Seq(Seq(Ids)) /\ Len(seqs) = Len(ps)
      BY <2>3, <3>1, <3>2
    <3> QED BY <3>2, <3>3, <3>4, <3>5
  <2>5. cs = FlattenSeq(seqs)
    BY DEF IdsIn, ps
  <2> HIDE DEF seqs, cs
  <2>6. /\ cs \in Seq(Ids)
        /\ \A e : e \in Range(cs) <=> \E i \in 1 .. Len(seqs) : e \in Range(seqs[i])
    BY <2>4, <2>5, FlattenHas
  <2>7. \A id \in Range(cs) : CitedIndex(evidence, allowed, id) # 0
    BY <2>4, <2>6
  <2>8. ASSUME NEW i \in 1 .. N PROVE CitedIndex(evidence, allowed, cs[i]) \in allowed
    <3> DEFINE chosen == {j \in allowed : cs[i] \in {<<"E", j>>, <<"chunk", evidence[j].chunk>>}}
    <3>1. cs[i] \in Range(cs)
      BY <2>6 DEF Range
    <3>2. CitedIndex(evidence, allowed, cs[i]) # 0
      BY <2>7, <3>1
    <3>3. CitedIndex(evidence, allowed, cs[i]) = IF chosen = {} THEN 0 ELSE Min(chosen)
      BY DEF CitedIndex
    <3>4. chosen \in SUBSET Nat /\ chosen \subseteq allowed
      OBVIOUS
    <3> HIDE DEF chosen
    <3>5. chosen # {} => \E k \in chosen : \A j \in chosen : k <= j
      BY <3>4, LeastOf
    <3>6. chosen # {} => Min(chosen) \in chosen
      BY <3>5, Zenon DEF Min
    <3> QED BY <3>2, <3>3, <3>4, <3>6
  <2>9. N # 0
    <3>1. seqs[1] \in Seq(Ids) /\ seqs[1] # <<>> /\ 1 \in 1 .. Len(seqs)
      BY <2>3, <2>4
    <3>2. 1 \in DOMAIN seqs[1]
      BY <3>1
    <3>3. seqs[1][1] \in Range(seqs[1])
      BY <3>2 DEF Range
    <3>4. seqs[1][1] \in Range(cs)
      BY <2>6, <3>1, <3>3
    <3> QED BY <2>6, <3>4 DEF Range
  <2> QED BY <2>6, <2>8, <2>9
<1>2. <<>> \in V
  BY DEF IsInjective
<1>3. ASSUME NEW i \in 1 .. N, NEW b \in V
      PROVE  CiteStep(evidence, allowed, b, cs[i]) \in V /\ CiteStep(evidence, allowed, b, cs[i]) # <<>>
  <2> DEFINE j == CitedIndex(evidence, allowed, cs[i])
  <2>1. j \in allowed
    BY <1>1
  <2>2. CiteStep(evidence, allowed, b, cs[i]) = IF j \in Range(b) THEN b ELSE Append(b, j)
    BY DEF CiteStep
  <2> HIDE DEF j, cs
  <2>3. b \in Seq(allowed) /\ IsInjective(b)
    OBVIOUS
  <2>4. Append(b, j) \in Seq(allowed) /\ Append(b, j) # <<>>
    BY <2>1, <2>3, Appending
  <2>5. j \notin Range(b) => IsInjective(Append(b, j))
    BY <2>1, <2>3, AppendingNew
  <2>6. j \in Range(b) => b # <<>>
    BY DEF Range
  <2> QED BY <2>2, <2>3, <2>4, <2>5, <2>6
<1>4. CitationsOf(reply, evidence, allowed) = Iter[1 .. N]
  <2>1. CitationsOf(reply, evidence, allowed) = Iter[DOMAIN cs]
    BY DEF CitationsOf, CiteStep, IdsIn, FoldLeft, MapThenFoldSet
  <2> QED BY <1>1, <2>1
<1> HIDE DEF cs, V
<1>5. T \in [1 .. N -> [V -> V]]
  BY <1>3
<1>6. PICK g \in [SUBSET (1 .. N) -> V] : IsFoldLeft(g, N, V, <<>>, T)
  <2> HIDE DEF T, N
  <2> QED BY <1>1, <1>2, <1>5, FoldLeftIsDefined
<1>7. g = [s \in SUBSET DOMAIN cs |-> IF s = {} THEN <<>> ELSE CiteStep(evidence, allowed, g[s \ {Max(s)}], cs[Max(s)])]
  BY <1>1, <1>6 DEF IsFoldLeft
<1>8. Iter = [s \in SUBSET DOMAIN cs |-> IF s = {} THEN <<>> ELSE CiteStep(evidence, allowed, Iter[s \ {Max(s)}], cs[Max(s)])]
  BY <1>7, Zenon
<1> HIDE DEF Iter
<1>9. Unrolls(Iter, N, V, <<>>, T)
  BY <1>1, <1>8, PrefixMax DEF Unrolls
<1>10. HasTrace(Iter, N, V, <<>>, T)
  <2> HIDE DEF T, N
  <2> QED BY <1>1, <1>2, <1>5, <1>9, TraceOf
<1>11. PICK h : IsTrace(h, N, V, <<>>, T) /\ h[N] = Iter[1 .. N]
  BY <1>10 DEF HasTrace
<1>12. h[N] \in V /\ h[N] # <<>>
  <2>1. N \in 1 .. N
    BY <1>1
  <2>2. h[N - 1] \in V /\ h[N] = CiteStep(evidence, allowed, h[N - 1], cs[N])
    BY <1>11, <2>1 DEF IsTrace
  <2> QED BY <1>3, <2>1, <2>2
<1> QED BY <1>4, <1>11, <1>12 DEF V

\* The smaller of two numbers, and the head of a list that is that long.
LEMMA HeadIs ==
  ASSUME NEW E, NEW s \in Seq(E), IsInjective(s), NEW n \in Nat
  PROVE  LET h == SubSeq(s, 1, Min({n, Len(s)}))
         IN  h \in Seq(E) /\ IsInjective(h)
<1> DEFINE m == Min({n, Len(s)})
           h == SubSeq(s, 1, m)
<1>1. Len(s) \in Nat /\ DOMAIN s = 1 .. Len(s) /\ \A i \in 1 .. Len(s) : s[i] \in E
  OBVIOUS
<1>2. m \in {n, Len(s)} /\ m <= Len(s)
  <2>1. \E k \in {n, Len(s)} : \A j \in {n, Len(s)} : k <= j
    BY <1>1
  <2>2. m \in {n, Len(s)} /\ \A j \in {n, Len(s)} : m <= j
    BY <2>1, Zenon DEF Min
  <2> QED BY <2>2
<1> HIDE DEF m
<1>3. m \in 0 .. Len(s)
  <2>1. CASE m = n
    BY <1>1, <1>2, <2>1
  <2>2. CASE m = Len(s)
    BY <1>1, <2>2
  <2> QED BY <1>2, <2>1, <2>2
<1>4. /\ h \in Seq(E) /\ DOMAIN h = 1 .. m
      /\ \A i \in 1 .. m : h[i] = s[i]
  BY <1>1, <1>3
<1> HIDE DEF h
<1>5. ASSUME NEW i \in 1 .. m, NEW j \in 1 .. m, h[i] = h[j] PROVE i = j
  <2>1. i \in 1 .. Len(s) /\ j \in 1 .. Len(s) /\ s[i] = s[j]
    BY <1>1, <1>3, <1>4, <1>5
  <2> QED BY <1>1, <2>1 DEF IsInjective
<1>6. IsInjective(h)
  BY <1>4, <1>5 DEF IsInjective
<1> QED BY <1>4, <1>6 DEF h, m

\* The rows the metadata search reads: one per file, with a path of its own.
LEMMA RowsOfFiles ==
  /\ IsFiniteSet(FileRows)
  /\ \A r \in FileRows : r.id \in Files /\ r.path_order \in Int /\ r = FileRow(r.id)
  /\ \A r, q \in FileRows : r.path_order = q.path_order => r = q
<1> DEFINE f == [x \in Files |-> FileRow(x)]
<1>1. FileRows = {f[x] : x \in Files}
  BY DEF FileRows
<1>2. f \in [Files -> FileRows]
  BY DEF FileRows
<1> HIDE DEF f
<1>3. IsFiniteSet(Files)
  BY CorpusAssumption
<1>4. IsFiniteSet({f[x] : x \in Files})
  BY <1>2, <1>3, ImageIsFinite
<1>5. ASSUME NEW r \in FileRows PROVE r.id \in Files /\ r = FileRow(r.id) /\ r.path_order = FileInfo[r.id].path_order
  BY DEF FileRows, FileRow
<1>6. \A x, y \in Files : FileInfo[x].path_order \in Int /\ (FileInfo[x].path_order = FileInfo[y].path_order => x = y)
  BY PathAssumption
<1>7. \A r, q \in FileRows : r.path_order = q.path_order => r = q
  BY <1>5, <1>6
<1> QED BY <1>1, <1>4, <1>5, <1>6, <1>7

\* The first tier that matches is one of the nine.
LEMMA TierIs ==
  ASSUME NEW r \in FileRows
  PROVE  FileTier(r, MetadataTerms(QueryWords, CourseWords), QueryExtensions) \in Int
<1> DEFINE terms == MetadataTerms(QueryWords, CourseWords)
           tiers == {NoTier} \cup {NameTier[t][r.id] : t \in terms}
                             \cup (IF r.extension \in QueryExtensions THEN {4} ELSE {})
<1>1. r.id \in Files
  BY RowsOfFiles
<1>2. \A t \in terms, f \in Files : NameTier[t][f] \in 1 .. NoTier
  BY TierAssumption
<1>3. NoTier \in Nat
  BY DEF NoTier
<1> HIDE DEF terms
<1>4. tiers \in SUBSET Nat /\ tiers # {}
  BY <1>1, <1>2, <1>3
<1>5. FileTier(r, terms, QueryExtensions) = Min(tiers)
  BY DEF FileTier
<1> HIDE DEF tiers
<1>6. \E k \in tiers : \A j \in tiers : k <= j
  BY <1>4, LeastOf
<1>7. Min(tiers) \in tiers
  BY <1>6, Zenon DEF Min
<1>8. Min(tiers) \in Nat
  BY <1>4, <1>7
<1>9. FileTier(r, terms, QueryExtensions) \in Nat
  BY <1>5, <1>8, Zenon
<1> QED BY <1>9 DEF terms

\* The rows of a file search are files, each once.
LEMMA HitsAre ==
  ASSUME NEW cs, NEW types
  PROVE  LET hits == MetadataHits(FileRows, QueryWords, cs, CourseWords, types, QueryExtensions, TopK)
         IN  hits \in Seq(FileRows) /\ IsInjective(hits)
<1> DEFINE terms == MetadataTerms(QueryWords, CourseWords)
           scoped(f) == FileInScope(f, Range(KnownCourses(cs)), types, QueryExtensions)
           tier(f) == FileTier(f, terms, QueryExtensions)
           S == {f \in FileRows : scoped(f) /\ tier(f) < NoTier}
           a == [f \in S |-> tier(f)]
           b == [f \in S |-> f.path_order]
           before == ByTwo(a, b, S)
           N == Cardinality(S)
           ahead(f, g) == \/ tier(f) < tier(g)
                          \/ (tier(f) = tier(g) /\ f.path_order < g.path_order)
           s == InOrder(S, ahead)
           hits == MetadataHits(FileRows, QueryWords, cs, CourseWords, types, QueryExtensions, TopK)
<1>1. hits = IF terms = {} /\ QueryExtensions = {} THEN <<>> ELSE SubSeq(s, 1, Min({TopK, Len(s)}))
  BY DEF MetadataHits
<1>2. \A f \in S : f \in FileRows /\ tier(f) \in Int /\ f.path_order \in Int
  BY RowsOfFiles, TierIs
<1>3. IsFiniteSet(S)
  BY RowsOfFiles, FS_Subset
<1> HIDE DEF scoped, tier
<1>4. s = [n \in 1 .. N |-> CHOOSE x \in S : Cardinality({y \in S : ahead(y, x)}) = n - 1]
  BY DEF InOrder
<1>5. S \subseteq FileRows
  OBVIOUS
<1> HIDE DEF S
<1>6. a \in [S -> Int] /\ b \in [S -> Int] /\ \A x, y \in S : b[x] = b[y] => x = y
  <2>1. a \in [S -> Int] /\ b \in [S -> Int] /\ \A x \in S : b[x] = x.path_order
    BY <1>2
  <2> HIDE DEF b
  <2> QED BY <2>1, <1>5, RowsOfFiles
<1>7. before \in [S -> SUBSET S] /\ StrictlyOrders(before, S)
  <2> HIDE DEF a, b
  <2> QED BY <1>6, TwoOrder
<1>8. \A x \in S : before[x] = {y \in S : ahead(y, x)}
  BY DEF ByTwo
<1> HIDE DEF before, a, b, s, ahead
<1>9. Placed(s, before, S)
  <2>1. s = [n \in 1 .. N |-> s[n]]
    <3> DEFINE at(n) == CHOOSE x \in S : Cardinality({y \in S : ahead(y, x)}) = n - 1
    <3>1. s = [n \in 1 .. N |-> at(n)]
      BY <1>4
    <3> HIDE DEF at
    <3> QED BY <3>1
  <2>2. ASSUME NEW k \in 1 .. N, \E x \in S : Cardinality(before[x]) = k - 1
        PROVE  s[k] \in S /\ Cardinality(before[s[k]]) = k - 1
    <3>1. s[k] = CHOOSE x \in S : Cardinality({y \in S : ahead(y, x)}) = k - 1
      BY <1>4
    <3>2. \E x \in S : Cardinality({y \in S : ahead(y, x)}) = k - 1
      BY <1>8, <2>2
    <3>3. s[k] \in S /\ Cardinality({y \in S : ahead(y, s[k])}) = k - 1
      BY <3>1, <3>2, Zenon
    <3> QED BY <1>8, <3>3
  <2> QED BY <2>1, <2>2 DEF Placed
<1>10. IsSortedBy(s, before, S)
  BY <1>3, <1>7, <1>9, Sorting
<1>11. N \in Nat
  BY <1>3, FS_CardinalityType
<1>12. s \in Seq(FileRows) /\ IsInjective(s)
  <2>1. s \in [1 .. N -> S] /\ \A m, n \in DOMAIN s : s[m] = s[n] => m = n
    BY <1>10 DEF IsSortedBy
  <2> HIDE DEF N
  <2>2. s \in Seq(FileRows)
    BY <1>5, <1>11, <2>1
  <2> QED BY <2>1, <2>2 DEF IsInjective
<1>13. <<>> \in Seq(FileRows) /\ IsInjective(<<>>)
  BY DEF IsInjective
<1>14. TopK \in Nat
  BY RunAssumption
<1>15. SubSeq(s, 1, Min({TopK, Len(s)})) \in Seq(FileRows) /\ IsInjective(SubSeq(s, 1, Min({TopK, Len(s)})))
  BY <1>12, <1>14, HeadIs
<1> QED BY <1>1, <1>13, <1>15
----------------------------------------------------------------------------
(* The inductive invariant, part by part.                                   *)

\* A result set as a search leaves it.
SetOk(s) ==
  /\ \A i \in DOMAIN s.results : IF s.method = "metadata" THEN s.results[i].chunk = NoChunk
                                 ELSE s.results[i].chunk \in ChunkIds /\ s.results[i].text \in Texts
  /\ \A i, j \in DOMAIN s.results : Identity(s.results[i]) = Identity(s.results[j]) => i = j
GoodSets == {s \in FoundType : SetOk(s)}

ChunkRow == [file : Files, text : Texts]
RunType == [status : {"none", "running", "failed", "completed", "unsupported"},
            envelopes : Seq([method : {"metadata", "keyword", "semantic"}, count : Nat]),
            rows : Seq([chunk : ChunkIds \cup {NoChunk}, file : Files, selected : BOOLEAN, content : BOOLEAN])]
TablesTyped == /\ chunks \in [ChunkIds -> ChunkRow \cup {NoRow}]
               /\ status \in [Files -> {"indexed", "failed", "missing"}]
               /\ run \in RunType

\* The stages in which a search may still be read, and those before the fusion.
Ranking == {"keyword", "semantic", "record", "fuse", "record fused"}
Searching == {"plan", "start", "metadata", "keyword", "semantic", "record", "fuse"}

\* A plan that is searched has a query for the vector index.
PlanReady == /\ plan.queries \in Seq(STRING)
             /\ pc = "start" => (plan.type # Unsupported => plan.queries # <<>>)
             /\ pc \in {"metadata"} \cup Ranking => plan.queries # <<>>

\* After the two lexical searches the sets are those of the queries, in order.
SetsFound == /\ sets \in Seq(GoodSets)
             /\ \A q \in DOMAIN plan.queries :
                  q + 2 \in DOMAIN sets => sets[q + 2].method = "semantic" /\ sets[q + 2].query = plan.queries[q]

\* The envelopes recorded so far are of the first sets.
EnvelopesMatch == /\ Len(run.envelopes) <= Len(sets)
                  /\ \A i \in DOMAIN run.envelopes : run.envelopes[i].count = Len(sets[i].results)
StagesMatch ==
  /\ pc \in {"plan", "start", "metadata"} => Len(sets) = 0
  /\ pc = "keyword" => Len(sets) = 1 /\ Len(run.envelopes) = 1
  /\ pc = "semantic" => Len(sets) = 2 /\ Len(run.envelopes) = 2
  /\ pc = "record" => /\ Len(run.envelopes) < Len(sets)
                      /\ Len(sets) <= 2 => Len(run.envelopes) = Len(sets) - 1

\* What a search read of a chunk is still so, unless its file was extracted again.
IsRead(r) == r.chunk # NoChunk => \/ chunks[r.chunk] = [file |-> r.file, text |-> r.text]
                                  \/ r.file \in rewritten
SearchesRead == pc \in Ranking => \A i \in DOMAIN sets : \A k \in DOMAIN sets[i].results :
                                    IsRead(sets[i].results[k])

FusedMatch == /\ fused = <<>> \/ FusedOk(sets, fused)
              /\ pc \in Searching => fused = <<>>

\* A row keeps its chunk only as long as that chunk is the one that was fused.
RowMatches(i) ==
  LET row == run.rows[i]
      r == fused[i].result
  IN  row.chunk # NoChunk => /\ row.chunk = r.chunk /\ chunks[r.chunk] # NoRow
                             /\ chunks[r.chunk].text = r.text \/ r.file \in rewritten
RowsMatch == /\ pc \in {"plan", "start"} => run.rows = <<>>
             /\ pc = "assemble" => /\ DOMAIN run.rows = DOMAIN fused
                                   /\ \A i \in DOMAIN run.rows : RowMatches(i)

\* What is quoted, and what the coverage says of it.
ItemMatches(e) == /\ e.rank \in DOMAIN fused
                  /\ e.text = fused[e.rank].result.text \/ e.file \in rewritten
                  /\ HasContent(fused[e.rank]) => /\ e.course \notin packet.coverage.courses
                                                  /\ \A i \in packet.coverage.indexes : SourceTypeOf[i] # e.type
PacketSound ==
  /\ ValidPacket(packet) /\ KeepsLimits(packet)
  /\ packet.status = run.status /\ packet.coverage.status = run.status
  /\ packet.coverage.queries \subseteq UnhitQueries
  /\ DOMAIN packet.evidence = 1 .. Len(packet.evidence) /\ Len(packet.evidence) \in Nat
  /\ \A e \in Range(packet.evidence) : ItemMatches(e)
  /\ \A w \in packet.weaknesses : Last(<<"collapsed">> \o w) = Last(w)
PacketMatches ==
  /\ packet # NoPacket <=> run.status \in {"completed", "unsupported"}
  /\ packet # NoPacket => PacketSound /\ pc \in {"generate", "store", "done"}
  /\ pc \in {"generate", "store"} => packet # NoPacket
  /\ {i \in DOMAIN run.rows : run.rows[i].selected} = {e.rank : e \in Range(packet.evidence)}

\* An answer is one of the four that the packet allows.
Decided(a) ==
  LET allowed == PromptEvidence(packet.evidence)
  IN  \/ packet.evidence = <<>> /\ a = InsufficientEvidence(packet)
      \/ packet.evidence # <<>> /\ allowed = {} /\ a = PromptTooSmall(packet)
      \/ allowed # {} /\ a = ValidationRefusal(packet)
      \/ \E reply \in Replies : /\ allowed # {} /\ ValidReply(reply, packet.evidence, allowed)
                                /\ a = Accepted(reply, packet)
AnswersMatch ==
  /\ pc = "store" => Decided(answer)
  /\ stored # NoAnswer => pc = "done" /\ packet # NoPacket /\ Decided(stored)
  /\ pc # "done" => outcome = "none"
  /\ outcome = "unstorable" => \E w \in packet.weaknesses : Last(w) \in Irregular

EvidenceInv ==
  /\ TablesTyped /\ PlanReady /\ SetsFound /\ EnvelopesMatch /\ StagesMatch /\ SearchesRead
  /\ FusedMatch /\ RowsMatch /\ PacketMatches /\ AnswersMatch

\* Sets as the searches leave them are lists the fusion can merge.
LEMMA SetsAreGood ==
  ASSUME NEW found \in Seq(GoodSets)
  PROVE  found \in FoundLists
<1>1. /\ found \in Seq(FoundType) /\ DOMAIN found = 1 .. Len(found)
      /\ \A i \in 1 .. Len(found) : found[i] \in FoundType /\ SetOk(found[i])
  <2>1. \A s \in GoodSets : s \in FoundType /\ SetOk(s)
    BY DEF GoodSets
  <2>2. DOMAIN found = 1 .. Len(found) /\ Len(found) \in Nat /\ \A i \in 1 .. Len(found) : found[i] \in GoodSets
    OBVIOUS
  <2>3. found \in Seq(FoundType)
    <3> HIDE DEF GoodSets, FoundType
    <3>1. found = [i \in 1 .. Len(found) |-> found[i]]
      OBVIOUS
    <3> QED BY <2>1, <2>2, <3>1
  <2> QED BY <2>1, <2>2, <2>3
<1>2. ASSUME NEW i \in 1 .. Len(found)
      PROVE  DOMAIN found[i].results = 1 .. Len(found[i].results)
  <2>1. found[i].results \in Seq(ResultType)
    BY <1>1 DEF FoundType
  <2> QED BY <2>1
<1>3. ASSUME NEW c \in CellsOf(found)
      PROVE  /\ c.set \in 1 .. Len(found) /\ c.rank \in DOMAIN found[c.set].results
             /\ ResultAt(found, c) = found[c.set].results[c.rank] /\ SetOk(found[c.set])
  <2>1. c.set \in 1 .. Len(found) /\ c.rank \in 1 .. Len(found[c.set].results)
    BY DEF CellsOf
  <2> QED BY <1>1, <1>2, <2>1 DEF ResultAt
<1>4. ASSUME NEW c \in CellsOf(found)
      PROVE  IF IsContent(found, c) THEN ResultAt(found, c).chunk \in ChunkIds /\ ResultAt(found, c).text \in Texts
                                    ELSE ResultAt(found, c).chunk = NoChunk
  BY <1>3 DEF SetOk, IsContent
<1>5. ASSUME NEW c \in CellsOf(found), NEW d \in CellsOf(found), c.set = d.set,
             Identity(ResultAt(found, c)) = Identity(ResultAt(found, d))
      PROVE  c.rank = d.rank
  BY <1>3, <1>5 DEF SetOk
<1> QED BY <1>1, <1>4, <1>5 DEF FoundLists, FoundOk

\* The largest id of a finite set of ids.
LEMMA LargestOf ==
  ASSUME NEW S \in SUBSET Nat, IsFiniteSet(S), S # {}
  PROVE  Max(S) \in S /\ \A x \in S : x <= Max(S)
<1> DEFINE Good == {s \in SUBSET S : s # {} => \E k \in s : \A x \in s : x <= k}
<1>1. {} \in Good
  OBVIOUS
<1>2. ASSUME NEW s \in SUBSET S, s # {}, \A x \in s : s \ {x} \in Good PROVE s \in Good
  <2>1. PICK y \in s : TRUE
    BY <1>2
  <2>2. s \ {y} # {} => \E k \in s \ {y} : \A x \in s \ {y} : x <= k
    BY <1>2, <2>1
  <2>3. CASE s \ {y} = {}
    <3>1. s = {y} /\ y \in Nat
      BY <2>1, <2>3
    <3> QED BY <3>1
  <2>4. CASE s \ {y} # {}
    <3>1. PICK k \in s \ {y} : \A x \in s \ {y} : x <= k
      BY <2>2, <2>4
    <3>2. k \in Nat /\ y \in Nat /\ k \in s /\ \A x \in s : x \in Nat
      BY <2>1
    <3>3. \A x \in s : x <= (IF k <= y THEN y ELSE k)
      BY <3>1, <3>2
    <3> QED BY <2>1, <3>2, <3>3
  <2> QED BY <2>3, <2>4
<1>3. SUBSET S \subseteq Good
  <2>1. \A s \in SUBSET S : (s # {} /\ \A x \in s : s \ {x} \in Good) => s \in Good
    BY <1>2
  <2> HIDE DEF Good
  <2> QED BY <1>1, <2>1, BySize
<1>4. \E k \in S : \A x \in S : x <= k
  <2>1. S \in Good
    BY <1>3
  <2> QED BY <2>1
<1>5. \E k \in S : \A x \in S : k >= x
  BY <1>4
<1>6. Max(S) \in S /\ \A x \in S : Max(S) >= x
  BY <1>5, Zenon DEF Max
<1> QED BY <1>6

\* What a content search finds of a chunk is what the tables say of it.
LEMMA RankingsAre ==
  ASSUME TablesTyped, NEW S \in SUBSET Searchable, NEW s \in Rankings(S)
  PROVE  /\ s \in Seq(ResultType)
         /\ \A i \in DOMAIN s : s[i].chunk \in ChunkIds /\ s[i].text \in Texts /\ IsRead(s[i])
         /\ \A i, j \in DOMAIN s : Identity(s[i]) = Identity(s[j]) => i = j
<1> DEFINE R == {ChunkResult(r) : r \in S}
<1>1. s \in SeqOf(R, TopK) /\ IsInjective(s)
  BY DEF Rankings
<1>2. PICK m \in 0 .. TopK : s \in [1 .. m -> R]
  BY <1>1 DEF SeqOf
<1>3. ASSUME NEW x \in R
      PROVE  /\ x \in ResultType /\ x.chunk \in ChunkIds /\ x.text \in Texts /\ IsRead(x)
             /\ x = ChunkResult(Row(x.chunk))
  <2>1. PICK r \in S : x = ChunkResult(r)
    OBVIOUS
  <2>2. PICK c \in ChunkIds : chunks[c] # NoRow /\ r = Row(c)
    BY <2>1 DEF Searchable
  <2>3. chunks[c] \in ChunkRow
    BY <2>2 DEF TablesTyped
  <2>4. chunks[c].file \in Files /\ chunks[c].text \in Texts
        /\ chunks[c] = [file |-> chunks[c].file, text |-> chunks[c].text]
    BY <2>3 DEF ChunkRow
  <2>5. status[chunks[c].file] \in {"indexed", "failed", "missing"}
    BY <2>4 DEF TablesTyped
  <2>6. r.id = c /\ r.file = chunks[c].file /\ r.text = chunks[c].text
        /\ r.course = FileInfo[r.file].course /\ r.type = FileInfo[r.file].category
    BY <2>2 DEF Row
  <2>7. x = [chunk |-> r.id, file |-> r.file, course |-> r.course, type |-> r.type,
             status |-> status[r.file], text |-> r.text, location |-> TextInfo[r.text].location]
    BY <2>1 DEF ChunkResult
  <2>8. x.chunk = c /\ x.file = chunks[c].file /\ x.text = chunks[c].text
    BY <2>6, <2>7
  <2>9. x \in ResultType
    <3>1. r.course \in OrNothing({FileInfo[f].course : f \in Files})
      BY <2>4, <2>6 DEF OrNothing
    <3>2. r.type \in OrNothing({FileInfo[f].category : f \in Files})
      BY <2>4, <2>6 DEF OrNothing
    <3>3. TextInfo[r.text].location \in OrNothing({TextInfo[t].location : t \in Texts})
      BY <2>4, <2>6 DEF OrNothing
    <3>4. r.text \in OrNothing(Texts) /\ status[r.file] \in OrNothing({"indexed", "failed", "missing"})
      BY <2>4, <2>5, <2>6 DEF OrNothing
    <3> QED BY <2>4, <2>6, <2>7, <3>1, <3>2, <3>3, <3>4 DEF ResultType
  <2>10. IsRead(x)
    BY <2>4, <2>8 DEF IsRead
  <2> QED BY <2>1, <2>2, <2>4, <2>8, <2>9, <2>10
<1> HIDE DEF R
<1>4. TopK \in Nat
  BY RunAssumption
<1>5. s \in Seq(ResultType) /\ DOMAIN s = 1 .. m
  <2>1. m \in Nat /\ \A i \in 1 .. m : s[i] \in ResultType
    BY <1>2, <1>3, <1>4
  <2> QED BY <1>2, <2>1
<1>6. \A i \in DOMAIN s : s[i].chunk \in ChunkIds /\ s[i].text \in Texts /\ IsRead(s[i])
  BY <1>2, <1>3
<1>7. ASSUME NEW i \in DOMAIN s, NEW j \in DOMAIN s, Identity(s[i]) = Identity(s[j]) PROVE i = j
  <2>1. s[i] \in R /\ s[j] \in R
    BY <1>2
  <2>2. s[i].chunk = s[j].chunk
    BY <1>3, <1>7, <2>1, Identities
  <2>3. s[i] = s[j]
    <3>1. s[i] = ChunkResult(Row(s[i].chunk)) /\ s[j] = ChunkResult(Row(s[j].chunk))
      BY <1>3, <2>1
    <3> QED BY <2>2, <3>1, Zenon
  <2> QED BY <1>1, <2>3 DEF IsInjective
<1> QED BY <1>5, <1>6, <1>7

\* A content search adds a set as it should be.
LEMMA ContentSetsAre ==
  ASSUME TablesTyped, NEW S \in SUBSET Searchable, NEW s \in Rankings(S),
         NEW method \in {"keyword", "semantic"}, NEW query \in Asked
  PROVE  Found(method, query, s) \in GoodSets
<1> DEFINE found == [method |-> method, query |-> query, results |-> s]
<1>1. Found(method, query, s) = found
  BY DEF Found
<1>2. found.method = method /\ found.results = s /\ method # "metadata"
  OBVIOUS
<1>3. s \in Seq(ResultType)
  BY RankingsAre
<1>4. found \in FoundType
  BY <1>3 DEF FoundType
<1> HIDE DEF found
<1>5. SetOk(found)
  BY <1>2, RankingsAre DEF SetOk
<1> QED BY <1>1, <1>4, <1>5 DEF GoodSets
----------------------------------------------------------------------------
(* What a part of the invariant depends on.                                 *)
\* SearchesRead is about the chunks, the rewritten files and the sets.
LEMMA SearchesReadFrame ==
  ASSUME SearchesRead, UNCHANGED <<chunks, rewritten, sets>>, pc' \in Ranking => pc \in Ranking
  PROVE  SearchesRead'
<1>1. \A r : IsRead(r)' <=> IsRead(r)
  BY DEF IsRead
<1> QED BY <1>1 DEF SearchesRead

\* FusedMatch is about the sets and the fused list.
LEMMA FusedFrame ==
  ASSUME FusedMatch, UNCHANGED <<sets, fused>>, pc' \in Searching => pc \in Searching
  PROVE  FusedMatch'
BY DEF FusedMatch

\* RowsMatch is about the chunks, the rewritten files, the rows and the fused list.
LEMMA RowsFrame ==
  ASSUME RowsMatch, UNCHANGED <<chunks, rewritten, run, fused>>,
         pc' = pc \/ pc' \notin {"plan", "start", "assemble"}
  PROVE  RowsMatch'
<1>1. \A i : RowMatches(i)' <=> RowMatches(i)
  BY DEF RowMatches
<1> QED BY <1>1 DEF RowsMatch

\* PacketMatches outlives a change of rows that keeps their flags.
LEMMA PacketFrame ==
  ASSUME PacketMatches, UNCHANGED <<packet, fused, sets>>, rewritten \subseteq rewritten',
         run'.status = run.status,
         {i \in DOMAIN run'.rows : run'.rows[i].selected} = {i \in DOMAIN run.rows : run.rows[i].selected},
         packet # NoPacket => pc' \in {"generate", "store", "done"},
         pc' \in {"generate", "store"} => packet # NoPacket
  PROVE  PacketMatches'
<1>1. UnhitQueries' = UnhitQueries /\ \A c : HasContent(c)' <=> HasContent(c)
  BY DEF UnhitQueries, HasContent
<1>2. ASSUME NEW e, ItemMatches(e) PROVE ItemMatches(e)'
  BY <1>1, <1>2 DEF ItemMatches
<1>3. PacketSound => PacketSound'
  <2>1. HAVE PacketSound
  <2>2. ValidPacket(packet)' <=> ValidPacket(packet)
    OBVIOUS
  <2> QED BY <1>1, <1>2, <2>1, <2>2 DEF PacketSound
<1> QED BY <1>3 DEF PacketMatches

\* What may be decided depends on the packet alone.
LEMMA DecidedFrame ==
  ASSUME NEW a, UNCHANGED packet
  PROVE  Decided(a)' <=> Decided(a)
BY DEF Decided

\* AnswersMatch outlives a step that decides nothing.
LEMMA AnswersFrame ==
  ASSUME AnswersMatch, UNCHANGED <<answer, packet, stored>>,
         pc' = "store" => pc = "store", pc = "done" => pc' = "done",
         pc' # "done" => UNCHANGED outcome, outcome' # "unstorable" \/ UNCHANGED outcome
  PROVE  AnswersMatch'
<1>1. Decided(stored)' <=> Decided(stored)
  BY DEF Decided
<1>2. Decided(answer)' <=> Decided(answer)
  BY DEF Decided
<1> QED BY <1>1, <1>2 DEF AnswersMatch

----------------------------------------------------------------------------
(* The steps that only leave their stage.                                   *)
\* A step that only fails, ends or leaves its stage keeps the invariant.
LEMMA Leaving ==
  ASSUME EvidenceInv, UNCHANGED <<corpus, plan, sets, fused, answer, recorded>>,
         \/ pc' = "failing" /\ UNCHANGED outcome /\ packet = NoPacket
         \/ pc' = "done" /\ outcome' # "unstorable",
         pc # "done"
  PROVE  EvidenceInv'
<1> USE DEF EvidenceInv, corpus, recorded
<1>1. TablesTyped'
  BY DEF TablesTyped
<1>2. PlanReady'
  BY DEF PlanReady, Ranking
<1>3. SetsFound'
  BY DEF SetsFound
<1>4. EnvelopesMatch'
  BY DEF EnvelopesMatch
<1>5. StagesMatch'
  BY DEF StagesMatch
<1>6. SearchesRead'
  BY SearchesReadFrame DEF Ranking
<1>7. FusedMatch'
  BY FusedFrame DEF Searching
<1>8. RowsMatch'
  BY RowsFrame
<1>9. PacketMatches'
  BY PacketFrame
<1>10. AnswersMatch'
  BY AnswersFrame
<1> QED BY <1>1, <1>2, <1>3, <1>4, <1>5, <1>6, <1>7, <1>8, <1>9, <1>10

\* Before the packet there is none.
LEMMA NoPacketYet ==
  ASSUME EvidenceInv, pc \notin {"generate", "store", "done"}
  PROVE  packet = NoPacket
BY DEF EvidenceInv, PacketMatches

\* A plan that is accepted has queries, unless it is unsupported.
LEMMA PlanOfIs ==
  ASSUME NEW p \in Payloads, PlanOf(p) # Refused
  PROVE  PlanOf(p).queries \in Seq(STRING) /\ (PlanOf(p).type # Unsupported => PlanOf(p).queries # <<>>)
<1>1. p.queries \in Seq(STRING)
  BY ModelAssumption
<1>3. CASE p.confidence < MinConfidence
  <2> DEFINE made == NoScope(Unsupported, "low confidence", p.confidence)
  <2>1. PlanOf(p) = made
    BY <1>3 DEF PlanOf
  <2>2. made.queries = <<>> /\ made.type = Unsupported
    BY DEF NoScope
  <2>3. <<>> \in Seq(STRING)
    OBVIOUS
  <2> HIDE DEF made
  <2> QED BY <2>1, <2>2, <2>3, Zenon
<1>4. CASE ~ (p.confidence < MinConfidence)
  <2> DEFINE made == [NoScope(p.type, p.reason, p.confidence) EXCEPT
          !.courses = CanonicalCourses(p.courses), !.indexes = WidenIndexes(RemoveRepeats(p.indexes)),
          !.terms = RemoveRepeats(p.terms), !.queries = RemoveRepeats(p.queries),
          !.file_inspection = p.file_inspection, !.python = p.python]
  <2>1. PlanOf(p) = made /\ ScopesFit(p)
    BY <1>4 DEF PlanOf
  <2>2. made.queries = RemoveRepeats(p.queries) /\ made.type = p.type
    BY DEF NoScope
  <2>3. p.type # Unsupported => p.queries # <<>>
    BY <2>1 DEF ScopesFit
  <2> HIDE DEF made
  <2> QED BY <1>1, <2>1, <2>2, <2>3, RemoveRepeatsIs
<1> QED BY <1>3, <1>4

\* Planning keeps the invariant.
LEMMA PlanStep ==
  ASSUME EvidenceInv, NEW p \in Payloads, NEW m \in Contexts, Plan(p, m)
  PROVE  EvidenceInv'
<1>1. CASE Refused \in {PlannerContext(m), PlanOf(p)}
  BY <1>1, Leaving DEF Plan, End
<1>2. CASE Refused \notin {PlannerContext(m), PlanOf(p)}
  <2>1. /\ pc = "plan" /\ pc' = "start" /\ plan' = PlanOf(p)
        /\ UNCHANGED <<chunks, status, edits, rewritten, sets, fused, attempt, answer, run, packet, stored, outcome>>
    BY <1>2 DEF Plan, corpus, recorded
  <2>2. PlanOf(p) # Refused
    BY <1>2
  <2> USE DEF EvidenceInv
  <2>3. TablesTyped'
    BY <2>1 DEF TablesTyped
  <2>4. PlanReady'
    BY <2>1, <2>2, PlanOfIs DEF PlanReady, Ranking
  <2>5. SetsFound'
    <3>1. sets = <<>>
      BY <2>1 DEF StagesMatch, SetsFound
    <3> QED BY <2>1, <3>1 DEF SetsFound
  <2>6. EnvelopesMatch'
    BY <2>1 DEF EnvelopesMatch
  <2>7. StagesMatch'
    BY <2>1 DEF StagesMatch
  <2>8. SearchesRead'
    BY <2>1 DEF SearchesRead, Ranking
  <2>9. FusedMatch'
    BY <2>1, FusedFrame DEF Searching
  <2>10. RowsMatch'
    BY <2>1 DEF RowsMatch
  <2>11. PacketMatches'
    BY <2>1, NoPacketYet, PacketFrame
  <2>12. AnswersMatch'
    BY <2>1, AnswersFrame
  <2> QED BY <2>3, <2>4, <2>5, <2>6, <2>7, <2>8, <2>9, <2>10, <2>11, <2>12
<1> QED BY <1>1, <1>2
----------------------------------------------------------------------------
(* The run and its searches.                                                *)
\* So does starting the run.
LEMMA StartStep ==
  ASSUME EvidenceInv, StartRun
  PROVE  EvidenceInv'
<1> USE DEF EvidenceInv
<1>1. /\ pc = "start" /\ pc' \in {"assemble", "metadata"} /\ (plan.type # Unsupported <=> pc' = "metadata")
      /\ run' = [run EXCEPT !.status = "running"]
      /\ UNCHANGED <<chunks, status, edits, rewritten, plan, sets, fused, attempt, answer, packet, stored, outcome>>
  BY DEF StartRun, corpus
<1>2. packet = NoPacket
  BY <1>1, NoPacketYet
<1>3. run \in RunType
  BY DEF TablesTyped
<1>4. run' \in RunType /\ run'.status = "running" /\ run'.envelopes = run.envelopes /\ run'.rows = run.rows
  BY <1>1, <1>3 DEF RunType
<1>5. TablesTyped'
  BY <1>1, <1>4 DEF TablesTyped
<1>6. PlanReady'
  BY <1>1 DEF PlanReady, Ranking
<1>7. SetsFound'
  BY <1>1 DEF SetsFound
<1>8. EnvelopesMatch'
  BY <1>1, <1>4 DEF EnvelopesMatch
<1>9. StagesMatch'
  BY <1>1 DEF StagesMatch
<1>10. SearchesRead'
  BY <1>1 DEF SearchesRead, Ranking
<1>11. FusedMatch' /\ fused = <<>>
  BY <1>1, FusedFrame DEF FusedMatch, Searching
<1>12. RowsMatch'
  <2>1. run.rows = <<>>
    BY <1>1 DEF RowsMatch
  <2> QED BY <1>1, <1>4, <1>11, <2>1 DEF RowsMatch
<1>13. PacketMatches'
  <2>1. run.status \notin {"completed", "unsupported"} /\ {i \in DOMAIN run.rows : run.rows[i].selected} = {e.rank : e \in Range(packet.evidence)}
    BY <1>2 DEF PacketMatches
  <2> QED BY <1>1, <1>2, <1>4, <2>1 DEF PacketMatches
<1>14. AnswersMatch'
  BY <1>1, AnswersFrame
<1> QED BY <1>5, <1>6, <1>7, <1>8, <1>9, <1>10, <1>11, <1>12, <1>13, <1>14

\* A step of a search: only the sets grow, and they are recorded next.
LEMMA SearchedStep ==
  ASSUME EvidenceInv, pc \in {"metadata", "keyword", "semantic"}, pc' = "record",
         UNCHANGED <<corpus, plan, fused, attempt, answer, recorded, outcome>>,
         SetsFound', EnvelopesMatch', StagesMatch', SearchesRead'
  PROVE  EvidenceInv'
<1> USE DEF EvidenceInv, corpus, recorded
<1>1. TablesTyped'
  BY DEF TablesTyped
<1>2. PlanReady'
  BY DEF PlanReady, Ranking
<1>3. FusedMatch'
  BY DEF FusedMatch, Searching
<1>4. RowsMatch'
  BY RowsFrame
<1>5. PacketMatches'
  <2>1. packet = NoPacket
    BY NoPacketYet
  <2> QED BY <2>1 DEF PacketMatches
<1>6. AnswersMatch'
  BY AnswersFrame
<1> QED BY <1>1, <1>2, <1>3, <1>4, <1>5, <1>6

\* The fields of a set.
LEMMA FoundIs ==
  ASSUME NEW m \in {"metadata", "keyword", "semantic"}, NEW q \in Asked, NEW r \in Seq(ResultType)
  PROVE  [method |-> m, query |-> q, results |-> r] \in FoundType
BY DEF FoundType

\* The metadata search leaves a set of files without chunks, each once.
LEMMA MetadataSet ==
  ASSUME TablesTyped, NEW hits \in Seq(FileRows), IsInjective(hits)
  PROVE  Found("metadata", "query", [i \in DOMAIN hits |-> FileResult(hits[i])]) \in GoodSets
<1> DEFINE results == [i \in DOMAIN hits |-> FileResult(hits[i])]
           found == [method |-> "metadata", query |-> "query", results |-> results]
<1>1. Found("metadata", "query", results) = found
  BY DEF Found
<1>2. DOMAIN hits = 1 .. Len(hits) /\ Len(hits) \in Nat /\ \A i \in 1 .. Len(hits) : hits[i] \in FileRows
  OBVIOUS
<1>3. ASSUME NEW r \in FileRows
      PROVE  /\ FileResult(r) \in ResultType /\ FileResult(r).chunk = NoChunk
             /\ FileResult(r).file = r.id /\ r = FileRow(r.id)
  <2>1. r.id \in Files /\ r = FileRow(r.id)
    BY RowsOfFiles
  <2>2. FileRow(r.id).course = FileInfo[r.id].course /\ FileRow(r.id).status = status[r.id]
    BY DEF FileRow
  <2>3. r.course = FileInfo[r.id].course /\ r.status = status[r.id]
    BY <2>1, <2>2
  <2>4. r.course \in OrNothing({FileInfo[f].course : f \in Files})
    BY <2>1, <2>3 DEF OrNothing
  <2>5. r.status \in OrNothing({"indexed", "failed", "missing"})
    BY <2>1, <2>3 DEF OrNothing, TablesTyped
  <2>6. Nothing \in OrNothing({FileInfo[f].category : f \in Files}) /\ Nothing \in OrNothing(Texts)
        /\ Nothing \in OrNothing({TextInfo[t].location : t \in Texts})
    BY DEF OrNothing
  <2>7. FileResult(r) = [chunk |-> NoChunk, file |-> r.id, course |-> r.course, type |-> Nothing,
                         status |-> r.status, text |-> Nothing, location |-> Nothing]
    BY DEF FileResult
  <2> QED BY <2>1, <2>4, <2>5, <2>6, <2>7 DEF ResultType
<1>4. results \in Seq(ResultType) /\ DOMAIN results = 1 .. Len(hits)
      /\ \A i \in 1 .. Len(hits) : results[i].chunk = NoChunk /\ results[i].file = hits[i].id
                                   /\ results[i] \in ResultType
  BY <1>2, <1>3
<1> HIDE DEF results
<1>9. results \in Seq(ResultType)
  BY <1>4
<1>5. found \in FoundType
  <2>1. "query" \in Asked /\ "metadata" \in {"metadata", "keyword", "semantic"}
    BY DEF Asked
  <2> QED BY <1>9, <2>1, FoundIs
<1>6. found.results = results /\ found.method = "metadata"
  OBVIOUS
<1> HIDE DEF found
<1>7. ASSUME NEW i \in 1 .. Len(hits), NEW j \in 1 .. Len(hits), Identity(results[i]) = Identity(results[j])
      PROVE  i = j
  <2>1. results[i].file = results[j].file
    BY <1>4, <1>7, Identities
  <2>2. hits[i].id = hits[j].id /\ hits[i] \in FileRows /\ hits[j] \in FileRows
    BY <1>2, <1>4, <2>1
  <2>3. hits[i] = FileRow(hits[i].id) /\ hits[j] = FileRow(hits[j].id)
    BY <1>3, <2>2
  <2>4. hits[i] = hits[j]
    BY <2>2, <2>3, Zenon
  <2> QED BY <1>2, <2>4 DEF IsInjective
<1>8. SetOk(found)
  BY <1>4, <1>6, <1>7 DEF SetOk
<1>10. Found("metadata", "query", results) \in GoodSets
  BY <1>1, <1>5, <1>8 DEF GoodSets
<1> QED BY <1>10 DEF results

\* The metadata search keeps the invariant.
LEMMA MetadataStage ==
  ASSUME EvidenceInv, SearchMetadata
  PROVE  EvidenceInv'
<1> DEFINE hits == MetadataHits(FileRows, QueryWords, plan.courses, CourseWords,
                                SourceTypesFor(plan.indexes), QueryExtensions, TopK)
           found == Found("metadata", "query", [i \in DOMAIN hits |-> FileResult(hits[i])])
<1>1. /\ pc = "metadata" /\ pc' = "record" /\ sets' = <<found>>
      /\ UNCHANGED <<corpus, plan, fused, attempt, answer, recorded, outcome>>
  BY DEF SearchMetadata
<1>2. hits \in Seq(FileRows) /\ IsInjective(hits)
  BY HitsAre
<1>3. found \in GoodSets
  <2> HIDE DEF hits
  <2> QED BY <1>2, MetadataSet DEF EvidenceInv
<1>4. ASSUME NEW k \in DOMAIN found.results PROVE found.results[k].chunk = NoChunk
  <2>1. found.method = "metadata"
    BY DEF Found
  <2> HIDE DEF found
  <2> QED BY <1>3, <2>1 DEF GoodSets, SetOk
<1> HIDE DEF found
<1>5. Len(sets') = 1 /\ DOMAIN sets' = {1} /\ sets'[1] = found /\ sets' \in Seq(GoodSets)
  BY <1>1, <1>3
<1>6. SetsFound'
  <2>1. plan' = plan /\ plan.queries \in Seq(STRING)
    BY <1>1 DEF EvidenceInv, PlanReady
  <2>2. \A q \in DOMAIN plan.queries : q + 2 # 1
    BY <2>1
  <2> QED BY <1>5, <2>1, <2>2 DEF SetsFound
<1>7. run' = run /\ Len(run.envelopes) <= 0 /\ run.envelopes \in Seq([method : {"metadata", "keyword", "semantic"}, count : Nat])
  <2>1. Len(sets) = 0 /\ Len(run.envelopes) <= Len(sets)
    BY <1>1 DEF EvidenceInv, StagesMatch, EnvelopesMatch
  <2>2. run \in RunType
    BY DEF EvidenceInv, TablesTyped
  <2> QED BY <1>1, <2>1, <2>2 DEF recorded, RunType
<1>8. Len(run.envelopes) = 0 /\ DOMAIN run.envelopes = {}
  BY <1>7
<1>9. EnvelopesMatch' /\ StagesMatch'
  BY <1>1, <1>5, <1>7, <1>8 DEF EnvelopesMatch, StagesMatch
<1>10. SearchesRead'
  BY <1>4, <1>5 DEF SearchesRead, IsRead
<1> QED BY <1>1, <1>6, <1>9, <1>10, SearchedStep

\* The envelopes are a list, and so are the sets.
LEMMA Lists ==
  ASSUME EvidenceInv
  PROVE  /\ Len(sets) \in Nat /\ DOMAIN sets = 1 .. Len(sets) /\ sets \in Seq(GoodSets)
         /\ Len(run.envelopes) \in Nat /\ DOMAIN run.envelopes = 1 .. Len(run.envelopes)
         /\ Len(run.envelopes) <= Len(sets)
         /\ DOMAIN run.rows = 1 .. Len(run.rows) /\ Len(run.rows) \in Nat
         /\ run.envelopes \in Seq([method : {"metadata", "keyword", "semantic"}, count : Nat])
         /\ plan.queries \in Seq(STRING) /\ DOMAIN plan.queries = 1 .. Len(plan.queries) /\ Len(plan.queries) \in Nat
<1>1. run \in RunType /\ sets \in Seq(GoodSets) /\ plan.queries \in Seq(STRING) /\ Len(run.envelopes) <= Len(sets)
  BY DEF EvidenceInv, TablesTyped, SetsFound, PlanReady, EnvelopesMatch
<1>2. Len(run.envelopes) \in Nat /\ DOMAIN run.envelopes = 1 .. Len(run.envelopes)
      /\ run.envelopes \in Seq([method : {"metadata", "keyword", "semantic"}, count : Nat])
  BY <1>1 DEF RunType
<1>3. DOMAIN run.rows = 1 .. Len(run.rows) /\ Len(run.rows) \in Nat
  BY <1>1 DEF RunType
<1> HIDE DEF GoodSets
<1>4. Len(sets) \in Nat /\ DOMAIN sets = 1 .. Len(sets)
  BY <1>1
<1>5. DOMAIN plan.queries = 1 .. Len(plan.queries) /\ Len(plan.queries) \in Nat
  BY <1>1
<1> QED BY <1>1, <1>2, <1>3, <1>4, <1>5

\* The lengths alone, for steps that count.
LEMMA Lengths ==
  ASSUME EvidenceInv
  PROVE  /\ Len(sets) \in Nat /\ DOMAIN sets = 1 .. Len(sets)
         /\ Len(run.envelopes) \in Nat /\ DOMAIN run.envelopes = 1 .. Len(run.envelopes)
         /\ Len(run.envelopes) <= Len(sets)
         /\ DOMAIN run.rows = 1 .. Len(run.rows) /\ Len(run.rows) \in Nat
         /\ DOMAIN plan.queries = 1 .. Len(plan.queries) /\ Len(plan.queries) \in Nat
BY Lists

\* Each set found is as it should be.
LEMMA EachSet ==
  ASSUME EvidenceInv, NEW i \in DOMAIN sets
  PROVE  /\ sets[i] \in FoundType /\ SetOk(sets[i]) /\ sets[i].results \in Seq(ResultType)
         /\ sets[i].method \in {"metadata", "keyword", "semantic"}
         /\ DOMAIN sets[i].results = 1 .. Len(sets[i].results) /\ Len(sets[i].results) \in Nat
<1>1. sets \in Seq(GoodSets)
  BY Lists
<1>2. sets[i] \in GoodSets
  BY <1>1
<1>3. sets[i] \in FoundType /\ SetOk(sets[i])
  BY <1>2 DEF GoodSets
<1>4. sets[i].results \in Seq(ResultType) /\ sets[i].method \in {"metadata", "keyword", "semantic"}
  BY <1>3 DEF FoundType
<1>5. DOMAIN sets[i].results = 1 .. Len(sets[i].results) /\ Len(sets[i].results) \in Nat
  BY <1>4
<1> QED BY <1>3, <1>4, <1>5

\* The sets of a search that appends them.
LEMMA MoreSets ==
  ASSUME EvidenceInv, pc \in {"keyword", "semantic"}, pc' = "record",
         UNCHANGED <<corpus, plan, fused, attempt, answer, recorded, outcome>>,
         NEW new \in Seq(GoodSets), Len(new) # 0, sets' = sets \o new,
         \A k \in 1 .. Len(new) : \A i \in DOMAIN new[k].results : IsRead(new[k].results[i]),
         pc = "keyword" => Len(new) = 1,
         pc = "semantic" => /\ \A q \in DOMAIN plan.queries : q \in 1 .. Len(new) =>
                                  new[q].method = "semantic" /\ new[q].query = plan.queries[q]
  PROVE  EvidenceInv'
<1> DEFINE N == Len(sets)
           E == Len(run.envelopes)
<1>1. /\ N \in Nat /\ DOMAIN sets = 1 .. N /\ sets \in Seq(GoodSets) /\ Len(new) \in Nat
      /\ E = N /\ N \in {1, 2} /\ (pc = "keyword" <=> N = 1) /\ DOMAIN run.envelopes = 1 .. N
  <2>1. Len(new) \in Nat
    OBVIOUS
  <2>2. pc = "keyword" => N = 1 /\ E = 1
    BY DEF EvidenceInv, StagesMatch
  <2>3. pc = "semantic" => N = 2 /\ E = 2
    BY DEF EvidenceInv, StagesMatch
  <2>4. N \in Nat /\ DOMAIN sets = 1 .. N /\ sets \in Seq(GoodSets) /\ DOMAIN run.envelopes = 1 .. E
    BY Lists
  <2> HIDE DEF N, E
  <2>5. E = N /\ N \in {1, 2} /\ (pc = "keyword" <=> N = 1)
    BY <2>2, <2>3
  <2> QED BY <2>1, <2>4, <2>5
<1>2. /\ sets' \in Seq(GoodSets) /\ Len(sets') = N + Len(new)
      /\ \A i \in 1 .. N : sets'[i] = sets[i]
      /\ \A i \in 1 .. Len(new) : sets'[N + i] = new[i]
  BY <1>1, ConcatOf
<1>3. DOMAIN sets' = 1 .. N + Len(new)
  BY <1>2
<1>4. SetsFound'
  <2>1. ASSUME NEW q \in DOMAIN plan.queries, q + 2 \in DOMAIN sets'
        PROVE  sets'[q + 2].method = "semantic" /\ sets'[q + 2].query = plan.queries[q]
    <3>1. q \in Nat \ {0} /\ DOMAIN plan.queries = 1 .. Len(plan.queries)
      BY Lists
    <3>2. CASE N = 1
      BY <1>1, <1>3, <2>1, <3>1, <3>2
    <3>3. CASE N = 2
      <4>1. q \in 1 .. Len(new) /\ q + 2 = N + q
        BY <1>1, <1>3, <2>1, <3>1, <3>3
      <4>2. sets'[q + 2] = new[q]
        BY <1>2, <4>1, Zenon
      <4> QED BY <1>1, <3>3, <4>1, <4>2
    <3> QED BY <1>1, <3>2, <3>3
  <2> QED BY <1>2, <2>1 DEF SetsFound
<1>5. EnvelopesMatch'
  <2>1. \A i \in 1 .. N : run.envelopes[i].count = Len(sets[i].results)
    BY <1>1 DEF EvidenceInv, EnvelopesMatch
  <2> QED BY <1>1, <1>2, <2>1 DEF EnvelopesMatch, recorded
<1>6. StagesMatch'
  <2>1. run' = run
    BY DEF recorded
  <2>2. E < Len(sets') /\ (Len(sets') <= 2 => E = Len(sets') - 1)
    BY <1>1, <1>2
  <2> QED BY <2>1, <2>2 DEF StagesMatch
<1>7. SearchesRead'
  <2>1. \A r : IsRead(r)' <=> IsRead(r)
    BY DEF IsRead, corpus
  <2>2. ASSUME NEW i \in DOMAIN sets', NEW k \in DOMAIN sets'[i].results PROVE IsRead(sets'[i].results[k])
    <3>1. CASE i \in 1 .. N
      BY <1>1, <1>2, <2>2, <3>1 DEF EvidenceInv, SearchesRead, Ranking
    <3>2. CASE i \notin 1 .. N
      <4>1. i - N \in 1 .. Len(new) /\ i = N + (i - N)
        BY <1>1, <1>3, <3>2
      <4>2. sets'[i] = new[i - N]
        BY <1>2, <4>1
      <4> QED BY <2>2, <4>1, <4>2
    <3> QED BY <3>1, <3>2
  <2> QED BY <2>1, <2>2 DEF SearchesRead
<1> QED BY <1>4, <1>5, <1>6, <1>7, SearchedStep

\* The keyword search keeps the invariant.
LEMMA KeywordStage ==
  ASSUME EvidenceInv, SearchKeyword
  PROVE  EvidenceInv'
<1> DEFINE tokens == KeywordTokens(plan.terms)
           scope == KeywordScope(Searchable, tokens, plan.courses, SourceTypesFor(plan.indexes))
<1>1. PICK s \in Rankings(scope) : sets' = Append(sets, Found("keyword", "terms", s))
  BY DEF SearchKeyword
<1>2. /\ pc = "keyword" /\ pc' = "record"
      /\ UNCHANGED <<corpus, plan, fused, attempt, answer, recorded, outcome>>
  BY DEF SearchKeyword
<1>3. scope \in SUBSET Searchable
  BY DEF KeywordScope
<1> HIDE DEF scope
<1> DEFINE new == <<Found("keyword", "terms", s)>>
<1>4. TablesTyped
  BY DEF EvidenceInv
<1>5. Found("keyword", "terms", s) \in GoodSets
  <2>1. "terms" \in Asked /\ "keyword" \in {"keyword", "semantic"}
    BY DEF Asked
  <2> QED BY <1>3, <1>4, <2>1, ContentSetsAre
<1>6. Found("keyword", "terms", s).results = s
  BY DEF Found
<1>7. \A i \in DOMAIN s : IsRead(s[i])
  BY <1>3, <1>4, RankingsAre
<1>8. new \in Seq(GoodSets) /\ Len(new) = 1 /\ new[1] = Found("keyword", "terms", s)
  BY <1>5
<1>9. sets' = sets \o new
  <2>1. sets \in Seq(GoodSets)
    BY Lists
  <2>2. \A x \in GoodSets : Append(sets, x) = sets \o <<x>>
    BY <2>1
  <2> QED BY <1>1, <1>5, <2>2
<1> HIDE DEF new
<1>10. \A k \in 1 .. Len(new) : \A i \in DOMAIN new[k].results : IsRead(new[k].results[i])
  BY <1>6, <1>7, <1>8
<1>11. Len(new) # 0 /\ Len(new) = 1
  BY <1>8
<1> QED BY <1>2, <1>8, <1>9, <1>10, <1>11, MoreSets

\* The semantic search keeps it, with a set for each query in order.
LEMMA SemanticStage ==
  ASSUME EvidenceInv, SearchSemantic
  PROVE  EvidenceInv'
<1> DEFINE scope == {r \in Searchable : /\ r.course \in Range(plan.courses)
                                        /\ r.type \in SourceTypesFor(plan.indexes)}
<1>1. PICK lists \in [DOMAIN plan.queries -> Rankings(scope)] :
        sets' = sets \o [q \in DOMAIN plan.queries |-> Found("semantic", plan.queries[q], lists[q])]
  BY DEF SearchSemantic
<1>2. /\ pc = "semantic" /\ pc' = "record"
      /\ UNCHANGED <<corpus, plan, fused, attempt, answer, recorded, outcome>>
  BY DEF SearchSemantic
<1>3. scope \in SUBSET Searchable
  OBVIOUS
<1> HIDE DEF scope
<1> DEFINE new == [q \in DOMAIN plan.queries |-> Found("semantic", plan.queries[q], lists[q])]
           n == Len(plan.queries)
<1>4. TablesTyped
  BY DEF EvidenceInv
<1>5. DOMAIN plan.queries = 1 .. n /\ n \in Nat /\ \A q \in 1 .. n : plan.queries[q] \in STRING
  BY Lists
<1>6. n # 0
  <2>1. plan.queries # <<>>
    BY <1>2 DEF EvidenceInv, PlanReady, Ranking
  <2> QED BY <2>1, Lists
<1>7. ASSUME NEW q \in 1 .. n
      PROVE  /\ Found("semantic", plan.queries[q], lists[q]) \in GoodSets
             /\ \A i \in DOMAIN lists[q] : IsRead(lists[q][i])
  <2>1. lists[q] \in Rankings(scope)
    BY <1>1, <1>5
  <2>2. plan.queries[q] \in Asked /\ "semantic" \in {"keyword", "semantic"}
    BY <1>5 DEF Asked
  <2>3. Found("semantic", plan.queries[q], lists[q]) \in GoodSets
    BY <1>3, <1>4, <2>1, <2>2, ContentSetsAre
  <2>4. \A i \in DOMAIN lists[q] : IsRead(lists[q][i])
    BY <1>3, <1>4, <2>1, RankingsAre
  <2> QED BY <2>3, <2>4
<1>8. \A q \in 1 .. n : /\ new[q].results = lists[q] /\ new[q].method = "semantic"
                        /\ new[q].query = plan.queries[q] /\ new[q] \in GoodSets
  <2>1. \A q \in 1 .. n : new[q] = Found("semantic", plan.queries[q], lists[q])
    BY <1>5
  <2>2. \A a, b, c : /\ Found(a, b, c).method = a /\ Found(a, b, c).query = b /\ Found(a, b, c).results = c
    BY DEF Found
  <2> HIDE DEF new
  <2> QED BY <1>7, <2>1, <2>2
<1>9. new \in Seq(GoodSets) /\ Len(new) = n
  <2>1. new = [q \in 1 .. n |-> new[q]]
    BY <1>5
  <2> HIDE DEF new
  <2>2. n \in Nat /\ \A q \in 1 .. n : new[q] \in GoodSets
    BY <1>5, <1>8
  <2> HIDE DEF n
  <2>3. new \in [1 .. n -> GoodSets]
    BY <2>1, <2>2
  <2> QED BY <2>2, <2>3
<1>10. sets' = sets \o new
  BY <1>1
<1> HIDE DEF new
<1>11. \A k \in 1 .. Len(new) : \A i \in DOMAIN new[k].results : IsRead(new[k].results[i])
  BY <1>7, <1>8, <1>9
<1>12. \A q \in DOMAIN plan.queries : q \in 1 .. Len(new) =>
                                  new[q].method = "semantic" /\ new[q].query = plan.queries[q]
  BY <1>8, <1>9
<1>13. Len(new) # 0
  BY <1>6, <1>9
<1> QED BY <1>2, <1>9, <1>10, <1>11, <1>12, <1>13, MoreSets

\* Recording a set keeps the invariant.
LEMMA RecordStage ==
  ASSUME EvidenceInv, RecordSet
  PROVE  EvidenceInv'
<1> DEFINE n == Len(run.envelopes) + 1
           s == sets[n]
           one == [method |-> s.method, count |-> Len(s.results)]
           E == [method : {"metadata", "keyword", "semantic"}, count : Nat]
<1>1. /\ pc = "record" /\ pc' = AfterRecording(n)
      /\ run' = [run EXCEPT !.envelopes = Append(@, one)]
      /\ UNCHANGED <<chunks, status, edits, rewritten, plan, sets, fused, attempt, answer, packet, stored, outcome>>
  BY DEF RecordSet, corpus
<1>2. packet = NoPacket
  BY <1>1, NoPacketYet
<1>3. /\ Len(sets) \in Nat /\ n \in 1 .. Len(sets) /\ (Len(sets) <= 2 => n = Len(sets))
      /\ DOMAIN sets = 1 .. Len(sets)
  <2>1. Len(run.envelopes) < Len(sets) /\ (Len(sets) <= 2 => Len(run.envelopes) = Len(sets) - 1)
    BY <1>1 DEF EvidenceInv, StagesMatch
  <2>2. Len(sets) \in Nat /\ Len(run.envelopes) \in Nat /\ DOMAIN sets = 1 .. Len(sets)
    BY Lengths
  <2> DEFINE L == Len(sets)
             M == Len(run.envelopes)
  <2>3. L \in Nat /\ M \in Nat /\ M < L /\ (L <= 2 => M = L - 1)
    BY <2>1, <2>2
  <2>4. n = M + 1
    OBVIOUS
  <2> HIDE DEF L, M, n
  <2>5. n \in 1 .. L /\ (L <= 2 => n = L)
    BY <2>3, <2>4
  <2> QED BY <2>2, <2>5 DEF L
<1>22. n \in Nat \ {0}
  BY Lengths
<1>4. one \in E
  <2>1. n \in DOMAIN sets
    BY <1>3
  <2> HIDE DEF n
  <2>3. s.method \in {"metadata", "keyword", "semantic"} /\ Len(s.results) \in Nat
    BY <2>1, EachSet
  <2> HIDE DEF s
  <2> QED BY <2>3
<1>5. one.count = Len(sets[n].results)
  OBVIOUS
<1> HIDE DEF one
<1>6. run.envelopes \in Seq(E) /\ Len(run.envelopes) = n - 1 /\ n - 1 \in Nat
  BY Lists
<1>7. /\ Append(run.envelopes, one) \in Seq(E) /\ Len(Append(run.envelopes, one)) = n
      /\ \A i \in 1 .. n - 1 : Append(run.envelopes, one)[i] = run.envelopes[i]
      /\ Append(run.envelopes, one)[n] = one
      /\ DOMAIN Append(run.envelopes, one) = 1 .. n
  BY <1>4, <1>6
<1>8. run \in RunType
  BY DEF EvidenceInv, TablesTyped
<1>9. run' \in RunType /\ run'.envelopes = Append(run.envelopes, one) /\ run'.status = run.status /\ run'.rows = run.rows
  <2>1. run'.envelopes = Append(run.envelopes, one) /\ run'.status = run.status /\ run'.rows = run.rows
    BY <1>1, <1>8 DEF RunType
  <2>2. run' = [status |-> run.status, envelopes |-> Append(run.envelopes, one), rows |-> run.rows]
    BY <1>1, <1>8 DEF RunType
  <2> QED BY <1>7, <1>8, <2>1, <2>2 DEF RunType
<1>10. TablesTyped'
  BY <1>1, <1>9 DEF EvidenceInv, TablesTyped
<1>11. pc' \in {"record", "keyword", "semantic", "fuse"}
       /\ (pc' = "record" <=> n < Len(sets))
       /\ (pc' = "keyword" => n = 1 /\ Len(sets) = 1) /\ (pc' = "semantic" => n = 2 /\ Len(sets) = 2)
  <2>1. pc' = AfterRecording(n)
    BY <1>1
  <2>2. Len(sets) \in Nat /\ n \in 1 .. Len(sets) /\ (Len(sets) <= 2 => n = Len(sets))
    BY <1>3
  <2> HIDE DEF n
  <2>3. CASE n < Len(sets)
    <3>1. pc' = "record"
      BY <2>1, <2>3 DEF AfterRecording
    <3> QED BY <2>3, <3>1
  <2>4. CASE n = Len(sets) /\ n = 1
    <3>1. pc' = "keyword"
      BY <2>1, <2>4 DEF AfterRecording
    <3> QED BY <2>4, <3>1
  <2>5. CASE n = Len(sets) /\ n = 2
    <3>1. pc' = "semantic"
      BY <2>1, <2>5 DEF AfterRecording
    <3> QED BY <2>5, <3>1
  <2>6. CASE n = Len(sets) /\ n \notin {1, 2}
    <3>1. pc' = "fuse"
      BY <2>1, <2>6 DEF AfterRecording
    <3> QED BY <2>6, <3>1
  <2> QED BY <2>2, <2>3, <2>4, <2>5, <2>6
<1>21. run'.envelopes = Append(run.envelopes, one) /\ sets' = sets
  BY <1>1, <1>9
<1> HIDE DEF n, s
<1>12. PlanReady'
  BY <1>1, <1>11 DEF EvidenceInv, PlanReady, Ranking
<1>13. SetsFound'
  BY <1>1 DEF EvidenceInv, SetsFound
<1>14. EnvelopesMatch'
  <2>1. \A i \in 1 .. n - 1 : run.envelopes[i].count = Len(sets[i].results)
    BY <1>6, Lists DEF EvidenceInv, EnvelopesMatch
  <2>2. ASSUME NEW i \in 1 .. n PROVE run'.envelopes[i].count = Len(sets[i].results)
    <3>1. CASE i = n
      BY <1>5, <1>7, <1>9, <3>1
    <3>2. CASE i # n
      <4>1. i \in 1 .. n - 1
        BY <1>22, <3>2
      <4> QED BY <1>7, <1>9, <2>1, <4>1
    <3> QED BY <3>1, <3>2
  <2> QED BY <1>1, <1>3, <1>7, <1>9, <2>2 DEF EnvelopesMatch
<1>15. StagesMatch'
  <2>1. Len(run'.envelopes) = n /\ sets' = sets /\ Len(sets) \in Nat /\ n \in 1 .. Len(sets)
        /\ (Len(sets) <= 2 => n = Len(sets))
    BY <1>3, <1>7, <1>21
  <2>2. pc' = "record" => Len(run'.envelopes) < Len(sets) /\ Len(sets) > 2
    BY <1>11, <2>1
  <2> QED BY <1>11, <2>1, <2>2 DEF StagesMatch
<1>16. SearchesRead'
  BY <1>1, SearchesReadFrame DEF EvidenceInv, Ranking
<1>17. FusedMatch'
  BY <1>1, FusedFrame DEF EvidenceInv, Searching
<1>18. RowsMatch'
  BY <1>11 DEF RowsMatch
<1>19. PacketMatches'
  BY <1>1, <1>2, <1>9, <1>11, PacketFrame DEF EvidenceInv
<1>20. AnswersMatch'
  BY <1>1, <1>11, AnswersFrame DEF EvidenceInv
<1> QED BY <1>10, <1>12, <1>13, <1>14, <1>15, <1>16, <1>17, <1>18, <1>19, <1>20 DEF EvidenceInv

\* The fusion keeps the invariant.
LEMMA FuseStage ==
  ASSUME EvidenceInv, Fuse
  PROVE  EvidenceInv'
<1> USE DEF EvidenceInv
<1>1. /\ pc = "fuse" /\ pc' = "record fused" /\ fused' = MergeWithRrf(sets)
      /\ UNCHANGED <<chunks, status, edits, rewritten, plan, sets, attempt, answer, run, packet, stored, outcome>>
  BY DEF Fuse, corpus, recorded
<1>2. packet = NoPacket
  BY <1>1, NoPacketYet
<1>3. TablesTyped'
  BY <1>1 DEF TablesTyped
<1>4. PlanReady'
  BY <1>1 DEF PlanReady, Ranking
<1>5. SetsFound'
  BY <1>1 DEF SetsFound
<1>6. EnvelopesMatch'
  BY <1>1 DEF EnvelopesMatch
<1>7. StagesMatch'
  BY <1>1 DEF StagesMatch
<1>8. SearchesRead'
  BY <1>1, SearchesReadFrame DEF Ranking
<1>9. FusedMatch'
  <2>1. sets \in FoundLists
    BY Lists, SetsAreGood
  <2>2. FusedOk(sets, MergeWithRrf(sets))
    BY <2>1, MergeIs
  <2> QED BY <1>1, <2>2 DEF FusedMatch, Searching
<1>10. RowsMatch'
  BY <1>1 DEF RowsMatch
<1>11. PacketMatches'
  BY <1>1, <1>2 DEF PacketMatches
<1>12. AnswersMatch'
  BY <1>1, AnswersFrame
<1> QED BY <1>3, <1>4, <1>5, <1>6, <1>7, <1>8, <1>9, <1>10, <1>11, <1>12

\* A list with a place is not empty.
LEMMA NotEmpty ==
  ASSUME NEW s, NEW i \in DOMAIN s
  PROVE  s # <<>>
<1>1. DOMAIN <<>> = {}
  OBVIOUS
<1> QED BY <1>1

\* What the fused list says of a chunk that is still there.
FusedRead(r) ==
  r.chunk # NoChunk /\ chunks[r.chunk] # NoRow => chunks[r.chunk].text = r.text \/ r.file \in rewritten

\* When the fused list is recorded, its chunks are those the searches read.
LEMMA FusedIsRead ==
  ASSUME EvidenceInv, pc = "record fused", NEW i \in DOMAIN fused
  PROVE  FusedRead(fused[i].result)
<1> DEFINE r == fused[i].result
<1> SUFFICES ASSUME r.chunk # NoChunk, chunks[r.chunk] # NoRow
             PROVE  chunks[r.chunk].text = r.text \/ r.file \in rewritten
  BY DEF FusedRead
<1> HIDE DEF r
<1>1. FusedOk(sets, fused)
  <2>1. fused # <<>>
    BY NotEmpty
  <2> QED BY <2>1 DEF EvidenceInv, FusedMatch
<1>2. Fresh(sets, fused[i])
  BY <1>1 DEF FusedOk
<1>3. PICK c \in CellsOf(sets) : /\ ResultAt(sets, c).chunk = r.chunk
                                 /\ ResultAt(sets, c).file = r.file
                                 /\ ResultAt(sets, c).text = r.text
  BY <1>2 DEF Fresh, r
<1>4. sets \in FoundLists
  BY Lists, SetsAreGood
<1>5. c.set \in DOMAIN sets /\ c.rank \in DOMAIN sets[c.set].results
  <2>1. c.set \in 1 .. Len(sets) /\ c.rank \in 1 .. Len(sets[c.set].results)
    BY DEF CellsOf
  <2>2. c.set \in DOMAIN sets
    BY <2>1, Lengths
  <2> QED BY <2>1, <2>2, EachSet
<1>6. IsRead(ResultAt(sets, c))
  BY <1>5 DEF EvidenceInv, SearchesRead, Ranking, ResultAt
<1>7. chunks[r.chunk] = [file |-> r.file, text |-> r.text] \/ r.file \in rewritten
  <2> DEFINE q == ResultAt(sets, c)
  <2>1. q.chunk # NoChunk => chunks[q.chunk] = [file |-> q.file, text |-> q.text] \/ q.file \in rewritten
    BY <1>6 DEF IsRead
  <2>2. q.chunk = r.chunk /\ q.file = r.file /\ q.text = r.text /\ r.chunk # NoChunk
    BY <1>3
  <2> HIDE DEF q
  <2> QED BY <2>1, <2>2
<1>9. chunks[r.chunk].text = r.text \/ r.file \in rewritten
  <2>1. CASE chunks[r.chunk] = [file |-> r.file, text |-> r.text]
    <3> DEFINE both == [file |-> r.file, text |-> r.text]
    <3>1. both.text = r.text
      OBVIOUS
    <3> HIDE DEF both
    <3>2. chunks[r.chunk] = both
      BY <2>1 DEF both
    <3> QED BY <3>1, <3>2, Zenon
  <2> QED BY <1>7, <2>1
<1> QED BY <1>9

\* Recording the fused list keeps the invariant.
LEMMA RecordFusedStage ==
  ASSUME EvidenceInv, RecordFused
  PROVE  EvidenceInv'
<1> DEFINE row(i) == [chunk |-> fused[i].result.chunk, file |-> fused[i].result.file, selected |-> FALSE,
                      content |-> HasContent(fused[i])]
           rows == [i \in DOMAIN fused |-> row(i)]
<1>1. /\ pc = "record fused" /\ pc' = "assemble" /\ run' = [run EXCEPT !.rows = rows]
      /\ Exists([i \in DOMAIN fused |-> fused[i].result])
      /\ UNCHANGED <<chunks, status, edits, rewritten, plan, sets, fused, attempt, answer, packet, stored, outcome>>
  BY DEF RecordFused, corpus
<1>2. packet = NoPacket
  BY <1>1, NoPacketYet
<1>3. run \in RunType
  BY DEF EvidenceInv, TablesTyped
<1>4. /\ DOMAIN fused = 1 .. Len(fused) /\ Len(fused) \in Nat
      /\ \A i \in DOMAIN fused : fused[i].result \in ResultType
  <2>1. CASE fused = <<>>
    BY <2>1
  <2>2. CASE FusedOk(sets, fused)
    <3>1. fused \in Seq(FusedType(sets))
      BY <2>2 DEF FusedOk
    <3>2. \A x \in FusedType(sets) : x.result \in ResultType
      BY DEF FusedType
    <3> QED BY <3>1, <3>2
  <2> QED BY <2>1, <2>2 DEF EvidenceInv, FusedMatch
<1> DEFINE R == [chunk : ChunkIds \cup {NoChunk}, file : Files, selected : BOOLEAN, content : BOOLEAN]
<1>5. ASSUME NEW i \in DOMAIN fused
      PROVE  row(i) \in R /\ row(i).selected = FALSE /\ row(i).chunk = fused[i].result.chunk
  <2>1. fused[i].result.chunk \in ChunkIds \cup {NoChunk} /\ fused[i].result.file \in Files
    BY <1>4 DEF ResultType
  <2>2. HasContent(fused[i]) \in BOOLEAN
    BY DEF HasContent
  <2> QED BY <2>1, <2>2
<1>6. rows \in Seq(R) /\ DOMAIN rows = DOMAIN fused
      /\ \A i \in DOMAIN fused : rows[i].selected = FALSE /\ rows[i].chunk = fused[i].result.chunk
  <2> HIDE DEF row, R
  <2>1. DOMAIN rows = DOMAIN fused /\ \A i \in DOMAIN fused : rows[i] = row(i)
    OBVIOUS
  <2>2. rows \in Seq(R)
    <3>1. rows \in [1 .. Len(fused) -> R]
      BY <1>4, <1>5
    <3> QED BY <1>4, <3>1
  <2>3. \A i \in DOMAIN fused : rows[i].selected = FALSE /\ rows[i].chunk = fused[i].result.chunk
    BY <1>5, <2>1
  <2> QED BY <2>1, <2>2, <2>3
<1> HIDE DEF rows
<1>7. run' \in RunType /\ run'.envelopes = run.envelopes /\ run'.status = run.status /\ run'.rows = rows
  <2>1. run' = [status |-> run.status, envelopes |-> run.envelopes, rows |-> rows]
    BY <1>1, <1>3 DEF RunType
  <2> QED BY <1>3, <1>6, <2>1 DEF RunType
<1>8. TablesTyped'
  BY <1>1, <1>7 DEF EvidenceInv, TablesTyped
<1>9. PlanReady'
  BY <1>1 DEF EvidenceInv, PlanReady, Ranking
<1>10. SetsFound'
  BY <1>1 DEF EvidenceInv, SetsFound
<1>11. EnvelopesMatch'
  BY <1>1, <1>7 DEF EvidenceInv, EnvelopesMatch
<1>12. StagesMatch'
  BY <1>1 DEF StagesMatch
<1>13. SearchesRead'
  BY <1>1 DEF SearchesRead, Ranking
<1>14. FusedMatch'
  BY <1>1, FusedFrame DEF EvidenceInv, Searching
<1>15. RowsMatch'
  <2>1. ASSUME NEW i \in DOMAIN fused PROVE RowMatches(i)'
    <3> DEFINE r == fused[i].result
    <3>1. r.chunk # NoChunk => chunks[r.chunk] # NoRow
      <4>1. r \in Range([j \in DOMAIN fused |-> fused[j].result])
        BY DEF Range
      <4> HIDE DEF r
      <4> QED BY <1>1, <4>1 DEF Exists
    <3>2. r.chunk # NoChunk => chunks[r.chunk].text = r.text \/ r.file \in rewritten
      <4>1. FusedRead(r)
        BY <1>1, FusedIsRead
      <4> HIDE DEF r
      <4> QED BY <3>1, <4>1 DEF FusedRead
    <3> QED BY <1>1, <1>6, <1>7, <3>1, <3>2 DEF RowMatches
  <2> QED BY <1>1, <1>6, <1>7, <2>1 DEF RowsMatch
<1>16. PacketMatches'
  <2>1. run.status \notin {"completed", "unsupported"}
    BY <1>2 DEF EvidenceInv, PacketMatches
  <2>2. {e.rank : e \in Range(packet.evidence)} = {}
    BY <1>2 DEF NoPacket, Range
  <2>3. {i \in DOMAIN rows : rows[i].selected} = {}
    BY <1>6
  <2> QED BY <1>1, <1>2, <1>7, <2>1, <2>2, <2>3 DEF PacketMatches
<1>17. AnswersMatch'
  BY <1>1, AnswersFrame DEF EvidenceInv
<1> QED BY <1>8, <1>9, <1>10, <1>11, <1>12, <1>13, <1>14, <1>15, <1>16, <1>17 DEF EvidenceInv

\* Marking a failed run keeps the invariant, whether or not SQLite takes it.
LEMMA MarkFailedStage ==
  ASSUME EvidenceInv, MarkFailed
  PROVE  EvidenceInv'
<1>1. CASE UNCHANGED run
  BY <1>1, Leaving DEF MarkFailed, End, recorded
<1> DEFINE R == [chunk : ChunkIds \cup {NoChunk}, file : Files, selected : BOOLEAN, content : BOOLEAN]
           rows == [i \in DOMAIN run.rows |-> [run.rows[i] EXCEPT !.selected = FALSE]]
<1>2. CASE run' = [run EXCEPT !.status = "failed", !.rows = [i \in DOMAIN @ |-> [@[i] EXCEPT !.selected = FALSE]]]
  <2>1. /\ pc = "failing" /\ pc' = "done" /\ outcome' = "retrieval error"
        /\ UNCHANGED <<chunks, status, edits, rewritten, plan, sets, fused, attempt, answer, packet, stored>>
    BY DEF MarkFailed, End, corpus
  <2>2. packet = NoPacket
    BY <2>1, NoPacketYet
  <2>3. run \in RunType
    BY DEF EvidenceInv, TablesTyped
  <2>4. run.rows \in Seq(R) /\ DOMAIN run.rows = 1 .. Len(run.rows) /\ Len(run.rows) \in Nat
    BY <2>3, Lengths DEF RunType
  <2>5. rows \in Seq(R) /\ DOMAIN rows = DOMAIN run.rows /\ \A i \in DOMAIN rows : rows[i].selected = FALSE
    <3>2. \A r \in R : [r EXCEPT !.selected = FALSE] \in R /\ [r EXCEPT !.selected = FALSE].selected = FALSE
      OBVIOUS
    <3> HIDE DEF R
    <3>1. \A i \in 1 .. Len(run.rows) : run.rows[i] \in R
      <4> HIDE DEF rows
      <4> QED BY <2>4
    <3> QED BY <2>4, <3>1, <3>2
  <2>6. run' = [status |-> "failed", envelopes |-> run.envelopes, rows |-> rows]
    BY <1>2, <2>3 DEF RunType
  <2> HIDE DEF rows
  <2>7. run' \in RunType /\ run'.envelopes = run.envelopes /\ run'.status = "failed" /\ run'.rows = rows
    BY <2>3, <2>5, <2>6 DEF RunType
  <2>8. TablesTyped'
    BY <2>1, <2>7 DEF EvidenceInv, TablesTyped
  <2>9. PlanReady'
    BY <2>1 DEF EvidenceInv, PlanReady, Ranking
  <2>10. SetsFound'
    BY <2>1 DEF EvidenceInv, SetsFound
  <2>11. EnvelopesMatch'
    BY <2>1, <2>7 DEF EvidenceInv, EnvelopesMatch
  <2>12. StagesMatch'
    BY <2>1 DEF StagesMatch
  <2>13. SearchesRead'
    BY <2>1 DEF SearchesRead, Ranking
  <2>14. FusedMatch'
    BY <2>1, FusedFrame DEF EvidenceInv, Searching
  <2>15. RowsMatch'
    BY <2>1 DEF RowsMatch
  <2>16. PacketMatches'
    <3>1. {e.rank : e \in Range(packet.evidence)} = {}
      BY <2>2 DEF NoPacket, Range
    <3>2. {i \in DOMAIN rows : rows[i].selected} = {}
      BY <2>5
    <3> QED BY <2>1, <2>2, <2>7, <3>1, <3>2 DEF PacketMatches
  <2>17. AnswersMatch'
    BY <2>1, AnswersFrame DEF EvidenceInv
  <2> QED BY <2>8, <2>9, <2>10, <2>11, <2>12, <2>13, <2>14, <2>15, <2>16, <2>17 DEF EvidenceInv
<1> QED BY <1>1, <1>2 DEF MarkFailed

----------------------------------------------------------------------------
(* The packet.                                                              *)
\* Collapsing a weakness leaves what it quotes last.
LEMMA LastOfTuples ==
  /\ \A a : Last(<<"collapsed">> \o <<a>>) = Last(<<a>>)
  /\ \A a, b : Last(<<"collapsed">> \o <<a, b>>) = Last(<<a, b>>)
  /\ \A a, b, c : Last(<<"collapsed">> \o <<a, b, c>>) = Last(<<a, b, c>>)
<1>1. ASSUME NEW a PROVE Last(<<"collapsed">> \o <<a>>) = Last(<<a>>)
  BY DEF Last
<1>2. ASSUME NEW a, NEW b PROVE Last(<<"collapsed">> \o <<a, b>>) = Last(<<a, b>>)
  BY DEF Last
<1>3. ASSUME NEW a, NEW b, NEW c PROVE Last(<<"collapsed">> \o <<a, b, c>>) = Last(<<a, b, c>>)
  BY DEF Last
<1> QED BY <1>1, <1>2, <1>3

IsShort(w) == (\E a : w = <<a>>) \/ (\E a, b : w = <<a, b>>) \/ (\E a, b, c : w = <<a, b, c>>)

\* Every weakness is such a tuple.
LEMMA WeaknessesAre ==
  ASSUME NEW candidates, NEW chosen, NEW unhit, NEW w \in Weaknesses(candidates, chosen, unhit)
  PROVE  Last(<<"collapsed">> \o w) = Last(w)
<1> DEFINE when(condition, set) == IF condition THEN set ELSE {}
           passed == Oversized(candidates, chosen)
           files  == IF sets = <<>> THEN {} ELSE Range(sets[1].results)
           supported == plan.type # Unsupported
           S1 == when(supported /\ ~ Nonempty("metadata"), {<<"no files">>})
           S2 == when(supported /\ ~ Nonempty("keyword"), {<<"no keyword hits">>})
           S3 == when(supported /\ Len(fused) < FinalTopK, {<<"few results", Len(fused), "results">>})
           S4 == when(supported /\ fused # <<>> /\ ~ Nonempty("keyword") /\ ~ Nonempty("semantic"), {<<"only files">>})
           S5 == {<<"no hits", q>> : q \in UnhitQueries}
           S6 == when(~ supported, {<<"unsupported", plan.reason>>})
           S7 == when(plan.file_inspection, {<<"no file inspection">>})
           S8 == when(plan.python, {<<"no python">>})
           S9 == {<<"no hits in course", c>> : c \in unhit.courses}
           S10 == {<<"no hits in index", i>> : i \in unhit.indexes}
           S11 == {<<"ineligible", f.status>> : f \in {f \in files : f.status # "indexed"}}
           S12 == when(\E c \in passed : Words(c) <= MaxTokens, {<<"over the budget">>})
           S13 == when(\E c \in passed : Words(c) > MaxTokens, {<<"oversized">>})
           S14 == when(chosen = <<>>, {<<"nothing selected">>})
<1>1. Weaknesses(candidates, chosen, unhit) = UNION {S1, S2, S3, S4, S5, S6, S7, S8, S9, S10, S11, S12, S13, S14}
  BY DEF Weaknesses
<1>2. \A x \in S1 : IsShort(x)
  BY DEF IsShort
<1>3. \A x \in S2 : IsShort(x)
  BY DEF IsShort
<1>4. \A x \in S3 : IsShort(x)
  BY DEF IsShort
<1>5. \A x \in S4 : IsShort(x)
  BY DEF IsShort
<1>6. \A x \in S5 : IsShort(x)
  BY DEF IsShort
<1>7. \A x \in S6 : IsShort(x)
  BY DEF IsShort
<1>8. \A x \in S7 : IsShort(x)
  BY DEF IsShort
<1>9. \A x \in S8 : IsShort(x)
  BY DEF IsShort
<1>10. \A x \in S9 : IsShort(x)
  BY DEF IsShort
<1>11. \A x \in S10 : IsShort(x)
  BY DEF IsShort
<1>12. \A x \in S11 : IsShort(x)
  BY DEF IsShort
<1>13. \A x \in S12 : IsShort(x)
  BY DEF IsShort
<1>14. \A x \in S13 : IsShort(x)
  BY DEF IsShort
<1>15. \A x \in S14 : IsShort(x)
  BY DEF IsShort
<1> HIDE DEF S1, S2, S3, S4, S5, S6, S7, S8, S9, S10, S11, S12, S13, S14
<1>16. w \in S1 \/ w \in S2 \/ w \in S3 \/ w \in S4 \/ w \in S5 \/ w \in S6 \/ w \in S7
       \/ w \in S8 \/ w \in S9 \/ w \in S10 \/ w \in S11 \/ w \in S12 \/ w \in S13 \/ w \in S14
  BY <1>1
<1>17. IsShort(w)
  BY <1>2, <1>3, <1>4, <1>5, <1>6, <1>7, <1>8, <1>9, <1>10, <1>11, <1>12, <1>13, <1>14, <1>15, <1>16
<1> QED BY <1>17, LastOfTuples DEF IsShort

\* What is assembled is a candidate of the fused list at its rank.
LEMMA ChosenAre ==
  ASSUME EvidenceInv
  PROVE  /\ Hydratable \in Seq(Range(Hydratable))
         /\ Select(Hydratable) \in Seq(Range(Hydratable)) /\ Ascending(Select(Hydratable))
         /\ \A c \in Range(Hydratable) : /\ c.rank \in DOMAIN fused /\ c = fused[c.rank]
                                         /\ c.result.chunk # NoChunk
<1>1. fused \in Seq(Range(fused)) /\ \A i \in DOMAIN fused : fused[i].rank = i
  <2>1. CASE fused = <<>>
    <3>1. <<>> \in Seq(Range(<<>>)) /\ DOMAIN <<>> = {}
      OBVIOUS
    <3> QED BY <2>1, <3>1, Zenon
  <2>2. CASE FusedOk(sets, fused)
    <3>1. fused \in Seq(FusedType(sets)) /\ \A i \in DOMAIN fused : fused[i].rank = i
      BY <2>2 DEF FusedOk
    <3>2. DOMAIN fused = 1 .. Len(fused) /\ Len(fused) \in Nat /\ fused = [i \in 1 .. Len(fused) |-> fused[i]]
      BY <3>1
    <3>3. \A i \in 1 .. Len(fused) : fused[i] \in Range(fused)
      BY <3>2 DEF Range
    <3>4. fused \in Seq(Range(fused))
      <4> DEFINE R == Range(fused)
      <4>1. \A i \in 1 .. Len(fused) : fused[i] \in R
        BY <3>3
      <4> HIDE DEF R
      <4>2. fused \in Seq(R)
        BY <3>2, <4>1
      <4> QED BY <4>2 DEF R
    <3> QED BY <3>1, <3>4
  <2> QED BY <2>1, <2>2 DEF EvidenceInv, FusedMatch
<1>2. Hydratable \in Seq(Hydratables(fused)) /\ Ascending(Hydratable)
  BY <1>1, HydratableIs
<1> DEFINE h == Hydratable
<1>3. /\ DOMAIN h = 1 .. Len(h) /\ Len(h) \in Nat /\ h = [i \in 1 .. Len(h) |-> h[i]]
      /\ \A i \in 1 .. Len(h) : h[i] \in Hydratables(fused)
  <2> HIDE DEF h
  <2>1. h \in Seq(Hydratables(fused))
    BY <1>2 DEF h
  <2> QED BY <2>1
<1> HIDE DEF h
<1>4. h \in Seq(Range(h))
  <2> DEFINE R == Range(h)
  <2>1. \A i \in 1 .. Len(h) : h[i] \in R
    BY <1>3 DEF Range
  <2> HIDE DEF R
  <2>2. h \in Seq(R)
    BY <1>3, <2>1
  <2> QED BY <2>2 DEF R
<1>5. ASSUME NEW c \in Range(h) PROVE c.rank \in DOMAIN fused /\ c = fused[c.rank] /\ c.result.chunk # NoChunk
  <2>1. PICK i \in DOMAIN h : c = h[i]
    BY DEF Range
  <2>2. c \in Range(fused) /\ c.result.chunk # NoChunk
    BY <1>3, <2>1 DEF Hydratables
  <2>3. PICK j \in DOMAIN fused : c = fused[j]
    BY <2>2 DEF Range
  <2> QED BY <1>1, <2>2, <2>3
<1>6. Select(h) \in Seq(Range(h)) /\ Ascending(Select(h))
  <2>1. \A c \in Range(h) : c.rank \in Int
    <3>1. DOMAIN fused \subseteq Int
      <4>1. fused \in Seq(Range(fused))
        BY <1>1
      <4>2. DOMAIN fused = 1 .. Len(fused) /\ Len(fused) \in Nat
        BY <4>1
      <4> QED BY <4>2
    <3> QED BY <1>5, <3>1
  <2>2. Ascending(h)
    BY <1>2 DEF h
  <2> QED BY <1>4, <2>1, <2>2, SelectIs
<1> QED BY <1>4, <1>5, <1>6 DEF h

UnhitOf(candidates) == Unhit({[content |-> HasContent(c), course |-> c.result.course,
                               type |-> FileInfo[c.result.file].category] : c \in Range(candidates)})

\* The fields of an assembled packet.
LEMMA PacketIs ==
  ASSUME NEW candidates, NEW chosen
  PROVE  LET p == PacketOf(candidates, chosen)
             unhit == UnhitOf(candidates)
         IN  /\ p.evidence = [i \in DOMAIN chosen |-> Item(chosen[i])]
             /\ p.weaknesses = Weaknesses(candidates, chosen, unhit)
             /\ p.coverage.queries = UnhitQueries /\ p.coverage.status = FinalStatus
             /\ p.coverage.courses = unhit.courses /\ p.coverage.indexes = unhit.indexes
             /\ p.status = FinalStatus /\ p # NoPacket
<1> DEFINE unhit == UnhitOf(candidates)
           counts == Counts(RawCount(sets), Len(fused), Len(candidates), Len(chosen), TotalWords(chosen),
                            Len(fused) - Len(candidates))
           covered == Coverage(FinalStatus, counts, unhit, UnhitQueries)
           p == [evidence |-> [i \in DOMAIN chosen |-> Item(chosen[i])],
                 weaknesses |-> Weaknesses(candidates, chosen, unhit),
                 coverage |-> covered, status |-> FinalStatus]
<1>1. PacketOf(candidates, chosen) = p
  BY DEF PacketOf, UnhitOf
<1> HIDE DEF counts, unhit
<1>2. /\ covered.queries = UnhitQueries /\ covered.status = FinalStatus
      /\ covered.courses = unhit.courses /\ covered.indexes = unhit.indexes
  BY DEF Coverage
<1> HIDE DEF covered
<1>3. /\ p.evidence = [i \in DOMAIN chosen |-> Item(chosen[i])]
      /\ p.weaknesses = Weaknesses(candidates, chosen, unhit)
      /\ p.coverage = covered /\ p.status = FinalStatus
  OBVIOUS
<1> HIDE DEF p
<1>4. p.status # "none"
  BY <1>3 DEF FinalStatus
<1>5. NoPacket.status = "none"
  BY DEF NoPacket
<1>6. p # NoPacket
  BY <1>4, <1>5
<1> QED BY <1>1, <1>2, <1>3, <1>6 DEF unhit

\* A course or kind with a content candidate is not said to be without.
LEMMA NotBlamed ==
  ASSUME NEW candidates, NEW c \in Range(candidates), HasContent(c)
  PROVE  /\ c.result.course \notin UnhitOf(candidates).courses
         /\ \A i \in UnhitOf(candidates).indexes : SourceTypeOf[i] # FileInfo[c.result.file].category
<1> DEFINE all == {[content |-> HasContent(d), course |-> d.result.course,
                    type |-> FileInfo[d.result.file].category] : d \in Range(candidates)}
           x == [content |-> HasContent(c), course |-> c.result.course,
                 type |-> FileInfo[c.result.file].category]
<1>1. x \in all /\ x.content /\ x.course = c.result.course /\ x.type = FileInfo[c.result.file].category
  OBVIOUS
<1>2. UnhitOf(candidates) = Unhit(all)
  BY DEF UnhitOf
<1> HIDE DEF all, x
<1> DEFINE found == {d \in all : d.content}
<1>3. Unhit(all).courses = Range(plan.courses) \ {d.course : d \in found}
      /\ Unhit(all).indexes = {i \in Range(plan.indexes) : SourceTypeOf[i] \notin {d.type : d \in found}}
  BY DEF Unhit
<1>4. x \in found
  BY <1>1
<1>5. x.course \in {d.course : d \in found} /\ x.type \in {d.type : d \in found}
  BY <1>4
<1> HIDE DEF found
<1>6. x.course \notin Unhit(all).courses /\ \A i \in Unhit(all).indexes : SourceTypeOf[i] # x.type
  BY <1>3, <1>5
<1> QED BY <1>1, <1>2, <1>6

\* Every item is of the fused candidate at its rank.
LEMMA ItemsAre ==
  ASSUME EvidenceInv, pc = "assemble", NEW chosen \in Seq(Range(Hydratable)), Marked(chosen),
         NEW k \in DOMAIN chosen
  PROVE  LET e == Item(chosen[k])
             unhit == UnhitOf(Hydratable)
         IN  /\ e.rank = chosen[k].rank /\ e.rank \in DOMAIN fused
             /\ e.text = fused[e.rank].result.text \/ e.file \in rewritten
             /\ HasContent(fused[e.rank]) => /\ e.course \notin unhit.courses
                                             /\ \A i \in unhit.indexes : SourceTypeOf[i] # e.type
<1> DEFINE c == chosen[k]
           e == Item(c)
<1>1. c \in Range(Hydratable) /\ c \in Range(chosen)
  <2> DEFINE H == Range(Hydratable)
  <2>1. chosen \in Seq(H)
    OBVIOUS
  <2> HIDE DEF H
  <2>2. chosen[k] \in H
    BY <2>1
  <2> QED BY <2>2 DEF H, Range
<1> HIDE DEF c
<1>2. /\ e.rank = c.rank /\ e.text = chunks[c.result.chunk].text /\ e.file = c.result.file
      /\ e.course = c.result.course /\ e.type = FileInfo[c.result.file].category
  BY DEF Item
<1>3. c.rank \in DOMAIN fused /\ c = fused[c.rank] /\ c.result.chunk # NoChunk
  BY <1>1, ChosenAre
<1>4. run.rows[c.rank].chunk = c.result.chunk
  BY <1>1 DEF Marked
<1>5. RowMatches(c.rank)
  BY <1>3 DEF EvidenceInv, RowsMatch
<1>6. chunks[c.result.chunk].text = c.result.text \/ c.result.file \in rewritten
  <2> DEFINE d == fused[c.rank]
  <2>1. d = c
    BY <1>3
  <2>2. run.rows[c.rank].chunk # NoChunk => chunks[d.result.chunk].text = d.result.text \/ d.result.file \in rewritten
    BY <1>5 DEF RowMatches
  <2> HIDE DEF d
  <2> QED BY <1>3, <1>4, <2>1, <2>2
<1> HIDE DEF e
<1>7. HasContent(c) => /\ c.result.course \notin UnhitOf(Hydratable).courses
                       /\ \A i \in UnhitOf(Hydratable).indexes : SourceTypeOf[i] # FileInfo[c.result.file].category
  BY <1>1, NotBlamed
<1>8. fused[e.rank] = c
  BY <1>2, <1>3
<1>9. HasContent(fused[e.rank]) => /\ e.course \notin UnhitOf(Hydratable).courses
                                   /\ \A i \in UnhitOf(Hydratable).indexes : SourceTypeOf[i] # e.type
  <2>1. HAVE HasContent(fused[e.rank])
  <2>2. HasContent(c)
    BY <1>8, <2>1
  <2> QED BY <1>2, <1>7, <2>2
<1>10. e.text = fused[e.rank].result.text \/ e.file \in rewritten
  BY <1>2, <1>6, <1>8
<1>11. e.rank \in DOMAIN fused /\ e.rank = c.rank
  BY <1>2, <1>3
<1> QED BY <1>9, <1>10, <1>11 DEF c, e

\* Flagging changes the flags and nothing else.
LEMMA FlagsAre ==
  ASSUME EvidenceInv, NEW chosen
  PROVE  /\ Flagged(chosen) \in Seq([chunk : ChunkIds \cup {NoChunk}, file : Files, selected : BOOLEAN, content : BOOLEAN])
         /\ DOMAIN Flagged(chosen) = DOMAIN run.rows
         /\ \A i \in DOMAIN run.rows : Flagged(chosen)[i].selected <=> i \in {c.rank : c \in Range(chosen)}
<1> DEFINE R == [chunk : ChunkIds \cup {NoChunk}, file : Files, selected : BOOLEAN, content : BOOLEAN]
           ranks == {c.rank : c \in Range(chosen)}
           rows == [i \in DOMAIN run.rows |-> [run.rows[i] EXCEPT !.selected = i \in ranks]]
<1>1. run.rows \in Seq(R) /\ DOMAIN run.rows = 1 .. Len(run.rows) /\ Len(run.rows) \in Nat
  <2>1. run \in RunType
    BY DEF EvidenceInv, TablesTyped
  <2> QED BY <2>1, Lengths DEF RunType
<1>2. Flagged(chosen) = rows
  BY DEF Flagged
<1> HIDE DEF ranks
<1>3. \A r \in R, b \in BOOLEAN : [r EXCEPT !.selected = b] \in R /\ [r EXCEPT !.selected = b].selected = b
  OBVIOUS
<1>4. \A i : (i \in ranks) \in BOOLEAN
  OBVIOUS
<1> HIDE DEF R
<1>5. \A i \in 1 .. Len(run.rows) : run.rows[i] \in R
  <2> HIDE DEF rows
  <2> QED BY <1>1
<1>6. ASSUME NEW i \in DOMAIN run.rows
      PROVE  rows[i] \in R /\ (rows[i].selected <=> i \in ranks)
  <2>1. rows[i] = [run.rows[i] EXCEPT !.selected = i \in ranks]
    OBVIOUS
  <2> HIDE DEF rows
  <2> QED BY <1>1, <1>3, <1>4, <1>5, <2>1
<1>7. rows = [i \in DOMAIN run.rows |-> rows[i]]
  OBVIOUS
<1> HIDE DEF rows
<1>8. rows \in Seq(R)
  BY <1>1, <1>6, <1>7
<1>9. DOMAIN rows = DOMAIN run.rows
  BY <1>7
<1> QED BY <1>2, <1>6, <1>8, <1>9 DEF R, ranks

\* The words of what hydration accepts are a count.
LEMMA WordsAreCounted ==
  ASSUME EvidenceInv, NEW c \in Range(Hydratable), Authoritative(c)
  PROVE  Words(c) \in Nat
<1> DEFINE r == c.result
           row == chunks[r.chunk]
<1>1. r.chunk \in ChunkIds /\ r.file \in Files
  <2>1. c.rank \in DOMAIN fused /\ c = fused[c.rank] /\ c.result.chunk # NoChunk
    BY ChosenAre
  <2>2. FusedOk(sets, fused)
    <3>1. CASE fused = <<>>
      BY <2>1, <3>1
    <3> QED BY <3>1 DEF EvidenceInv, FusedMatch
  <2>3. c.result \in ResultType
    <3> DEFINE F == FusedType(sets)
    <3>1. fused \in Seq(F)
      BY <2>2 DEF FusedOk
    <3> HIDE DEF F
    <3>2. fused[c.rank] \in F
      BY <2>1, <3>1
    <3> QED BY <2>1, <3>2 DEF F, FusedType
  <2> QED BY <2>1, <2>3 DEF ResultType
<1>2. row.file = r.file /\ TextInfo[row.text].tokens > 0
  BY DEF Authoritative, Words
<1>3. row \in ChunkRow
  <2>1. chunks \in [ChunkIds -> ChunkRow \cup {NoRow}]
    BY DEF EvidenceInv, TablesTyped
  <2>2. row \in ChunkRow \cup {NoRow}
    BY <1>1, <2>1
  <2>3. row # NoRow
    BY <1>1, <1>2, CorpusAssumption DEF NoRow
  <2> QED BY <2>2, <2>3
<1>4. TextInfo[row.text].tokens \in Int
  BY <1>3, CorpusAssumption DEF ChunkRow
<1> QED BY <1>2, <1>4 DEF Words

\* What is assembled keeps the limits of a packet.
LEMMA LimitsAreKept ==
  ASSUME EvidenceInv, \A c \in Range(Hydratable) : Authoritative(c), NEW p,
         p.evidence = [i \in DOMAIN Select(Hydratable) |-> Item(Select(Hydratable)[i])]
  PROVE  KeepsLimits(p)
<1> DEFINE chosen == Select(Hydratable)
           K == Range(Hydratable)
           n == Len(chosen)
           ev == p.evidence
<1>1. chosen \in Seq(K) /\ Ascending(chosen)
  BY ChosenAre
<1>2. Within(chosen)
  <2>1. \A c \in K : Words(c) \in Nat
    BY WordsAreCounted
  <2>2. Hydratable \in Seq(K)
    BY ChosenAre
  <2> HIDE DEF K
  <2> QED BY <2>1, <2>2, SelectKeepsLimits
<1>3. ev = [i \in DOMAIN chosen |-> Item(chosen[i])]
  OBVIOUS
<1> HIDE DEF chosen, K, ev
<1>4. DOMAIN chosen = 1 .. n /\ n \in Nat
  BY <1>1
<1>5. \A i \in 1 .. n : ev[i].rank = chosen[i].rank /\ ev[i].words = Words(chosen[i])
  BY <1>3, <1>4 DEF Item
<1>6. DOMAIN ev = 1 .. n /\ Len(ev) = n
  <2> DEFINE items == [i \in 1 .. n |-> Item(chosen[i])]
  <2>1. Len(items) = n /\ DOMAIN items = 1 .. n
    BY <1>4
  <2>2. ev = items
    BY <1>3, <1>4
  <2> HIDE DEF items
  <2> QED BY <2>1, <2>2
<1>7. [i \in DOMAIN ev |-> ev[i].words] = [i \in DOMAIN chosen |-> Words(chosen[i])]
  BY <1>4, <1>5, <1>6
<1>8. Len(ev) <= FinalTopK /\ Total([i \in DOMAIN ev |-> ev[i].words]) <= MaxTokens
  BY <1>2, <1>6, <1>7 DEF Within, TotalWords
<1>9. \A i, j \in DOMAIN ev : i < j => ev[i].rank < ev[j].rank
  BY <1>1, <1>5, <1>6 DEF Ascending
<1> QED BY <1>8, <1>9 DEF KeepsLimits, ev

\* Assembling the packet keeps the invariant.
LEMMA AssembleStage ==
  ASSUME EvidenceInv, Assemble
  PROVE  EvidenceInv'
<1> DEFINE chosen == Select(Hydratable)
           made == PacketOf(Hydratable, chosen)
           unhit == UnhitOf(Hydratable)
           rows == Flagged(chosen)
<1>1. /\ pc = "assemble"
      /\ UNCHANGED <<chunks, status, edits, rewritten, plan, sets, fused, attempt, answer, stored, outcome>>
  BY DEF Assemble, corpus
<1>2. packet = NoPacket
  BY <1>1, NoPacketYet
<1>3. CASE pc' = "failing" /\ UNCHANGED <<run, packet>>
  BY <1>1, <1>2, <1>3, Leaving DEF corpus, recorded
<1>4. CASE /\ ValidPacket(made) /\ Marked(chosen) /\ packet' = made /\ pc' = "generate"
           /\ run' = [run EXCEPT !.status = FinalStatus, !.rows = Flagged(chosen)]
           /\ \A c \in Range(Hydratable) : Authoritative(c)
  <2>1. chosen \in Seq(Range(Hydratable))
    BY ChosenAre
  <2>2. /\ made.evidence = [i \in DOMAIN chosen |-> Item(chosen[i])]
        /\ made.weaknesses = Weaknesses(Hydratable, chosen, unhit)
        /\ made.coverage.queries = UnhitQueries /\ made.coverage.status = FinalStatus
        /\ made.coverage.courses = unhit.courses /\ made.coverage.indexes = unhit.indexes
        /\ made.status = FinalStatus /\ made # NoPacket
    BY PacketIs
  <2>28. KeepsLimits(made)
    BY <1>4, <2>2, LimitsAreKept
  <2>3. \A k \in DOMAIN chosen :
             /\ Item(chosen[k]).rank = chosen[k].rank /\ Item(chosen[k]).rank \in DOMAIN fused
             /\ Item(chosen[k]).text = fused[Item(chosen[k]).rank].result.text \/ Item(chosen[k]).file \in rewritten
             /\ HasContent(fused[Item(chosen[k]).rank]) =>
                  /\ Item(chosen[k]).course \notin unhit.courses
                  /\ \A i \in unhit.indexes : SourceTypeOf[i] # Item(chosen[k]).type
    <3> HIDE DEF chosen
    <3> QED BY <1>1, <1>4, <2>1, ItemsAre
  <2>4. DOMAIN chosen = 1 .. Len(chosen) /\ Len(chosen) \in Nat
    <3> HIDE DEF chosen
    <3> QED BY <2>1
  <2>5. /\ rows \in Seq([chunk : ChunkIds \cup {NoChunk}, file : Files, selected : BOOLEAN, content : BOOLEAN])
        /\ DOMAIN rows = DOMAIN run.rows
        /\ \A i \in DOMAIN run.rows : rows[i].selected <=> i \in {c.rank : c \in Range(chosen)}
    <3> HIDE DEF chosen
    <3> QED BY FlagsAre
  <2>6. FinalStatus \in {"completed", "unsupported"}
    BY DEF FinalStatus
  <2>7. \A w \in made.weaknesses : Last(<<"collapsed">> \o w) = Last(w)
    <3> HIDE DEF made, chosen, unhit
    <3> QED BY <2>2, WeaknessesAre
  <2> HIDE DEF made, chosen, unhit, rows
  <2>8. run \in RunType
    BY DEF EvidenceInv, TablesTyped
  <2>9. run' = [status |-> FinalStatus, envelopes |-> run.envelopes, rows |-> rows]
    BY <1>4, <2>8 DEF RunType, rows
  <2>10. run' \in RunType /\ run'.envelopes = run.envelopes /\ run'.status = FinalStatus /\ run'.rows = rows
    BY <2>5, <2>6, <2>8, <2>9 DEF RunType
  <2>11. UnhitQueries' = UnhitQueries /\ \A c : HasContent(c)' <=> HasContent(c)
    BY <1>1 DEF UnhitQueries, HasContent
  <2>12. DOMAIN packet'.evidence = 1 .. Len(packet'.evidence) /\ Len(packet'.evidence) \in Nat
    <3> DEFINE ev == [i \in 1 .. Len(chosen) |-> Item(chosen[i])]
    <3>1. DOMAIN ev = 1 .. Len(ev) /\ Len(ev) \in Nat
      BY <2>4
    <3>2. packet'.evidence = ev
      BY <1>4, <2>2, <2>4
    <3> HIDE DEF ev
    <3> QED BY <3>1, <3>2
  <2>13. ASSUME NEW e \in Range(packet'.evidence) PROVE \E k \in DOMAIN chosen : e = Item(chosen[k])
    BY <1>4, <2>2, <2>4 DEF Range
  <2>14. \A k \in DOMAIN chosen : Item(chosen[k]) \in Range(packet'.evidence)
    BY <1>4, <2>2, <2>4 DEF Range
  <2>15. \A e \in Range(packet'.evidence) : ItemMatches(e)'
    <3>1. ASSUME NEW e \in Range(packet'.evidence) PROVE ItemMatches(e)'
      <4>1. PICK k \in DOMAIN chosen : e = Item(chosen[k])
        BY <2>13
      <4>2. /\ e.rank \in DOMAIN fused
            /\ e.text = fused[e.rank].result.text \/ e.file \in rewritten
            /\ HasContent(fused[e.rank]) => /\ e.course \notin unhit.courses
                                            /\ \A i \in unhit.indexes : SourceTypeOf[i] # e.type
        BY <2>3, <4>1
      <4> QED BY <1>1, <1>4, <2>2, <2>11, <4>2 DEF ItemMatches
    <3> QED BY <3>1
  <2>16. PacketSound'
    <3>1. ValidPacket(packet)'
      BY <1>4
    <3>2. packet'.status = run'.status /\ packet'.coverage.status = run'.status
          /\ packet'.coverage.queries \subseteq UnhitQueries'
      BY <1>4, <2>2, <2>10, <2>11
    <3>3. \A w \in packet'.weaknesses : Last(<<"collapsed">> \o w) = Last(w)
      BY <1>4, <2>7
    <3>4. KeepsLimits(packet)'
      BY <1>4, <2>28 DEF KeepsLimits
    <3> QED BY <2>12, <2>15, <3>4, <3>1, <3>2, <3>3 DEF PacketSound
  <2>17. {i \in DOMAIN rows : rows[i].selected} = {e.rank : e \in Range(packet'.evidence)}
    <3>1. {c.rank : c \in Range(chosen)} = {e.rank : e \in Range(packet'.evidence)}
      BY <2>3, <2>13, <2>14 DEF Range
    <3>2. {e.rank : e \in Range(packet'.evidence)} \subseteq DOMAIN rows
      <4>1. DOMAIN rows = DOMAIN fused
        BY <1>1, <2>5 DEF EvidenceInv, RowsMatch
      <4> QED BY <2>3, <2>13, <4>1
    <3> QED BY <2>5, <3>1, <3>2
  <2>18. TablesTyped'
    BY <1>1, <2>10 DEF EvidenceInv, TablesTyped
  <2>19. PlanReady'
    BY <1>1, <1>4 DEF EvidenceInv, PlanReady, Ranking
  <2>20. SetsFound'
    BY <1>1 DEF EvidenceInv, SetsFound
  <2>21. EnvelopesMatch'
    BY <1>1, <2>10 DEF EvidenceInv, EnvelopesMatch
  <2>22. StagesMatch'
    BY <1>4 DEF StagesMatch
  <2>23. SearchesRead'
    BY <1>4 DEF SearchesRead, Ranking
  <2>24. FusedMatch'
    BY <1>1, <1>4, FusedFrame DEF EvidenceInv, Searching
  <2>25. RowsMatch'
    BY <1>4 DEF RowsMatch
  <2>26. PacketMatches'
    <3>1. packet' # NoPacket /\ run'.status \in {"completed", "unsupported"} /\ pc' = "generate"
      BY <1>4, <2>2, <2>6, <2>10
    <3>2. {i \in DOMAIN run'.rows : run'.rows[i].selected} = {e.rank : e \in Range(packet'.evidence)}
      BY <2>10, <2>17
    <3> QED BY <2>16, <3>1, <3>2 DEF PacketMatches
  <2>27. AnswersMatch'
    <3>1. stored = NoAnswer /\ outcome = "none"
      BY <1>1 DEF EvidenceInv, AnswersMatch
    <3> QED BY <1>1, <1>4, <3>1 DEF AnswersMatch
  <2> QED BY <2>18, <2>19, <2>20, <2>21, <2>22, <2>23, <2>24, <2>25, <2>26, <2>27 DEF EvidenceInv
<1> QED BY <1>3, <1>4 DEF Assemble
----------------------------------------------------------------------------
(* The answer.                                                              *)

\* What fits the prompt are items of the packet.
LEMMA PromptOfPacket ==
  ASSUME EvidenceInv, packet # NoPacket
  PROVE  /\ DOMAIN packet.evidence = 1 .. Len(packet.evidence) /\ Len(packet.evidence) \in Nat
         /\ PromptEvidence(packet.evidence) \in SUBSET (1 .. Len(packet.evidence))
<1> DEFINE ev == packet.evidence
           n == Len(ev)
<1>1. DOMAIN ev = 1 .. n /\ n \in Nat /\ \A e \in Range(ev) : e.rank \in Nat
  BY DEF EvidenceInv, PacketMatches, PacketSound, ValidPacket, ValidItem
<1>2. \A i \in 1 .. n : ev[i].rank \in Int
  BY <1>1 DEF Range
<1> HIDE DEF ev, n
<1>3. PromptEvidence(ev) \in SUBSET (1 .. n)
  BY <1>1, <1>2, PromptIs
<1> QED BY <1>1, <1>3 DEF ev, n

\* An accepted reply cites evidence of the prompt, and something.
LEMMA AcceptedCites ==
  ASSUME EvidenceInv, packet # NoPacket, NEW reply \in Replies,
         ValidReply(reply, packet.evidence, PromptEvidence(packet.evidence))
  PROVE  LET a == Accepted(reply, packet)
         IN  /\ Range(a.citations) \subseteq PromptEvidence(packet.evidence)
             /\ IsInjective(a.citations) /\ a.citations # <<>>
<1> DEFINE allowed == PromptEvidence(packet.evidence)
           cited == CitationsOf(reply, packet.evidence, allowed)
<1>1. allowed \in SUBSET Nat
  BY PromptOfPacket
<1>2. reply.paragraphs \in Seq([prose : STRING, ids : Seq(STRING \X Nat)])
  BY ModelAssumption
<1>3. cited \in Seq(allowed) /\ IsInjective(cited) /\ cited # <<>>
  <2>1. ValidReply(reply, packet.evidence, allowed)
    OBVIOUS
  <2> HIDE DEF allowed
  <2> QED BY <1>1, <1>2, <2>1, CitationsAre
<1>4. Accepted(reply, packet).citations = cited
  BY DEF Accepted, Answer
<1> HIDE DEF allowed, cited
<1>5. Range(cited) \subseteq allowed
  BY <1>3 DEF Range
<1> QED BY <1>3, <1>4, <1>5 DEF allowed

\* Deciding on an answer the packet allows keeps the invariant.
LEMMA Deciding ==
  ASSUME EvidenceInv, pc = "generate", pc' = "store", Decided(answer)',
         UNCHANGED <<corpus, plan, sets, fused, recorded, outcome>>
  PROVE  EvidenceInv'
<1> USE DEF EvidenceInv, corpus, recorded
<1>1. TablesTyped'
  BY DEF TablesTyped
<1>2. PlanReady'
  BY DEF PlanReady, Ranking
<1>3. SetsFound'
  BY DEF SetsFound
<1>4. EnvelopesMatch'
  BY DEF EnvelopesMatch
<1>5. StagesMatch'
  BY DEF StagesMatch
<1>6. SearchesRead'
  BY SearchesReadFrame DEF Ranking
<1>7. FusedMatch'
  BY FusedFrame DEF Searching
<1>8. RowsMatch'
  BY RowsFrame
<1>9. PacketMatches'
  <2>1. packet # NoPacket
    BY DEF PacketMatches
  <2> QED BY <2>1, PacketFrame
<1>10. AnswersMatch'
  BY DEF AnswersMatch
<1> QED BY <1>1, <1>2, <1>3, <1>4, <1>5, <1>6, <1>7, <1>8, <1>9, <1>10

\* Answering without the model decides on one.
LEMMA AnswerWithoutModelStep ==
  ASSUME EvidenceInv, AnswerWithoutModel
  PROVE  EvidenceInv'
<1>1. /\ pc = "generate" /\ pc' = "store" /\ UNCHANGED packet
      /\ UNCHANGED <<corpus, plan, sets, fused, recorded, outcome>>
  BY DEF AnswerWithoutModel, Decide, recorded
<1>2. Decided(answer)'
  BY <1>1 DEF AnswerWithoutModel, Decide, Decided
<1> QED BY <1>1, <1>2, Deciding

\* So does a reply, valid, invalid for the last time, or to be tried again.
LEMMA InvokeStep ==
  ASSUME EvidenceInv, NEW reply \in Replies, Invoke(reply)
  PROVE  EvidenceInv'
<1> DEFINE allowed == PromptEvidence(packet.evidence)
<1>1. /\ pc = "generate" /\ allowed # {} /\ UNCHANGED packet
      /\ UNCHANGED <<corpus, plan, sets, fused, recorded, outcome>>
  BY DEF Invoke, recorded
<1>2. CASE ValidReply(reply, packet.evidence, allowed)
  <2>1. pc' = "store" /\ answer' = Accepted(reply, packet)
    BY <1>2 DEF Invoke, Decide
  <2>2. Decided(answer)'
    BY <1>1, <1>2, <2>1 DEF Decided
  <2> QED BY <1>1, <2>1, <2>2, Deciding
<1>3. CASE ~ ValidReply(reply, packet.evidence, allowed) /\ attempt < AnswerRetries
  <2>1. UNCHANGED <<chunks, status, edits, rewritten, pc, plan, sets, fused, answer, run, packet, stored, outcome>>
    BY <1>1, <1>3 DEF Invoke, corpus, recorded
  <2> USE DEF EvidenceInv
  <2>2. TablesTyped'
    BY <2>1 DEF TablesTyped
  <2>3. PlanReady' /\ SetsFound' /\ EnvelopesMatch' /\ StagesMatch'
    BY <2>1 DEF PlanReady, SetsFound, EnvelopesMatch, StagesMatch
  <2>4. SearchesRead'
    BY <2>1, SearchesReadFrame
  <2>5. FusedMatch'
    BY <2>1, FusedFrame
  <2>6. RowsMatch'
    BY <2>1, RowsFrame
  <2>7. PacketMatches'
    <3>1. packet # NoPacket
      BY <1>1 DEF PacketMatches
    <3> QED BY <1>1, <2>1, <3>1, PacketFrame
  <2>8. AnswersMatch'
    BY <2>1, AnswersFrame
  <2> QED BY <2>2, <2>3, <2>4, <2>5, <2>6, <2>7, <2>8
<1>4. CASE ~ ValidReply(reply, packet.evidence, allowed) /\ ~ (attempt < AnswerRetries)
  <2>1. pc' = "store" /\ answer' = ValidationRefusal(packet)
    BY <1>4 DEF Invoke, Decide
  <2>2. Decided(answer)'
    BY <1>1, <2>1 DEF Decided
  <2> QED BY <1>1, <2>1, <2>2, Deciding
<1> QED BY <1>2, <1>3, <1>4

\* What was decided the store takes, but for a weakness with irregular white space.
LEMMA DecidedIsStorable ==
  ASSUME EvidenceInv, packet # NoPacket, NEW a, Decided(a),
         \A w \in packet.weaknesses : Last(w) \notin Irregular
  PROVE  Storable(a, packet)
<1> DEFINE ev == packet.evidence
           allowed == PromptEvidence(ev)
<1>1. allowed # {} => ev # <<>>
  <2>1. DOMAIN ev = 1 .. Len(ev) /\ allowed \in SUBSET (1 .. Len(ev))
    BY PromptOfPacket
  <2>2. ev = <<>> => 1 .. Len(ev) = {}
    <3>1. SUFFICES ASSUME ev = <<>> PROVE 1 .. Len(ev) = {}
      OBVIOUS
    <3>2. Len(ev) = 0
      BY <3>1
    <3> QED BY <3>2
  <2> HIDE DEF allowed, ev
  <2> QED BY <2>1, <2>2
<1>2. CASE ev = <<>> /\ a = InsufficientEvidence(packet)
  BY <1>2 DEF Storable
<1>3. CASE ev # <<>> /\ allowed = {} /\ a = PromptTooSmall(packet)
  BY <1>3 DEF Storable
<1>4. CASE allowed # {} /\ a = ValidationRefusal(packet)
  <2>1. a.model = "model" /\ a.citations = <<>>
    BY <1>4 DEF ValidationRefusal, Answer
  <2> QED BY <1>1, <1>4, <2>1 DEF Storable
<1>5. ASSUME NEW reply \in Replies, allowed # {}, ValidReply(reply, ev, allowed), a = Accepted(reply, packet)
      PROVE  Storable(a, packet)
  <2>1. Range(a.citations) \subseteq allowed /\ a.citations # <<>>
    BY <1>5, AcceptedCites
  <2>2. a.model = "model"
    BY <1>5 DEF Accepted, Answer
  <2>3. packet.weaknesses \cup PromptLimitations(ev) \subseteq a.limitations
    <3>1. a.limitations = Collapsed(packet.weaknesses \cup reply.limitations) \cup PromptLimitations(ev)
      BY <1>5 DEF Accepted, Answer
    <3>2. \A w \in packet.weaknesses : Collapse(w) = w
      BY DEF Collapse
    <3>3. packet.weaknesses \subseteq Collapsed(packet.weaknesses \cup reply.limitations)
      BY <3>2 DEF Collapsed
    <3> QED BY <3>1, <3>3
  <2> HIDE DEF allowed
  <2> QED BY <1>1, <1>5, <2>1, <2>2, <2>3 DEF Storable, allowed
<1> QED BY <1>2, <1>3, <1>4, <1>5 DEF Decided

\* The store refuses only for white space, and keeps the invariant.
LEMMA StoreStep ==
  ASSUME EvidenceInv, Store
  PROVE  EvidenceInv'
<1>1. /\ pc = "store" /\ pc' = "done" /\ packet # NoPacket /\ Decided(answer)
      /\ UNCHANGED <<chunks, status, edits, rewritten, plan, sets, fused, attempt, answer, run, packet>>
  BY DEF Store, End, corpus, EvidenceInv, PacketMatches, AnswersMatch
<1>2. Loadable
  BY <1>1 DEF Loadable, EvidenceInv, PacketMatches, PacketSound
<1> USE DEF EvidenceInv
<1>3. TablesTyped'
  BY <1>1 DEF TablesTyped
<1>4. PlanReady' /\ SetsFound' /\ EnvelopesMatch' /\ StagesMatch'
  BY <1>1 DEF PlanReady, SetsFound, EnvelopesMatch, StagesMatch, Ranking
<1>5. SearchesRead'
  BY <1>1, SearchesReadFrame DEF Ranking
<1>6. FusedMatch'
  BY <1>1, FusedFrame DEF Searching
<1>7. RowsMatch'
  BY <1>1, RowsFrame
<1>8. PacketMatches'
  BY <1>1, PacketFrame
<1>9. AnswersMatch'
  <2>1. CASE Storable(answer, packet)
    <3>1. stored' = answer /\ outcome' = AnswerStatus(answer)
      BY <1>2, <2>1 DEF Store, End
    <3>2. outcome' # "unstorable"
      BY <3>1 DEF AnswerStatus
    <3>3. Decided(stored)'
      BY <1>1, <3>1 DEF Decided
    <3> QED BY <1>1, <3>2, <3>3 DEF AnswersMatch
  <2>2. CASE ~ Storable(answer, packet)
    <3>1. stored' = stored /\ outcome' = "unstorable"
      BY <2>2 DEF Store, End
    <3>2. \E w \in packet.weaknesses : Last(w) \in Irregular
      BY <1>1, <2>2, DecidedIsStorable
    <3>3. stored = NoAnswer
      BY <1>1 DEF AnswersMatch
    <3> QED BY <1>1, <3>1, <3>2, <3>3 DEF AnswersMatch
  <2> QED BY <2>1, <2>2
<1> QED BY <1>3, <1>4, <1>5, <1>6, <1>7, <1>8, <1>9

\* The failures, and the crash.
LEMMA FailureSteps ==
  ASSUME EvidenceInv,
         \/ StartFails \/ SearchFails \/ RecordFails \/ AssembleFails
         \/ ProviderFails \/ StoreFails \/ Crash
  PROVE  EvidenceInv'
<1>1. CASE StartFails \/ ProviderFails \/ StoreFails \/ Crash
  <2>1. pc # "done" /\ pc' = "done" /\ outcome' # "unstorable"
    BY <1>1 DEF StartFails, ProviderFails, StoreFails, Crash, End
  <2>2. UNCHANGED <<corpus, plan, sets, fused, answer, recorded>>
    BY <1>1 DEF StartFails, ProviderFails, StoreFails, Crash
  <2> QED BY <2>1, <2>2, Leaving
<1>2. CASE SearchFails \/ RecordFails \/ AssembleFails
  <2>1. pc \notin {"generate", "store", "done"} /\ pc' = "failing" /\ UNCHANGED outcome
    BY <1>2 DEF SearchFails, RecordFails, AssembleFails
  <2>2. UNCHANGED <<corpus, plan, sets, fused, answer, recorded>>
    BY <1>2 DEF SearchFails, RecordFails, AssembleFails
  <2>3. packet = NoPacket
    BY <2>1, NoPacketYet
  <2> QED BY <2>1, <2>2, <2>3, Leaving
<1> QED BY <1>1, <1>2
----------------------------------------------------------------------------
(* The corpus beside the run.                                               *)
RowType == [chunk : ChunkIds \cup {NoChunk}, file : Files, selected : BOOLEAN, content : BOOLEAN]

\* Forgetting chunks changes nothing of a row but its chunk.
LEMMA ForgetIs ==
  ASSUME NEW rows \in Seq(RowType), NEW gone
  PROVE  LET after == Forget(rows, gone)
         IN  /\ after \in Seq(RowType) /\ DOMAIN after = DOMAIN rows
             /\ \A i \in DOMAIN rows : /\ after[i].selected = rows[i].selected
                                       /\ after[i].chunk # NoChunk => /\ after[i].chunk = rows[i].chunk
                                                                      /\ rows[i].chunk \notin gone
<1> DEFINE after == Forget(rows, gone)
<1>1. DOMAIN rows = 1 .. Len(rows) /\ Len(rows) \in Nat /\ \A i \in DOMAIN rows : rows[i] \in RowType
  OBVIOUS
<1>2. DOMAIN after = DOMAIN rows
  BY DEF Forget
<1>3. ASSUME NEW i \in DOMAIN rows
      PROVE  /\ after[i] \in RowType /\ after[i].selected = rows[i].selected
             /\ after[i].chunk # NoChunk => after[i].chunk = rows[i].chunk /\ rows[i].chunk \notin gone
  <2>1. rows[i] \in RowType
    BY <1>1
  <2>2. CASE rows[i].chunk \in gone
    <3>1. after[i] = [rows[i] EXCEPT !.chunk = NoChunk]
      BY <2>2 DEF Forget
    <3> HIDE DEF after
    <3> QED BY <2>1, <3>1 DEF RowType
  <2>3. CASE rows[i].chunk \notin gone
    <3>1. after[i] = rows[i]
      BY <2>3 DEF Forget
    <3> QED BY <2>1, <2>3, <3>1
  <2> QED BY <2>2, <2>3
<1> HIDE DEF after
<1>4. after \in Seq(RowType)
  <2>1. after = [i \in 1 .. Len(rows) |-> after[i]]
    <3>1. after = [i \in DOMAIN rows |-> after[i]]
      BY <1>2 DEF after, Forget
    <3> QED BY <1>1, <3>1
  <2>2. \A i \in 1 .. Len(rows) : after[i] \in RowType
    BY <1>1, <1>3
  <2> QED BY <1>1, <2>1, <2>2
<1> QED BY <1>2, <1>3, <1>4 DEF after

\* A new chunk takes no id in use: what is of other files stays as it is.
LEMMA OthersStay ==
  ASSUME TablesTyped, NEW f \in Files, Reextract(f)
  PROVE  /\ chunks' \in [ChunkIds -> ChunkRow \cup {NoRow}]
         /\ \A c \in ChunkIds : chunks[c] # NoRow /\ chunks[c].file # f => chunks'[c] = chunks[c]
<1> DEFINE gone == {c \in ChunkIds : chunks[c].file = f}
           kept == {c \in ChunkIds \ gone : chunks[c] # NoRow}
           next == Max({0} \cup kept) + 1
<1>1. PICK texts \in {<<>>} \cup {<<t>> : t \in Texts} :
        chunks' = [c \in ChunkIds |-> IF c = next /\ texts # <<>> THEN [file |-> f, text |-> texts[1]]
                                      ELSE IF c \in gone THEN NoRow ELSE chunks[c]]
  BY DEF Reextract
<1>2. next \notin kept
  <2> DEFINE ids == {0} \cup kept
  <2>1. kept \subseteq ChunkIds /\ ChunkIds \subseteq Nat /\ IsFiniteSet(ChunkIds)
    BY RunAssumption, CorpusAssumption
  <2>2. IsFiniteSet(kept)
    BY <2>1, FS_Subset
  <2>3. ids \in SUBSET Nat /\ ids # {} /\ kept \subseteq ids
    <3> HIDE DEF kept
    <3> QED BY <2>1
  <2>4. IsFiniteSet(ids)
    <3> HIDE DEF kept
    <3>1. ids = kept \cup {0}
      OBVIOUS
    <3> QED BY <2>2, <3>1, FS_AddElement
  <2> HIDE DEF ids, kept
  <2>5. Max(ids) \in ids /\ \A x \in ids : x <= Max(ids)
    BY <2>3, <2>4, LargestOf
  <2>6. next = Max(ids) + 1
    BY DEF ids
  <2> DEFINE m == Max(ids)
  <2>7. m \in Nat /\ \A x \in kept : x <= m
    BY <2>3, <2>5
  <2>8. next = m + 1
    BY <2>6
  <2> HIDE DEF next, m
  <2>9. ~ (m + 1 <= m)
    BY <2>7
  <2> QED BY <2>7, <2>8, <2>9
<1>3. ASSUME NEW c \in ChunkIds, chunks[c] # NoRow, chunks[c].file # f PROVE chunks'[c] = chunks[c]
  <2>1. c \notin gone /\ c \in kept
    BY <1>3
  <2> HIDE DEF gone, kept, next
  <2> QED BY <1>1, <1>2, <2>1
<1>4. ASSUME NEW c \in ChunkIds PROVE chunks'[c] \in ChunkRow \cup {NoRow}
  <2>1. chunks[c] \in ChunkRow \cup {NoRow}
    BY DEF TablesTyped
  <2>2. texts # <<>> => texts[1] \in Texts
    BY <1>1
  <2> HIDE DEF gone, kept, next
  <2> QED BY <1>1, <2>1, <2>2 DEF ChunkRow
<1> HIDE DEF gone, kept, next
<1>5. chunks' \in [ChunkIds -> ChunkRow \cup {NoRow}]
  BY <1>1, <1>4
<1> QED BY <1>3, <1>5

\* Extracting a file again keeps the invariant: only its own chunks go.
LEMMA ReextractStep ==
  ASSUME EvidenceInv, NEW f \in Files, Reextract(f)
  PROVE  EvidenceInv'
<1> DEFINE gone == {c \in ChunkIds : chunks[c].file = f}
           rows == Forget(run.rows, gone)
<1> USE DEF EvidenceInv
<1>1. UNCHANGED <<pc, plan, sets, fused, attempt, answer, packet, stored, outcome>>
  BY DEF Reextract, process
<1>2. /\ rewritten \subseteq rewritten' /\ (Ranked(f) => f \in rewritten')
      /\ run' = [run EXCEPT !.rows = Forget(@, gone)]
      /\ \E s \in {"indexed", "failed", "missing"} : status' = [status EXCEPT ![f] = s]
  BY DEF Reextract
<1>3. /\ chunks' \in [ChunkIds -> ChunkRow \cup {NoRow}]
      /\ \A c \in ChunkIds : chunks[c] # NoRow /\ chunks[c].file # f => chunks'[c] = chunks[c]
  BY OthersStay
<1>4. run \in RunType
  BY DEF TablesTyped
<1>5. run.rows \in Seq(RowType)
  BY <1>4 DEF RunType, RowType
<1>6. /\ rows \in Seq(RowType) /\ DOMAIN rows = DOMAIN run.rows
      /\ \A i \in DOMAIN run.rows : /\ rows[i].selected = run.rows[i].selected
                                    /\ rows[i].chunk # NoChunk => /\ rows[i].chunk = run.rows[i].chunk
                                                                  /\ run.rows[i].chunk \notin gone
  <2> HIDE DEF gone
  <2> QED BY <1>5, ForgetIs
<1> HIDE DEF rows
<1>7. run' = [status |-> run.status, envelopes |-> run.envelopes, rows |-> rows]
  BY <1>2, <1>4 DEF RunType, rows
<1>8. run' \in RunType /\ run'.status = run.status /\ run'.envelopes = run.envelopes /\ run'.rows = rows
  BY <1>4, <1>6, <1>7 DEF RunType, RowType
<1>9. TablesTyped'
  <2>1. status' \in [Files -> {"indexed", "failed", "missing"}]
    BY <1>2 DEF TablesTyped
  <2> QED BY <1>3, <1>8, <2>1 DEF TablesTyped
<1>10. PlanReady' /\ SetsFound'
  BY <1>1 DEF PlanReady, SetsFound
<1>11. EnvelopesMatch' /\ StagesMatch'
  BY <1>1, <1>8 DEF EnvelopesMatch, StagesMatch
<1>12. SearchesRead'
  <2>1. ASSUME pc \in Ranking, NEW i \in DOMAIN sets, NEW k \in DOMAIN sets[i].results
        PROVE  IsRead(sets[i].results[k])'
    <3> DEFINE r == sets[i].results[k]
    <3>1. SUFFICES ASSUME r.chunk # NoChunk, r.file \notin rewritten'
                   PROVE  chunks'[r.chunk] = [file |-> r.file, text |-> r.text]
      BY <1>1 DEF IsRead
    <3>2. chunks[r.chunk] = [file |-> r.file, text |-> r.text]
      BY <1>2, <2>1, <3>1 DEF SearchesRead, IsRead
    <3>3. sets[i] \in GoodSets
      BY <2>1 DEF SetsFound
    <3>4. r.chunk \in ChunkIds /\ r.text \in Texts
      BY <3>1, <3>3 DEF GoodSets, SetOk
    <3>5. chunks[r.chunk] # NoRow
      BY <3>2, <3>4, CorpusAssumption DEF NoRow
    <3>6. r.file # f
      <4>1. r \in Range(sets[i].results) /\ sets[i] \in Range(sets)
        BY <2>1 DEF Range
      <4>2. r.file = f => Ranked(f)
        BY <2>1, <3>1, <4>1 DEF Ranked, Ranking
      <4> QED BY <1>2, <3>1, <4>2
    <3>7. chunks[r.chunk].file = r.file
      BY <3>2
    <3> QED BY <1>3, <3>2, <3>4, <3>5, <3>6, <3>7
  <2> QED BY <1>1, <2>1 DEF SearchesRead
<1>13. FusedMatch'
  BY <1>1, FusedFrame
<1>14. RowsMatch'
  <2>1. ASSUME pc = "assemble", NEW i \in DOMAIN run.rows PROVE RowMatches(i)'
    <3> DEFINE row == run.rows[i]
               r == fused[i].result
    <3>1. RowMatches(i)
      BY <2>1 DEF RowsMatch
    <3>2. SUFFICES ASSUME rows[i].chunk # NoChunk
                   PROVE  /\ rows[i].chunk = r.chunk /\ chunks'[r.chunk] # NoRow
                          /\ chunks'[r.chunk].text = r.text \/ r.file \in rewritten'
      BY <1>1, <1>8 DEF RowMatches
    <3>3. rows[i].chunk = row.chunk /\ row.chunk \notin gone /\ row.chunk # NoChunk
      BY <1>6, <2>1, <3>2
    <3>4. row \in RowType
      BY <1>5, <2>1
    <3>5. row.chunk \in ChunkIds
      BY <3>3, <3>4 DEF RowType
    <3>6. row.chunk = r.chunk /\ chunks[r.chunk] # NoRow /\ (chunks[r.chunk].text = r.text \/ r.file \in rewritten)
      BY <3>1, <3>3 DEF RowMatches
    <3>7. chunks'[r.chunk] = chunks[r.chunk]
      BY <1>3, <3>3, <3>5, <3>6
    <3> QED BY <1>2, <3>3, <3>6, <3>7
  <2>2. pc \in {"plan", "start"} => rows = <<>>
    BY <1>6 DEF RowsMatch
  <2> QED BY <1>1, <1>6, <1>8, <2>1, <2>2 DEF RowsMatch
<1>15. PacketMatches'
  <2>1. {i \in DOMAIN run'.rows : run'.rows[i].selected} = {i \in DOMAIN run.rows : run.rows[i].selected}
    BY <1>6, <1>8
  <2>2. /\ packet # NoPacket => pc \in {"generate", "store", "done"}
        /\ pc \in {"generate", "store"} => packet # NoPacket
    BY DEF PacketMatches
  <2> QED BY <1>1, <1>2, <1>8, <2>1, <2>2, PacketFrame
<1>16. AnswersMatch'
  BY <1>1, AnswersFrame
<1> QED BY <1>9, <1>10, <1>11, <1>12, <1>13, <1>14, <1>15, <1>16

\* A file that disappears changes nothing the run has read.
LEMMA DisappearStep ==
  ASSUME EvidenceInv, NEW f \in Files, Disappear(f)
  PROVE  EvidenceInv'
<1> USE DEF EvidenceInv
<1>1. /\ UNCHANGED <<chunks, rewritten, pc, plan, sets, fused, attempt, answer, run, packet, stored, outcome>>
      /\ status' = [status EXCEPT ![f] = "missing"]
  BY DEF Disappear, process, recorded
<1>2. TablesTyped'
  BY <1>1 DEF TablesTyped
<1>3. PlanReady' /\ SetsFound' /\ EnvelopesMatch' /\ StagesMatch'
  BY <1>1 DEF PlanReady, SetsFound, EnvelopesMatch, StagesMatch
<1>4. SearchesRead'
  BY <1>1, SearchesReadFrame
<1>5. FusedMatch'
  BY <1>1, FusedFrame
<1>6. RowsMatch'
  BY <1>1, RowsFrame
<1>7. PacketMatches'
  <2>1. /\ packet # NoPacket => pc \in {"generate", "store", "done"}
        /\ pc \in {"generate", "store"} => packet # NoPacket
    BY DEF PacketMatches
  <2> QED BY <1>1, <2>1, PacketFrame
<1>8. AnswersMatch'
  BY <1>1, AnswersFrame
<1> QED BY <1>2, <1>3, <1>4, <1>5, <1>6, <1>7, <1>8

\* A stuttering step keeps the invariant.
LEMMA UnchangedStep ==
  ASSUME EvidenceInv, UNCHANGED vars
  PROVE  EvidenceInv'
<1> USE DEF EvidenceInv
<1>1. UNCHANGED <<chunks, status, rewritten, pc, plan, sets, fused, attempt, answer, run, packet, stored, outcome>>
  BY DEF vars, process
<1>2. TablesTyped' /\ PlanReady' /\ SetsFound' /\ EnvelopesMatch' /\ StagesMatch'
  BY <1>1 DEF TablesTyped, PlanReady, SetsFound, EnvelopesMatch, StagesMatch
<1>3. SearchesRead'
  BY <1>1, SearchesReadFrame
<1>4. FusedMatch'
  BY <1>1, FusedFrame
<1>5. RowsMatch'
  BY <1>1, RowsFrame
<1>6. PacketMatches'
  <2>1. /\ packet # NoPacket => pc \in {"generate", "store", "done"}
        /\ pc \in {"generate", "store"} => packet # NoPacket
    BY DEF PacketMatches
  <2> QED BY <1>1, <2>1, PacketFrame
<1>7. AnswersMatch'
  BY <1>1, AnswersFrame
<1> QED BY <1>2, <1>3, <1>4, <1>5, <1>6, <1>7

----------------------------------------------------------------------------
(* The invariant holds of every behaviour.                                  *)
\* The invariant holds before the run is planned.
LEMMA EvidenceInit == Init => EvidenceInv
<1>1. HAVE Init
<1>2. TablesTyped
  <2>1. InitialChunks \in [ChunkIds -> ChunkRow \cup {NoRow}]
    BY CorpusAssumption DEF ChunkRow
  <2>2. run \in RunType
    BY <1>1 DEF Init, RunType
  <2>3. status \in [Files -> {"indexed", "failed", "missing"}]
    BY <1>1 DEF Init
  <2> QED BY <1>1, <2>1, <2>2, <2>3 DEF Init, TablesTyped
<1>3. pc = "plan" /\ sets = <<>> /\ fused = <<>> /\ run.envelopes = <<>> /\ run.rows = <<>> /\ run.status = "none"
      /\ packet = NoPacket /\ packet.evidence = <<>> /\ stored = NoAnswer /\ outcome = "none" /\ plan.queries = <<>>
  BY <1>1 DEF Init, NoPacket, NoPlan, NoScope
<1>4. PlanReady /\ SetsFound /\ EnvelopesMatch /\ StagesMatch
  BY <1>3 DEF PlanReady, SetsFound, EnvelopesMatch, StagesMatch, Ranking
<1>5. SearchesRead /\ FusedMatch /\ RowsMatch
  BY <1>3 DEF SearchesRead, FusedMatch, RowsMatch, Ranking
<1>6. PacketMatches
  <2>1. {i \in DOMAIN run.rows : run.rows[i].selected} = {}
    BY <1>3
  <2>2. {e.rank : e \in Range(packet.evidence)} = {}
    BY <1>3 DEF Range
  <2> QED BY <1>3, <2>1, <2>2 DEF PacketMatches
<1>7. AnswersMatch
  BY <1>3 DEF AnswersMatch
<1> QED BY <1>2, <1>4, <1>5, <1>6, <1>7 DEF EvidenceInv

\* Every step keeps it: of the run, of the answer, of the corpus, and a crash.
LEMMA EvidenceStep == EvidenceInv /\ [Next]_vars => EvidenceInv'
<1>1. SUFFICES ASSUME EvidenceInv, [Next]_vars PROVE EvidenceInv'
  OBVIOUS
<1>2. ASSUME NEW p \in Payloads, NEW m \in Contexts, Plan(p, m) PROVE EvidenceInv'
  BY <1>1, <1>2, PlanStep
<1>3. CASE StartRun
  BY <1>1, <1>3, StartStep
<1>4. CASE SearchMetadata
  BY <1>1, <1>4, MetadataStage
<1>5. CASE SearchKeyword
  BY <1>1, <1>5, KeywordStage
<1>6. CASE SearchSemantic
  BY <1>1, <1>6, SemanticStage
<1>7. CASE RecordSet
  BY <1>1, <1>7, RecordStage
<1>8. CASE Fuse
  BY <1>1, <1>8, FuseStage
<1>9. CASE RecordFused
  BY <1>1, <1>9, RecordFusedStage
<1>10. CASE MarkFailed
  BY <1>1, <1>10, MarkFailedStage
<1>11. CASE Assemble
  BY <1>1, <1>11, AssembleStage
<1>12. CASE AnswerWithoutModel
  BY <1>1, <1>12, AnswerWithoutModelStep
<1>13. ASSUME NEW r \in Replies, Invoke(r) PROVE EvidenceInv'
  BY <1>1, <1>13, InvokeStep
<1>14. CASE Store
  BY <1>1, <1>14, StoreStep
<1>15. CASE \/ StartFails \/ SearchFails \/ RecordFails \/ AssembleFails
            \/ ProviderFails \/ StoreFails \/ Crash
  BY <1>1, <1>15, FailureSteps
<1>16. CASE Done \/ UNCHANGED vars
  BY <1>1, <1>16, UnchangedStep DEF Done
<1>17. ASSUME NEW f \in Files, Reextract(f) PROVE EvidenceInv'
  BY <1>1, <1>17, ReextractStep
<1>18. ASSUME NEW f \in Files, Disappear(f) PROVE EvidenceInv'
  BY <1>1, <1>18, DisappearStep
<1> QED BY <1>1, <1>2, <1>3, <1>4, <1>5, <1>6, <1>7, <1>8, <1>9, <1>10, <1>11, <1>12, <1>13, <1>14,
           <1>15, <1>16, <1>17, <1>18 DEF Next, Process

\* The inductive invariant of a recorded retrieval and its answer: for any corpus,
\* plans, replies and budgets, and any extraction or failure in between.
THEOREM EvidenceIsInductive == Spec => []EvidenceInv
BY EvidenceInit, EvidenceStep, PTL DEF Spec
----------------------------------------------------------------------------
(* What follows.                                                            *)
\* The status and the flags of a run agree with its packet.
LEMMA StatusAgrees ==
  ASSUME EvidenceInv
  PROVE  StatusMatchesPacket
BY DEF EvidenceInv, PacketMatches, PacketSound, StatusMatchesPacket

\* The counts of a run without a packet are numbers in their right order.
LEMMA CountsAreValid ==
  ASSUME EvidenceInv, run.status # "none"
  PROVE  ValidCoverage(PartialCoverage)
<1> DEFINE counted == [i \in DOMAIN run.envelopes |-> run.envelopes[i].count]
           raw == Total(counted)
           n == Len(run.rows)
           few == Cardinality(SelectableRows)
           file_only == Cardinality({i \in DOMAIN run.rows : run.rows[i].chunk = NoChunk})
           counts == Counts(raw, n, few, 0, 0, file_only)
           c == PartialCoverage
<1>1. c.status = run.status /\ c.counts = counts
  BY DEF PartialCoverage, Coverage
<1>2. n \in Nat /\ DOMAIN run.rows = 1 .. n
  BY Lists
<1>3. raw \in Nat
  <2>1. Len(run.envelopes) \in Nat /\ DOMAIN run.envelopes = 1 .. Len(run.envelopes)
        /\ run.envelopes \in Seq([method : {"metadata", "keyword", "semantic"}, count : Nat])
    BY Lists
  <2>2. ASSUME NEW i \in DOMAIN run.envelopes PROVE run.envelopes[i].count \in Nat
    <3> DEFINE list == run.envelopes
               Envelopes == [method : {"metadata", "keyword", "semantic"}, count : Nat]
    <3>1. list \in Seq(Envelopes) /\ i \in 1 .. Len(list)
      BY <2>1
    <3> HIDE DEF list, Envelopes
    <3>2. list[i] \in Envelopes
      BY <3>1
    <3>3. list[i].count \in Nat
      BY <3>2 DEF Envelopes
    <3> QED BY <3>3 DEF list
  <2>3. counted \in [1 .. Len(run.envelopes) -> Nat]
    BY <2>1, <2>2
  <2> HIDE DEF counted
  <2> QED BY <2>1, <2>3, TotalIsNatural
<1>4. few \in Nat /\ few <= n
  <2>1. SelectableRows \subseteq 1 .. n
    BY <1>2 DEF SelectableRows
  <2> HIDE DEF n
  <2>2. IsFiniteSet(1 .. n) /\ Cardinality(1 .. n) = n
    BY <1>2, FS_Interval
  <2> QED BY <2>1, <2>2, FS_Subset, FS_CardinalityType, <1>2
<1>5. file_only \in Nat /\ file_only <= n
  <2> DEFINE gone == {i \in DOMAIN run.rows : run.rows[i].chunk = NoChunk}
  <2>1. gone \subseteq 1 .. n
    BY <1>2
  <2> HIDE DEF n, gone
  <2>2. IsFiniteSet(1 .. n) /\ Cardinality(1 .. n) = n
    BY <1>2, FS_Interval
  <2>3. Cardinality(gone) \in Nat /\ Cardinality(gone) <= n
    BY <2>1, <2>2, FS_Subset, FS_CardinalityType, <1>2
  <2> QED BY <2>3 DEF gone
<1> HIDE DEF counted, raw, n, few, file_only
<1>6. counts = [raw |-> raw, fused |-> n, selectable |-> few, evidence |-> 0,
                tokens |-> 0, file_only |-> file_only, unselected |-> few]
  BY <1>4 DEF Counts
<1>7. \A field \in DOMAIN counts : counts[field] \in Nat
  BY <1>2, <1>3, <1>4, <1>5, <1>6
<1>8. counts.evidence <= counts.selectable /\ counts.selectable <= counts.fused
      /\ counts.file_only <= counts.fused /\ counts.unselected <= counts.selectable
  BY <1>2, <1>4, <1>5, <1>6
<1> HIDE DEF counts, c
<1>9. ValidCoverage(c)
  BY <1>1, <1>7, <1>8 DEF ValidCoverage
<1> QED BY <1>9 DEF c

\* A query is recorded as empty only when its search was made and found nothing.
LEMMA EmptyWasSearched ==
  ASSUME EvidenceInv, NEW q \in RecordedEmpty
  PROVE  \E s \in Range(sets) : s.method = "semantic" /\ s.query = q /\ s.results = <<>>
<1>1. PICK i \in DOMAIN plan.queries : /\ q = plan.queries[i] /\ i + 2 \in DOMAIN run.envelopes
                                      /\ run.envelopes[i + 2].count = 0
  BY DEF RecordedEmpty
<1> DEFINE s == sets[i + 2]
<1>2. i + 2 \in DOMAIN sets
  BY <1>1, Lengths
<1>3. s.method = "semantic" /\ s.query = q
  BY <1>1, <1>2 DEF EvidenceInv, SetsFound
<1>4. Len(s.results) = 0
  BY <1>1 DEF EvidenceInv, EnvelopesMatch
<1>5. s.results = <<>>
  <2>1. s \in FoundType
    <3>1. sets \in Seq(GoodSets)
      BY Lists
    <3>2. s \in GoodSets
      BY <1>2, <3>1
    <3> QED BY <3>2 DEF GoodSets
  <2>2. s.results \in Seq(ResultType)
    BY <2>1 DEF FoundType
  <2> HIDE DEF s
  <2> QED BY <1>4, <2>2
<1>6. s \in Range(sets)
  BY <1>2 DEF Range
<1> QED BY <1>3, <1>5, <1>6

\* The coverage is honest, from the packet or from the rows of the run.
LEMMA CoverageAgrees ==
  ASSUME EvidenceInv
  PROVE  CoverageIsHonest
<1>1. SUFFICES ASSUME run.status # "none"
               PROVE  LET c == SearchCoverage
                      IN  /\ ValidCoverage(c)
                          /\ \A q \in c.queries : \E s \in Range(sets) :
                                s.method = "semantic" /\ s.query = q /\ s.results = <<>>
                          /\ \A e \in Range(packet.evidence) :
                                HasContent(fused[e.rank]) => /\ e.course \notin c.courses
                                                             /\ \A i \in c.indexes : SourceTypeOf[i] # e.type
  BY DEF CoverageIsHonest
<1>2. CASE packet # NoPacket
  <2>1. SearchCoverage = packet.coverage
    BY <1>2 DEF SearchCoverage
  <2>2. PacketSound
    BY <1>2 DEF EvidenceInv, PacketMatches
  <2>3. ValidCoverage(packet.coverage)
    BY <2>2 DEF PacketSound, ValidPacket
  <2>4. \A q \in packet.coverage.queries : \E s \in Range(sets) :
           s.method = "semantic" /\ s.query = q /\ s.results = <<>>
    BY <2>2 DEF PacketSound, UnhitQueries
  <2>5. \A e \in Range(packet.evidence) : ItemMatches(e)
    BY <2>2 DEF PacketSound
  <2> QED BY <2>1, <2>3, <2>4, <2>5 DEF ItemMatches
<1>3. CASE packet = NoPacket
  <2>1. SearchCoverage = PartialCoverage
    BY <1>3 DEF SearchCoverage
  <2>2. Range(packet.evidence) = {}
    BY <1>3 DEF NoPacket, Range
  <2>3. PartialCoverage.queries = RecordedEmpty
    BY DEF PartialCoverage, Coverage
  <2> QED BY <1>1, <2>1, <2>2, <2>3, CountsAreValid, EmptyWasSearched
<1> QED BY <1>2, <1>3

\* A packet keeps the limits, and where there is none there is nothing to limit.
LEMMA PacketIsLimited ==
  ASSUME EvidenceInv
  PROVE  KeepsLimits(packet)
<1>1. CASE packet # NoPacket
  BY <1>1 DEF EvidenceInv, PacketMatches, PacketSound
<1>2. CASE packet = NoPacket
  <2> DEFINE none == [i \in DOMAIN packet.evidence |-> packet.evidence[i].words]
  <2>1. packet.evidence = <<>>
    BY <1>2 DEF NoPacket
  <2>2. DOMAIN packet.evidence = 1 .. 0 /\ Len(packet.evidence) = 0
    BY <2>1
  <2>3. none \in [1 .. 0 -> Nat]
    BY <2>2
  <2> HIDE DEF none
  <2>4. Total(none) = 0
    BY <2>3, TotalIsNatural
  <2>5. FinalTopK \in Nat /\ MaxTokens \in Nat
    BY RunAssumption
  <2>6. Total([i \in DOMAIN packet.evidence |-> packet.evidence[i].words]) <= MaxTokens
    BY <2>4, <2>5 DEF none
  <2> QED BY <2>2, <2>5, <2>6 DEF KeepsLimits
<1> QED BY <1>1, <1>2

\* Evidence quotes what was ranked.
LEMMA RanksAgree ==
  ASSUME EvidenceInv
  PROVE  EvidenceIsRanked
<1>1. CASE packet # NoPacket
  <2>1. \A e \in Range(packet.evidence) : ItemMatches(e)
    BY <1>1 DEF EvidenceInv, PacketMatches, PacketSound
  <2> QED BY <2>1 DEF ItemMatches, EvidenceIsRanked
<1>2. CASE packet = NoPacket
  <2>1. Range(packet.evidence) = {}
    BY <1>2 DEF NoPacket, Range
  <2> QED BY <2>1 DEF EvidenceIsRanked
<1> QED BY <1>1, <1>2

\* The fused list keeps what reciprocal rank fusion promises.
LEMMA FusionAgrees ==
  ASSUME EvidenceInv
  PROVE  FusionIsSound
<1>1. SUFFICES ASSUME fused # <<>>
               PROVE  /\ \A c \in Range(Cells(sets)) : Cardinality({i \in DOMAIN fused : c \in fused[i].cells}) = 1
                      /\ \A i, j \in DOMAIN fused :
                           (i # j /\ \A c \in fused[j].cells : \E d \in fused[i].cells : d.set = c.set /\ d.rank < c.rank)
                             => i < j
  BY DEF FusionIsSound
<1>2. FusedOk(sets, fused)
  BY <1>1 DEF EvidenceInv, FusedMatch
<1>3. sets \in FoundLists
  <2>1. sets \in Seq(GoodSets)
    BY Lists
  <2> QED BY <2>1, SetsAreGood
<1>4. /\ \A c \in Range(Cells(sets)) : Cardinality({i \in DOMAIN fused : c \in fused[i].cells}) = 1
      /\ \A i, j \in DOMAIN fused : Outranks(fused[i], fused[j]) => i < j
  BY <1>2, <1>3, FusionKeepsItsPromise
<1> QED BY <1>4 DEF Outranks

----------------------------------------------------------------------------
(* The stored answer.                                                       *)

\* What the code itself adds to an answer does not read as a citation.
OwnWords(l) == \/ l = <<"no model invoked">> \/ l = <<"nothing fits the prompt">>
               \/ (\E n : l = <<"omitted", n, "from the prompt">>) \/ (\E n : l = <<"failed", n, "validations">>)

\* By WordingAssumption none of them ends in a marker.
LEMMA OwnWordsAreClean ==
  ASSUME NEW l, OwnWords(l)
  PROVE  Last(l) \notin MarkerTexts
<1>1. CASE l = <<"no model invoked">>
  BY <1>1, WordingAssumption DEF Last
<1>4. CASE l = <<"nothing fits the prompt">>
  BY <1>4, WordingAssumption DEF Last
<1>2. ASSUME NEW n, l = <<"omitted", n, "from the prompt">> PROVE Last(l) \notin MarkerTexts
  BY <1>2, WordingAssumption DEF Last
<1>3. ASSUME NEW n, l = <<"failed", n, "validations">> PROVE Last(l) \notin MarkerTexts
  BY <1>3, WordingAssumption DEF Last
<1> QED BY <1>1, <1>2, <1>3, <1>4 DEF OwnWords

\* What is said of a stored answer.
AnswerIsHonest(a) ==
  /\ Range(a.citations) \subseteq PromptEvidence(packet.evidence)
  /\ packet.weaknesses # {} => a.limitations # {}
  /\ a.kind = "answered" <=> a.citations # <<>>
  /\ \/ AuditAccepts(a, packet)
     \/ a.citations = <<>> /\ \E w \in packet.weaknesses : Last(w) \in MarkerTexts

\* An answer without citations quotes the weaknesses and the code's own words.
LEMMA UncitedIsHonest ==
  ASSUME EvidenceInv, packet # NoPacket, NEW a, a.citations = <<>>, a.kind # "answered",
         Collapsed(packet.weaknesses) \subseteq a.limitations,
         \A l \in a.limitations : l \in Collapsed(packet.weaknesses) \/ OwnWords(l)
  PROVE  AnswerIsHonest(a)
<1>1. Range(a.citations) = {}
  BY DEF Range
<1>2. packet.weaknesses # {} => a.limitations # {}
  BY DEF Collapsed
<1>3. IsInjective(a.citations)
  BY DEF IsInjective
<1>4. ASSUME \A w \in packet.weaknesses : Last(w) \notin MarkerTexts, NEW l \in a.limitations
      PROVE  Last(l) \notin MarkerTexts
  <2>1. CASE OwnWords(l)
    BY <2>1, OwnWordsAreClean
  <2>2. CASE l \in Collapsed(packet.weaknesses)
    <3>1. PICK w \in packet.weaknesses : l = Collapse(w)
      BY <2>2 DEF Collapsed
    <3>2. Last(<<"collapsed">> \o w) = Last(w)
      BY DEF EvidenceInv, PacketMatches, PacketSound
    <3>3. Last(l) = Last(w)
      BY <3>1, <3>2 DEF Collapse
    <3> QED BY <1>4, <3>3
  <2> QED BY <1>4, <2>1, <2>2
<1>5. AuditAccepts(a, packet) \/ \E w \in packet.weaknesses : Last(w) \in MarkerTexts
  BY <1>1, <1>3, <1>4 DEF AuditAccepts
<1> QED BY <1>1, <1>2, <1>5 DEF AnswerIsHonest

\* Every answer that may be decided on is honest.
LEMMA DecidedIsHonest ==
  ASSUME EvidenceInv, packet # NoPacket, NEW a, Decided(a)
  PROVE  AnswerIsHonest(a)
<1> DEFINE ev == packet.evidence
           allowed == PromptEvidence(ev)
           quoted == Collapsed(packet.weaknesses)
<1>1. CASE a = InsufficientEvidence(packet)
  <2>1. a.citations = <<>> /\ a.kind = "insufficient" /\ a.limitations = quoted \cup {<<"no model invoked">>}
    BY <1>1 DEF InsufficientEvidence, Answer
  <2>2. \A l \in a.limitations : l \in quoted \/ OwnWords(l)
    BY <2>1 DEF OwnWords
  <2> QED BY <2>1, <2>2, UncitedIsHonest
<1>2. CASE a = PromptTooSmall(packet)
  <2>1. a.citations = <<>> /\ a.kind = "prompt too small" /\ a.limitations = quoted \cup {<<"nothing fits the prompt">>}
    BY <1>2 DEF PromptTooSmall, Answer
  <2>2. \A l \in a.limitations : l \in quoted \/ OwnWords(l)
    BY <2>1 DEF OwnWords
  <2> QED BY <2>1, <2>2, UncitedIsHonest
<1>3. CASE a = ValidationRefusal(packet)
  <2>1. a.citations = <<>> /\ a.kind = "refusal"
        /\ a.limitations = quoted \cup PromptLimitations(ev) \cup {<<"failed", AnswerRetries + 1, "validations">>}
    BY <1>3 DEF ValidationRefusal, Answer
  <2>2. \A l \in PromptLimitations(ev) : OwnWords(l)
    BY DEF PromptLimitations, OwnWords
  <2>3. \A l \in a.limitations : l \in quoted \/ OwnWords(l)
    BY <2>1, <2>2 DEF OwnWords
  <2> QED BY <2>1, <2>3, UncitedIsHonest
<1>4. ASSUME NEW reply \in Replies, ValidReply(reply, ev, allowed), a = Accepted(reply, packet)
      PROVE  AnswerIsHonest(a)
  <2>1. Range(a.citations) \subseteq allowed /\ IsInjective(a.citations) /\ a.citations # <<>>
    BY <1>4, AcceptedCites
  <2>2. allowed \subseteq DOMAIN ev
    BY PromptOfPacket
  <2>3. a.kind = "answered" /\ Collapsed(packet.weaknesses \cup reply.limitations) \subseteq a.limitations
    BY <1>4 DEF Accepted, Answer
  <2>4. packet.weaknesses # {} => a.limitations # {}
    BY <2>3 DEF Collapsed
  <2>5. AuditAccepts(a, packet)
    <3> HIDE DEF allowed
    <3> QED BY <2>1, <2>2 DEF AuditAccepts
  <2> HIDE DEF allowed
  <2> QED BY <2>1, <2>3, <2>4, <2>5 DEF AnswerIsHonest, allowed
<1> QED BY <1>1, <1>2, <1>3, <1>4 DEF Decided

\* So is a stored one.
LEMMA StoredAgrees ==
  ASSUME EvidenceInv
  PROVE  RefusedOnlyForWhiteSpace
<1>1. outcome = "unstorable" => \E w \in packet.weaknesses : Last(w) \in Irregular
  BY DEF EvidenceInv, AnswersMatch
<1>2. stored # NoAnswer => AnswerIsHonest(stored)
  BY DecidedIsHonest DEF EvidenceInv, AnswersMatch
<1> QED BY <1>1, <1>2 DEF RefusedOnlyForWhiteSpace, AnswerIsHonest

----------------------------------------------------------------------------
(* The results.                                                             *)
\* The records of a run agree at every moment (evidence_persistence.py): its status with its
\* packet and flags, its coverage with what was searched and found.
THEOREM RecordsAlwaysAgree == Spec => []RecordsAgree
<1>1. EvidenceInv => RecordsAgree
  BY StatusAgrees, CoverageAgrees, PacketIsLimited DEF RecordsAgree
<1> QED BY <1>1, EvidenceIsInductive, PTL

\* Evidence quotes the text that earned its rank, unless its file was extracted again
\* between the search and the recording of the fused list.
THEOREM EvidenceAlwaysRanked == Spec => []EvidenceIsRanked
<1>1. EvidenceInv => EvidenceIsRanked
  BY RanksAgree
<1> QED BY <1>1, EvidenceIsInductive, PTL

\* The store refuses an answer only for irregular white space, and a stored one cites only
\* evidence of the prompt (answering/core.py, answering/persistence.py).
THEOREM AnswersAlwaysHonest == Spec => []RefusedOnlyForWhiteSpace
<1>1. EvidenceInv => RefusedOnlyForWhiteSpace
  BY StoredAgrees
<1> QED BY <1>1, EvidenceIsInductive, PTL

\* Every hit supports one fused candidate, and one ahead in every list is ahead in the
\* fused list (retrieval/core.py, _merge_with_rrf).
THEOREM FusionAlwaysSound == Spec => []FusionIsSound
<1>1. EvidenceInv => FusionIsSound
  BY FusionAgrees
<1> QED BY <1>1, EvidenceIsInductive, PTL
=============================================================================
