-------------------------- MODULE ProvidersProofs --------------------------
(* Safety of the key failover of the chat model, for any number of keys and *)
(* of threads; then of one request for vectors (EmbeddingCall), for any     *)
(* profiles, texts and answers.                                             *)
EXTENDS GeminiFailover, EmbeddingCall, QuotaWindows, WellFoundedInduction, FiniteSetTheorems, TLAPS

\* The next index is the successor, or 0 after the last key.
LEMMA NextIndex ==
  ASSUME NEW i \in Keys
  PROVE  (i + 1) % N = IF i + 1 = N THEN 0 ELSE i + 1
BY KeysAssumption, SMTT(30) DEF Keys

-----------------------------------------------------------------------------
\* The wrapper starts at the first key with no model built.
LEMMA InitInv == Init => IInv
<1> SUFFICES ASSUME Init PROVE IInv
  OBVIOUS
<1>1. 0 \in Keys /\ N >= 1
  BY KeysAssumption DEF Keys
<1>2. TypeOK
  BY <1>1, KeysAssumption DEF Init, TypeOK, Keys
<1>3. ModelIsActive /\ Spent
  BY DEF Init, ModelIsActive, Spent
<1>4. Climb
  BY <1>1 DEF Init, Climb, Keys
<1>5. AttemptsLeft
  BY <1>1, KeysAssumption DEF Init, AttemptsLeft
<1> QED
  BY <1>2, <1>3, <1>4, <1>5 DEF IInv

\* Every step of a call, of another thread or of the provider's quota windows
\* keeps the invariant: a rotation off key g needs a failure of g, so the index
\* stays at or below the first key that was never over quota.
LEMMA InvStep == IInv /\ [Next]_vars => IInv'
<1> SUFFICES ASSUME IInv, [Next]_vars PROVE IInv'
  OBVIOUS
<1> USE DEF IInv, Keys
<1>1. ASSUME NEW c \in Calls, Current(c) PROVE IInv'
  <2> USE <1>1 DEF Current, provider
  <2>1. TypeOK'
    BY DEF TypeOK
  <2>2. ModelIsActive' /\ Spent'
    BY DEF TypeOK, ModelIsActive, Spent
  <2>3. Climb'
    BY DEF TypeOK, Climb
  <2>4. AttemptsLeft'
    BY DEF TypeOK, AttemptsLeft
  <2> QED
    BY <2>1, <2>2, <2>3, <2>4
<1>2. ASSUME NEW c \in Calls, BuildFails(c) \/ Succeed(c) PROVE IInv'
  <2> USE <1>2 DEF BuildFails, Succeed, shared, provider
  <2>1. TypeOK'
    BY DEF TypeOK
  <2>2. ModelIsActive' /\ Spent'
    BY DEF TypeOK, ModelIsActive, Spent
  <2>3. Climb'
    BY DEF TypeOK, Climb
  <2>4. AttemptsLeft'
    BY DEF TypeOK, AttemptsLeft
  <2> QED
    BY <2>1, <2>2, <2>3, <2>4
<1>3. ASSUME NEW c \in Calls, FailOtherwise(c) PROVE IInv'
  <2> USE <1>3 DEF FailOtherwise, shared, provider
  <2>1. TypeOK'
    BY KeysAssumption DEF TypeOK, AttemptsLeft
  <2>2. ModelIsActive' /\ Spent'
    BY DEF TypeOK, ModelIsActive, Spent
  <2>3. Climb'
    BY DEF TypeOK, Climb
  <2>4. AttemptsLeft'
    BY DEF TypeOK, AttemptsLeft
  <2> QED
    BY <2>1, <2>2, <2>3, <2>4
<1>4. ASSUME NEW c \in Calls, HitQuota(c) PROVE IInv'
  <2> USE <1>4 DEF HitQuota, shared, provider
  <2>1. attempts[c] + 1 \in 0 .. N /\ got[c] \in Keys /\ got[c] = using[c]
    BY KeysAssumption DEF TypeOK, AttemptsLeft, ModelIsActive
  <2>2. TypeOK'
    BY <2>1 DEF TypeOK
  <2>3. ModelIsActive'
    BY DEF TypeOK, ModelIsActive
  <2>4. Spent'
    BY <2>1 DEF TypeOK, Spent
  <2>5. Climb'
    BY <2>1, KeysAssumption DEF TypeOK, Climb
  <2>6. AttemptsLeft'
    BY <2>1, KeysAssumption DEF TypeOK, AttemptsLeft
  <2> QED
    BY <2>2, <2>3, <2>4, <2>5, <2>6
<1>5. ASSUME NEW c \in Calls, Rotate(c) PROVE IInv'
  <2> USE <1>5 DEF Rotate, shared, provider
  <2>1. index' \in Keys /\ model' \in Keys \cup {NoKey}
    BY NextIndex, KeysAssumption DEF TypeOK
  <2>2. TypeOK'
    BY <2>1 DEF TypeOK
  <2>3. ModelIsActive' /\ Spent'
    BY DEF TypeOK, ModelIsActive, Spent
  <2>4. Climb'
    <3> SUFFICES ASSUME NEW g \in Keys \ ever
                 PROVE  /\ index' <= g
                        /\ \A d \in Calls :
                             /\ pc'[d] = "next" => attempts[d] <= index'
                             /\ pc'[d] = "invoking" => using[d] <= index' /\ attempts[d] <= using[d]
                             /\ pc'[d] = "rotating" => using[d] <= index' /\ attempts[d] <= using[d] + 1
                             /\ pc'[d] # "quota"
      BY DEF Climb
    <3>1. using[c] \in ever /\ using[c] <= index /\ attempts[c] <= using[c] + 1
      BY DEF Climb, Spent
    <3>2. index <= g /\ index \in Keys /\ g \in Keys
      BY DEF Climb, TypeOK
    <3>3. index' = IF using[c] = index THEN index + 1 ELSE index
      BY <3>1, <3>2, NextIndex, KeysAssumption
    <3>4. index' <= g /\ index <= index'
      BY <3>1, <3>2, <3>3, KeysAssumption
    <3>5. attempts[c] <= index'
      BY <3>1, <3>2, <3>3, KeysAssumption DEF TypeOK
    <3>6. ASSUME NEW d \in Calls, d # c
          PROVE  /\ pc'[d] = pc[d] /\ using[d] \in Int /\ attempts[d] \in Int
                 /\ index \in Int /\ index' \in Int
      BY <3>2, <3>3, <3>6 DEF TypeOK
    <3>7. ASSUME NEW d \in Calls
          PROVE  /\ pc[d] = "next" => attempts[d] <= index
                 /\ pc[d] = "invoking" => using[d] <= index /\ attempts[d] <= using[d]
                 /\ pc[d] = "rotating" => using[d] <= index /\ attempts[d] <= using[d] + 1
                 /\ pc[d] # "quota"
      BY DEF Climb
    <3>8. pc'[c] = "next"
      BY DEF TypeOK
    <3> QED
      BY <3>4, <3>5, <3>6, <3>7, <3>8
  <2>5. AttemptsLeft'
    BY DEF TypeOK, AttemptsLeft
  <2> QED
    BY <2>2, <2>3, <2>4, <2>5
<1>6. ASSUME NEW k \in Keys, Exhaust(k) \/ Refresh(k) PROVE IInv'
  <2> USE <1>6 DEF Exhaust, Refresh, shared, local
  <2>1. TypeOK'
    BY DEF TypeOK
  <2>2. ModelIsActive' /\ Spent'
    BY DEF TypeOK, ModelIsActive, Spent
  <2>3. Climb'
    BY DEF TypeOK, Climb
  <2>4. AttemptsLeft'
    BY DEF TypeOK, AttemptsLeft
  <2> QED
    BY <2>1, <2>2, <2>3, <2>4
<1>7. CASE UNCHANGED vars
  BY <1>7 DEF vars, shared, provider, local, TypeOK, ModelIsActive, Spent, Climb, AttemptsLeft
<1> QED
  BY <1>1, <1>2, <1>3, <1>4, <1>5, <1>6, <1>7 DEF Next, Invoke, TypeOK

\* The inductive invariant holds of every behaviour of the wrapper.
THEOREM FailoverInvariant == Spec => []IInv
BY InitInv, InvStep, PTL DEF Spec

\* As long as some key has never been over quota, no invocation gives up on
\* quota, whatever other threads rotate in between.
THEOREM GoodKeyIsFound == Spec => []NoQuotaErrorWhileAKeyIsGood
<1>1. IInv => NoQuotaErrorWhileAKeyIsGood
  BY DEF IInv, TypeOK, Climb, NoQuotaErrorWhileAKeyIsGood
<1> QED
  BY <1>1, FailoverInvariant, PTL

\* The wrapper is sticky: it moves only off keys that were over quota.
THEOREM StickyUntilSpent == Spec => LeavesOnlySpentKeys
<1>1. IInv /\ [Next]_vars => [index' # index => index \in ever]_vars
  BY DEF IInv, Spent, Next, Invoke, Current, BuildFails, Succeed, FailOtherwise,
         HitQuota, Rotate, Exhaust, Refresh, vars, shared, provider, local
<1> QED
  BY <1>1, FailoverInvariant, PTL DEF Spec, LeavesOnlySpentKeys

-----------------------------------------------------------------------------
\* A set of natural numbers has a least element.
LEMMA LeastOf ==
  ASSUME NEW S \in SUBSET Nat, S # {}
  PROVE  \E k \in S : \A j \in S : k <= j
<1>1. PICK k \in S : \A j \in S : <<j, k>> \notin OpToRel(<, Nat)
  BY WFMin, NatLessThanWellFounded, Zenon
<1>2. \A j \in S : ~ (j < k)
  BY <1>1, Zenon DEF OpToRel
<1> QED BY <1>2

\* Increasing positions of a list, as many as it has, are all of them in order.
LEMMA IncreasingIsIdentity ==
  ASSUME NEW m \in Nat, NEW c \in [1 .. m -> 1 .. m], \A j, k \in 1 .. m : j < k => c[j] < c[k]
  PROVE  \A k \in 1 .. m : c[k] = k
<1>0. \A j, k \in 1 .. m : j < k => c[j] < c[k]
  OBVIOUS
<1>1. \A k \in 1 .. m : c[k] >= k
  <2> DEFINE Below == {k \in 1 .. m : c[k] < k}
  <2>1. SUFFICES ASSUME Below # {} PROVE FALSE
    OBVIOUS
  <2>2. PICK k \in Below : \A j \in Below : k <= j
    <3>1. Below \in SUBSET Nat
      OBVIOUS
    <3> HIDE DEF Below
    <3> QED BY <2>1, <3>1, LeastOf
  <2>3. k \in 1 .. m /\ c[k] \in 1 .. m /\ c[k] < k
    OBVIOUS
  <2>4. k - 1 \in 1 .. m /\ k - 1 \notin Below
    BY <2>2, <2>3
  <2>5. c[k - 1] \in 1 .. m /\ c[k - 1] >= k - 1
    BY <2>4
  <2>6. c[k - 1] < c[k]
    BY <2>3, <2>4, <1>0
  <2> QED BY <2>3, <2>5, <2>6
<1>2. \A k \in 1 .. m : c[k] <= k
  <2> DEFINE Above == {m - k : k \in {j \in 1 .. m : c[j] > j}}
  <2>1. SUFFICES ASSUME Above # {} PROVE FALSE
    <3>1. ASSUME NEW k \in 1 .. m, c[k] > k PROVE Above # {}
      BY <3>1
    <3> QED BY <3>1
  <2>2. PICK l \in Above : \A j \in Above : l <= j
    <3>1. Above \in SUBSET Nat
      OBVIOUS
    <3> HIDE DEF Above
    <3> QED BY <2>1, <3>1, LeastOf
  <2>3. PICK k \in 1 .. m : c[k] > k /\ l = m - k
    OBVIOUS
  <2>4. k + 1 \in 1 .. m /\ c[k] < c[k + 1]
    <3>1. c[k] \in 1 .. m
      OBVIOUS
    <3> QED BY <2>3, <3>1, <1>0
  <2>5. ~ (c[k + 1] > k + 1)
    <3>1. SUFFICES ASSUME c[k + 1] > k + 1 PROVE FALSE
      OBVIOUS
    <3>2. m - (k + 1) \in Above
      BY <2>4, <3>1
    <3> HIDE DEF Above
    <3> QED BY <2>2, <2>3, <2>4, <3>2
  <2>6. c[k] \in 1 .. m /\ c[k + 1] \in 1 .. m
    BY <2>4
  <2> QED BY <2>3, <2>4, <2>5, <2>6
<1>3. \A k \in 1 .. m : c[k] \in 1 .. m
  OBVIOUS
<1> QED BY <1>1, <1>2, <1>3

-----------------------------------------------------------------------------
\* The request in progress: texts embedded so far, at most one job, and an attempt
\* beyond the first only after a failure that may pass.
Embedded(m) == vectors = [k \in 1 .. m |-> Vector(k, dim)]

\* One vector of the built dimension for each text, of whichever text it is.
Complete == Len(vectors) = n /\ \A k \in DOMAIN vectors : vectors[k].len = dim

CallInv ==
  /\ n \in Nat /\ attempt \in Nat /\ created \in {0, 1}
  /\ stage \in {"select", "build", "probe", "ready", "request"} => created = 0
  /\ stage \in {"select", "build", "probe", "ready"} => n = 0 /\ vectors = <<>>
  /\ stage = "request" => \E m \in 0 .. n - 1 : Embedded(m)
  /\ stage # "done" => result = "none"
  /\ result = "vectors" => Complete /\ (faithful => Embedded(n))
  /\ attempt > 1 => result = "error" \/ (lastFailure # Null /\ IsTransient(lastFailure))

LEMMA CallInitInv == CallInit => CallInv
  BY DEF CallInit, CallInv

\* What the checks of number and dimension let through.
LEMMA ValidIsComplete ==
  ASSUME n \in Nat, NEW items \in Responses({NoIndex} \cup 0 .. n), Valid(VectorsOf(items), n, dim)
  PROVE  /\ Len(VectorsOf(items)) = n /\ \A k \in DOMAIN VectorsOf(items) : VectorsOf(items)[k].len = dim
         /\ DOMAIN items = 1 .. n
         /\ \A k \in 1 .. n : items[k].of \in 1 .. n /\ items[k].len = dim
         /\ VectorsOf(items) = [k \in 1 .. n |-> Vector(items[k].of, dim)]
<1>1. PICK m \in 0 .. n + 1 : items \in [1 .. m -> [of : 1 .. n, len : Lengths, index : {NoIndex} \cup 0 .. n]]
  BY DEF Responses
<1>2. VectorsOf(items) = [k \in 1 .. m |-> Vector(items[k].of, items[k].len)]
  BY <1>1 DEF VectorsOf
<1>3. Len(VectorsOf(items)) = m /\ m = n
  BY <1>1, <1>2 DEF Valid
<1>4. \A k \in 1 .. n : items[k].of \in 1 .. n /\ items[k].len = dim
  <2>1. SUFFICES ASSUME NEW k \in 1 .. n PROVE items[k].of \in 1 .. n /\ items[k].len = dim
    OBVIOUS
  <2>2. VectorsOf(items)[k].len = dim
    BY <1>2, <1>3 DEF Valid
  <2>3. VectorsOf(items)[k] = Vector(items[k].of, items[k].len)
    BY <1>2, <1>3
  <2> QED BY <2>2, <2>3, <1>1, <1>3 DEF Vector
<1>5. VectorsOf(items) = [k \in 1 .. n |-> Vector(items[k].of, dim)]
  BY <1>2, <1>3, <1>4
<1>6. \A k \in DOMAIN VectorsOf(items) : VectorsOf(items)[k].len = dim
  BY DEF Valid
<1> QED BY <1>1, <1>3, <1>4, <1>5, <1>6

\* Of a provider that keeps to its interface, that is the vectors of all texts in
\* their order: true indexes in order name the texts in order, and an increasing
\* list of n texts out of n leaves none out.
LEMMA FaithfulIsInOrder ==
  ASSUME n \in Nat, NEW items \in Responses({NoIndex} \cup 0 .. n), Valid(VectorsOf(items), n, dim),
         Faithful(items), Ordered(items, n)
  PROVE  VectorsOf(items) = [k \in 1 .. n |-> Vector(k, dim)]
<1>1. /\ DOMAIN items = 1 .. n
      /\ \A k \in 1 .. n : items[k].of \in 1 .. n
      /\ VectorsOf(items) = [k \in 1 .. n |-> Vector(items[k].of, dim)]
  BY ValidIsComplete
<1>2. \A k \in 1 .. n : items[k].of = k
  <2>1. CASE \A k \in DOMAIN items : items[k].index = k - 1
    <3>1. SUFFICES ASSUME NEW k \in 1 .. n PROVE items[k].of = k
      OBVIOUS
    <3>2. k \in Int /\ items[k].of \in Int /\ items[k].index = k - 1
      BY <2>1, <1>1
    <3>3. items[k].index \in {NoIndex, items[k].of - 1}
      BY <1>1 DEF Faithful
    <3>4. k - 1 = items[k].of - 1
      <4>1. k - 1 \in Int
        BY <3>2
      <4> QED BY <3>2, <3>3, <4>1, CallAssumption
    <3> QED BY <3>2, <3>4
  <2>2. CASE \A k \in DOMAIN items : items[k].index = NoIndex
    <3> DEFINE c == [k \in 1 .. n |-> items[k].of]
    <3>1. c \in [1 .. n -> 1 .. n] /\ \A j, k \in 1 .. n : j < k => c[j] < c[k]
      BY <2>2, <1>1 DEF Faithful
    <3>2. \A k \in 1 .. n : c[k] = k
      <4> HIDE DEF c
      <4> QED BY <3>1, IncreasingIsIdentity
    <3> QED BY <3>2
  <2> QED BY <2>1, <2>2 DEF Ordered
<1> QED BY <1>1, <1>2

LEMMA CallInvStep == ASSUME CallInv, [CallNext]_callVars PROVE CallInv'
<1> USE DEF CallInv, Embedded, Complete
<1>1. ASSUME NEW category, Stop(category) PROVE CallInv'
  BY <1>1 DEF Stop
<1>2. ASSUME NEW vs, Accept(vs), Len(vs) = n, \A k \in DOMAIN vs : vs[k].len = dim,
             faithful' => vs = [k \in 1 .. n |-> Vector(k, dim)], stage # "done"
      PROVE  CallInv'
  BY <1>2 DEF Accept
<1>15. ASSUME n \in Nat, stage # "done", Answers PROVE CallInv'
  <2>1. PICK items \in Responses({NoIndex}) :
          /\ faithful' = Faithful(items)
          /\ IF Valid(VectorsOf(items), n, dim) THEN Accept(VectorsOf(items)) ELSE Refuse
    BY <1>15 DEF Answers
  <2>2. items \in Responses({NoIndex} \cup 0 .. n) /\ \A k \in DOMAIN items : items[k].index = NoIndex
    BY DEF Responses
  <2>3. CASE Valid(VectorsOf(items), n, dim)
    <3>1. Ordered(items, n)
      <4>1. Len(items) = n
        <5>1. DOMAIN items = 1 .. n /\ \E m \in Nat : DOMAIN items = 1 .. m
          BY <1>15, <2>2, <2>3, ValidIsComplete
        <5> QED BY <5>1, <1>15, <2>2 DEF Responses
      <4> QED BY <4>1, <2>2 DEF Ordered
    <3>2. faithful' => VectorsOf(items) = [k \in 1 .. n |-> Vector(k, dim)]
      BY <1>15, <2>1, <2>2, <2>3, <3>1, FaithfulIsInOrder
    <3>3. Len(VectorsOf(items)) = n /\ \A k \in DOMAIN VectorsOf(items) : VectorsOf(items)[k].len = dim
      BY <1>15, <2>2, <2>3, ValidIsComplete
    <3> QED BY <1>15, <2>1, <2>3, <3>2, <3>3, <1>2
  <2>4. CASE ~ Valid(VectorsOf(items), n, dim)
    BY <2>1, <2>4, <1>1 DEF Refuse
  <2> QED BY <2>3, <2>4
<1>3. CASE Select
  BY <1>1, <1>3 DEF Select
<1>4. CASE BuildHosted \/ LoadLocal \/ AdapterFails
  BY <1>1, <1>4 DEF BuildHosted, LoadLocal, AdapterFails
<1>5. CASE ProbeAnswers
  <2>1. PICK len \in Lengths :
          IF Valid(<<Vector(1, len)>>, 1, len)
          THEN /\ dim' = len /\ stage' = "ready" /\ attempt' = 0
               /\ UNCHANGED <<profile, op, n, job, vectors, result, diagnosis, created, lastFailure>>
          ELSE Stop("invalid response") /\ UNCHANGED lastFailure
    BY <1>5 DEF ProbeAnswers
  <2>2. CASE Valid(<<Vector(1, len)>>, 1, len)
    <3>1. /\ stage = "probe" /\ stage' = "ready" /\ attempt' = 0
          /\ UNCHANGED <<n, vectors, result, created>>
      BY <2>1, <2>2, <1>5 DEF ProbeAnswers
    <3> QED BY <3>1
  <2>3. CASE ~ Valid(<<Vector(1, len)>>, 1, len)
    BY <2>1, <2>3, <1>1
  <2> QED BY <2>2, <2>3
<1>6. CASE Call
  <2>1. PICK k \in 0 .. MaxTexts :
          /\ n' = k /\ attempt' = 1
          /\ IF k = 0 THEN stage' = "done" /\ result' = "vectors" ELSE stage' = "request" /\ UNCHANGED result
          /\ UNCHANGED <<vectors, created, dim>>
    BY <1>6 DEF Call
  <2>2. k \in Nat /\ vectors = <<>> /\ created = 0 /\ result = "none"
    BY <2>1, <1>6, CallAssumption DEF Call
  <2>3. \A d : <<>> = [i \in 1 .. 0 |-> Vector(i, d)]
    OBVIOUS
  <2>4. Len(<<>>) = 0 /\ DOMAIN <<>> = {}
    OBVIOUS
  <2>5. CASE k = 0
    <3>1. stage' = "done" /\ result' = "vectors" /\ vectors' = <<>> /\ n' = 0
      BY <2>1, <2>2, <2>5
    <3>2. Complete' /\ Embedded(n)'
      BY <3>1, <2>3, <2>4
    <3> QED BY <3>1, <3>2, <2>1, <2>2
  <2>6. CASE k # 0
    BY <2>1, <2>2, <2>3, <2>6
  <2> QED BY <2>5, <2>6
<1>7. CASE Fails
  <2>1. PICK f \in Failures : Retried(f)
    BY <1>7 DEF Fails
  <2>2. f # Null
    BY CallAssumption
  <2> QED BY <1>1, <1>7, <2>1, <2>2 DEF Fails, Retried
<1>8. CASE CreateFails \/ Create
  BY <1>8 DEF CreateFails, Create
<1>9. CASE JobEnds
  BY <1>9 DEF JobEnds
<1>10. CASE Poll
  <2>0. stage = "polling" /\ n \in Nat
    BY <1>10 DEF Poll
  <2>1. CASE job = "running"
    BY <2>1, <1>10 DEF Poll
  <2>2. CASE job = "succeeded"
    <3>1. Answers
      BY <2>2, <1>10 DEF Poll
    <3> QED BY <2>0, <3>1, <1>15
  <2>3. CASE job = "odd"
    BY <2>3, <1>1, <1>10 DEF Poll, Refuse
  <2>4. CASE job \notin {"running", "succeeded", "odd"}
    BY <2>4, <1>1, <1>10 DEF Poll
  <2> QED BY <2>1, <2>2, <2>3, <2>4
<1>11. CASE GeminiAnswers \/ LocalDocuments
  BY <1>11, <1>15 DEF GeminiAnswers, LocalDocuments
<1>12. CASE NebiusAnswers
  <2>1. PICK items \in Responses({NoIndex} \cup 0 .. n) :
          /\ faithful' = Faithful(items)
          /\ IF Ordered(items, n) /\ Valid(VectorsOf(items), n, dim) THEN Accept(VectorsOf(items)) ELSE Refuse
    BY <1>12 DEF NebiusAnswers
  <2>2. stage = "request" /\ n \in Nat
    BY <1>12 DEF NebiusAnswers
  <2>3. CASE Ordered(items, n) /\ Valid(VectorsOf(items), n, dim)
    <3>1. faithful' => VectorsOf(items) = [k \in 1 .. n |-> Vector(k, dim)]
      BY <2>1, <2>2, <2>3, FaithfulIsInOrder
    <3>2. Len(VectorsOf(items)) = n /\ \A k \in DOMAIN VectorsOf(items) : VectorsOf(items)[k].len = dim
      BY <2>2, <2>3, ValidIsComplete
    <3> QED BY <2>1, <2>2, <2>3, <3>1, <3>2, <1>2
  <2>4. CASE ~ (Ordered(items, n) /\ Valid(VectorsOf(items), n, dim))
    BY <2>1, <2>4, <1>1 DEF Refuse
  <2> QED BY <2>3, <2>4
<1>13. CASE LocalQuery
  <2>0. PICK m \in 0 .. n - 1 : Embedded(m)
    BY <1>13 DEF LocalQuery
  <2>1. n \in Nat /\ m \in Nat /\ m + 1 <= n /\ Len(vectors) = m /\ created = 0 /\ result = "none" /\ stage = "request"
    BY <2>0, <1>13 DEF LocalQuery
  <2>2. PICK len \in Lengths :
          LET v == Vector(m + 1, len)
          IN  IF ~ Valid(<<v>>, 1, dim) THEN Refuse
              ELSE IF v.of = n THEN Accept(Append(vectors, v))
              ELSE /\ vectors' = Append(vectors, v) /\ attempt' = 1
                   /\ lastFailure' = Null
                   /\ UNCHANGED <<stage, profile, dim, op, n, job, result, diagnosis, created>>
    BY <2>1, <1>13 DEF LocalQuery
  <2> DEFINE v == Vector(m + 1, len)
  <2>3. CASE ~ Valid(<<v>>, 1, dim)
    BY <2>2, <2>3, <1>1 DEF Refuse
  <2>4. CASE Valid(<<v>>, 1, dim)
    <3>1. v.len = dim /\ v.of = m + 1 /\ v = Vector(m + 1, dim)
      BY <2>4 DEF Valid, Vector
    <3>2. Append(vectors, v) = [k \in 1 .. m + 1 |-> Vector(k, dim)]
      <4> HIDE DEF v
      <4> QED BY <2>0, <2>1, <3>1
    <3>3. \/ m + 1 = n /\ Accept(Append(vectors, v))
          \/ /\ m + 1 # n /\ vectors' = Append(vectors, v) /\ attempt' = 1
             /\ lastFailure' = Null
             /\ UNCHANGED <<stage, profile, dim, op, n, job, result, diagnosis, created>>
      BY <2>2, <2>4, <3>1
    <3> HIDE DEF v
    <3>4. CASE m + 1 = n /\ Accept(Append(vectors, v))
      <4> DEFINE vs == [k \in 1 .. n |-> Vector(k, dim)]
      <4>1. Accept(vs) /\ stage # "done"
        BY <3>2, <3>4, <2>1
      <4>2. Len(vs) = n /\ \A k \in DOMAIN vs : vs[k].len = dim
        BY <2>1 DEF Vector
      <4>3. vs = [k \in 1 .. n |-> Vector(k, dim)]
        OBVIOUS
      <4> HIDE DEF vs
      <4> QED BY <4>1, <4>2, <4>3, <1>2
    <3>5. CASE m + 1 # n /\ vectors' = Append(vectors, v) /\ attempt' = 1 /\ lastFailure' = Null
               /\ UNCHANGED <<stage, profile, dim, op, n, job, result, diagnosis, created>>
      <4>1. m + 1 \in 0 .. n - 1
        BY <2>1, <3>5
      <4>2. Embedded(m + 1)'
        BY <3>2, <3>5
      <4> QED BY <4>1, <4>2, <2>1, <3>5
    <3> QED BY <3>3, <3>4, <3>5
  <2> QED BY <2>3, <2>4
<1>14. CASE UNCHANGED callVars
  BY <1>14 DEF callVars
<1> QED BY <1>3, <1>4, <1>5, <1>6, <1>7, <1>8, <1>9, <1>10, <1>11, <1>12, <1>13, <1>14 DEF CallNext

\* The invariant of one request for vectors, for any profiles, texts and answers.
THEOREM CallInvariant == CallSpec => []CallInv
BY CallInitInv, CallInvStep, PTL DEF CallSpec

\* Whoever gets vectors gets those of his texts, in their order (validate_vectors,
\* validate_response_order).
THEOREM VectorsAreOfTheTexts == CallSpec => []VectorsMatchInputs
<1>1. CallInv => VectorsMatchInputs
  BY DEF CallInv, Embedded, Complete, Vector, VectorsMatchInputs
<1> QED BY <1>1, CallInvariant, PTL

\* No billed job is created twice, and only a failure that may pass is tried again
\* (retry_transient).
THEOREM RetriesAreSafe == CallSpec => []RetriesOnlyWhatIsSafe
<1>1. CallInv => RetriesOnlyWhatIsSafe
  BY DEF CallInv, RetriesOnlyWhatIsSafe
<1> QED BY <1>1, CallInvariant, PTL

-----------------------------------------------------------------------------
\* The quota store (QuotaWindows): its documents, and what they say of the
\* reservations made.
Entries == [id : ReservationIds, at : 0 .. MaxTime]
Grants == [id : ReservationIds, client : Clients, at : 0 .. MaxTime]
Allowances == [{"minute", "client", "global"} -> Int]

QuotaType ==
  /\ time \in 0 .. MaxTime
  /\ timestamps \in [Clients -> SUBSET Entries] /\ \A c \in Clients : IsFiniteSet(timestamps[c])
  /\ clientCount \in [Clients -> [Days -> Nat]] /\ globalCount \in [Days -> Nat]
  /\ reservations \in [ReservationIds -> Allowances \cup {NotReserved}]
  /\ inFlight \in [ReservationIds -> (0 .. MaxTime) \cup {NoCall}]
  /\ granted \in Seq(Grants)

\* Only what has a reservation was granted, and once.
GrantedOnce ==
  /\ \A k \in 1 .. Len(granted) : reservations[granted[k].id] # NotReserved
  /\ \A j, k \in 1 .. Len(granted) : granted[j].id = granted[k].id => j = k

\* The counters of a day are the numbers of its grants, within the limits.
Today(d) == {k \in 1 .. Len(granted) : granted[k].at \div Day = d}
TodayOf(c, d) == {k \in Today(d) : granted[k].client = c}
DaysTally ==
  \A d \in Days :
    /\ globalCount[d] = Cardinality(Today(d)) /\ globalCount[d] <= GlobalLimit
    /\ \A c \in Clients : clientCount[c][d] = Cardinality(TodayOf(c, d)) /\ clientCount[c][d] <= ClientLimit

\* A client's list has lost a grant only to one a minute later.
Entry(g) == [id |-> g.id, at |-> g.at]
ListsRemember ==
  \A j \in 1 .. Len(granted) :
    \/ Entry(granted[j]) \in timestamps[granted[j].client]
    \/ \E i \in 1 .. Len(granted) : /\ granted[i].client = granted[j].client
                                    /\ granted[i].at >= granted[j].at + Minute

\* The minute before each grant, unless a later clock committed before it.
EarlierOf(k) == {j \in 1 .. k : granted[j].client = granted[k].client}
MinutesHold ==
  \A k \in 1 .. Len(granted) :
    (\A j \in EarlierOf(k) : granted[j].at <= granted[k].at) =>
      Cardinality({j \in EarlierOf(k) : granted[j].at + Minute > granted[k].at}) <= MinuteLimit

QuotaInv == QuotaType /\ GrantedOnce /\ DaysTally /\ ListsRemember /\ MinutesHold

LEMMA Limits == /\ MinuteLimit \in Nat \ {0} /\ ClientLimit \in Nat \ {0} /\ GlobalLimit \in Nat \ {0}
                /\ Minute \in Nat \ {0} /\ Day \in Nat \ {0} /\ MaxTime \in Nat
BY QuotaAssumption

LEMMA QuotaInitInv == QuotaInit => QuotaInv
<1> SUFFICES ASSUME QuotaInit PROVE QuotaInv
  OBVIOUS
<1> USE Limits DEF QuotaInit
<1>1. QuotaType
  BY QuotaAssumption, FS_EmptySet DEF QuotaType
<1>2. Len(granted) = 0 /\ \A d : Today(d) = {} /\ \A c : TodayOf(c, d) = {}
  BY DEF Today, TodayOf
<1>3. DaysTally
  <2>1. /\ \A d \in Days : globalCount[d] = 0
        /\ \A d \in Days : \A c \in Clients : clientCount[c][d] = 0
    OBVIOUS
  <2>2. Cardinality({}) = 0
    BY FS_EmptySet
  <2>3. ASSUME NEW d \in Days PROVE globalCount[d] = Cardinality(Today(d)) /\ globalCount[d] <= GlobalLimit
    <3>1. globalCount[d] = 0
      BY <2>1
    <3>2. Today(d) = {}
      BY <1>2
    <3>3. Cardinality(Today(d)) = 0
      BY <3>2, <2>2
    <3>4. 0 <= GlobalLimit
      BY Limits
    <3> QED BY <3>1, <3>3, <3>4
  <2>4. ASSUME NEW d \in Days, NEW c \in Clients
        PROVE  clientCount[c][d] = Cardinality(TodayOf(c, d)) /\ clientCount[c][d] <= ClientLimit
    <3>1. clientCount[c][d] = 0
      BY <2>1
    <3>2. TodayOf(c, d) = {}
      BY <1>2
    <3>3. Cardinality(TodayOf(c, d)) = 0
      BY <3>2, <2>2
    <3>4. 0 <= ClientLimit
      BY Limits
    <3> QED BY <3>1, <3>3, <3>4
  <2> QED BY <2>3, <2>4 DEF DaysTally
<1> QED BY <1>1, <1>2, <1>3 DEF QuotaInv, GrantedOnce, ListsRemember, MinutesHold

\* A grant: every count has room, and the new entry joins them all.
LEMMA ReserveNewInv ==
  ASSUME QuotaInv, NEW q \in ReservationIds, ReserveNew(q)
  PROVE  QuotaInv'
<1> USE Limits
<1> DEFINE c == ClientOf[q]
           now == inFlight[q]
           L == Len(granted)
           g == [id |-> q, client |-> c, at |-> now]
           day == now \div Day
           kept == Recent(c, now)
<1>1. /\ c \in Clients /\ now \in 0 .. MaxTime /\ day \in Days /\ L \in Nat /\ g \in Grants
      /\ reservations[q] = NotReserved
  <2>1. c \in Clients
    BY DEF Clients
  <2>2. now \in 0 .. MaxTime /\ reservations[q] = NotReserved
    BY QuotaAssumption DEF ReserveNew, QuotaInv, QuotaType
  <2>3. L \in Nat
    BY DEF QuotaInv, QuotaType
  <2> QED BY <2>1, <2>2, <2>3 DEF Days, Grants
<1>2. /\ timestamps' = [timestamps EXCEPT ![c] = kept \cup {Entry(g)}]
      /\ clientCount' = [clientCount EXCEPT ![c] = [clientCount[c] EXCEPT ![day] = clientCount[c][day] + 1]]
      /\ globalCount' = [globalCount EXCEPT ![day] = globalCount[day] + 1]
      /\ granted' = Append(granted, g)
      /\ inFlight' = [inFlight EXCEPT ![q] = NoCall] /\ time' = time
  BY DEF ReserveNew, Returns, Entry
<1>3. /\ kept \subseteq timestamps[c] /\ IsFiniteSet(kept) /\ Cardinality(kept) \in Nat
      /\ kept \subseteq Entries
  BY <1>1, FS_Subset, FS_CardinalityType DEF Recent, QuotaInv, QuotaType
<1>4. /\ MinuteLimit - Cardinality(kept) > 0
      /\ ClientLimit - clientCount[c][day] > 0 /\ GlobalLimit - globalCount[day] > 0
  <2>1. Left(Remaining(c, now))
    BY DEF ReserveNew
  <2>2. DOMAIN Remaining(c, now) = {"minute", "client", "global"}
    BY DEF Remaining
  <2>3. /\ Remaining(c, now)["minute"] > 0 /\ Remaining(c, now)["client"] > 0
        /\ Remaining(c, now)["global"] > 0
    BY <2>1, <2>2 DEF Left
  <2> QED BY <2>3 DEF Remaining
<1>5. clientCount[c] \in [Days -> Nat] /\ clientCount[c][day] \in Nat /\ globalCount[day] \in Nat
  BY <1>1 DEF QuotaInv, QuotaType
<1>6. /\ granted' \in Seq(Grants) /\ Len(granted') = L + 1 /\ granted'[L + 1] = g
      /\ \A k \in 1 .. L : granted'[k] = granted[k] /\ granted[k] \in Grants
  BY <1>1, <1>2 DEF QuotaInv, QuotaType
<1>7. /\ reservations' \in [ReservationIds -> Allowances \cup {NotReserved}]
      /\ reservations'[q] # NotReserved
      /\ \A r \in ReservationIds \ {q} : reservations'[r] = reservations[r]
  <2> DEFINE left == [limit \in DOMAIN Remaining(c, now) |-> Remaining(c, now)[limit] - 1]
  <2>1. reservations' = [reservations EXCEPT ![q] = left]
    BY DEF ReserveNew
  <2>2. left \in Allowances
    <3>1. DOMAIN Remaining(c, now) = {"minute", "client", "global"}
      BY DEF Remaining
    <3>2. /\ Remaining(c, now)["minute"] \in Int /\ Remaining(c, now)["client"] \in Int
          /\ Remaining(c, now)["global"] \in Int
      BY <1>3, <1>5 DEF Remaining
    <3> QED BY <3>1, <3>2 DEF Allowances
  <2> HIDE DEF left
  <2>3. left # NotReserved
    BY <2>2, QuotaAssumption DEF Allowances
  <2>4. reservations \in [ReservationIds -> Allowances \cup {NotReserved}]
    BY DEF QuotaInv, QuotaType
  <2> QED BY <2>1, <2>2, <2>3, <2>4
<1>8. Entry(g) \in Entries
  BY <1>1 DEF Entry, Entries
<1> HIDE DEF c, now, L, g, day, kept
<1>9. QuotaType'
  <2>1. timestamps' \in [Clients -> SUBSET Entries]
    BY <1>1, <1>2, <1>3, <1>8 DEF QuotaInv, QuotaType
  <2>2. \A x \in Clients : IsFiniteSet(timestamps'[x])
    <3>1. IsFiniteSet(kept \cup {Entry(g)})
      BY <1>3, FS_AddElement
    <3> QED BY <3>1, <1>2 DEF QuotaInv, QuotaType
  <2>3. clientCount' \in [Clients -> [Days -> Nat]] /\ globalCount' \in [Days -> Nat]
    BY <1>1, <1>2, <1>5 DEF QuotaInv, QuotaType
  <2>4. inFlight' \in [ReservationIds -> (0 .. MaxTime) \cup {NoCall}] /\ time' \in 0 .. MaxTime
    BY <1>2 DEF QuotaInv, QuotaType
  <2> QED BY <2>1, <2>2, <2>3, <2>4, <1>6, <1>7 DEF QuotaType
<1>10. GrantedOnce'
  <2>1. g.id = q
    BY DEF g
  <2>2. \A k \in 1 .. L : granted[k].id # q /\ granted[k].id \in ReservationIds
    BY <1>1, <1>6 DEF QuotaInv, GrantedOnce, L, Grants
  <2>3. \A k \in 1 .. L + 1 : k = L + 1 \/ k \in 1 .. L
    BY <1>1
  <2>4. \A k \in 1 .. L + 1 : reservations'[granted'[k].id] # NotReserved
    BY <2>1, <2>2, <2>3, <1>6, <1>7 DEF QuotaInv, GrantedOnce, L
  <2>5. \A j, k \in 1 .. L + 1 : granted'[j].id = granted'[k].id => j = k
    BY <2>1, <2>2, <2>3, <1>6 DEF QuotaInv, GrantedOnce, L
  <2> QED BY <2>4, <2>5, <1>6 DEF GrantedOnce
<1>11. DaysTally'
  <2>1. \A d \in Days : /\ Today(d) \subseteq 1 .. L /\ IsFiniteSet(Today(d))
                        /\ \A x : TodayOf(x, d) \subseteq 1 .. L /\ IsFiniteSet(TodayOf(x, d))
    <3>1. IsFiniteSet(1 .. L)
      BY <1>1, FS_Interval
    <3> QED BY <3>1, FS_Subset DEF Today, TodayOf, L
  <2>2. ASSUME NEW d \in Days
        PROVE  Today(d)' = IF d = day THEN Today(d) \cup {L + 1} ELSE Today(d)
    BY <1>1, <1>6 DEF Today, L, g, day
  <2>3. ASSUME NEW d \in Days, NEW x \in Clients
        PROVE  TodayOf(x, d)' = IF d = day /\ x = c THEN TodayOf(x, d) \cup {L + 1} ELSE TodayOf(x, d)
    BY <1>1, <1>6 DEF Today, TodayOf, L, g, day
  <2>4. L + 1 \notin 1 .. L
    BY <1>1
  <2>5. ASSUME NEW d \in Days
        PROVE  globalCount'[d] = Cardinality(Today(d)') /\ globalCount'[d] <= GlobalLimit
    <3>1. globalCount[d] = Cardinality(Today(d)) /\ globalCount[d] <= GlobalLimit /\ globalCount[d] \in Nat
      BY DEF QuotaInv, QuotaType, DaysTally
    <3>2. globalCount'[d] = IF d = day THEN globalCount[d] + 1 ELSE globalCount[d]
      BY <1>2 DEF QuotaInv, QuotaType
    <3>3. Cardinality(Today(d) \cup {L + 1}) = Cardinality(Today(d)) + 1
      BY <2>1, <2>4, FS_AddElement
    <3>4. CASE d = day
      <4>1. Cardinality(Today(d)') = Cardinality(Today(d)) + 1
        BY <3>3, <3>4, <2>2
      <4>2. globalCount[d] + 1 <= GlobalLimit
        BY <3>1, <3>4, <1>4
      <4> QED BY <3>1, <3>2, <3>4, <4>1, <4>2
    <3>5. CASE d # day
      BY <3>1, <3>2, <3>5, <2>2
    <3> QED BY <3>4, <3>5
  <2>6. ASSUME NEW d \in Days, NEW x \in Clients
        PROVE  clientCount'[x][d] = Cardinality(TodayOf(x, d)') /\ clientCount'[x][d] <= ClientLimit
    <3>1. clientCount[x][d] = Cardinality(TodayOf(x, d)) /\ clientCount[x][d] <= ClientLimit /\ clientCount[x][d] \in Nat
      BY DEF QuotaInv, QuotaType, DaysTally
    <3>2. clientCount'[x][d] = IF d = day /\ x = c THEN clientCount[x][d] + 1 ELSE clientCount[x][d]
      BY <1>1, <1>2, <1>5 DEF QuotaInv, QuotaType
    <3>3. Cardinality(TodayOf(x, d) \cup {L + 1}) = Cardinality(TodayOf(x, d)) + 1
      BY <2>1, <2>4, FS_AddElement
    <3>4. CASE d = day /\ x = c
      <4>1. Cardinality(TodayOf(x, d)') = Cardinality(TodayOf(x, d)) + 1
        BY <3>3, <3>4, <2>3
      <4>2. clientCount[x][d] + 1 <= ClientLimit
        BY <3>1, <3>4, <1>4
      <4> QED BY <3>1, <3>2, <3>4, <4>1, <4>2
    <3>5. CASE ~ (d = day /\ x = c)
      BY <3>1, <3>2, <3>5, <2>3
    <3> QED BY <3>4, <3>5
  <2> QED BY <2>5, <2>6 DEF DaysTally
<1>12. ListsRemember'
  <2>1. SUFFICES ASSUME NEW j \in 1 .. L + 1
                 PROVE  \/ Entry(granted'[j]) \in timestamps'[granted'[j].client]
                        \/ \E i \in 1 .. L + 1 : /\ granted'[i].client = granted'[j].client
                                                 /\ granted'[i].at >= granted'[j].at + Minute
    BY <1>6 DEF ListsRemember, Entry
  <2>2. g.client = c /\ g.at = now /\ g.id = q /\ L + 1 \in 1 .. L + 1
    BY <1>1 DEF g
  <2>3. timestamps'[c] = kept \cup {Entry(g)} /\ \A x \in Clients \ {c} : timestamps'[x] = timestamps[x]
    BY <1>1, <1>2 DEF QuotaInv, QuotaType
  <2>4. CASE j = L + 1
    BY <2>2, <2>3, <2>4, <1>6
  <2>5. CASE j \in 1 .. L
    <3>1. /\ granted'[j] = granted[j] /\ granted[j] \in Grants
          /\ granted[j].client \in Clients /\ granted[j].at \in 0 .. MaxTime
      BY <2>5, <1>6 DEF Grants
    <3>2. CASE \E i \in 1 .. L : /\ granted[i].client = granted[j].client
                                 /\ granted[i].at >= granted[j].at + Minute
      <4>1. PICK i \in 1 .. L : /\ granted[i].client = granted[j].client
                                /\ granted[i].at >= granted[j].at + Minute
        BY <3>2
      <4>2. i \in 1 .. L + 1 /\ granted'[i] = granted[i]
        BY <1>1, <1>6
      <4> QED BY <4>1, <4>2, <3>1
    <3>3. CASE Entry(granted[j]) \in timestamps[granted[j].client]
      <4>1. CASE granted[j].client # c
        BY <4>1, <3>1, <3>3, <2>3
      <4>2. CASE granted[j].client = c /\ granted[j].at + Minute > now
        <5>1. Entry(granted[j]).at = granted[j].at
          BY DEF Entry
        <5>2. Entry(granted[j]) \in kept
          BY <4>2, <5>1, <3>3 DEF kept, Recent
        <5> QED BY <5>2, <4>2, <3>1, <2>3
      <4>3. CASE granted[j].client = c /\ ~ (granted[j].at + Minute > now)
        <5>1. granted'[L + 1].client = c /\ granted'[L + 1].at >= granted[j].at + Minute
          BY <4>3, <3>1, <2>2, <1>1, <1>6
        <5> QED BY <5>1, <4>3, <3>1, <2>2
      <4> QED BY <4>1, <4>2, <4>3
    <3> QED BY <3>2, <3>3, <2>5 DEF QuotaInv, ListsRemember, L
  <2> QED BY <2>4, <2>5, <1>1
<1>13. MinutesHold'
  <2> PICK last \in Nat : last = L
    BY <1>1
  <2>1. \A k \in 1 .. L : EarlierOf(k)' = EarlierOf(k) /\ \A j \in 1 .. k : j \in 1 .. L /\ granted'[j] = granted[j]
    BY <1>1, <1>6 DEF EarlierOf
  <2>2. ASSUME NEW k \in 1 .. L, \A j \in EarlierOf(k)' : granted'[j].at <= granted'[k].at
        PROVE  Cardinality({j \in EarlierOf(k)' : granted'[j].at + Minute > granted'[k].at}) <= MinuteLimit
    <3>1. {j \in EarlierOf(k)' : granted'[j].at + Minute > granted'[k].at}
            = {j \in EarlierOf(k) : granted[j].at + Minute > granted[k].at}
      BY <2>1, <1>6 DEF EarlierOf
    <3>2. \A j \in EarlierOf(k) : granted[j].at <= granted[k].at
      BY <2>1, <2>2, <1>6 DEF EarlierOf
    <3> QED BY <3>1, <3>2 DEF QuotaInv, MinutesHold, L
  <2>3. ASSUME \A j \in EarlierOf(last + 1)' : granted'[j].at <= granted'[last + 1].at
        PROVE  Cardinality({j \in EarlierOf(last + 1)' : granted'[j].at + Minute > granted'[last + 1].at}) <= MinuteLimit
    <3> DEFINE counted == {j \in 1 .. L : granted[j].client = c /\ granted[j].at + Minute > now}
               entry == [j \in counted |-> Entry(granted[j])]
    <3>1. g.client = c /\ g.at = now
      BY DEF g
    <3>2. {j \in EarlierOf(last + 1)' : granted'[j].at + Minute > granted'[last + 1].at} = counted \cup {L + 1}
      <4>1. \A j \in 1 .. L + 1 : j = L + 1 \/ j \in 1 .. L
        BY <1>1
      <4>2. L + 1 \in EarlierOf(last + 1)' /\ now + Minute > now /\ L + 1 \notin 1 .. L
        BY <1>1, <1>6 DEF EarlierOf
      <4> QED BY <4>1, <4>2, <3>1, <1>1, <1>6 DEF EarlierOf
    <3>3. \A j \in 1 .. L : granted[j].client = c => granted[j].at <= now
      <4>1. \A j \in 1 .. L : granted[j].client = c => j \in EarlierOf(last + 1)'
        BY <3>1, <1>1, <1>6 DEF EarlierOf
      <4> QED BY <4>1, <3>1, <2>3, <1>6
    <3>4. IsFiniteSet(counted) /\ L + 1 \notin counted
      <4>1. IsFiniteSet(1 .. L)
        BY <1>1, FS_Interval
      <4> QED BY <4>1, <1>1, FS_Subset
    <3>5. \A j \in counted : Entry(granted[j]) \in kept
      <4>1. SUFFICES ASSUME NEW j \in counted PROVE Entry(granted[j]) \in kept
        OBVIOUS
      <4>2. /\ j \in 1 .. L /\ granted[j].client = c /\ granted[j].at + Minute > now
            /\ granted[j].at \in 0 .. MaxTime
        BY <1>6 DEF Grants
      <4>3. Entry(granted[j]) \in timestamps[c]
        <5>1. ASSUME NEW i \in 1 .. L, granted[i].client = c, granted[i].at >= granted[j].at + Minute PROVE FALSE
          <6>1. granted[i].at <= now /\ granted[i].at \in 0 .. MaxTime
            BY <5>1, <3>3, <1>6 DEF Grants
          <6> QED BY <6>1, <5>1, <4>2, <1>1
        <5> QED BY <5>1, <4>2 DEF QuotaInv, ListsRemember, L
      <4>4. Entry(granted[j]).at = granted[j].at
        BY DEF Entry
      <4> QED BY <4>2, <4>3, <4>4 DEF kept, Recent
    <3>6. entry \in Injection(counted, kept)
      <4>1. entry \in [counted -> kept]
        BY <3>5
      <4>2. \A i, j \in counted : entry[i] = entry[j] => i = j
        <5>1. \A i, j \in counted : Entry(granted[i]) = Entry(granted[j]) => granted[i].id = granted[j].id
          BY DEF Entry
        <5> QED BY <5>1 DEF QuotaInv, GrantedOnce, L
      <4> HIDE DEF entry
      <4> QED BY <4>1, <4>2 DEF Injection, IsInjective
    <3> HIDE DEF counted, entry
    <3>7. Cardinality(counted) <= Cardinality(kept) /\ Cardinality(counted) \in Nat
      BY <3>4, <3>6, <1>3, FS_Injection, FS_CardinalityType DEF ExistsInjection
    <3>8. Cardinality(counted \cup {L + 1}) = Cardinality(counted) + 1
      BY <3>4, FS_AddElement
    <3>9. Cardinality(counted) + 1 <= MinuteLimit
      BY <3>7, <1>3, <1>4
    <3> QED BY <3>2, <3>8, <3>9
  <2>4. \A k \in 1 .. L + 1 : k \in 1 .. L \/ k = L + 1
    BY <1>1
  <2> QED BY <2>2, <2>3, <2>4, <1>6 DEF MinutesHold
<1> QED BY <1>9, <1>10, <1>11, <1>12, <1>13 DEF QuotaInv

LEMMA QuotaInvStep == ASSUME QuotaInv, [QuotaNext]_quotaVars PROVE QuotaInv'
<1> USE Limits
<1>1. ASSUME UNCHANGED <<timestamps, clientCount, globalCount, reservations, granted>>, time' \in 0 .. MaxTime,
             inFlight' \in [ReservationIds -> (0 .. MaxTime) \cup {NoCall}]
      PROVE  QuotaInv'
  <2>1. \A d : Today(d)' = Today(d) /\ \A c : TodayOf(c, d)' = TodayOf(c, d)
    BY <1>1 DEF Today, TodayOf
  <2>2. DaysTally'
    BY <2>1, <1>1 DEF QuotaInv, DaysTally
  <2>3. QuotaType' /\ GrantedOnce' /\ ListsRemember'
    BY <1>1 DEF QuotaInv, QuotaType, GrantedOnce, ListsRemember, Entry
  <2>4. MinutesHold'
    BY <1>1 DEF QuotaInv, MinutesHold, EarlierOf
  <2> QED BY <2>2, <2>3, <2>4 DEF QuotaInv
<1>2. /\ time \in 0 .. MaxTime
      /\ inFlight \in [ReservationIds -> (0 .. MaxTime) \cup {NoCall}]
  BY DEF QuotaInv, QuotaType
<1>3. CASE Passes
  BY <1>1, <1>2, <1>3 DEF Passes
<1>4. ASSUME NEW q \in ReservationIds, TakesClock(q) \/ ReserveNothing(q) PROVE QuotaInv'
  BY <1>1, <1>2, <1>4 DEF TakesClock, ReserveNothing, Returns
<1>5. CASE UNCHANGED quotaVars
  BY <1>1, <1>2, <1>5 DEF quotaVars
<1> QED BY <1>3, <1>4, <1>5, ReserveNewInv DEF QuotaNext

\* No request counts twice, no day exceeds its limits and no minute of a client
\* its limit, except behind a later clock, for any limits, clients and clocks
\* (FirestoreDemoQuotaStore.reserve).
THEOREM QuotaIsExact == QuotaSpec => []QuotaWindowsHold
<1>1. QuotaInv => QuotaWindowsHold
  <2> SUFFICES ASSUME QuotaInv PROVE QuotaWindowsHold
    OBVIOUS
  <2>1. DOMAIN granted = 1 .. Len(granted)
    BY DEF QuotaInv, QuotaType
  <2>2. IsInjective([k \in DOMAIN granted |-> granted[k].id])
    BY <2>1 DEF QuotaInv, GrantedOnce, IsInjective
  <2>3. \A d \in Days : Cardinality({k \in DOMAIN granted : granted[k].at \div Day = d}) <= GlobalLimit
    BY <2>1 DEF QuotaInv, DaysTally, Today
  <2>4. \A d \in Days : \A c \in Clients :
          Cardinality({k \in {i \in DOMAIN granted : granted[i].at \div Day = d} : granted[k].client = c}) <= ClientLimit
    BY <2>1 DEF QuotaInv, DaysTally, Today, TodayOf
  <2>5. \A k \in DOMAIN granted :
          (\A j \in EarlierOf(k) : granted[j].at <= granted[k].at) =>
            Cardinality({j \in EarlierOf(k) : granted[j].at + Minute > granted[k].at}) <= MinuteLimit
    BY <2>1 DEF QuotaInv, MinutesHold
  <2> QED BY <2>2, <2>3, <2>4, <2>5 DEF QuotaWindowsHold, EarlierOf
<1> QED BY <1>1, QuotaInitInv, QuotaInvStep, PTL DEF QuotaSpec
=============================================================================
