--------------------------- MODULE GeminiFailover ---------------------------
(***************************************************************************)
(* GeminiKeyFailoverChatModel of gemini_failover.py: one wrapper object,   *)
(* cached for the process, whose invoke runs in the thread of every ask    *)
(* that plans or answers.  The provider call happens outside the lock, so  *)
(* the key that failed and the key that is active may differ by the time a *)
(* thread rotates.  Which keys are over quota changes at any moment.       *)
(***************************************************************************)
EXTENDS Integers

CONSTANTS
  Calls, \* invocations of the wrapper
  N,     \* number of configured keys
  NoKey  \* no model has been built

Keys == 0 .. N - 1

ASSUME KeysAssumption == N \in Nat /\ N >= 2 /\ NoKey \notin Keys

VARIABLES
  index,     \* _index
  model,     \* _model, as the key it was built with
  exhausted, \* keys that are over quota now
  ever,      \* keys that have been over quota at some time
  pc,        \* "next", "invoking", "rotating", "answered", "quota", "other"
  attempts,  \* attempts of each call
  got,       \* the model a call invokes, as its key
  using,     \* the index _current_model returned with it
  failed     \* keys a call has seen over quota

shared   == <<index, model>>
provider == <<exhausted, ever>>
local    == <<pc, attempts, got, using, failed>>
vars == <<shared, provider, local>>

-----------------------------------------------------------------------------
Init ==
  /\ index = 0 /\ model = NoKey
  /\ exhausted \in SUBSET Keys
  /\ ever = exhausted
  /\ pc = [c \in Calls |-> "next"]
  /\ attempts = [c \in Calls |-> 0]
  /\ got = [c \in Calls |-> NoKey]
  /\ using = [c \in Calls |-> 0]
  /\ failed = [c \in Calls |-> {}]

\* _current_model: build for the active key if there is no model yet.
Current(c) ==
  /\ pc[c] = "next"
  /\ model' = IF model = NoKey THEN index ELSE model
  /\ got' = [got EXCEPT ![c] = model']
  /\ using' = [using EXCEPT ![c] = index]
  /\ pc' = [pc EXCEPT ![c] = "invoking"]
  /\ UNCHANGED <<index, provider, attempts, failed>>

\* _build_model raises inside _current_model: nothing is kept.
BuildFails(c) ==
  /\ pc[c] = "next" /\ model = NoKey
  /\ pc' = [pc EXCEPT ![c] = "other"]
  /\ UNCHANGED <<shared, provider, attempts, got, using, failed>>

Succeed(c) ==
  /\ pc[c] = "invoking" /\ got[c] \notin exhausted
  /\ pc' = [pc EXCEPT ![c] = "answered"]
  /\ UNCHANGED <<shared, provider, attempts, got, using, failed>>

\* An error that is not _is_resource_exhausted propagates unchanged.
FailOtherwise(c) ==
  /\ pc[c] = "invoking"
  /\ attempts' = [attempts EXCEPT ![c] = @ + 1]
  /\ pc' = [pc EXCEPT ![c] = "other"]
  /\ UNCHANGED <<shared, provider, got, using, failed>>

\* Mutant: attempts is compared with len - 1.
HitQuotaEarly(c) ==
  /\ pc[c] = "invoking" /\ got[c] \in exhausted
  /\ attempts' = [attempts EXCEPT ![c] = @ + 1]
  /\ failed' = [failed EXCEPT ![c] = @ \cup {got[c]}]
  /\ pc' = [pc EXCEPT ![c] = IF attempts'[c] >= N - 1 THEN "quota" ELSE "rotating"]
  /\ UNCHANGED <<shared, provider, got, using>>

\* The key is over quota; after as many attempts as keys the error propagates.
HitQuota(c) ==
  /\ pc[c] = "invoking" /\ got[c] \in exhausted
  /\ attempts' = [attempts EXCEPT ![c] = @ + 1]
  /\ failed' = [failed EXCEPT ![c] = @ \cup {got[c]}]
  /\ pc' = [pc EXCEPT ![c] = IF attempts'[c] >= N THEN "quota" ELSE "rotating"]
  /\ UNCHANGED <<shared, provider, got, using>>

\* _rotate(failed_index)
Rotate(c) ==
  /\ pc[c] = "rotating"
  /\ IF using[c] = index
       THEN index' = (index + 1) % N /\ model' = NoKey
       ELSE UNCHANGED shared
  /\ pc' = [pc EXCEPT ![c] = "next"]
  /\ UNCHANGED <<provider, attempts, got, using, failed>>

\* The provider's quota windows.
Exhaust(k) ==
  /\ k \notin exhausted
  /\ exhausted' = exhausted \cup {k} /\ ever' = ever \cup {k}
  /\ UNCHANGED <<shared, local>>

Refresh(k) ==
  /\ k \in exhausted
  /\ exhausted' = exhausted \ {k}
  /\ UNCHANGED <<shared, ever, local>>

Invoke(c) == \/ Current(c) \/ BuildFails(c) \/ Succeed(c) \/ FailOtherwise(c)
             \/ HitQuota(c) \/ Rotate(c)

Next == (\E c \in Calls : Invoke(c)) \/ (\E k \in Keys : Exhaust(k) \/ Refresh(k))

Spec == Init /\ [][Next]_vars

-----------------------------------------------------------------------------
TypeOK ==
  /\ index \in Keys /\ model \in Keys \cup {NoKey}
  /\ exhausted \subseteq ever /\ ever \subseteq Keys
  /\ pc \in [Calls -> {"next", "invoking", "rotating", "answered", "quota", "other"}]
  /\ attempts \in [Calls -> 0 .. N]
  /\ got \in [Calls -> Keys \cup {NoKey}]
  /\ using \in [Calls -> Keys]
  /\ failed \in [Calls -> SUBSET Keys]

\* While some key has never been over quota, no invocation gives up on quota,
\* however many threads rotate at once: no stale rotation skips a good key.
NoQuotaErrorWhileAKeyIsGood ==
  ever # Keys => \A c \in Calls : pc[c] # "quota"

\* The wrapper leaves a key only after that key has been over quota.
LeavesOnlySpentKeys == [][index' # index => index \in ever]_vars

-----------------------------------------------------------------------------
(* The inductive invariant behind NoQuotaErrorWhileAKeyIsGood: up to the   *)
(* first key g that was never over quota the index only climbs, and a call *)
(* has made at most as many attempts as the index it read.                 *)

ModelIsActive ==
  /\ model \in {NoKey, index}
  /\ \A c \in Calls : pc[c] \in {"invoking", "rotating"} => got[c] = using[c]

Spent == \A c \in Calls : pc[c] = "rotating" => using[c] \in ever

Climb ==
  \A g \in Keys \ ever :
    /\ index <= g
    /\ \A c \in Calls :
         /\ pc[c] = "next" => attempts[c] <= index
         /\ pc[c] = "invoking" => using[c] <= index /\ attempts[c] <= using[c]
         /\ pc[c] = "rotating" => using[c] <= index /\ attempts[c] <= using[c] + 1
         /\ pc[c] # "quota"

AttemptsLeft == \A c \in Calls : pc[c] \in {"next", "invoking", "rotating"} => attempts[c] < N

IInv == TypeOK /\ ModelIsActive /\ Spent /\ Climb /\ AttemptsLeft
=============================================================================
