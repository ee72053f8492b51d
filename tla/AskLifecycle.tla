---------------------------- MODULE AskLifecycle ----------------------------
(***************************************************************************)
(* POST /api/ask from arrival to response, with everything that races with *)
(* it: the worker thread that runs AskOrchestrator.ask, the wait_for       *)
(* timer, the cancel route, other submissions, and a crash of the process. *)
(*                                                                         *)
(* The handler is a coroutine, so it runs without interruption from one    *)
(* await to the next: an action below is one such stretch.  pc[a] names    *)
(* the await at which the handler of ask a is suspended.  Firestore calls  *)
(* (quota store, ask ledger) are one atomic effect whose reply may be lost.*)
(***************************************************************************)
EXTENDS Naturals, FiniteSets

CONSTANTS
  Asks,        \* the POST /api/ask submissions of a behaviour
  RequestIds,  \* request ids a browser may send
  Nonces,      \* demo tokens; a token is known by its nonce
  Sessions,    \* session ids a browser may send
  Payload,     \* Payload[a]: what submission a carries
  Public,      \* public_demo_enabled
  Capacity,    \* public_ask_capacity: permits of the ask semaphore
  QuotaLimit,  \* reservations the quota store grants within its windows
  NoId, NoSession, NoAsk, NoOwner

Submission == [rid: RequestIds \cup {NoId}, nonce: Nonces,
               session: Sessions \cup {NoSession}]

ASSUME PayloadAssumption == Payload \in [Asks -> Submission]
ASSUME AsksAssumption == IsFiniteSet(Asks) /\ NoAsk \notin Asks
ASSUME IdsAssumption == /\ NoId \notin RequestIds \cup Asks
                        /\ RequestIds \cap Asks = {}
ASSUME OwnersAssumption == NoOwner \notin Nonces /\ NoSession \notin Sessions
ASSUME LimitsAssumption == /\ Public \in BOOLEAN
                           /\ Capacity \in Nat \ {0}
                           /\ QuotaLimit \in Nat

VARIABLES
  pc,         \* where each handler is suspended
  reply,      \* the response a handler has decided on
  audit,      \* demo_asks ledger: status of the ask's record        (durable)
  reserved,   \* demo_quota_reservations: which ask created the document (d.)
  used,       \* demo_quota_global count                             (durable)
  stored,     \* asks with a row in the answers table                (durable)
  free,       \* permits left in the semaphore
  registry,   \* ActiveAskRegistry._gates
  owner,      \* runtime["session_owners"]
  claimed,    \* asks whose handler holds owner_claimed = True
  cancelled,  \* PersistenceGate._cancelled and _cancel_reason
  committed,  \* asks whose PersistenceGate has _committed = True
  worker,     \* the task that runs orchestrator.ask in a thread
  result,     \* how that task ended
  expired     \* tokens whose expires_at has passed

durable  == <<audit, reserved, used, stored>>
volatile == <<free, registry, owner, claimed>>
gate     == <<cancelled, committed>>
task     == <<worker, result>>
vars == <<pc, reply, durable, volatile, gate, task, expired>>

-----------------------------------------------------------------------------
Rejections == {"rejected_validation", "rejected_replay", "rejected_busy",
               "rejected_session_owner", "rejected_in_progress",
               "rejected_quota", "failed_infrastructure"}
Outcomes   == {"completed", "cancelled", "timed_out", "failed"}
Terminal   == Rejections \cup Outcomes
Replies    == Terminal \cup {"none", "unauthorized", "audit_unavailable"}
Results    == {"answered", "aborted", "raised"}
PcValues   == {"new", "received", "waiting", "registered", "accepting", "running",
               "cancelling", "awaiting", "closing", "done", "lost"}

nonce(a)   == Payload[a].nonce
session(a) == Payload[a].session

\* payload.request_id or secrets.token_urlsafe(18): an ask stands for its own
\* server-drawn id, which no other submission has.  Local asks may have none.
Keys   == RequestIds \cup Asks
key(a) == IF Payload[a].rid = NoId /\ Public THEN a ELSE Payload[a].rid

\* f"{claims.nonce}:{request_id}"
Reservations   == Nonces \X Keys
reservation(a) == <<nonce(a), key(a)>>

Registered(a) == key(a) # NoId

\* The owners left once _claim_public_owner has dropped expired entries.
LiveOwner == [s \in Sessions |-> IF owner[s] \in expired THEN NoOwner ELSE owner[s]]

MayUse(a) == session(a) # NoSession => LiveOwner[session(a)] \in {NoOwner, nonce(a)}

\* Suspended handlers and live tasks, which hold the slot and the registry entry.
TaskLive(a) == worker[a] \in {"queued", "answering", "returned"}
InFlight(a) == pc[a] \in {"registered", "accepting"} \/ TaskLive(a)

\* active_asks.complete: removes the entry only if it is this ask's gate.
Complete(a) == registry' = [k \in Keys |-> IF registry[k] = a THEN NoAsk ELSE registry[k]]

\* Mutant: a rejection after Register forgets to release the semaphore.
BackOutLeaksSlot(a) ==
  /\ Complete(a)
  /\ UNCHANGED free
  /\ owner' = [s \in Sessions |->
                 IF a \in claimed /\ s = session(a) /\ owner[s] = nonce(a)
                 THEN NoOwner ELSE owner[s]]
  /\ claimed' = claimed \ {a}

\* Every rejection after Register: complete, semaphore.release,
\* _release_public_owner_claim.
BackOut(a) ==
  /\ Complete(a)
  /\ free' = free + 1
  /\ owner' = [s \in Sessions |->
                 IF a \in claimed /\ s = session(a) /\ owner[s] = nonce(a)
                 THEN NoOwner ELSE owner[s]]
  /\ claimed' = claimed \ {a}

Suspend(a, where) == pc' = [pc EXCEPT ![a] = where]

\* The handler has decided; the ledger update that precedes the response is next.
Decide(a, status) == /\ Suspend(a, "closing")
                     /\ reply' = [reply EXCEPT ![a] = status]

Respond(a, status) == /\ Suspend(a, "done")
                      /\ reply' = [reply EXCEPT ![a] = status]

-----------------------------------------------------------------------------
Init ==
  /\ pc = [a \in Asks |-> "new"]
  /\ reply = [a \in Asks |-> "none"]
  /\ audit = [a \in Asks |-> "absent"]
  /\ reserved = [i \in Reservations |-> NoAsk]
  /\ used = 0
  /\ stored = {}
  /\ free = Capacity
  /\ registry = [k \in Keys |-> NoAsk]
  /\ owner = [s \in Sessions |-> NoOwner]
  /\ claimed = {}
  /\ cancelled = [a \in Asks |-> "no"]
  /\ committed = {}
  /\ worker = [a \in Asks |-> "none"]
  /\ result = [a \in Asks |-> "none"]
  /\ expired = {}

-----------------------------------------------------------------------------
(* Admission of a public ask. *)

\* _authorize refuses an expired token before anything is recorded.
Unauthorized(a) ==
  /\ Public /\ pc[a] = "new" /\ nonce(a) \in expired
  /\ Respond(a, "unauthorized")
  /\ UNCHANGED <<durable, volatile, gate, task, expired>>

\* _start_ask_audit: no initial record, no ask.  A write that reports an error
\* may have been applied.
Receive(a) ==
  /\ Public /\ pc[a] = "new" /\ nonce(a) \notin expired
  /\ \/ /\ Suspend(a, "received")
        /\ audit' = [audit EXCEPT ![a] = "received"]
        /\ UNCHANGED reply
     \/ /\ Respond(a, "audit_unavailable")
        /\ \/ audit' = [audit EXCEPT ![a] = "received"]
           \/ UNCHANGED audit
  /\ UNCHANGED <<reserved, used, stored, volatile, gate, task, expired>>

\* Settings or query length refused.
Invalid(a) ==
  /\ pc[a] = "received"
  /\ Decide(a, "rejected_validation")
  /\ UNCHANGED <<durable, volatile, gate, task, expired>>

\* quota_store.lookup, before any capacity is taken.
Lookup(a) ==
  /\ pc[a] = "received"
  /\ \/ Decide(a, "failed_infrastructure")
     \/ reserved[reservation(a)] # NoAsk /\ Decide(a, "rejected_replay")
     \/ reserved[reservation(a)] = NoAsk /\ Suspend(a, "waiting") /\ UNCHANGED reply
  /\ UNCHANGED <<durable, volatile, gate, task, expired>>

\* wait_for(semaphore.acquire(), public_capacity_wait_seconds) gives up.
Busy(a) ==
  /\ pc[a] = "waiting"
  /\ Decide(a, "rejected_busy")
  /\ UNCHANGED <<durable, volatile, gate, task, expired>>

\* The permit is taken, and given back at once: the session is another token's.
RejectSessionOwner(a) ==
  /\ pc[a] = "waiting" /\ free > 0
  /\ ~ MayUse(a)
  /\ Decide(a, "rejected_session_owner")
  /\ owner' = LiveOwner
  /\ UNCHANGED <<durable, free, registry, claimed, gate, task, expired>>

\* active_asks.register refuses a request id that is already active; the permit
\* and a claim made a moment before are given back.
RejectInProgress(a) ==
  /\ pc[a] = "waiting" /\ free > 0
  /\ MayUse(a) /\ registry[key(a)] # NoAsk
  /\ Decide(a, "rejected_in_progress")
  /\ owner' = IF session(a) = NoSession THEN owner ELSE LiveOwner
  /\ UNCHANGED <<durable, free, registry, claimed, gate, task, expired>>

\* Acquire, claim the session, register the gate: no await in between.
Register(a) ==
  /\ pc[a] = "waiting" /\ free > 0
  /\ MayUse(a) /\ registry[key(a)] = NoAsk
  /\ Suspend(a, "registered")
  /\ free' = free - 1
  /\ registry' = [registry EXCEPT ![key(a)] = a]
  /\ IF session(a) = NoSession
       THEN UNCHANGED <<owner, claimed>>
       ELSE /\ owner' = [LiveOwner EXCEPT ![session(a)] = nonce(a)]
            /\ claimed' = IF LiveOwner[session(a)] = NoOwner
                          THEN claimed \cup {a} ELSE claimed
  /\ UNCHANGED <<reply, durable, gate, task, expired>>

\* Mutant: an existing reservation is taken for a new one.
GrantTwice(a) ==
  IF reserved[reservation(a)] # NoAsk THEN UNCHANGED <<reserved, used>>
  ELSE /\ used < QuotaLimit
       /\ reserved' = [reserved EXCEPT ![reservation(a)] = a]
       /\ used' = used + 1

\* Mutant: the limit is off by one.
GrantBeyondLimit(a) ==
  /\ reserved[reservation(a)] = NoAsk /\ used <= QuotaLimit
  /\ reserved' = [reserved EXCEPT ![reservation(a)] = a]
  /\ used' = used + 1

\* The reservation document and the counters change in one transaction.
GrantReservation(a) ==
  /\ reserved[reservation(a)] = NoAsk /\ used < QuotaLimit
  /\ reserved' = [reserved EXCEPT ![reservation(a)] = a]
  /\ used' = used + 1

Reserve(a) ==
  /\ pc[a] = "registered"
  /\ GrantReservation(a)
  /\ Suspend(a, "accepting")
  /\ UNCHANGED <<reply, audit, stored, volatile, gate, task, expired>>

\* A refused reservation, or a store that fails before or after applying it.
ReserveFails(a) ==
  /\ pc[a] = "registered"
  /\ \/ /\ reserved[reservation(a)] # NoAsk
        /\ Decide(a, "rejected_replay")
        /\ UNCHANGED <<reserved, used>>
     \/ /\ reserved[reservation(a)] = NoAsk /\ used >= QuotaLimit
        /\ Decide(a, "rejected_quota")
        /\ UNCHANGED <<reserved, used>>
     \/ /\ Decide(a, "failed_infrastructure")
        /\ GrantReservation(a) \/ UNCHANGED <<reserved, used>>
  /\ BackOut(a)
  /\ UNCHANGED <<audit, stored, gate, task, expired>>

\* The ledger says "accepted" before the task exists.
Accept(a) ==
  /\ pc[a] = "accepting"
  /\ audit' = [audit EXCEPT ![a] = "accepted"]
  /\ Suspend(a, "running")
  /\ worker' = [worker EXCEPT ![a] = "queued"]
  /\ UNCHANGED <<reply, reserved, used, stored, volatile, gate, result, expired>>

\* The "accepted" update fails: the ask is dropped, its quota stays consumed.
AcceptFails(a) ==
  /\ pc[a] = "accepting"
  /\ \/ audit' = [audit EXCEPT ![a] = "accepted"]
     \/ UNCHANGED audit
  /\ Respond(a, "audit_unavailable")
  /\ BackOut(a)
  /\ UNCHANGED <<reserved, used, stored, gate, task, expired>>

(* Admission of a local ask: no token, ledger, quota or semaphore. *)
LocalReject(a) ==
  /\ ~ Public /\ pc[a] = "new"
  /\ Registered(a) /\ registry[key(a)] # NoAsk
  /\ Respond(a, "rejected_in_progress")
  /\ UNCHANGED <<durable, volatile, gate, task, expired>>

LocalInvalid(a) ==
  /\ ~ Public /\ pc[a] = "new"
  /\ Respond(a, "rejected_validation")
  /\ UNCHANGED <<durable, volatile, gate, task, expired>>

\* Mutant: an active request id is registered again.
LocalAdmitUnchecked(a) ==
  /\ ~ Public /\ pc[a] = "new"
  /\ registry' = IF Registered(a) THEN [registry EXCEPT ![key(a)] = a] ELSE registry
  /\ Suspend(a, "running")
  /\ worker' = [worker EXCEPT ![a] = "queued"]
  /\ UNCHANGED <<reply, durable, free, owner, claimed, gate, result, expired>>

LocalAdmit(a) ==
  /\ ~ Public /\ pc[a] = "new"
  /\ Registered(a) => registry[key(a)] = NoAsk
  /\ registry' = IF Registered(a) THEN [registry EXCEPT ![key(a)] = a] ELSE registry
  /\ Suspend(a, "running")
  /\ worker' = [worker EXCEPT ![a] = "queued"]
  /\ UNCHANGED <<reply, durable, free, owner, claimed, gate, result, expired>>

-----------------------------------------------------------------------------
(* The worker thread: AskOrchestrator._ask_with_session. *)

\* Context, models, retrieval, packet: the gate records the evidence packet.
BuildEvidence(a) ==
  /\ worker[a] = "queued"
  /\ worker' = [worker EXCEPT ![a] = "answering"]
  /\ UNCHANGED <<pc, reply, durable, volatile, gate, result, expired>>

Return(a, how) == /\ worker' = [worker EXCEPT ![a] = "returned"]
                  /\ result' = [result EXCEPT ![a] = how]

\* store_answer with commit_guard = gate.commit: under the gate's lock either
\* the row and _committed appear together, or AskCancelled rolls the row back.
Commit(a) ==
  /\ worker[a] = "answering"
  /\ IF cancelled[a] # "no"
       THEN Return(a, "aborted") /\ UNCHANGED <<stored, committed>>
       ELSE /\ Return(a, "answered")
            /\ stored' = stored \cup {a}
            /\ committed' = committed \cup {a}
  /\ UNCHANGED <<pc, reply, audit, reserved, used, volatile, cancelled, expired>>

\* No session slot, a provider, evidence or storage error.
Raise(a) ==
  /\ worker[a] \in {"queued", "answering"}
  /\ Return(a, "raised")
  /\ UNCHANGED <<pc, reply, durable, volatile, gate, expired>>

\* Mutant: the slot is not released when the task ends.
TaskDoneKeepsSlot(a) ==
  /\ worker[a] = "returned"
  /\ worker' = [worker EXCEPT ![a] = "settled"]
  /\ Complete(a)
  /\ UNCHANGED <<pc, reply, durable, free, owner, claimed, gate, result, expired>>

\* The done callbacks, in registration order, before the handler can resume.
TaskDone(a) ==
  /\ worker[a] = "returned"
  /\ worker' = [worker EXCEPT ![a] = "settled"]
  /\ free' = IF Public THEN free + 1 ELSE free
  /\ Complete(a)
  /\ UNCHANGED <<pc, reply, durable, owner, claimed, gate, result, expired>>

-----------------------------------------------------------------------------
(* The handler waits for the task. *)

\* wait_for(shield(task), ask_timeout_seconds) gives up; the task goes on.
Timeout(a) ==
  /\ pc[a] = "running"
  /\ Suspend(a, "cancelling")
  /\ UNCHANGED <<reply, durable, volatile, gate, task, expired>>

\* Mutant: the handler waits for the task it has just cancelled.
CancelOnTimeoutWaits(a) ==
  /\ pc[a] = "cancelling"
  /\ Suspend(a, "awaiting")
  /\ cancelled' = [cancelled EXCEPT ![a] = IF a \in committed THEN @ ELSE "timeout"]
  /\ UNCHANGED <<reply, durable, volatile, committed, task, expired>>

\* await to_thread(gate.cancel, "timeout")
CancelOnTimeout(a) ==
  /\ pc[a] = "cancelling"
  /\ IF a \in committed
       THEN Suspend(a, "awaiting") /\ UNCHANGED <<reply, cancelled>>
       ELSE /\ cancelled' = [cancelled EXCEPT ![a] = "timeout"]
            /\ Decide(a, "timed_out")
  /\ UNCHANGED <<durable, volatile, committed, task, expired>>

\* The status the handler derives from how the task ended.
StatusOf(a) ==
  CASE result[a] = "answered" -> "completed"
    [] result[a] = "aborted"  -> IF cancelled[a] = "cancelled" THEN "cancelled" ELSE "timed_out"
    [] OTHER                  -> "failed"

Resume(a) ==
  /\ pc[a] \in {"running", "awaiting"} /\ worker[a] = "settled"
  /\ Decide(a, StatusOf(a))
  /\ UNCHANGED <<durable, volatile, gate, task, expired>>

\* The last ledger update; when it reports an error the response says so
\* instead.  A local ask has no ledger.
Close(a) ==
  /\ pc[a] = "closing"
  /\ \/ Respond(a, reply[a])
     \/ Public /\ Respond(a, "audit_unavailable")
  /\ \/ Public /\ audit' = [audit EXCEPT ![a] = reply[a]]
     \/ (Public => reply'[a] = "audit_unavailable") /\ UNCHANGED audit
  /\ UNCHANGED <<reserved, used, stored, volatile, gate, task, expired>>

\* Mutant: a cancel that comes after the commit is acknowledged all the same.
CancelAskLate(k, n) ==
  /\ registry[k] # NoAsk
  /\ LET a == registry[k] IN
       /\ Public => nonce(a) = n /\ n \notin expired
       /\ cancelled' = [cancelled EXCEPT ![a] = "cancelled"]
  /\ UNCHANGED <<pc, reply, durable, volatile, committed, task, expired>>

\* Mutant: the cancel route writes the ledger's verdict itself.
CancelAskRecords(k, n) ==
  /\ registry[k] # NoAsk
  /\ LET a == registry[k] IN
       /\ Public => nonce(a) = n /\ n \notin expired
       /\ a \notin committed
       /\ cancelled' = [cancelled EXCEPT ![a] = "cancelled"]
       /\ audit' = [audit EXCEPT ![a] = "cancelled"]
  /\ UNCHANGED <<pc, reply, reserved, used, stored, volatile, committed, task, expired>>

\* POST /api/asks/{request_id}/cancel by the holder of token n.
CancelAsk(k, n) ==
  /\ registry[k] # NoAsk
  /\ LET a == registry[k] IN
       /\ Public => nonce(a) = n /\ n \notin expired
       /\ a \notin committed
       /\ cancelled' = [cancelled EXCEPT ![a] = "cancelled"]
  /\ UNCHANGED <<pc, reply, durable, volatile, committed, task, expired>>

-----------------------------------------------------------------------------
(* The environment. *)

\* A token's expires_at passes.
ExpireToken(n) ==
  /\ Public /\ n \notin expired
  /\ expired' = expired \cup {n}
  /\ UNCHANGED <<pc, reply, durable, volatile, gate, task>>

\* The process dies: handlers, tasks, gates, slots, registry and owners are gone.
Crash ==
  /\ \E a \in Asks : pc[a] \notin {"new", "done", "lost"} \/ TaskLive(a)
  /\ pc' = [a \in Asks |-> IF pc[a] \in {"new", "done"} THEN pc[a] ELSE "lost"]
  /\ worker' = [a \in Asks |-> IF TaskLive(a) THEN "gone" ELSE worker[a]]
  /\ free' = Capacity
  /\ registry' = [k \in Keys |-> NoAsk]
  /\ owner' = [s \in Sessions |-> NoOwner]
  /\ claimed' = {}
  /\ UNCHANGED <<reply, durable, gate, result, expired>>

\* Every submission has been dealt with.
Quiescent == \A a \in Asks : pc[a] \in {"done", "lost"} /\ ~ TaskLive(a)

-----------------------------------------------------------------------------
\* A client sends a, or never does.
Arrival(a) ==
  Unauthorized(a) \/ Receive(a) \/ LocalReject(a) \/ LocalInvalid(a) \/ LocalAdmit(a)

Admission(a) ==
  \/ Invalid(a) \/ Lookup(a) \/ Busy(a)
  \/ RejectSessionOwner(a) \/ RejectInProgress(a) \/ Register(a)
  \/ Reserve(a) \/ ReserveFails(a) \/ Accept(a) \/ AcceptFails(a)

Supervision(a) == Timeout(a) \/ CancelOnTimeout(a) \/ Resume(a) \/ Close(a)

Work(a) == BuildEvidence(a) \/ Commit(a) \/ Raise(a)

Next ==
  \/ \E a \in Asks : Arrival(a) \/ Admission(a) \/ Supervision(a) \/ Work(a) \/ TaskDone(a)
  \/ \E k \in Keys, n \in Nonces : CancelAsk(k, n)
  \/ \E n \in Nonces : ExpireToken(n)
  \/ Crash
  \/ Quiescent /\ UNCHANGED vars

Spec == Init /\ [][Next]_vars

\* The event loop runs what is ready and timers fire; nothing is assumed of the
\* worker thread, which may hang in a provider call for ever.
LoopFairness == \A a \in Asks : /\ WF_vars(Admission(a))
                               /\ WF_vars(Supervision(a))
                               /\ WF_vars(TaskDone(a))
FairSpec == Spec /\ LoopFairness

-----------------------------------------------------------------------------
TypeOK ==
  /\ pc \in [Asks -> PcValues]
  /\ reply \in [Asks -> Replies]
  /\ audit \in [Asks -> Terminal \cup {"absent", "received", "accepted"}]
  /\ reserved \in [Reservations -> Asks \cup {NoAsk}]
  /\ used \in Nat
  /\ stored \subseteq Asks
  /\ free \in Nat
  /\ registry \in [Keys -> Asks \cup {NoAsk}]
  /\ owner \in [Sessions -> Nonces \cup {NoOwner}]
  /\ claimed \subseteq Asks
  /\ cancelled \in [Asks -> {"no", "cancelled", "timeout"}]
  /\ committed \subseteq Asks
  /\ worker \in [Asks -> {"none", "queued", "answering", "returned", "settled", "gone"}]
  /\ result \in [Asks -> Results \cup {"none"}]
  /\ expired \subseteq Nonces

\* The semaphore neither loses nor invents a permit on any of the seven paths
\* that give one back (api.py:802-957): the permits out are exactly the asks
\* that are registered or have a live task, a timed-out one included.
Holders == {a \in Asks : InFlight(a)}
SlotConservation == Public => free + Cardinality(Holders) = Capacity

\* ActiveAskRegistry lists exactly the asks in flight: an entry outlives its
\* 504 while the worker runs, and none survives its task.
RegistryExact ==
  /\ \A k \in Keys : registry[k] # NoAsk => InFlight(registry[k]) /\ key(registry[k]) = k
  /\ \A a \in Asks : InFlight(a) /\ Registered(a) => registry[key(a)] = a

\* Provider work starts at most once per (token, request id), across replays,
\* concurrent duplicates, lost replies and restarts.
Launched(a) == worker[a] # "none"
AtMostOneLaunch ==
  Public => \A a, b \in Asks :
    Launched(a) /\ Launched(b) /\ reservation(a) = reservation(b) => a = b

\* The counter and the reservation documents agree and respect the limit, and an
\* ask that never got a slot has consumed nothing.
Granted == {i \in Reservations : reserved[i] # NoAsk}
Unspent == {"rejected_busy", "rejected_validation", "rejected_session_owner",
            "rejected_in_progress", "rejected_quota"}
QuotaExact ==
  /\ used = Cardinality(Granted) /\ used <= QuotaLimit
  /\ \A i \in Granted : reservation(reserved[i]) = i /\ reply[reserved[i]] \notin Unspent

\* What the client is told agrees with the database: a completed ask has its
\* answer stored; a cancelled, timed-out, failed or rejected one has none; and a
\* stored answer is withheld only when the ledger fails.
ResponseMatchesStore ==
  \A a \in Asks :
    /\ reply[a] = "completed" => a \in stored
    /\ reply[a] \in Terminal \ {"completed"} => a \notin stored
    /\ audit[a] = "completed" => a \in stored
    /\ audit[a] \in Terminal \ {"completed"} => a \notin stored

\* Once cancel has been acknowledged, or the timer has won, no answer is ever
\* written, however long the worker goes on.
WithdrawnStaysWithdrawn ==
  [][\A a \in Asks : cancelled[a] # "no" => (a \in stored' => a \in stored)]_vars

\* A ledger record only moves forward and a terminal status is never rewritten.
AuditRank(s) == CASE s = "absent" -> 0 [] s = "received" -> 1 [] s = "accepted" -> 2
                  [] OTHER -> 3
AuditForward ==
  [][\A a \in Asks : audit'[a] # audit[a] => AuditRank(audit[a]) < AuditRank(audit'[a])]_vars

\* Every submission that reaches the server is answered even if its worker hangs.
EveryAskAnswered == \A a \in Asks : pc[a] # "new" ~> pc[a] \in {"done", "lost"}

\* A slot taken by an ask, timed out or not, is given back if worker threads end:
\* provider calls return or raise, having timeouts of their own.
WorkersEnd == \A a \in Asks : WF_vars(Work(a))
SlotsReturned == WorkersEnd => [](free < Capacity => <>(free = Capacity))

\* web-application.md:205-207: "Public session ownership applies to ask, progress,
\* cancellation, and liveness routes": while an ask of an unexpired token runs in a
\* session, that session is recorded as its token's.
RunningSessionOwned ==
  \A a \in Asks :
    /\ Public /\ pc[a] = "running" /\ session(a) # NoSession /\ nonce(a) \notin expired
    => owner[session(a)] = nonce(a)

-----------------------------------------------------------------------------
(* The inductive invariant behind the safety properties. *)

\* Where the handler is, given the task, and the other way round.
ControlInv == \A a \in Asks :
  /\ pc[a] \in {"new", "received", "waiting", "registered", "accepting"}
       => worker[a] = "none" /\ reply[a] = "none"
  /\ pc[a] \in {"running", "cancelling", "awaiting"}
       => worker[a] \in {"queued", "answering", "returned", "settled"} /\ reply[a] = "none"
  /\ pc[a] \in {"received", "waiting", "registered", "accepting"} => Public
  /\ pc[a] \in {"closing", "done"} /\ TaskLive(a) => cancelled[a] # "no"
  /\ pc[a] = "lost" => ~ TaskLive(a)
  /\ pc[a] = "closing" => reply[a] \in Terminal
  /\ pc[a] = "done" => reply[a] # "none"

\* How the task ended, what it stored, and whether its gate was cancelled.
TaskInv ==
  /\ committed = stored
  /\ \A a \in Asks :
       /\ worker[a] \in {"none", "queued", "answering"} => result[a] = "none"
       /\ worker[a] \in {"returned", "settled"} => result[a] # "none"
       /\ a \in stored <=> result[a] = "answered"
       /\ result[a] = "aborted" => cancelled[a] # "no"
       /\ cancelled[a] # "no" => a \notin stored

\* A status is decided only when the store can no longer contradict it.
Justified(a, status) ==
  /\ status \in Rejections => worker[a] = "none" /\ pc[a] \in {"closing", "done", "lost"}
  /\ status = "completed" => a \in stored
  /\ status = "timed_out" => cancelled[a] # "no"
  /\ status \in {"cancelled", "failed"} => worker[a] = "settled" /\ a \notin stored

StatusInv == \A a \in Asks : Justified(a, reply[a]) /\ Justified(a, audit[a])

LedgerInv == \A a \in Asks :
  /\ pc[a] = "new" => audit[a] = "absent"
  /\ pc[a] \in {"received", "waiting", "registered", "accepting"} => audit[a] = "received"
  /\ pc[a] \in {"running", "cancelling", "awaiting", "closing"} => audit[a] \notin Terminal

\* The reservation of a launched or about to be launched ask is its own.
ReservationInv ==
  /\ \A i \in Reservations : reserved[i] # NoAsk => reservation(reserved[i]) = i
  /\ Public => \A a \in Asks :
       Launched(a) \/ pc[a] = "accepting" => reserved[reservation(a)] = a

\* An ask appears in the quota store only after it asked for a reservation.
QuotaInv == /\ IsFiniteSet(Granted)
            /\ \A i \in Granted :
                 pc[reserved[i]] \notin {"new", "received", "waiting", "registered"}
            /\ QuotaExact

IInv == TypeOK /\ ControlInv /\ TaskInv /\ StatusInv /\ LedgerInv
          /\ ReservationInv /\ RegistryExact

-----------------------------------------------------------------------------
\* The verdict a client can rely on, read off the detailed state.
VerdictOf(a) ==
  IF cancelled[a] # "no"                             THEN "withdrawn"
  ELSE IF pc[a] = "lost"                             THEN "unreported"
  ELSE IF pc[a] # "done"                             THEN "open"
  ELSE IF a \notin stored                            THEN "refused"
  ELSE IF reply[a] = "completed"                     THEN "answered" ELSE "unreported"
Verdict == [a \in Asks |-> VerdictOf(a)]

Promise == INSTANCE AskPromise WITH verdict <- Verdict
ImplementsPromise == Promise!Spec

=============================================================================
