-------------------------- MODULE SessionRegistry --------------------------
(***************************************************************************)
(* SessionRegistry of app/service.py with the AnswerSession memory it      *)
(* hands out: an LRU of at most MaxSessions entries with inactivity expiry,*)
(* one request lock per entry, and the planner-only conversation memory    *)
(* that each ask reads on entry and extends on success.                    *)
(*                                                                         *)
(* An entry is a Python object; it is named by the ask that created it, so *)
(* that "current is entry" compares identities.  The registry's RLock makes*)
(* Acquire, Release and HasLiveSession atomic.                             *)
(***************************************************************************)
EXTENDS Integers, FiniteSets, Sequences

CONSTANTS
  Asks,         \* orchestrator.ask calls that name a session
  SessionIds,
  SessionOf,    \* SessionOf[a]: the session id ask a names
  MaxSessions,  \* max_sessions
  TTL,          \* ttl_seconds
  MaxTurns,     \* answer_session_message_limit \div 2
  MaxClock,     \* bound: the clock stops here
  NoEntry, NoAsk

ASSUME SessionOfAssumption == SessionOf \in [Asks -> SessionIds]
ASSUME RegistryAssumption == /\ MaxSessions \in Nat \ {0} /\ TTL \in Nat \ {0}
                             /\ MaxTurns \in Nat /\ MaxClock \in Nat /\ IsFiniteSet(Asks)
                             /\ NoEntry \notin Asks /\ NoAsk \notin Asks

VARIABLES
  clock,
  order,    \* keys of the OrderedDict, least recently used first
  entry,    \* _entries: session id -> entry object
  inUse,    \* entry.active
  lastUsed, \* entry.last_used
  memory,   \* entry.session._messages, as the asks whose turns it keeps
  lock,     \* holder of entry.request_lock
  pc,       \* "new", "waiting", "inside", "leaving", "done", "refused"
  held,     \* the entry an ask has checked out
  context   \* conversation_context the ask's planner was given

registry == <<order, entry, inUse, lastUsed>>
local    == <<pc, held, context>>
vars == <<clock, registry, memory, lock, local>>

Entries == Asks
Present == {s \in SessionIds : entry[s] # NoEntry}

-----------------------------------------------------------------------------
Init ==
  /\ clock = 0
  /\ order = << >>
  /\ entry = [s \in SessionIds |-> NoEntry]
  /\ inUse = [e \in Entries |-> 0]
  /\ lastUsed = [e \in Entries |-> 0]
  /\ memory = [e \in Entries |-> << >>]
  /\ lock = [e \in Entries |-> NoAsk]
  /\ pc = [a \in Asks |-> "new"]
  /\ held = [a \in Asks |-> NoEntry]
  /\ context = [a \in Asks |-> << >>]

\* Mutant: _purge_expired forgets the entries in use.
ExpiredEvenActive ==
  {s \in Present : clock - lastUsed[entry[s]] >= TTL}

\* _purge_expired: idle and unused for ttl_seconds.
Expired ==
  {s \in Present : inUse[entry[s]] = 0 /\ clock - lastUsed[entry[s]] >= TTL}

Without(S) == SelectSeq(order, LAMBDA s : s \notin S)

\* _make_room: the first entry in LRU order that is not in use.
Victim(kept) ==
  LET idle == {i \in DOMAIN kept : inUse[entry[kept[i]]] = 0}
  IN  {kept[i] : i \in {i \in idle : \A j \in idle : i <= j}}

\* Move a key to the end of what is left of the order.
Touch(s, kept) == Append(SelectSeq(kept, LAMBDA t : t # s), s)

\* _acquire_entry for a session that is present once expired ones are gone.
AcquirePresent(a) ==
  LET s == SessionOf[a] IN
  /\ pc[a] = "new"
  /\ s \in Present \ Expired
  /\ entry' = [t \in SessionIds |-> IF t \in Expired THEN NoEntry ELSE entry[t]]
  /\ order' = Touch(s, Without(Expired))
  /\ inUse' = [inUse EXCEPT ![entry[s]] = @ + 1]
  /\ lastUsed' = [lastUsed EXCEPT ![entry[s]] = clock]
  /\ held' = [held EXCEPT ![a] = entry[s]]
  /\ pc' = [pc EXCEPT ![a] = "waiting"]
  /\ UNCHANGED <<clock, memory, lock, context>>

\* _acquire_entry for an absent session: room is made, a fresh AnswerSession put in.
AcquireFresh(a) ==
  LET s == SessionOf[a]
      kept == Without(Expired)
      gone == IF Len(kept) < MaxSessions THEN Expired ELSE Expired \cup Victim(kept)
  IN
  /\ pc[a] = "new"
  /\ s \notin Present \ Expired
  /\ Len(kept) < MaxSessions \/ Victim(kept) # {}
  /\ entry' = [t \in SessionIds |->
                 IF t = s THEN a ELSE IF t \in gone THEN NoEntry ELSE entry[t]]
  /\ order' = Touch(s, Without(gone))
  /\ inUse' = [inUse EXCEPT ![a] = 1]
  /\ lastUsed' = [lastUsed EXCEPT ![a] = clock]
  /\ held' = [held EXCEPT ![a] = a]
  /\ pc' = [pc EXCEPT ![a] = "waiting"]
  /\ UNCHANGED <<clock, memory, lock, context>>

\* SessionCapacityError; the purge that came first stays done.
Refuse(a) ==
  LET kept == Without(Expired) IN
  /\ pc[a] = "new"
  /\ SessionOf[a] \notin Present \ Expired
  /\ Len(kept) >= MaxSessions /\ Victim(kept) = {}
  /\ entry' = [t \in SessionIds |-> IF t \in Expired THEN NoEntry ELSE entry[t]]
  /\ order' = kept
  /\ pc' = [pc EXCEPT ![a] = "refused"]
  /\ UNCHANGED <<clock, inUse, lastUsed, memory, lock, held, context>>

\* Mutant: the request lock is not taken.
EnterUnlocked(a) ==
  /\ pc[a] = "waiting"
  /\ lock' = [lock EXCEPT ![held[a]] = a]
  /\ context' = [context EXCEPT ![a] = memory[held[a]]]
  /\ pc' = [pc EXCEPT ![a] = "inside"]
  /\ UNCHANGED <<clock, registry, memory, held>>

\* with entry.request_lock; _ask_with_session reads the context first.
Enter(a) ==
  /\ pc[a] = "waiting"
  /\ lock[held[a]] = NoAsk
  /\ lock' = [lock EXCEPT ![held[a]] = a]
  /\ context' = [context EXCEPT ![a] = memory[held[a]]]
  /\ pc' = [pc EXCEPT ![a] = "inside"]
  /\ UNCHANGED <<clock, registry, memory, held>>

LastTurns(turns) ==
  IF Len(turns) <= MaxTurns THEN turns
  ELSE SubSeq(turns, Len(turns) - MaxTurns + 1, Len(turns))

\* record_complete_turn after a stored answer, then the lock is given back.
Complete(a) ==
  /\ pc[a] = "inside"
  /\ memory' = [memory EXCEPT ![held[a]] = LastTurns(Append(@, a))]
  /\ lock' = [lock EXCEPT ![held[a]] = NoAsk]
  /\ pc' = [pc EXCEPT ![a] = "leaving"]
  /\ UNCHANGED <<clock, registry, held, context>>

\* Mutant: an ask that fails keeps the request lock.
FailKeepsLock(a) ==
  /\ pc[a] = "inside"
  /\ pc' = [pc EXCEPT ![a] = "leaving"]
  /\ UNCHANGED <<clock, registry, memory, lock, held, context>>

\* Any error or cancellation: no turn is recorded.
Fail(a) ==
  /\ pc[a] = "inside"
  /\ lock' = [lock EXCEPT ![held[a]] = NoAsk]
  /\ pc' = [pc EXCEPT ![a] = "leaving"]
  /\ UNCHANGED <<clock, registry, memory, held, context>>

\* Mutant: a release moves the entry but does not count it down.
ReleaseUncounted(a) ==
  LET s == SessionOf[a] IN
  /\ pc[a] = "leaving"
  /\ lastUsed' = [lastUsed EXCEPT ![held[a]] = clock]
  /\ order' = Touch(s, order)
  /\ pc' = [pc EXCEPT ![a] = "done"]
  /\ UNCHANGED <<clock, entry, inUse, memory, lock, held, context>>

\* The finally clause of checkout.
Release(a) ==
  LET e == held[a]  s == SessionOf[a] IN
  /\ pc[a] = "leaving"
  /\ IF entry[s] = e
       THEN /\ inUse' = [inUse EXCEPT ![e] = @ - 1]
            /\ lastUsed' = [lastUsed EXCEPT ![e] = clock]
            /\ order' = Touch(s, order)
       ELSE UNCHANGED <<inUse, lastUsed, order>>
  /\ pc' = [pc EXCEPT ![a] = "done"]
  /\ UNCHANGED <<clock, entry, memory, lock, held, context>>

\* has_live_session purges but does not extend anything.
HasLiveSession ==
  /\ Expired # {}
  /\ entry' = [t \in SessionIds |-> IF t \in Expired THEN NoEntry ELSE entry[t]]
  /\ order' = Without(Expired)
  /\ UNCHANGED <<clock, inUse, lastUsed, memory, lock, local>>

Tick ==
  /\ clock < MaxClock
  /\ clock' = clock + 1
  /\ UNCHANGED <<registry, memory, lock, local>>

Quiescent == /\ \A a \in Asks : pc[a] \in {"done", "refused"}
             /\ UNCHANGED vars

Start(a) == AcquirePresent(a) \/ AcquireFresh(a) \/ Refuse(a)
Run(a)   == Enter(a) \/ Complete(a) \/ Fail(a) \/ Release(a)

Next == (\E a \in Asks : Start(a) \/ Run(a)) \/ HasLiveSession \/ Tick \/ Quiescent

Spec == Init /\ [][Next]_vars

\* Worker threads are scheduled and every ask inside ends.
FairSpec == Spec /\ \A a \in Asks : WF_vars(Run(a))

-----------------------------------------------------------------------------
Checked(a) == pc[a] \in {"waiting", "inside", "leaving"}

TypeOK ==
  /\ entry \in [SessionIds -> Entries \cup {NoEntry}]
  /\ inUse \in [Entries -> Int]
  /\ memory \in [Entries -> Seq(Asks)]
  /\ lock \in [Entries -> Asks \cup {NoAsk}]
  /\ pc \in [Asks -> {"new", "waiting", "inside", "leaving", "done", "refused"}]
  /\ held \in [Asks -> Entries \cup {NoEntry}]
  /\ context \in [Asks -> Seq(Asks)]

\* entry.active (inUse) counts the asks that have the entry checked out.
Users(e) == {a \in Asks : Checked(a) /\ held[a] = e}
ActiveIsExact ==
  /\ \A a \in Asks : Checked(a) => held[a] \in Entries
  /\ \A e \in Entries : inUse[e] = Cardinality(Users(e))

\* Before an ask has made its entry, nobody knows it.
NewEntriesAreFresh ==
  \A a \in Asks : pc[a] = "new" => /\ \A b \in Asks : held[b] # a
                                   /\ \A s \in SessionIds : entry[s] # a

\* The request lock is held by the ask inside.
InsideHoldsLock == \A a \in Asks : pc[a] = "inside" => lock[held[a]] = a

\* Neither expiry nor eviction ever takes an entry from under an ask that has
\* checked it out, so release finds the very object it acquired.
CheckedOutStays ==
  \A a \in Asks : Checked(a) => entry[SessionOf[a]] = held[a]

\* The planner's context is still the session's whole memory when the turn is
\* recorded: no turn of another ask is lost or skipped.
ContextIsCurrent ==
  \A a \in Asks : pc[a] = "inside" => context[a] = memory[held[a]]

\* The inductive invariant.
IInv == TypeOK /\ ActiveIsExact /\ NewEntriesAreFresh /\ InsideHoldsLock /\ CheckedOutStays /\ ContextIsCurrent

\* Every ask that got an entry leaves it, and the count of the entry returns to zero: it can expire and
\* make room again.
EveryAskLeaves == \A a \in Asks : Checked(a) ~> pc[a] = "done" /\ inUse[held[a]] = 0
=============================================================================
