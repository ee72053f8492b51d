---------------------------- MODULE QuotaWindows ----------------------------
(* The quota of the public demo (app/public_demo.py): a rolling minute and a *)
(* UTC day of each client, a day of everyone, and a reservation for each     *)
(* request, in one transaction.  A caller reads the clock before it, so      *)
(* transactions commit in another order than their clocks, and one that is   *)
(* aborted runs again with the clock it had.                                 *)
EXTENDS Integers, Sequences, Functions, FiniteSets

CONSTANTS
  ClientOf,     \* reservation id -> client hash
  MinuteLimit, ClientLimit, GlobalLimit,
  Minute, Day,  \* their lengths
  Slots,        \* public_ask_capacity: asks that may be in reserve at once
  NotReserved, NoCall,
  MaxTime       \* bound

ReservationIds == DOMAIN ClientOf
Clients == {ClientOf[q] : q \in ReservationIds}
Days == {t \div Day : t \in 0 .. MaxTime}

ASSUME QuotaAssumption == /\ {MinuteLimit, ClientLimit, GlobalLimit, Minute, Day, Slots} \subseteq Nat \ {0}
                          /\ MaxTime \in Nat /\ NoCall \notin Nat
                          /\ NotReserved \notin [{"minute", "client", "global"} -> Int]

VARIABLES
  time,         \* the clock every caller reads
  timestamps,   \* demo_quota_minutes: of each client, an entry for every timestamp in its list
  clientCount,  \* demo_quota_clients, by day
  globalCount,  \* demo_quota_global, by day
  reservations, \* demo_quota_reservations: what remained
  inFlight,        \* reservation id -> now of its call
  granted       \* ghost: what was created, in the order of the commits
quotaVars == <<time, timestamps, clientCount, globalCount, reservations, inFlight, granted>>

QuotaInit ==
  /\ time = 0
  /\ timestamps = [c \in Clients |-> {}]
  /\ clientCount = [c \in Clients |-> [d \in Days |-> 0]]
  /\ globalCount = [d \in Days |-> 0]
  /\ reservations = [q \in ReservationIds |-> NotReserved]
  /\ inFlight = [q \in ReservationIds |-> NoCall]
  /\ granted = <<>>

Passes == /\ time < MaxTime /\ time' = time + 1
          /\ UNCHANGED <<timestamps, clientCount, globalCount, reservations, inFlight, granted>>

\* An ask that was not replayed at its lookup takes the clock along.
TakesClock(q) ==
  /\ inFlight[q] = NoCall
  /\ Cardinality({r \in ReservationIds : inFlight[r] # NoCall}) < Slots
  /\ inFlight' = [inFlight EXCEPT ![q] = time]
  /\ UNCHANGED <<time, timestamps, clientCount, globalCount, reservations, granted>>

\* Mutant: a minute of the clock instead of the last sixty seconds.
RecentOfTheMinute(c, now) == {e \in timestamps[c] : e.at \div Minute = now \div Minute}
Recent(c, now) == {e \in timestamps[c] : e.at + Minute > now}

Remaining(c, now) == [minute |-> MinuteLimit - Cardinality(Recent(c, now)),
                      client |-> ClientLimit - clientCount[c][now \div Day],
                      global |-> GlobalLimit - globalCount[now \div Day]]
Left(remaining) == \A limit \in DOMAIN remaining : remaining[limit] > 0

\* The transaction is over, committed or not, and its reply perhaps lost.
Returns(q) == inFlight' = [inFlight EXCEPT ![q] = NoCall] /\ UNCHANGED time

ReserveNew(q) ==
  LET c == ClientOf[q]
      now == inFlight[q]
  IN  /\ now # NoCall /\ reservations[q] = NotReserved /\ Left(Remaining(c, now))
      /\ timestamps' = [timestamps EXCEPT ![c] = Recent(c, now) \cup {[id |-> q, at |-> now]}]
      /\ clientCount' = [clientCount EXCEPT ![c][now \div Day] = @ + 1]
      /\ globalCount' = [globalCount EXCEPT ![now \div Day] = @ + 1]
      /\ reservations' = [reservations EXCEPT ![q] =
           [limit \in DOMAIN Remaining(c, now) |-> Remaining(c, now)[limit] - 1]]
      /\ granted' = Append(granted, [id |-> q, client |-> c, at |-> now])
      /\ Returns(q)

\* Refused, reserved before, or failed: nothing is written.
ReserveNothing(q) ==
  /\ inFlight[q] # NoCall
  /\ Returns(q)
  /\ UNCHANGED <<timestamps, clientCount, globalCount, reservations, granted>>

QuotaNext == Passes \/ \E q \in ReservationIds : TakesClock(q) \/ ReserveNew(q) \/ ReserveNothing(q)

QuotaSpec == QuotaInit /\ [][QuotaNext]_quotaVars

-----------------------------------------------------------------------------
\* No request counts twice, no day has more than its limits, and in the minute
\* before each reservation its client had no more than the limit, unless one with
\* a later clock committed before it and forgot what this one should have counted.
QuotaWindowsHold ==
  /\ IsInjective([k \in DOMAIN granted |-> granted[k].id])
  /\ \A d \in Days :
       LET today == {k \in DOMAIN granted : granted[k].at \div Day = d}
       IN  /\ Cardinality(today) <= GlobalLimit
           /\ \A c \in Clients :
                Cardinality({k \in today : granted[k].client = c}) <= ClientLimit
  /\ \A k \in DOMAIN granted :
       LET g == granted[k]
           earlier == {j \in 1 .. k : granted[j].client = g.client}
       IN  (\A j \in earlier : granted[j].at <= g.at) =>
             Cardinality({j \in earlier : granted[j].at + Minute > g.at}) <= MinuteLimit
=============================================================================
