----------------------------- MODULE AskPromise -----------------------------
(***************************************************************************)
(* What an ask promises its client, whatever happens inside: one verdict,  *)
(* never revised.  "answered" means that the answer is in the database;    *)
(* "withdrawn" (cancelled or timed out) that it is not and never will be;  *)
(* "refused" that no answer was produced.  "unreported" is the only gap:   *)
(* the client learns nothing although the answer may have been stored.     *)
(***************************************************************************)
CONSTANT Asks

VARIABLES verdict, stored

Init == /\ verdict = [a \in Asks |-> "open"]
        /\ stored = {}

Give(a, v) == /\ verdict[a] = "open"
              /\ verdict' = [verdict EXCEPT ![a] = v]
              /\ UNCHANGED stored

Store(a) == /\ verdict[a] = "open" /\ a \notin stored
            /\ stored' = stored \cup {a}
            /\ UNCHANGED verdict

Answer(a)   == a \in stored /\ Give(a, "answered")
Withdraw(a) == a \notin stored /\ Give(a, "withdrawn")
Refuse(a)   == a \notin stored /\ Give(a, "refused")

\* A crash ends every open ask at once; a failing ledger ends one.
Lose == /\ \E L \in SUBSET {a \in Asks : verdict[a] = "open"} :
             verdict' = [a \in Asks |-> IF a \in L THEN "unreported" ELSE verdict[a]]
        /\ UNCHANGED stored

Next == \/ \E a \in Asks : Store(a) \/ Answer(a) \/ Withdraw(a) \/ Refuse(a)
        \/ Lose

Spec == Init /\ [][Next]_<<verdict, stored>>
=============================================================================
