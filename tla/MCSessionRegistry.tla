------------------------ MODULE MCSessionRegistry ------------------------
(* Constant values for SessionRegistry. *)
EXTENDS SessionRegistry

CONSTANTS a1, a2, a3, a4, s1, s2, s3

\* Two asks of one session, and one ask of each of two others.
MCSessionOf == [a \in Asks |-> CASE a \in {a1, a2} -> s1 [] a = a3 -> s2 [] OTHER -> s3]
=============================================================================
