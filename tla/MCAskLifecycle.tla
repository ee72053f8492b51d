-------------------------- MODULE MCAskLifecycle --------------------------
(* Constant values for AskLifecycle. *)
EXTENDS AskLifecycle

CONSTANTS a1, a2, a3, r1, n1, n2, s1

\* Three submissions for one session: two of one token, one of another.
MCSession == [a \in Asks |->
  CASE a = a1 -> [rid |-> NoId, nonce |-> n1, session |-> s1]
    [] a = a2 -> [rid |-> r1, nonce |-> n1, session |-> s1]
    [] OTHER  -> [rid |-> r1, nonce |-> n2, session |-> s1]]

\* a2 repeats a1; a3 comes under another token into the same session.
MCDemo == [a \in Asks |->
  CASE a = a1 -> [rid |-> r1, nonce |-> n1, session |-> s1]
    [] a = a2 -> [rid |-> r1, nonce |-> n1, session |-> NoSession]
    [] OTHER  -> [rid |-> NoId, nonce |-> n2, session |-> s1]]

\* Local asks: the same request id twice, and none.
MCLocal == [a \in Asks |->
  CASE a = a1 -> [rid |-> r1, nonce |-> n1, session |-> s1]
    [] a = a2 -> [rid |-> r1, nonce |-> n1, session |-> s1]
    [] OTHER  -> [rid |-> NoId, nonce |-> n1, session |-> NoSession]]
=============================================================================
