------------------------- MODULE AskLifecycleProofs -------------------------
(***************************************************************************)
(* Safety of AskLifecycle for any number of submissions, tokens, sessions, *)
(* slots and reservations.  IInv is inductive; each of its conjuncts has a *)
(* lemma with one step per action, and the theorems are read off IInv.     *)
(***************************************************************************)
EXTENDS AskLifecycle, TLAPS, FiniteSetTheorems

\* What the constants say about the keys of one submission.
LEMMA KeyType == \A a \in Asks : /\ Registered(a) => key(a) \in Keys
                                 /\ Public => Registered(a)
                                 /\ Public => reservation(a) \in Reservations
                                 /\ nonce(a) \in Nonces
                                 /\ session(a) \in Sessions \cup {NoSession}
  BY PayloadAssumption, IdsAssumption
  DEF Registered, key, Keys, reservation, Reservations, nonce, session, Submission

\* TypeOK is preserved by every step.
LEMMA TypeStep == IInv /\ [Next]_vars => TypeOK'
<1> SUFFICES ASSUME IInv, [Next]_vars PROVE TypeOK'
  OBVIOUS
<1> USE DEF IInv, TypeOK, ControlInv, durable, volatile, gate, task, Suspend, Decide, Respond, Return, BackOut, Complete, GrantReservation, LiveOwner, PcValues, Replies, Results, StatusOf, Terminal, Rejections, Outcomes
<1>1. ASSUME NEW a \in Asks, Unauthorized(a) PROVE TypeOK'
  BY <1>1, KeyType, LimitsAssumption, AsksAssumption DEF Unauthorized
<1>2. ASSUME NEW a \in Asks, Receive(a) PROVE TypeOK'
  BY <1>2, KeyType, LimitsAssumption, AsksAssumption DEF Receive
<1>3. ASSUME NEW a \in Asks, LocalReject(a) PROVE TypeOK'
  BY <1>3, KeyType, LimitsAssumption, AsksAssumption DEF LocalReject
<1>4. ASSUME NEW a \in Asks, LocalInvalid(a) PROVE TypeOK'
  BY <1>4, KeyType, LimitsAssumption, AsksAssumption DEF LocalInvalid
<1>5. ASSUME NEW a \in Asks, LocalAdmit(a) PROVE TypeOK'
  BY <1>5, KeyType, LimitsAssumption, AsksAssumption DEF LocalAdmit
<1>6. ASSUME NEW a \in Asks, Invalid(a) PROVE TypeOK'
  BY <1>6, KeyType, LimitsAssumption, AsksAssumption DEF Invalid
<1>7. ASSUME NEW a \in Asks, Lookup(a) PROVE TypeOK'
  BY <1>7, KeyType, LimitsAssumption, AsksAssumption DEF Lookup
<1>8. ASSUME NEW a \in Asks, Busy(a) PROVE TypeOK'
  BY <1>8, KeyType, LimitsAssumption, AsksAssumption DEF Busy
<1>9. ASSUME NEW a \in Asks, RejectSessionOwner(a) PROVE TypeOK'
  BY <1>9, KeyType, LimitsAssumption, AsksAssumption DEF RejectSessionOwner
<1>10. ASSUME NEW a \in Asks, RejectInProgress(a) PROVE TypeOK'
  BY <1>10, KeyType, LimitsAssumption, AsksAssumption DEF RejectInProgress
<1>11. ASSUME NEW a \in Asks, Register(a) PROVE TypeOK'
  BY <1>11, KeyType, LimitsAssumption, AsksAssumption DEF Register
<1>12. ASSUME NEW a \in Asks, Reserve(a) PROVE TypeOK'
  BY <1>12, KeyType, LimitsAssumption, AsksAssumption DEF Reserve
<1>13. ASSUME NEW a \in Asks, ReserveFails(a) PROVE TypeOK'
  BY <1>13, KeyType, LimitsAssumption, AsksAssumption DEF ReserveFails
<1>14. ASSUME NEW a \in Asks, Accept(a) PROVE TypeOK'
  BY <1>14, KeyType, LimitsAssumption, AsksAssumption DEF Accept
<1>15. ASSUME NEW a \in Asks, AcceptFails(a) PROVE TypeOK'
  BY <1>15, KeyType, LimitsAssumption, AsksAssumption DEF AcceptFails
<1>16. ASSUME NEW a \in Asks, Timeout(a) PROVE TypeOK'
  BY <1>16, KeyType, LimitsAssumption, AsksAssumption DEF Timeout
<1>17. ASSUME NEW a \in Asks, CancelOnTimeout(a) PROVE TypeOK'
  BY <1>17, KeyType, LimitsAssumption, AsksAssumption DEF CancelOnTimeout
<1>18. ASSUME NEW a \in Asks, Resume(a) PROVE TypeOK'
  BY <1>18, KeyType, LimitsAssumption, AsksAssumption DEF Resume
<1>19. ASSUME NEW a \in Asks, Close(a) PROVE TypeOK'
  BY <1>19, KeyType, LimitsAssumption, AsksAssumption DEF Close
<1>20. ASSUME NEW a \in Asks, BuildEvidence(a) PROVE TypeOK'
  BY <1>20, KeyType, LimitsAssumption, AsksAssumption DEF BuildEvidence
<1>21. ASSUME NEW a \in Asks, Commit(a) PROVE TypeOK'
  BY <1>21, KeyType, LimitsAssumption, AsksAssumption DEF Commit
<1>22. ASSUME NEW a \in Asks, Raise(a) PROVE TypeOK'
  BY <1>22, KeyType, LimitsAssumption, AsksAssumption DEF Raise
<1>23. ASSUME NEW a \in Asks, TaskDone(a) PROVE TypeOK'
  BY <1>23, KeyType, LimitsAssumption, AsksAssumption DEF TaskDone
<1>24. ASSUME NEW k \in Keys, NEW n \in Nonces, CancelAsk(k, n) PROVE TypeOK'
  BY <1>24, KeyType, LimitsAssumption, AsksAssumption DEF CancelAsk
<1>25. ASSUME NEW n \in Nonces, ExpireToken(n) PROVE TypeOK'
  BY <1>25, KeyType, LimitsAssumption, AsksAssumption DEF ExpireToken
<1>26. ASSUME Crash PROVE TypeOK'
  BY <1>26, KeyType, LimitsAssumption, AsksAssumption DEF Crash
<1>27. CASE UNCHANGED vars
  BY <1>27, KeyType, LimitsAssumption, AsksAssumption DEF vars
<1> QED
  BY <1>1, <1>2, <1>3, <1>4, <1>5, <1>6, <1>7, <1>8, <1>9, <1>10, <1>11, <1>12, <1>13, <1>14, <1>15, <1>16, <1>17, <1>18, <1>19, <1>20, <1>21, <1>22, <1>23, <1>24, <1>25, <1>26, <1>27 DEF Next, Arrival, Admission, Supervision, Work

\* Where a handler waits constrains where its task is, and conversely.
LEMMA ControlStep == IInv /\ [Next]_vars => ControlInv'
<1> SUFFICES ASSUME IInv, [Next]_vars PROVE ControlInv'
  OBVIOUS
<1> USE DEF IInv, TypeOK, ControlInv, TaskInv, durable, volatile, gate, task, Suspend, Decide, Respond, Return, BackOut, Complete, GrantReservation, TaskLive, StatusOf, Terminal, Rejections, Outcomes
<1>1. ASSUME NEW a \in Asks, Unauthorized(a) PROVE ControlInv'
  BY <1>1, LimitsAssumption DEF Unauthorized
<1>2. ASSUME NEW a \in Asks, Receive(a) PROVE ControlInv'
  BY <1>2, LimitsAssumption DEF Receive
<1>3. ASSUME NEW a \in Asks, LocalReject(a) PROVE ControlInv'
  BY <1>3, LimitsAssumption DEF LocalReject
<1>4. ASSUME NEW a \in Asks, LocalInvalid(a) PROVE ControlInv'
  BY <1>4, LimitsAssumption DEF LocalInvalid
<1>5. ASSUME NEW a \in Asks, LocalAdmit(a) PROVE ControlInv'
  BY <1>5, LimitsAssumption DEF LocalAdmit
<1>6. ASSUME NEW a \in Asks, Invalid(a) PROVE ControlInv'
  BY <1>6, LimitsAssumption DEF Invalid
<1>7. ASSUME NEW a \in Asks, Lookup(a) PROVE ControlInv'
  BY <1>7, LimitsAssumption DEF Lookup
<1>8. ASSUME NEW a \in Asks, Busy(a) PROVE ControlInv'
  BY <1>8, LimitsAssumption DEF Busy
<1>9. ASSUME NEW a \in Asks, RejectSessionOwner(a) PROVE ControlInv'
  BY <1>9, LimitsAssumption DEF RejectSessionOwner
<1>10. ASSUME NEW a \in Asks, RejectInProgress(a) PROVE ControlInv'
  BY <1>10, LimitsAssumption DEF RejectInProgress
<1>11. ASSUME NEW a \in Asks, Register(a) PROVE ControlInv'
  BY <1>11, LimitsAssumption DEF Register
<1>12. ASSUME NEW a \in Asks, Reserve(a) PROVE ControlInv'
  BY <1>12, LimitsAssumption DEF Reserve
<1>13. ASSUME NEW a \in Asks, ReserveFails(a) PROVE ControlInv'
  BY <1>13, LimitsAssumption DEF ReserveFails
<1>14. ASSUME NEW a \in Asks, Accept(a) PROVE ControlInv'
  BY <1>14, LimitsAssumption DEF Accept
<1>15. ASSUME NEW a \in Asks, AcceptFails(a) PROVE ControlInv'
  BY <1>15, LimitsAssumption DEF AcceptFails
<1>16. ASSUME NEW a \in Asks, Timeout(a) PROVE ControlInv'
  BY <1>16, LimitsAssumption DEF Timeout
<1>17. ASSUME NEW a \in Asks, CancelOnTimeout(a) PROVE ControlInv'
  BY <1>17, LimitsAssumption DEF CancelOnTimeout
<1>18. ASSUME NEW a \in Asks, Resume(a) PROVE ControlInv'
  BY <1>18, LimitsAssumption DEF Resume
<1>19. ASSUME NEW a \in Asks, Close(a) PROVE ControlInv'
  BY <1>19, LimitsAssumption DEF Close
<1>20. ASSUME NEW a \in Asks, BuildEvidence(a) PROVE ControlInv'
  BY <1>20, LimitsAssumption DEF BuildEvidence
<1>21. ASSUME NEW a \in Asks, Commit(a) PROVE ControlInv'
  BY <1>21, LimitsAssumption DEF Commit
<1>22. ASSUME NEW a \in Asks, Raise(a) PROVE ControlInv'
  BY <1>22, LimitsAssumption DEF Raise
<1>23. ASSUME NEW a \in Asks, TaskDone(a) PROVE ControlInv'
  BY <1>23, LimitsAssumption DEF TaskDone
<1>24. ASSUME NEW k \in Keys, NEW n \in Nonces, CancelAsk(k, n) PROVE ControlInv'
  BY <1>24, LimitsAssumption DEF CancelAsk
<1>25. ASSUME NEW n \in Nonces, ExpireToken(n) PROVE ControlInv'
  BY <1>25, LimitsAssumption DEF ExpireToken
<1>26. ASSUME Crash PROVE ControlInv'
  BY <1>26, LimitsAssumption DEF Crash
<1>27. CASE UNCHANGED vars
  BY <1>27, LimitsAssumption DEF vars
<1> QED
  BY <1>1, <1>2, <1>3, <1>4, <1>5, <1>6, <1>7, <1>8, <1>9, <1>10, <1>11, <1>12, <1>13, <1>14, <1>15, <1>16, <1>17, <1>18, <1>19, <1>20, <1>21, <1>22, <1>23, <1>24, <1>25, <1>26, <1>27 DEF Next, Arrival, Admission, Supervision, Work

\* The answers table, the commit flag and the task's result agree, and a cancelled
\* gate never coexists with a stored answer: Commit and the two cancels exclude each other.
LEMMA TaskStep == IInv /\ [Next]_vars => TaskInv'
<1> SUFFICES ASSUME IInv, [Next]_vars PROVE TaskInv'
  OBVIOUS
<1> USE DEF IInv, TypeOK, ControlInv, TaskInv, durable, volatile, gate, task, Suspend, Decide, Respond, Return, BackOut, Complete, GrantReservation, TaskLive, Results
<1>1. ASSUME NEW a \in Asks, Unauthorized(a) PROVE TaskInv'
  BY <1>1 DEF Unauthorized
<1>2. ASSUME NEW a \in Asks, Receive(a) PROVE TaskInv'
  BY <1>2 DEF Receive
<1>3. ASSUME NEW a \in Asks, LocalReject(a) PROVE TaskInv'
  BY <1>3 DEF LocalReject
<1>4. ASSUME NEW a \in Asks, LocalInvalid(a) PROVE TaskInv'
  BY <1>4 DEF LocalInvalid
<1>5. ASSUME NEW a \in Asks, LocalAdmit(a) PROVE TaskInv'
  BY <1>5 DEF LocalAdmit
<1>6. ASSUME NEW a \in Asks, Invalid(a) PROVE TaskInv'
  BY <1>6 DEF Invalid
<1>7. ASSUME NEW a \in Asks, Lookup(a) PROVE TaskInv'
  BY <1>7 DEF Lookup
<1>8. ASSUME NEW a \in Asks, Busy(a) PROVE TaskInv'
  BY <1>8 DEF Busy
<1>9. ASSUME NEW a \in Asks, RejectSessionOwner(a) PROVE TaskInv'
  BY <1>9 DEF RejectSessionOwner
<1>10. ASSUME NEW a \in Asks, RejectInProgress(a) PROVE TaskInv'
  BY <1>10 DEF RejectInProgress
<1>11. ASSUME NEW a \in Asks, Register(a) PROVE TaskInv'
  BY <1>11 DEF Register
<1>12. ASSUME NEW a \in Asks, Reserve(a) PROVE TaskInv'
  BY <1>12 DEF Reserve
<1>13. ASSUME NEW a \in Asks, ReserveFails(a) PROVE TaskInv'
  BY <1>13 DEF ReserveFails
<1>14. ASSUME NEW a \in Asks, Accept(a) PROVE TaskInv'
  BY <1>14 DEF Accept
<1>15. ASSUME NEW a \in Asks, AcceptFails(a) PROVE TaskInv'
  BY <1>15 DEF AcceptFails
<1>16. ASSUME NEW a \in Asks, Timeout(a) PROVE TaskInv'
  BY <1>16 DEF Timeout
<1>17. ASSUME NEW a \in Asks, CancelOnTimeout(a) PROVE TaskInv'
  BY <1>17 DEF CancelOnTimeout
<1>18. ASSUME NEW a \in Asks, Resume(a) PROVE TaskInv'
  BY <1>18 DEF Resume
<1>19. ASSUME NEW a \in Asks, Close(a) PROVE TaskInv'
  BY <1>19 DEF Close
<1>20. ASSUME NEW a \in Asks, BuildEvidence(a) PROVE TaskInv'
  BY <1>20 DEF BuildEvidence
<1>21. ASSUME NEW a \in Asks, Commit(a) PROVE TaskInv'
  <2>1. CASE cancelled[a] # "no"
    BY <1>21, <2>1 DEF Commit
  <2>2. CASE cancelled[a] = "no"
    <3>1. /\ worker' = [worker EXCEPT ![a] = "returned"]
          /\ result' = [result EXCEPT ![a] = "answered"]
          /\ stored' = stored \cup {a} /\ committed' = committed \cup {a}
          /\ cancelled' = cancelled
      BY <1>21, <2>2 DEF Commit
    <3>2. committed' = stored'
      BY <3>1
    <3>3. result'[a] = "answered" /\ worker'[a] = "returned" /\ a \in stored'
      BY <3>1
    <3>4. \A b \in Asks \ {a} : /\ result'[b] = result[b] /\ worker'[b] = worker[b]
                               /\ b \in stored' <=> b \in stored
      BY <3>1
    <3> QED
      BY <3>1, <3>2, <3>3, <3>4, <2>2
  <2> QED
    BY <2>1, <2>2
<1>22. ASSUME NEW a \in Asks, Raise(a) PROVE TaskInv'
  BY <1>22 DEF Raise
<1>23. ASSUME NEW a \in Asks, TaskDone(a) PROVE TaskInv'
  BY <1>23 DEF TaskDone
<1>24. ASSUME NEW k \in Keys, NEW n \in Nonces, CancelAsk(k, n) PROVE TaskInv'
  BY <1>24 DEF CancelAsk
<1>25. ASSUME NEW n \in Nonces, ExpireToken(n) PROVE TaskInv'
  BY <1>25 DEF ExpireToken
<1>26. ASSUME Crash PROVE TaskInv'
  BY <1>26 DEF Crash
<1>27. CASE UNCHANGED vars
  BY <1>27 DEF vars
<1> QED
  BY <1>1, <1>2, <1>3, <1>4, <1>5, <1>6, <1>7, <1>8, <1>9, <1>10, <1>11, <1>12, <1>13, <1>14, <1>15, <1>16, <1>17, <1>18, <1>19, <1>20, <1>21, <1>22, <1>23, <1>24, <1>25, <1>26, <1>27 DEF Next, Arrival, Admission, Supervision, Work

\* A decided or recorded status stays true of the store whatever the task does next.
LEMMA StatusStep == IInv /\ [Next]_vars => StatusInv'
<1> SUFFICES ASSUME IInv, [Next]_vars PROVE StatusInv'
  OBVIOUS
<1> USE DEF IInv, TypeOK, ControlInv, TaskInv, StatusInv, Justified, durable, volatile, gate, task, Suspend, Decide, Respond, Return, BackOut, Complete, GrantReservation, TaskLive, StatusOf, Terminal, Rejections, Outcomes, Results
<1>1. ASSUME NEW a \in Asks, Unauthorized(a) PROVE StatusInv'
  BY <1>1 DEF Unauthorized
<1>2. ASSUME NEW a \in Asks, Receive(a) PROVE StatusInv'
  BY <1>2 DEF Receive
<1>3. ASSUME NEW a \in Asks, LocalReject(a) PROVE StatusInv'
  BY <1>3 DEF LocalReject
<1>4. ASSUME NEW a \in Asks, LocalInvalid(a) PROVE StatusInv'
  BY <1>4 DEF LocalInvalid
<1>5. ASSUME NEW a \in Asks, LocalAdmit(a) PROVE StatusInv'
  BY <1>5 DEF LocalAdmit
<1>6. ASSUME NEW a \in Asks, Invalid(a) PROVE StatusInv'
  BY <1>6 DEF Invalid
<1>7. ASSUME NEW a \in Asks, Lookup(a) PROVE StatusInv'
  BY <1>7 DEF Lookup
<1>8. ASSUME NEW a \in Asks, Busy(a) PROVE StatusInv'
  BY <1>8 DEF Busy
<1>9. ASSUME NEW a \in Asks, RejectSessionOwner(a) PROVE StatusInv'
  BY <1>9 DEF RejectSessionOwner
<1>10. ASSUME NEW a \in Asks, RejectInProgress(a) PROVE StatusInv'
  BY <1>10 DEF RejectInProgress
<1>11. ASSUME NEW a \in Asks, Register(a) PROVE StatusInv'
  BY <1>11 DEF Register
<1>12. ASSUME NEW a \in Asks, Reserve(a) PROVE StatusInv'
  BY <1>12 DEF Reserve
<1>13. ASSUME NEW a \in Asks, ReserveFails(a) PROVE StatusInv'
  BY <1>13 DEF ReserveFails
<1>14. ASSUME NEW a \in Asks, Accept(a) PROVE StatusInv'
  BY <1>14 DEF Accept
<1>15. ASSUME NEW a \in Asks, AcceptFails(a) PROVE StatusInv'
  BY <1>15 DEF AcceptFails
<1>16. ASSUME NEW a \in Asks, Timeout(a) PROVE StatusInv'
  BY <1>16 DEF Timeout
<1>17. ASSUME NEW a \in Asks, CancelOnTimeout(a) PROVE StatusInv'
  BY <1>17 DEF CancelOnTimeout
<1>18. ASSUME NEW a \in Asks, Resume(a) PROVE StatusInv'
  BY <1>18 DEF Resume
<1>19. ASSUME NEW a \in Asks, Close(a) PROVE StatusInv'
  BY <1>19 DEF Close
<1>20. ASSUME NEW a \in Asks, BuildEvidence(a) PROVE StatusInv'
  BY <1>20 DEF BuildEvidence
<1>21. ASSUME NEW a \in Asks, Commit(a) PROVE StatusInv'
  BY <1>21 DEF Commit
<1>22. ASSUME NEW a \in Asks, Raise(a) PROVE StatusInv'
  BY <1>22 DEF Raise
<1>23. ASSUME NEW a \in Asks, TaskDone(a) PROVE StatusInv'
  BY <1>23 DEF TaskDone
<1>24. ASSUME NEW k \in Keys, NEW n \in Nonces, CancelAsk(k, n) PROVE StatusInv'
  BY <1>24 DEF CancelAsk
<1>25. ASSUME NEW n \in Nonces, ExpireToken(n) PROVE StatusInv'
  BY <1>25 DEF ExpireToken
<1>26. ASSUME Crash PROVE StatusInv'
  BY <1>26 DEF Crash
<1>27. CASE UNCHANGED vars
  BY <1>27 DEF vars
<1> QED
  BY <1>1, <1>2, <1>3, <1>4, <1>5, <1>6, <1>7, <1>8, <1>9, <1>10, <1>11, <1>12, <1>13, <1>14, <1>15, <1>16, <1>17, <1>18, <1>19, <1>20, <1>21, <1>22, <1>23, <1>24, <1>25, <1>26, <1>27 DEF Next, Arrival, Admission, Supervision, Work

\* How far a ledger record has moved follows the handler.
LEMMA LedgerStep == IInv /\ [Next]_vars => LedgerInv'
<1> SUFFICES ASSUME IInv, [Next]_vars PROVE LedgerInv'
  OBVIOUS
<1> USE DEF IInv, TypeOK, ControlInv, LedgerInv, durable, volatile, gate, task, Suspend, Decide, Respond, Return, BackOut, Complete, GrantReservation, Terminal, Rejections, Outcomes
<1>1. ASSUME NEW a \in Asks, Unauthorized(a) PROVE LedgerInv'
  BY <1>1 DEF Unauthorized
<1>2. ASSUME NEW a \in Asks, Receive(a) PROVE LedgerInv'
  BY <1>2 DEF Receive
<1>3. ASSUME NEW a \in Asks, LocalReject(a) PROVE LedgerInv'
  BY <1>3 DEF LocalReject
<1>4. ASSUME NEW a \in Asks, LocalInvalid(a) PROVE LedgerInv'
  BY <1>4 DEF LocalInvalid
<1>5. ASSUME NEW a \in Asks, LocalAdmit(a) PROVE LedgerInv'
  BY <1>5 DEF LocalAdmit
<1>6. ASSUME NEW a \in Asks, Invalid(a) PROVE LedgerInv'
  BY <1>6 DEF Invalid
<1>7. ASSUME NEW a \in Asks, Lookup(a) PROVE LedgerInv'
  BY <1>7 DEF Lookup
<1>8. ASSUME NEW a \in Asks, Busy(a) PROVE LedgerInv'
  BY <1>8 DEF Busy
<1>9. ASSUME NEW a \in Asks, RejectSessionOwner(a) PROVE LedgerInv'
  BY <1>9 DEF RejectSessionOwner
<1>10. ASSUME NEW a \in Asks, RejectInProgress(a) PROVE LedgerInv'
  BY <1>10 DEF RejectInProgress
<1>11. ASSUME NEW a \in Asks, Register(a) PROVE LedgerInv'
  BY <1>11 DEF Register
<1>12. ASSUME NEW a \in Asks, Reserve(a) PROVE LedgerInv'
  BY <1>12 DEF Reserve
<1>13. ASSUME NEW a \in Asks, ReserveFails(a) PROVE LedgerInv'
  BY <1>13 DEF ReserveFails
<1>14. ASSUME NEW a \in Asks, Accept(a) PROVE LedgerInv'
  BY <1>14 DEF Accept
<1>15. ASSUME NEW a \in Asks, AcceptFails(a) PROVE LedgerInv'
  BY <1>15 DEF AcceptFails
<1>16. ASSUME NEW a \in Asks, Timeout(a) PROVE LedgerInv'
  BY <1>16 DEF Timeout
<1>17. ASSUME NEW a \in Asks, CancelOnTimeout(a) PROVE LedgerInv'
  BY <1>17 DEF CancelOnTimeout
<1>18. ASSUME NEW a \in Asks, Resume(a) PROVE LedgerInv'
  BY <1>18 DEF Resume
<1>19. ASSUME NEW a \in Asks, Close(a) PROVE LedgerInv'
  BY <1>19 DEF Close
<1>20. ASSUME NEW a \in Asks, BuildEvidence(a) PROVE LedgerInv'
  BY <1>20 DEF BuildEvidence
<1>21. ASSUME NEW a \in Asks, Commit(a) PROVE LedgerInv'
  BY <1>21 DEF Commit
<1>22. ASSUME NEW a \in Asks, Raise(a) PROVE LedgerInv'
  BY <1>22 DEF Raise
<1>23. ASSUME NEW a \in Asks, TaskDone(a) PROVE LedgerInv'
  BY <1>23 DEF TaskDone
<1>24. ASSUME NEW k \in Keys, NEW n \in Nonces, CancelAsk(k, n) PROVE LedgerInv'
  BY <1>24 DEF CancelAsk
<1>25. ASSUME NEW n \in Nonces, ExpireToken(n) PROVE LedgerInv'
  BY <1>25 DEF ExpireToken
<1>26. ASSUME Crash PROVE LedgerInv'
  BY <1>26 DEF Crash
<1>27. CASE UNCHANGED vars
  BY <1>27 DEF vars
<1> QED
  BY <1>1, <1>2, <1>3, <1>4, <1>5, <1>6, <1>7, <1>8, <1>9, <1>10, <1>11, <1>12, <1>13, <1>14, <1>15, <1>16, <1>17, <1>18, <1>19, <1>20, <1>21, <1>22, <1>23, <1>24, <1>25, <1>26, <1>27 DEF Next, Arrival, Admission, Supervision, Work

\* Reservations are never reassigned, so launching needs one's own.
LEMMA ReservationStep == IInv /\ [Next]_vars => ReservationInv'
<1> SUFFICES ASSUME IInv, [Next]_vars PROVE ReservationInv'
  OBVIOUS
<1> USE DEF IInv, TypeOK, ControlInv, ReservationInv, Launched, durable, volatile, gate, task, Suspend, Decide, Respond, Return, BackOut, Complete, GrantReservation, TaskLive
<1>1. ASSUME NEW a \in Asks, Unauthorized(a) PROVE ReservationInv'
  BY <1>1, AsksAssumption DEF Unauthorized
<1>2. ASSUME NEW a \in Asks, Receive(a) PROVE ReservationInv'
  BY <1>2, AsksAssumption DEF Receive
<1>3. ASSUME NEW a \in Asks, LocalReject(a) PROVE ReservationInv'
  BY <1>3, AsksAssumption DEF LocalReject
<1>4. ASSUME NEW a \in Asks, LocalInvalid(a) PROVE ReservationInv'
  BY <1>4, AsksAssumption DEF LocalInvalid
<1>5. ASSUME NEW a \in Asks, LocalAdmit(a) PROVE ReservationInv'
  BY <1>5, AsksAssumption DEF LocalAdmit
<1>6. ASSUME NEW a \in Asks, Invalid(a) PROVE ReservationInv'
  BY <1>6, AsksAssumption DEF Invalid
<1>7. ASSUME NEW a \in Asks, Lookup(a) PROVE ReservationInv'
  BY <1>7, AsksAssumption DEF Lookup
<1>8. ASSUME NEW a \in Asks, Busy(a) PROVE ReservationInv'
  BY <1>8, AsksAssumption DEF Busy
<1>9. ASSUME NEW a \in Asks, RejectSessionOwner(a) PROVE ReservationInv'
  BY <1>9, AsksAssumption DEF RejectSessionOwner
<1>10. ASSUME NEW a \in Asks, RejectInProgress(a) PROVE ReservationInv'
  BY <1>10, AsksAssumption DEF RejectInProgress
<1>11. ASSUME NEW a \in Asks, Register(a) PROVE ReservationInv'
  BY <1>11, AsksAssumption DEF Register
<1>12. ASSUME NEW a \in Asks, Reserve(a) PROVE ReservationInv'
  <2>1. Public /\ reservation(a) \in Reservations /\ reserved[reservation(a)] = NoAsk
    BY <1>12, KeyType DEF Reserve
  <2>2. \A b \in Asks : (Launched(b) \/ pc[b] = "accepting")' =>
          b = a \/ Launched(b) \/ pc[b] = "accepting"
    BY <1>12 DEF Reserve
  <2>3. reserved' = [reserved EXCEPT ![reservation(a)] = a]
    BY <1>12 DEF Reserve
  <2> QED
    BY <2>1, <2>2, <2>3, AsksAssumption, KeyType
<1>13. ASSUME NEW a \in Asks, ReserveFails(a) PROVE ReservationInv'
  <2>1. Public /\ reservation(a) \in Reservations
    BY <1>13, KeyType DEF ReserveFails
  <2>2. \A b \in Asks : (Launched(b) \/ pc[b] = "accepting")' =>
          Launched(b) \/ pc[b] = "accepting"
    BY <1>13 DEF ReserveFails
  <2>3. \/ UNCHANGED reserved
        \/ /\ reserved[reservation(a)] = NoAsk
           /\ reserved' = [reserved EXCEPT ![reservation(a)] = a]
    BY <1>13 DEF ReserveFails
  <2> QED
    BY <2>1, <2>2, <2>3, AsksAssumption, KeyType
<1>14. ASSUME NEW a \in Asks, Accept(a) PROVE ReservationInv'
  BY <1>14, AsksAssumption DEF Accept
<1>15. ASSUME NEW a \in Asks, AcceptFails(a) PROVE ReservationInv'
  BY <1>15, AsksAssumption DEF AcceptFails
<1>16. ASSUME NEW a \in Asks, Timeout(a) PROVE ReservationInv'
  BY <1>16, AsksAssumption DEF Timeout
<1>17. ASSUME NEW a \in Asks, CancelOnTimeout(a) PROVE ReservationInv'
  BY <1>17, AsksAssumption DEF CancelOnTimeout
<1>18. ASSUME NEW a \in Asks, Resume(a) PROVE ReservationInv'
  BY <1>18, AsksAssumption DEF Resume
<1>19. ASSUME NEW a \in Asks, Close(a) PROVE ReservationInv'
  BY <1>19, AsksAssumption DEF Close
<1>20. ASSUME NEW a \in Asks, BuildEvidence(a) PROVE ReservationInv'
  BY <1>20, AsksAssumption DEF BuildEvidence
<1>21. ASSUME NEW a \in Asks, Commit(a) PROVE ReservationInv'
  BY <1>21, AsksAssumption DEF Commit
<1>22. ASSUME NEW a \in Asks, Raise(a) PROVE ReservationInv'
  BY <1>22, AsksAssumption DEF Raise
<1>23. ASSUME NEW a \in Asks, TaskDone(a) PROVE ReservationInv'
  BY <1>23, AsksAssumption DEF TaskDone
<1>24. ASSUME NEW k \in Keys, NEW n \in Nonces, CancelAsk(k, n) PROVE ReservationInv'
  BY <1>24, AsksAssumption DEF CancelAsk
<1>25. ASSUME NEW n \in Nonces, ExpireToken(n) PROVE ReservationInv'
  BY <1>25, AsksAssumption DEF ExpireToken
<1>26. ASSUME Crash PROVE ReservationInv'
  BY <1>26, AsksAssumption DEF Crash
<1>27. CASE UNCHANGED vars
  BY <1>27, AsksAssumption DEF vars
<1> QED
  BY <1>1, <1>2, <1>3, <1>4, <1>5, <1>6, <1>7, <1>8, <1>9, <1>10, <1>11, <1>12, <1>13, <1>14, <1>15, <1>16, <1>17, <1>18, <1>19, <1>20, <1>21, <1>22, <1>23, <1>24, <1>25, <1>26, <1>27 DEF Next, Arrival, Admission, Supervision, Work

\* Registration, back-out and the done callback keep the registry exact.
LEMMA RegistryStep == IInv /\ [Next]_vars => RegistryExact'
<1> SUFFICES ASSUME IInv, [Next]_vars PROVE RegistryExact'
  OBVIOUS
<1> USE DEF IInv, TypeOK, ControlInv, RegistryExact, InFlight, TaskLive, durable, volatile, gate, task, Suspend, Decide, Respond, Return, BackOut, Complete, GrantReservation
<1>1. ASSUME NEW a \in Asks, Unauthorized(a) PROVE RegistryExact'
  BY <1>1, AsksAssumption, KeyType DEF Unauthorized
<1>2. ASSUME NEW a \in Asks, Receive(a) PROVE RegistryExact'
  BY <1>2, AsksAssumption, KeyType DEF Receive
<1>3. ASSUME NEW a \in Asks, LocalReject(a) PROVE RegistryExact'
  BY <1>3, AsksAssumption, KeyType DEF LocalReject
<1>4. ASSUME NEW a \in Asks, LocalInvalid(a) PROVE RegistryExact'
  BY <1>4, AsksAssumption, KeyType DEF LocalInvalid
<1>5. ASSUME NEW a \in Asks, LocalAdmit(a) PROVE RegistryExact'
  BY <1>5, AsksAssumption, KeyType DEF LocalAdmit
<1>6. ASSUME NEW a \in Asks, Invalid(a) PROVE RegistryExact'
  BY <1>6, AsksAssumption, KeyType DEF Invalid
<1>7. ASSUME NEW a \in Asks, Lookup(a) PROVE RegistryExact'
  BY <1>7, AsksAssumption, KeyType DEF Lookup
<1>8. ASSUME NEW a \in Asks, Busy(a) PROVE RegistryExact'
  BY <1>8, AsksAssumption, KeyType DEF Busy
<1>9. ASSUME NEW a \in Asks, RejectSessionOwner(a) PROVE RegistryExact'
  BY <1>9, AsksAssumption, KeyType DEF RejectSessionOwner
<1>10. ASSUME NEW a \in Asks, RejectInProgress(a) PROVE RegistryExact'
  BY <1>10, AsksAssumption, KeyType DEF RejectInProgress
<1>11. ASSUME NEW a \in Asks, Register(a) PROVE RegistryExact'
  BY <1>11, AsksAssumption, KeyType DEF Register
<1>12. ASSUME NEW a \in Asks, Reserve(a) PROVE RegistryExact'
  BY <1>12, AsksAssumption, KeyType DEF Reserve
<1>13. ASSUME NEW a \in Asks, ReserveFails(a) PROVE RegistryExact'
  BY <1>13, AsksAssumption, KeyType DEF ReserveFails
<1>14. ASSUME NEW a \in Asks, Accept(a) PROVE RegistryExact'
  BY <1>14, AsksAssumption, KeyType DEF Accept
<1>15. ASSUME NEW a \in Asks, AcceptFails(a) PROVE RegistryExact'
  BY <1>15, AsksAssumption, KeyType DEF AcceptFails
<1>16. ASSUME NEW a \in Asks, Timeout(a) PROVE RegistryExact'
  BY <1>16, AsksAssumption, KeyType DEF Timeout
<1>17. ASSUME NEW a \in Asks, CancelOnTimeout(a) PROVE RegistryExact'
  BY <1>17, AsksAssumption, KeyType DEF CancelOnTimeout
<1>18. ASSUME NEW a \in Asks, Resume(a) PROVE RegistryExact'
  BY <1>18, AsksAssumption, KeyType DEF Resume
<1>19. ASSUME NEW a \in Asks, Close(a) PROVE RegistryExact'
  BY <1>19, AsksAssumption, KeyType DEF Close
<1>20. ASSUME NEW a \in Asks, BuildEvidence(a) PROVE RegistryExact'
  BY <1>20, AsksAssumption, KeyType DEF BuildEvidence
<1>21. ASSUME NEW a \in Asks, Commit(a) PROVE RegistryExact'
  BY <1>21, AsksAssumption, KeyType DEF Commit
<1>22. ASSUME NEW a \in Asks, Raise(a) PROVE RegistryExact'
  BY <1>22, AsksAssumption, KeyType DEF Raise
<1>23. ASSUME NEW a \in Asks, TaskDone(a) PROVE RegistryExact'
  BY <1>23, AsksAssumption, KeyType DEF TaskDone
<1>24. ASSUME NEW k \in Keys, NEW n \in Nonces, CancelAsk(k, n) PROVE RegistryExact'
  BY <1>24, AsksAssumption, KeyType DEF CancelAsk
<1>25. ASSUME NEW n \in Nonces, ExpireToken(n) PROVE RegistryExact'
  BY <1>25, AsksAssumption, KeyType DEF ExpireToken
<1>26. ASSUME Crash PROVE RegistryExact'
  BY <1>26, AsksAssumption, KeyType DEF Crash
<1>27. CASE UNCHANGED vars
  BY <1>27, AsksAssumption, KeyType DEF vars
<1> QED
  BY <1>1, <1>2, <1>3, <1>4, <1>5, <1>6, <1>7, <1>8, <1>9, <1>10, <1>11, <1>12, <1>13, <1>14, <1>15, <1>16, <1>17, <1>18, <1>19, <1>20, <1>21, <1>22, <1>23, <1>24, <1>25, <1>26, <1>27 DEF Next, Arrival, Admission, Supervision, Work

\* The server starts in a state that satisfies the invariant.
LEMMA InitInv == Init => IInv
  BY KeyType, LimitsAssumption, AsksAssumption
  DEF Init, IInv, TypeOK, ControlInv, TaskInv, StatusInv, Justified, LedgerInv,
      ReservationInv, RegistryExact, InFlight, TaskLive, Launched, PcValues, Replies,
      Results, Terminal, Rejections, Outcomes

\* Every reachable state satisfies the inductive invariant.
THEOREM InductiveInvariant == Spec => []IInv
<1>1. IInv /\ [Next]_vars => IInv'
  BY TypeStep, ControlStep, TaskStep, StatusStep, LedgerStep, ReservationStep,
     RegistryStep DEF IInv
<1> QED
  BY InitInv, <1>1, PTL DEF Spec

\* Every variable of AskLifecycle keeps its type.
THEOREM TypeCorrect == Spec => []TypeOK
<1>1. IInv => TypeOK
  BY DEF IInv
<1> QED
  BY <1>1, InductiveInvariant, PTL

\* ActiveAskRegistry lists exactly the asks in flight, for ever.
THEOREM RegistryCorrect == Spec => []RegistryExact
<1>1. IInv => RegistryExact
  BY DEF IInv
<1> QED
  BY <1>1, InductiveInvariant, PTL

\* A reservation starts provider work at most once, across replays and restarts.
THEOREM OneLaunchPerReservation == Spec => []AtMostOneLaunch
<1>1. IInv => AtMostOneLaunch
  BY DEF IInv, ReservationInv, AtMostOneLaunch
<1> QED
  BY <1>1, InductiveInvariant, PTL

\* Responses and ledger records agree with the answers table.
THEOREM ResponseCorrect == Spec => []ResponseMatchesStore
<1>1. IInv => ResponseMatchesStore
  BY DEF IInv, TypeOK, TaskInv, StatusInv, Justified, ResponseMatchesStore, Terminal,
         Rejections, Outcomes
<1> QED
  BY <1>1, InductiveInvariant, PTL

\* After a cancel or a won timeout, no answer of that ask is ever written.
THEOREM WithdrawalFinal == Spec => WithdrawnStaysWithdrawn
<1>1. IInv /\ [Next]_vars => [\A a \in Asks : cancelled[a] # "no" => (a \in stored' => a \in stored)]_vars
  <2> SUFFICES ASSUME IInv, Next PROVE \A a \in Asks : cancelled[a] # "no" => (a \in stored' => a \in stored)
    OBVIOUS
  <2>1. ASSUME NEW b \in Asks, Commit(b) PROVE \A a \in Asks : cancelled[a] # "no" => (a \in stored' => a \in stored)
    BY <2>1 DEF Commit
  <2>2. UNCHANGED stored \/ \E b \in Asks : Commit(b)
    BY DEF Next, Arrival, Admission, Supervision, Work, Unauthorized, Receive, LocalReject,
       LocalInvalid, LocalAdmit, Invalid, Lookup, Busy, RejectSessionOwner, RejectInProgress,
       Register, Reserve, ReserveFails, Accept, AcceptFails, Timeout, CancelOnTimeout,
       Resume, Close, BuildEvidence, Raise, TaskDone, CancelAsk, ExpireToken, Crash,
       durable, vars
  <2> QED
    BY <2>1, <2>2
<1> QED
  BY <1>1, InductiveInvariant, PTL DEF Spec, WithdrawnStaysWithdrawn


\* Only these actions take or give back a permit; every other step leaves the
\* permits and the asks that hold them alone.
LEMMA SlotsStep == IInv /\ SlotConservation /\ [Next]_vars => SlotConservation'
<1> SUFFICES ASSUME IInv, SlotConservation, [Next]_vars, Public PROVE free' + Cardinality(Holders') = Capacity
  BY DEF SlotConservation
<1> USE DEF IInv, TypeOK, ControlInv, Holders, InFlight, TaskLive, durable, volatile, gate, task,
            Suspend, Decide, Respond, Return
<1>0. /\ Holders \subseteq Asks /\ IsFiniteSet(Holders) /\ Cardinality(Holders) \in Nat
      /\ free \in Nat /\ Capacity \in Nat /\ free + Cardinality(Holders) = Capacity
  <2>1. Holders \subseteq Asks
    OBVIOUS
  <2> QED
    BY <2>1, AsksAssumption, FS_Subset, FS_CardinalityType, LimitsAssumption DEF SlotConservation
<1>1. ASSUME NEW a \in Asks, Register(a) PROVE free' + Cardinality(Holders') = Capacity
  <2>1. a \notin Holders /\ Holders' = Holders \cup {a} /\ free' = free - 1
    BY <1>1 DEF Register
  <2> HIDE DEF Holders
  <2>2. Cardinality(Holders') = Cardinality(Holders) + 1
    BY <2>1, <1>0, FS_AddElement
  <2> QED
    BY <2>1, <2>2, <1>0
<1>2. ASSUME NEW a \in Asks, ReserveFails(a) \/ AcceptFails(a) \/ TaskDone(a)
      PROVE  free' + Cardinality(Holders') = Capacity
  <2>1. a \in Holders /\ Holders' = Holders \ {a} /\ free' = free + 1
    <3>1. CASE ReserveFails(a)
      BY <3>1 DEF ReserveFails, BackOut
    <3>2. CASE AcceptFails(a)
      BY <3>2 DEF AcceptFails, BackOut
    <3>3. CASE TaskDone(a)
      BY <3>3 DEF TaskDone
    <3> QED
      BY <1>2, <3>1, <3>2, <3>3
  <2> HIDE DEF Holders
  <2>2. Cardinality(Holders') = Cardinality(Holders) - 1
    BY <2>1, <1>0, FS_RemoveElement
  <2> QED
    BY <2>1, <2>2, <1>0
<1>3. CASE Crash
  <2>1. Holders' = {} /\ free' = Capacity
    BY <1>3 DEF Crash
  <2> HIDE DEF Holders
  <2> QED
    BY <2>1, FS_EmptySet, LimitsAssumption
<1>4. CASE UNCHANGED vars
  BY <1>4, <1>0 DEF vars
<1>5. ASSUME NEW a \in Asks,
             Arrival(a) \/ Invalid(a) \/ Lookup(a) \/ Busy(a) \/ RejectSessionOwner(a)
             \/ RejectInProgress(a) \/ Reserve(a) \/ Supervision(a)
      PROVE  Holders' = Holders /\ free' = free
  BY <1>5 DEF Arrival, Supervision, Unauthorized, Receive, LocalReject, LocalInvalid,
     LocalAdmit, Invalid, Lookup, Busy, RejectSessionOwner, RejectInProgress, Reserve,
     Timeout, CancelOnTimeout, Resume, Close
<1>6. ASSUME NEW a \in Asks, Accept(a) \/ Work(a) PROVE Holders' = Holders /\ free' = free
  BY <1>6 DEF Accept, Work, BuildEvidence, Commit, Raise
<1>7. ASSUME NEW k \in Keys, NEW n \in Nonces, CancelAsk(k, n)
      PROVE  Holders' = Holders /\ free' = free
  BY <1>7 DEF CancelAsk
<1>8. ASSUME NEW n \in Nonces, ExpireToken(n) PROVE Holders' = Holders /\ free' = free
  BY <1>8 DEF ExpireToken
<1> HIDE DEF Holders, InFlight, TaskLive, IInv, TypeOK, ControlInv, durable, volatile, gate, task,
             Suspend, Decide, Respond, Return
<1>9. CASE Holders' = Holders /\ free' = free
  BY <1>9, <1>0
<1> QED
  BY <1>1, <1>2, <1>3, <1>4, <1>5, <1>6, <1>7, <1>8, <1>9 DEF Next, Admission

\* No permit of the ask semaphore is ever lost or invented.
THEOREM SlotsConserved == Spec => []SlotConservation
<1>1. Init => SlotConservation
  <2>1. Init => Holders = {} /\ free = Capacity
    BY DEF Init, Holders, InFlight, TaskLive
  <2> QED
    BY <2>1, FS_EmptySet, LimitsAssumption DEF SlotConservation
<1> QED
  BY <1>1, SlotsStep, InductiveInvariant, PTL DEF Spec


\* The quota store changes only by granting a reservation to an ask that waits for
\* one; an ask past that point never gets a reply that would mean "nothing consumed".
LEMMA QuotaMoves ==
  ASSUME IInv, [Next]_vars
  PROVE  /\ \/ UNCHANGED <<reserved, used>>
            \/ \E a \in Asks : /\ GrantReservation(a) /\ Public
                               /\ pc'[a] \in {"accepting", "closing"}
                               /\ reply'[a] \notin Unspent
         /\ \A b \in Asks :
              pc[b] \notin {"new", "received", "waiting", "registered"} =>
                /\ pc'[b] \notin {"new", "received", "waiting", "registered"}
                /\ reply[b] \notin Unspent => reply'[b] \notin Unspent
<1> DEFINE Goal == /\ \/ UNCHANGED <<reserved, used>>
                      \/ \E a \in Asks : /\ GrantReservation(a) /\ Public
                                         /\ pc'[a] \in {"accepting", "closing"}
                                         /\ reply'[a] \notin Unspent
                   /\ \A b \in Asks :
                        pc[b] \notin {"new", "received", "waiting", "registered"} =>
                          /\ pc'[b] \notin {"new", "received", "waiting", "registered"}
                          /\ reply[b] \notin Unspent => reply'[b] \notin Unspent
<1> USE DEF IInv, TypeOK, ControlInv, durable, volatile, gate, task, Suspend, Decide, Respond,
            Return, Unspent, Terminal, Rejections, Outcomes
<1>1. ASSUME NEW a \in Asks, Arrival(a) PROVE Goal
  BY <1>1 DEF Arrival, Unauthorized, Receive, LocalReject, LocalInvalid, LocalAdmit
<1>2. ASSUME NEW a \in Asks, Invalid(a) \/ Lookup(a) \/ Busy(a) \/ RejectSessionOwner(a)
                             \/ RejectInProgress(a) \/ Register(a)
      PROVE  Goal
  BY <1>2 DEF Invalid, Lookup, Busy, RejectSessionOwner, RejectInProgress, Register
<1>3. ASSUME NEW a \in Asks, Reserve(a) PROVE Goal
  BY <1>3 DEF Reserve
<1>4. ASSUME NEW a \in Asks, ReserveFails(a) PROVE Goal
  BY <1>4 DEF ReserveFails
<1>5. ASSUME NEW a \in Asks, Accept(a) \/ AcceptFails(a) \/ TaskDone(a) PROVE Goal
  BY <1>5 DEF Accept, AcceptFails, TaskDone
<1>6. ASSUME NEW a \in Asks, Work(a) PROVE Goal
  BY <1>6 DEF Work, BuildEvidence, Commit, Raise
<1>7. ASSUME NEW a \in Asks, Supervision(a) PROVE Goal
  BY <1>7 DEF Supervision, Timeout, CancelOnTimeout, Resume, Close, StatusOf
<1>8. ASSUME NEW k \in Keys, NEW n \in Nonces, CancelAsk(k, n) PROVE Goal
  BY <1>8 DEF CancelAsk
<1>9. ASSUME NEW n \in Nonces, ExpireToken(n) PROVE Goal
  BY <1>9 DEF ExpireToken
<1>10. ASSUME Crash PROVE Goal
  BY <1>10 DEF Crash
<1>11. ASSUME UNCHANGED vars PROVE Goal
  BY <1>11 DEF vars
<1> HIDE DEF Goal
<1>12. Goal
  BY <1>1, <1>2, <1>3, <1>4, <1>5, <1>6, <1>7, <1>8, <1>9, <1>10, <1>11 DEF Next, Admission
<1> QED
  BY <1>12 DEF Goal

\* Granting keeps the counter equal to the number of reservations.
LEMMA QuotaStep == IInv /\ QuotaInv /\ [Next]_vars => QuotaInv'
<1> SUFFICES ASSUME IInv, QuotaInv, [Next]_vars PROVE QuotaInv'
  OBVIOUS
<1>1. CASE UNCHANGED <<reserved, used>>
  <2>1. Granted' = Granted
    BY <1>1 DEF Granted
  <2>2. \A i \in Granted : reserved[i] \in Asks /\ reserved'[i] = reserved[i]
    BY <1>1 DEF Granted, IInv, TypeOK
  <2> QED
    BY <1>1, <2>1, <2>2, QuotaMoves DEF QuotaInv, QuotaExact, reservation, nonce, key
<1>2. ASSUME NEW a \in Asks, GrantReservation(a), Public,
             pc'[a] \in {"accepting", "closing"}, reply'[a] \notin Unspent
      PROVE  QuotaInv'
  <2>1. reservation(a) \in Reservations /\ reservation(a) \notin Granted
    BY <1>2, KeyType DEF GrantReservation, Granted
  <2>2. Granted' = Granted \cup {reservation(a)}
    BY <1>2, <2>1, AsksAssumption DEF GrantReservation, Granted, IInv, TypeOK
  <2>3. IsFiniteSet(Granted') /\ Cardinality(Granted') = Cardinality(Granted) + 1
    BY <2>1, <2>2, FS_AddElement DEF QuotaInv
  <2>4. used' = Cardinality(Granted') /\ used' <= QuotaLimit
    BY <1>2, <2>3, LimitsAssumption DEF GrantReservation, QuotaInv, QuotaExact, IInv, TypeOK
  <2>5. \A i \in Granted : reserved[i] \in Asks /\ reserved'[i] = reserved[i]
    BY <1>2, <2>1 DEF GrantReservation, Granted, IInv, TypeOK
  <2>6. reserved'[reservation(a)] = a
    BY <1>2, <2>1 DEF GrantReservation, IInv, TypeOK
  <2> QED
    BY <1>2, <2>2, <2>3, <2>4, <2>5, <2>6, QuotaMoves
    DEF QuotaInv, QuotaExact, reservation, nonce, key
<1> QED
  BY <1>1, <1>2, QuotaMoves

\* The quota store's counter is the number of reservations, within the limit, and an
\* ask that was turned away before it reserved has consumed nothing.
THEOREM QuotaCorrect == Spec => []QuotaExact
<1>1. Init => QuotaInv
  <2>1. Init => Granted = {}
    BY DEF Init, Granted
  <2> QED
    BY <2>1, FS_EmptySet, LimitsAssumption DEF Init, QuotaInv, QuotaExact
<1>2. QuotaInv => QuotaExact
  BY DEF QuotaInv
<1> QED
  BY <1>1, <1>2, QuotaStep, InductiveInvariant, PTL DEF Spec


\* A record of the ask ledger only moves forward, and its terminal status is final.
THEOREM LedgerForward == Spec => AuditForward
<1> DEFINE Forward == \A a \in Asks : audit'[a] # audit[a] => AuditRank(audit[a]) < AuditRank(audit'[a])
<1>1. IInv /\ [Next]_vars => [Forward]_vars
  <2> SUFFICES ASSUME IInv, Next PROVE Forward
    BY DEF vars
  <2> USE DEF IInv, TypeOK, ControlInv, LedgerInv, AuditRank, Terminal, Rejections, Outcomes
  <2>1. ASSUME NEW b \in Asks, Receive(b) PROVE Forward
    BY <2>1 DEF Receive
  <2>2. ASSUME NEW b \in Asks, Accept(b) \/ AcceptFails(b) PROVE Forward
    BY <2>2 DEF Accept, AcceptFails
  <2>3. ASSUME NEW b \in Asks, Close(b) PROVE Forward
    BY <2>3 DEF Close, Respond
  <2>4. ASSUME UNCHANGED audit PROVE Forward
    BY <2>4
  <2>5. \/ UNCHANGED audit
        \/ \E b \in Asks : Receive(b) \/ Accept(b) \/ AcceptFails(b) \/ Close(b)
    BY DEF Next, Arrival, Admission, Supervision, Work, Unauthorized, LocalReject,
       LocalInvalid, LocalAdmit, Invalid, Lookup, Busy, RejectSessionOwner, RejectInProgress,
       Register, Reserve, ReserveFails, Timeout, CancelOnTimeout, Resume, BuildEvidence,
       Commit, Raise, TaskDone, CancelAsk, ExpireToken, Crash, durable, vars
  <2> HIDE DEF Forward
  <2> QED
    BY <2>1, <2>2, <2>3, <2>4, <2>5
<1> QED
  BY <1>1, InductiveInvariant, PTL DEF Spec, AuditForward

-----------------------------------------------------------------------------
\* The verdict of every ask but those a step is about stays as it was.
LEMMA VerdictFrame ==
  ASSUME IInv, NEW a \in Asks,
         \A b \in Asks \ {a} : /\ cancelled'[b] = cancelled[b] /\ pc'[b] = pc[b]
                               /\ reply'[b] = reply[b] /\ (b \in stored' <=> b \in stored)
  PROVE  /\ Verdict' = [Verdict EXCEPT ![a] = VerdictOf(a)']
         /\ Verdict[a] = VerdictOf(a)
<1>1. Verdict' = [b \in Asks |-> VerdictOf(b)']
  BY DEF Verdict
<1>2. \A b \in Asks \ {a} : VerdictOf(b)' = VerdictOf(b)
  BY DEF VerdictOf
<1>3. Verdict = [b \in Asks |-> VerdictOf(b)]
  BY DEF Verdict
<1> HIDE DEF VerdictOf
<1> QED
  BY <1>1, <1>2, <1>3


\* A step about one ask that stores nothing, and what it may do to its verdict.
Others(a) == \A b \in Asks \ {a} : /\ cancelled'[b] = cancelled[b] /\ pc'[b] = pc[b]
                                   /\ reply'[b] = reply[b] /\ (b \in stored' <=> b \in stored)
Keeps(a)  == VerdictOf(a)' = VerdictOf(a)
Gives(a)  == /\ VerdictOf(a) = "open"
             /\ \/ a \in stored /\ VerdictOf(a)' = "answered"
                \/ a \notin stored /\ VerdictOf(a)' \in {"withdrawn", "refused"}
                \/ VerdictOf(a)' = "unreported"
Allowed(a) == stored' = stored /\ Others(a) /\ (Keeps(a) \/ Gives(a))

\* Such a step is a step of AskPromise.
LEMMA AllowedRefines ==
  ASSUME IInv, NEW a \in Asks, Allowed(a)
  PROVE  [Promise!Next]_<<Verdict, stored>>
<1>1. /\ Verdict' = [Verdict EXCEPT ![a] = VerdictOf(a)'] /\ Verdict[a] = VerdictOf(a)
      /\ stored' = stored
  BY VerdictFrame DEF Allowed, Others
<1>2. Verdict = [b \in Asks |-> VerdictOf(b)]
  BY DEF Verdict
<1> HIDE DEF VerdictOf
<1>3. CASE Keeps(a)
  BY <1>1, <1>2, <1>3 DEF Keeps
<1>4. CASE Gives(a) /\ VerdictOf(a)' # "unreported"
  BY <1>1, <1>4 DEF Gives, Promise!Next, Promise!Answer, Promise!Withdraw, Promise!Refuse,
                    Promise!Give
<1>5. CASE Gives(a) /\ VerdictOf(a)' = "unreported"
  <2>1. Verdict' = [b \in Asks |-> IF b \in {a} THEN "unreported" ELSE Verdict[b]]
    BY <1>1, <1>2, <1>5
  <2>2. {a} \in SUBSET {b \in Asks : Verdict[b] = "open"}
    BY <1>1, <1>5 DEF Gives
  <2>3. Promise!Lose
    BY <1>1, <2>1, <2>2 DEF Promise!Lose
  <2> QED
    BY <2>3 DEF Promise!Next
<1> QED
  BY <1>3, <1>4, <1>5, <1>1 DEF Allowed

\* Every step of the handler, its task or its environment is a step of AskPromise, or none.
LEMMA StepRefines == IInv /\ [Next]_vars => [Promise!Next]_<<Verdict, stored>>
<1> SUFFICES ASSUME IInv, [Next]_vars PROVE [Promise!Next]_<<Verdict, stored>>
  OBVIOUS
<1> USE DEF durable, volatile, gate, task, Suspend, Decide, Respond, Return, Keeps, Gives,
            Allowed, Others, VerdictOf
<1> DEFINE Known == IInv /\ TypeOK /\ ControlInv /\ TaskInv /\ StatusInv /\ RegistryExact
<1>0. Known
  BY DEF IInv
<1>1. ASSUME NEW a \in Asks, Arrival(a) PROVE Allowed(a)
  BY <1>0, <1>1 DEF Arrival, Unauthorized, Receive, LocalReject, LocalInvalid, LocalAdmit,
     TypeOK, ControlInv, TaskInv
<1>2. ASSUME NEW a \in Asks, Invalid(a) \/ Lookup(a) \/ Busy(a) \/ RejectSessionOwner(a)
                             \/ RejectInProgress(a) \/ Register(a)
      PROVE  Allowed(a)
  BY <1>0, <1>2 DEF Invalid, Lookup, Busy, RejectSessionOwner, RejectInProgress, Register,
     TypeOK, ControlInv
<1>3. ASSUME NEW a \in Asks, Reserve(a) \/ ReserveFails(a) \/ Accept(a) \/ TaskDone(a)
      PROVE  Allowed(a)
  BY <1>0, <1>3 DEF Reserve, ReserveFails, Accept, TaskDone, TypeOK, ControlInv
<1>4. ASSUME NEW a \in Asks, AcceptFails(a) PROVE Allowed(a)
  BY <1>0, <1>4 DEF AcceptFails, TypeOK, ControlInv, TaskInv
<1>5. ASSUME NEW a \in Asks, BuildEvidence(a) \/ Raise(a) PROVE Allowed(a)
  BY <1>0, <1>5 DEF BuildEvidence, Raise, TypeOK
<1>6. ASSUME NEW a \in Asks, Timeout(a) \/ Resume(a) PROVE Allowed(a)
  BY <1>0, <1>6 DEF Timeout, Resume, TypeOK, ControlInv
<1>7. ASSUME NEW a \in Asks, CancelOnTimeout(a) PROVE Allowed(a)
  BY <1>0, <1>7 DEF CancelOnTimeout, TypeOK, ControlInv, TaskInv
<1>8. ASSUME NEW a \in Asks, Close(a) PROVE Allowed(a)
  BY <1>0, <1>8 DEF Close, TypeOK, ControlInv, TaskInv, StatusInv, Justified, Terminal, Rejections,
     Outcomes
<1>9. ASSUME NEW k \in Keys, NEW n \in Nonces, CancelAsk(k, n)
      PROVE  \E a \in Asks : Allowed(a)
  <2>1. PICK a \in Asks : /\ a = registry[k] /\ InFlight(a) /\ a \notin committed
                          /\ cancelled' = [cancelled EXCEPT ![a] = "cancelled"]
                          /\ UNCHANGED <<pc, reply, stored>>
    BY <1>0, <1>9 DEF CancelAsk, TypeOK, RegistryExact
  <2>2. a \notin stored /\ pc[a] # "lost" /\ (pc[a] = "done" => cancelled[a] # "no")
    BY <1>0, <2>1 DEF InFlight, TypeOK, ControlInv, TaskInv
  <2>3. Allowed(a)
    BY <1>0, <2>1, <2>2 DEF TypeOK
  <2> QED
    BY <2>3
<1>10. ASSUME NEW a \in Asks, Commit(a) PROVE [Promise!Next]_<<Verdict, stored>>
  <2>1. Verdict' = Verdict
    <3>1. \A b \in Asks : /\ pc'[b] = pc[b] /\ cancelled'[b] = cancelled[b] /\ reply'[b] = reply[b]
                          /\ b # a => (b \in stored' <=> b \in stored)
      BY <1>10 DEF Commit
    <3>2. \A b \in Asks : VerdictOf(b)' = VerdictOf(b)
      BY <1>0, <1>10, <3>1 DEF Commit, TypeOK, ControlInv, TaskLive
    <3> QED
      BY <3>2 DEF Verdict
  <2>2. CASE cancelled[a] # "no"
    BY <2>1, <2>2, <1>10 DEF Commit
  <2>3. CASE cancelled[a] = "no"
    <3>1. a \notin stored /\ stored' = stored \cup {a} /\ VerdictOf(a) = "open"
      BY <1>0, <1>10, <2>3 DEF Commit, TypeOK, ControlInv, TaskInv, TaskLive
    <3>2. Promise!Store(a)
      BY <2>1, <3>1 DEF Promise!Store, Verdict
    <3> QED
      BY <3>2 DEF Promise!Next
  <2> QED
    BY <2>2, <2>3
<1>11. ASSUME Crash PROVE [Promise!Next]_<<Verdict, stored>>
  <2> DEFINE L == {a \in Asks : pc[a] \notin {"new", "done"} /\ VerdictOf(a) = "open"}
  <2>1. \A a \in Asks : VerdictOf(a)' = IF a \in L THEN "unreported" ELSE VerdictOf(a)
    BY <1>0, <1>11 DEF Crash, TypeOK
  <2>2. stored' = stored
    BY <1>11 DEF Crash
  <2>3. Verdict' = [a \in Asks |-> VerdictOf(a)'] /\ Verdict = [a \in Asks |-> VerdictOf(a)]
    BY DEF Verdict
  <2> HIDE DEF VerdictOf
  <2>4. Verdict' = [a \in Asks |-> IF a \in L THEN "unreported" ELSE Verdict[a]]
    BY <2>1, <2>3
  <2>5. L \in SUBSET {a \in Asks : Verdict[a] = "open"}
    BY <2>3
  <2> HIDE DEF L
  <2>6. Promise!Lose
    BY <2>2, <2>4, <2>5 DEF Promise!Lose
  <2> QED
    BY <2>6 DEF Promise!Next
<1>12. ASSUME NEW n \in Nonces, ExpireToken(n) PROVE UNCHANGED <<Verdict, stored>>
  BY <1>12 DEF ExpireToken, Verdict
<1>13. ASSUME UNCHANGED vars PROVE UNCHANGED <<Verdict, stored>>
  BY <1>13 DEF vars, Verdict
<1> HIDE DEF Allowed, Known, VerdictOf, durable, volatile, gate, task
<1>14. ASSUME NEW a \in Asks, Allowed(a) PROVE [Promise!Next]_<<Verdict, stored>>
  BY <1>14, AllowedRefines
<1> QED
  BY <1>1, <1>2, <1>3, <1>4, <1>5, <1>6, <1>7, <1>8, <1>9, <1>10, <1>11, <1>12, <1>13, <1>14
  DEF Next, Admission, Supervision, Work

\* The whole handler, with its races, its lost replies and its crashes, keeps the
\* promise of AskPromise.
THEOREM PromiseKept == Spec => ImplementsPromise
<1>1. Init => Promise!Init
  BY DEF Init, Promise!Init, Verdict, VerdictOf
<1> QED
  BY <1>1, StepRefines, InductiveInvariant, PTL DEF Spec, ImplementsPromise, Promise!Spec

=============================================================================
