------------------------- MODULE BrowserClientProofs -------------------------
(* Theorems about BrowserClient: for any number of handlers, sessions and    *)
(* tokens, a page continues the session it shows, a renewed token starts a   *)
(* new one, and the history is what happened.  Then SettingsDialog, the      *)
(* dialog of the same page: a save changes what its user edited.             *)
EXTENDS BrowserClient, SettingsDialog, FiniteSetTheorems, TLAPS

\* The records the handlers are, whatever their other fields hold.
AskShape ==
  /\ ask = [a \in Asks |-> ask[a]]
  /\ \A a \in Asks : /\ ask[a] = [stage |-> ask[a].stage, session |-> ask[a].session, gen |-> ask[a].gen]
                     /\ a \in InFlight => ask[a].session \in SessionIds

ResumeShape ==
  /\ resume = [r \in Resumes |-> resume[r]]
  /\ \A r \in Resumes : /\ resume[r] = [stage |-> resume[r].stage, session |-> resume[r].session,
                                        last |-> resume[r].last, state |-> resume[r].state]
                        /\ resume[r].state # "-" => resume[r].stage = "wait"

Shape ==
  /\ bound = [s \in SessionIds |-> bound[s]]
  /\ alive \subseteq SessionIds
  /\ overlapped \in BOOLEAN /\ renewedMidAsk \in BOOLEAN

\* Unless handlers overlapped, one at most waits for the server.
Alone ==
  ~ overlapped =>
    /\ Waiting = {} \/ InFlight = {}
    /\ \A r, q \in Waiting : r = q
    /\ \A a, b \in InFlight : a = b

\* A resume that waits has its own session attached, or none, and does not continue it yet.
ResumeHolds ==
  ~ overlapped => \A r \in Waiting :
    /\ active \in {resume[r].session, Null}
    /\ live # TRUE
    /\ current = Null \/ current.session = resume[r].session

\* Nobody verifies while there is a token, and a promise of one is kept at once.
GoHolds ==
  /\ token \in {"none", "valid", "expired"}
  /\ verifying => token = "none"
  /\ \A r \in Resumes : mode = "public" /\ resume[r].stage = "go" => token # "none"
  /\ \A a \in Asks : AppMode = "public" /\ ask[a].stage = "go" => token # "none"

\* What a public page continues, or is about to, was answered under its token.
TokenHolds ==
  active # Null /\ mode = "public" /\ loaded = "up" /\ ~ overlapped /\ ~ renewedMidAsk =>
    /\ live = TRUE => token # "none" /\ active \in SessionIds /\ bound[active] = gen
    /\ \A r \in Resumes : resume[r].stage = "wait" =>
         /\ token # "none"
         /\ resume[r].state = "live" => active \in SessionIds /\ bound[active] = gen

\* An ask was sent under the token the page holds, or under none.
AskHolds ==
  mode = "public" /\ ~ renewedMidAsk =>
    \A a \in InFlight :
      /\ ask[a].gen # Null => ask[a].gen = gen /\ (~ overlapped => token # "none")
      /\ ask[a].stage = "stored" => ask[a].gen # Null /\ bound[ask[a].session] = gen

PageInv == /\ AskShape /\ ResumeShape /\ Shape /\ Alone
           /\ ResumeHolds /\ GoHolds /\ TokenHolds /\ AskHolds
           /\ ContinuesWhatItShows

-----------------------------------------------------------------------------
\* Fewer handlers that wait need less.
LEMMA FewerWait ==
  ASSUME Alone, Waiting' \subseteq Waiting, InFlight' \subseteq InFlight, overlapped' = overlapped
  PROVE  Alone'
BY DEF Alone

LEMMA StillHeld ==
  ASSUME ResumeHolds, UNCHANGED <<active, live, current, overlapped>>,
         \A r \in Waiting' : r \in Waiting /\ resume'[r].session = resume[r].session
  PROVE  ResumeHolds'
BY DEF ResumeHolds

LEMMA DetachInv == ASSUME PageInv, NewSession \/ ClearHistory PROVE PageInv'
<1> USE DEF PageInv
<1>1. /\ active' = Null /\ live' = FALSE /\ current' = Null
      /\ UNCHANGED <<token, verifying, gen, ask, resume, mode, loaded, alive, verified, bound,
                     overlapped, renewedMidAsk>>
  BY DEF NewSession, ClearHistory, Detach, demo, handlers, page, ghosts
<1>2. AskShape'
  BY <1>1 DEF AskShape, InFlight
<1>3. ResumeShape'
  BY <1>1 DEF ResumeShape
<1>4. Shape'
  BY <1>1 DEF Shape, InFlight
<1>5. Alone'
  BY <1>1 DEF Alone, Waiting, InFlight
<1>6. ResumeHolds'
  BY <1>1 DEF ResumeHolds, InFlight
<1>7. GoHolds'
  BY <1>1 DEF GoHolds, AppMode
<1>8. TokenHolds'
  BY <1>1 DEF TokenHolds, InFlight
<1>9. AskHolds'
  BY <1>1 DEF AskHolds, InFlight
<1>10. ContinuesWhatItShows'
  BY <1>1 DEF ContinuesWhatItShows, InFlight
<1>11. QED
  BY <1>2, <1>3, <1>4, <1>5, <1>6, <1>7, <1>8, <1>9, <1>10

LEMMA Poll401Inv == ASSUME PageInv, Poll401, Settled PROVE PageInv'
<1> USE DEF PageInv
<1>1. /\ token' = "none" /\ active' = Null /\ live' = FALSE /\ renewedMidAsk' = TRUE
      /\ UNCHANGED <<current, verifying, gen, ask, resume, mode, loaded, alive, verified, bound, overlapped>>
  BY DEF Poll401, Detach, handlers, page
<1>2. AskShape'
  BY <1>1 DEF AskShape, InFlight
<1>3. ResumeShape'
  BY <1>1 DEF ResumeShape
<1>4. Shape'
  BY <1>1 DEF Shape, InFlight
<1>5. Alone'
  BY <1>1 DEF Alone, Waiting, InFlight
<1>6. ResumeHolds'
  BY <1>1 DEF ResumeHolds, Waiting, InFlight
<1>7. GoHolds'
  BY <1>1 DEF GoHolds, Settled
<1>8. TokenHolds'
  BY <1>1 DEF TokenHolds, InFlight
<1>9. AskHolds'
  BY <1>1 DEF AskHolds, InFlight
<1>10. ContinuesWhatItShows'
  BY <1>1 DEF ContinuesWhatItShows, InFlight
<1>11. QED
  BY <1>2, <1>3, <1>4, <1>5, <1>6, <1>7, <1>8, <1>9, <1>10

LEMMA LoadFailsInv == ASSUME PageInv, LoadFails PROVE PageInv'
<1> USE DEF PageInv
<1>1. /\ loaded' = "failed"
      /\ UNCHANGED <<active, live, current, token, verifying, gen, ask, resume, mode, alive,
                     verified, bound, overlapped, renewedMidAsk>>
  BY DEF LoadFails, conversation, demo, handlers, ghosts
<1>2. AskShape'
  BY <1>1 DEF AskShape, InFlight
<1>3. ResumeShape'
  BY <1>1 DEF ResumeShape
<1>4. Shape'
  BY <1>1 DEF Shape, InFlight
<1>5. Alone'
  BY <1>1 DEF Alone, Waiting, InFlight
<1>6. ResumeHolds'
  BY <1>1 DEF ResumeHolds, Waiting, InFlight
<1>7. GoHolds'
  BY <1>1 DEF GoHolds, AppMode
<1>8. TokenHolds'
  BY <1>1 DEF TokenHolds, InFlight
<1>9. AskHolds'
  BY <1>1 DEF AskHolds, InFlight
<1>10. ContinuesWhatItShows'
  BY <1>1 DEF ContinuesWhatItShows, InFlight
<1>11. QED
  BY <1>2, <1>3, <1>4, <1>5, <1>6, <1>7, <1>8, <1>9, <1>10

LEMMA ExpireTokenInv == ASSUME PageInv, ExpireToken PROVE PageInv'
<1> USE DEF PageInv
<1>1. /\ token = "valid" /\ token' = "expired"
      /\ UNCHANGED <<active, live, current, verifying, gen, ask, resume, mode, loaded, alive,
                     verified, bound, overlapped, renewedMidAsk>>
  BY DEF ExpireToken, conversation, handlers, page, ghosts
<1>2. AskShape'
  BY <1>1 DEF AskShape, InFlight
<1>3. ResumeShape'
  BY <1>1 DEF ResumeShape
<1>4. Shape'
  BY <1>1 DEF Shape, InFlight
<1>5. Alone'
  BY <1>1 DEF Alone, Waiting, InFlight
<1>6. ResumeHolds'
  BY <1>1 DEF ResumeHolds, Waiting, InFlight
<1>7. GoHolds'
  BY <1>1 DEF GoHolds, AppMode
<1>8. TokenHolds'
  BY <1>1 DEF TokenHolds, InFlight
<1>9. AskHolds'
  BY <1>1 DEF AskHolds, InFlight
<1>10. ContinuesWhatItShows'
  BY <1>1 DEF ContinuesWhatItShows, InFlight
<1>11. QED
  BY <1>2, <1>3, <1>4, <1>5, <1>6, <1>7, <1>8, <1>9, <1>10

LEMMA EndSessionInv == ASSUME PageInv, NEW s \in SessionIds, EndSession(s) PROVE PageInv'
<1> USE DEF PageInv
<1>1. /\ alive' = alive \ {s}
      /\ UNCHANGED <<active, live, current, token, verifying, gen, ask, resume, mode, loaded,
                     verified, bound, overlapped, renewedMidAsk>>
  BY DEF EndSession, conversation, demo, handlers, page, ghosts
<1>2. AskShape'
  BY <1>1 DEF AskShape, InFlight
<1>3. ResumeShape'
  BY <1>1 DEF ResumeShape
<1>4. Shape'
  BY <1>1 DEF Shape, InFlight
<1>5. Alone'
  BY <1>1 DEF Alone, Waiting, InFlight
<1>6. ResumeHolds'
  BY <1>1 DEF ResumeHolds, Waiting, InFlight
<1>7. GoHolds'
  BY <1>1 DEF GoHolds, AppMode
<1>8. TokenHolds'
  BY <1>1 DEF TokenHolds, InFlight
<1>9. AskHolds'
  BY <1>1 DEF AskHolds, InFlight
<1>10. ContinuesWhatItShows'
  BY <1>1 DEF ContinuesWhatItShows, InFlight
<1>11. QED
  BY <1>2, <1>3, <1>4, <1>5, <1>6, <1>7, <1>8, <1>9, <1>10

LEMMA PageAloneInv ==
  ASSUME PageInv, UNCHANGED <<active, live, current, token, verifying, gen, ask, resume,
                              mode, loaded, alive, verified, bound, overlapped, renewedMidAsk>>
  PROVE PageInv'
<1> USE DEF PageInv
<1>1. /\ UNCHANGED <<active, live, current, token, verifying, gen, ask, resume, mode, loaded,
                     alive, verified, bound, overlapped, renewedMidAsk>>
  BY DEF PageInv
<1>2. /\ Waiting' \subseteq Waiting
      /\ InFlight' \subseteq InFlight
      /\ \A q \in Waiting' : resume'[q].session = resume[q].session
  BY DEF Waiting, InFlight
<1>3. AskShape'
  BY DEF AskShape, InFlight
<1>4. ResumeShape'
  BY DEF ResumeShape
<1>5. Shape'
  BY DEF Shape, InFlight
<1>6. Alone'
  BY <1>2, FewerWait
<1>7. ResumeHolds'
  BY <1>2, StillHeld
<1>8. GoHolds'
  BY DEF GoHolds, AppMode
<1>9. TokenHolds'
  BY DEF TokenHolds, InFlight
<1>10. AskHolds'
  BY DEF AskHolds, InFlight
<1>11. ContinuesWhatItShows'
  BY DEF ContinuesWhatItShows, InFlight
<1>12. QED
  BY <1>3, <1>4, <1>5, <1>6, <1>7, <1>8, <1>9, <1>10, <1>11

LEMMA WithdrawInv ==
  ASSUME PageInv, NEW a \in Asks, CancelAsk(a) \/ Abort(a) \/ ServerRefuses(a)
  PROVE PageInv'
<1> USE DEF PageInv
<1>1. /\ ask[a].stage \in {"sent", "withdrawn"}
      /\ \E stage \in {"withdrawn", "aborted", "error", "401"} : ask' = [ask EXCEPT ![a].stage = stage]
      /\ UNCHANGED <<active, live, current, token, verifying, gen, resume, mode, loaded,
                     alive, verified, bound, overlapped, renewedMidAsk>>
  BY DEF CancelAsk, Abort, ServerRefuses, conversation, demo, page, ghosts
<1>2. /\ Waiting' \subseteq Waiting
      /\ InFlight' \subseteq InFlight
      /\ \A q \in Waiting' : resume'[q].session = resume[q].session
  BY <1>1 DEF Waiting, InFlight
<1>3. AskShape'
  BY <1>1 DEF AskShape, InFlight
<1>4. ResumeShape'
  BY <1>1 DEF ResumeShape
<1>5. Shape'
  BY <1>1 DEF Shape, InFlight
<1>6. Alone'
  BY <1>1, <1>2, FewerWait
<1>7. ResumeHolds'
  BY <1>1, <1>2, StillHeld
<1>8. GoHolds'
  BY <1>1 DEF GoHolds, AppMode
<1>9. TokenHolds'
  BY <1>1 DEF TokenHolds, InFlight
<1>10. AskHolds'
  BY <1>1 DEF AskHolds, InFlight
<1>11. ContinuesWhatItShows'
  BY <1>1 DEF ContinuesWhatItShows, InFlight
<1>12. QED
  BY <1>3, <1>4, <1>5, <1>6, <1>7, <1>8, <1>9, <1>10, <1>11

LEMMA ServerStoresInv == ASSUME PageInv, NEW a \in Asks, ServerStores(a) PROVE PageInv'
<1> USE DEF PageInv
<1>1. /\ ask[a].stage = "sent" /\ (mode = "public" => ask[a].gen # Null)
      /\ ask' = [ask EXCEPT ![a].stage = "stored"]
      /\ alive' = alive \cup {ask[a].session}
      /\ bound' = IF mode = "public" THEN [bound EXCEPT ![ask[a].session] = ask[a].gen] ELSE bound
      /\ UNCHANGED <<active, live, current, token, verifying, gen, resume, mode, loaded,
                     verified, overlapped, renewedMidAsk>>
  BY DEF ServerStores, conversation, demo, page, ghosts
<1>2. /\ Waiting' \subseteq Waiting
      /\ InFlight' \subseteq InFlight
      /\ \A q \in Waiting' : resume'[q].session = resume[q].session
  BY <1>1 DEF Waiting, InFlight
<1>3. AskShape'
  BY <1>1 DEF AskShape, InFlight
<1>4. ResumeShape'
  BY <1>1 DEF ResumeShape
<1>5. Shape'
  BY <1>1 DEF AskShape, Shape, InFlight
<1>6. Alone'
  BY <1>1, <1>2, FewerWait
<1>7. ResumeHolds'
  BY <1>1, <1>2, StillHeld
<1>8. GoHolds'
  BY <1>1 DEF GoHolds, AppMode
<1>9. TokenHolds'
  BY <1>1 DEF TokenHolds, AskHolds, InFlight
<1>10. AskHolds'
  BY <1>1 DEF AskShape, Shape, AskHolds, InFlight
<1>11. ContinuesWhatItShows'
  BY <1>1 DEF ContinuesWhatItShows, InFlight
<1>12. QED
  BY <1>3, <1>4, <1>5, <1>6, <1>7, <1>8, <1>9, <1>10, <1>11

LEMMA StateReplyInv == ASSUME PageInv, NEW r \in Resumes, StateReply(r) PROVE PageInv'
<1> USE DEF PageInv
<1>1. /\ resume[r].stage = "wait"
      /\ \E reply \in {"not live", "401", "live"} :
           /\ reply = "live" => resume[r].session \in alive /\ (mode = "public" => bound[resume[r].session] = gen)
           /\ resume' = [resume EXCEPT ![r].state = reply]
      /\ UNCHANGED <<active, live, current, token, verifying, gen, ask, mode, loaded, alive,
                     verified, bound, overlapped, renewedMidAsk>>
  BY DEF StateReply, conversation, demo, page, ghosts
<1>2. PICK reply : resume' = [resume EXCEPT ![r].state = reply]
  BY <1>1
<1>3. \A q \in Resumes : resume'[q].stage = resume[q].stage /\ resume'[q].session = resume[q].session
  BY <1>2 DEF ResumeShape
<1>4. /\ Waiting' \subseteq Waiting
      /\ InFlight' \subseteq InFlight
      /\ \A q \in Waiting' : resume'[q].session = resume[q].session
  BY <1>1, <1>3 DEF Waiting, InFlight
<1>5. AskShape'
  BY <1>1 DEF AskShape, InFlight
<1>6. ResumeShape'
  BY <1>1 DEF ResumeShape
<1>7. Shape'
  BY <1>1 DEF Shape, InFlight
<1>8. Alone'
  BY <1>1, <1>4, FewerWait
<1>9. ResumeHolds'
  BY <1>1, <1>4, StillHeld
<1>10. GoHolds'
  BY <1>1 DEF ResumeShape, GoHolds, AppMode
<1>11. TokenHolds'
  <2>1. SUFFICES ASSUME active # Null, mode = "public", loaded = "up", ~ overlapped, ~ renewedMidAsk
        PROVE  (/\ live = TRUE => token # "none" /\ active \in SessionIds /\ bound[active] = gen
                /\ \A q \in Resumes : resume[q].stage = "wait" =>
                     /\ token # "none"
                     /\ resume[q].state = "live" => active \in SessionIds /\ bound[active] = gen)'
    BY <1>1 DEF TokenHolds
  <2>2. active = resume[r].session
    BY <1>1, <2>1 DEF ResumeHolds, Waiting
  <2>3. \A q \in Resumes : resume'[q].stage = resume[q].stage /\ (q # r => resume'[q].state = resume[q].state)
    BY <1>1 DEF ResumeShape
  <2>4. resume'[r].state = "live" => active \in SessionIds /\ bound[active] = gen
    BY <1>1, <2>1, <2>2 DEF ResumeShape, Shape
  <2>5. QED
    BY <1>1, <2>1, <2>3, <2>4 DEF TokenHolds
<1>12. AskHolds'
  BY <1>1 DEF AskHolds, InFlight
<1>13. ContinuesWhatItShows'
  BY <1>1 DEF ContinuesWhatItShows, InFlight
<1>14. QED
  BY <1>5, <1>6, <1>7, <1>8, <1>9, <1>10, <1>11, <1>12, <1>13

LEMMA ResumeWithTokenInv == ASSUME PageInv, NEW r \in Resumes, ResumeWithToken(r) PROVE PageInv'
<1> USE DEF PageInv
<1>1. /\ resume[r].stage = "go"
      /\ IF active # resume[r].session THEN resume' = [resume EXCEPT ![r] = Ended]
                                       ELSE resume' = [resume EXCEPT ![r].stage = "wait"]
      /\ UNCHANGED <<active, live, current, token, verifying, gen, ask, mode, loaded, alive,
                     verified, bound, overlapped, renewedMidAsk>>
  BY DEF ResumeWithToken, conversation, demo, page, ghosts
<1>2. /\ \A q \in Resumes : q # r => resume'[q] = resume[q]
      /\ resume'[r].stage \in {"wait", "over"}
      /\ resume'[r].stage = "wait" => active = resume[r].session /\ resume'[r].session = resume[r].session
      /\ resume'[r].stage = "wait" => resume'[r].state = resume[r].state
      /\ resume'[r].stage = "over" => resume'[r].state = "-"
      /\ resume'[r] = [stage |-> resume'[r].stage, session |-> resume'[r].session,
                        last |-> resume'[r].last, state |-> resume'[r].state]
  BY <1>1 DEF ResumeShape, Ended, NoResume
<1>3. /\ Waiting' \subseteq Waiting
      /\ InFlight' \subseteq InFlight
      /\ \A q \in Waiting' : resume'[q].session = resume[q].session
  BY <1>1, <1>2 DEF Waiting, InFlight
<1>4. AskShape'
  BY <1>1 DEF AskShape, InFlight
<1>5. ResumeShape'
  BY <1>1, <1>2 DEF ResumeShape
<1>6. Shape'
  BY <1>1 DEF Shape, InFlight
<1>7. Alone'
  BY <1>1, <1>3, FewerWait
<1>8. ResumeHolds'
  BY <1>1, <1>3, StillHeld
<1>9. GoHolds'
  BY <1>1 DEF GoHolds, AppMode
<1>10. TokenHolds'
  BY <1>1, <1>2 DEF ResumeShape, GoHolds, TokenHolds
<1>11. AskHolds'
  BY <1>1 DEF AskHolds, InFlight
<1>12. ContinuesWhatItShows'
  BY <1>1 DEF ContinuesWhatItShows, InFlight
<1>13. QED
  BY <1>4, <1>5, <1>6, <1>7, <1>8, <1>9, <1>10, <1>11, <1>12

LEMMA TurnstilePassesInv == ASSUME PageInv, TurnstilePasses, Settled PROVE PageInv'
<1> USE DEF PageInv
<1>1. /\ verifying /\ ~ verifying' /\ token' = "valid" /\ gen' = gen + 1
      /\ ask' = [a \in Asks |-> IF ask[a].stage = "token" THEN [ask[a] EXCEPT !.stage = "go"] ELSE ask[a]]
      /\ resume' = [r \in Resumes |-> IF resume[r].stage = "token"
                                         THEN [resume[r] EXCEPT !.stage = "go"]
                                         ELSE resume[r]]
      /\ renewedMidAsk' = (renewedMidAsk \/ InFlight # {})
      /\ UNCHANGED <<active, live, current, mode, loaded, alive, verified, bound, overlapped>>
  BY DEF TurnstilePasses, conversation, page, ghosts
<1>2. /\ Waiting' \subseteq Waiting
      /\ InFlight' \subseteq InFlight
      /\ \A q \in Waiting' : resume'[q].session = resume[q].session
  BY <1>1 DEF Waiting, InFlight
<1>3. AskShape'
  BY <1>1 DEF AskShape, InFlight
<1>4. ResumeShape'
  BY <1>1 DEF ResumeShape
<1>5. Shape'
  BY <1>1 DEF Shape, InFlight
<1>6. Alone'
  BY <1>1, <1>2, FewerWait
<1>7. ResumeHolds'
  BY <1>1, <1>2, StillHeld
<1>8. GoHolds'
  BY <1>1 DEF GoHolds, AppMode
<1>9. TokenHolds'
  BY <1>1 DEF ResumeShape, GoHolds, TokenHolds, InFlight
<1>10. AskHolds'
  BY <1>1 DEF AskShape, GoHolds, AskHolds, InFlight
<1>11. ContinuesWhatItShows'
  BY <1>1 DEF ContinuesWhatItShows, InFlight
<1>12. QED
  BY <1>3, <1>4, <1>5, <1>6, <1>7, <1>8, <1>9, <1>10, <1>11

\* A token that is asked for takes the session of an expired one along.
LEMMA PrepareInv == ASSUME PageInv, PrepareFromDialog, Settled PROVE PageInv'
<1> USE DEF PageInv
<1>1. /\ token # "valid"
      /\ IF token = "expired" /\ active # Null
            THEN active' = Null /\ live' = FALSE
            ELSE UNCHANGED <<active, live>>
      /\ token' = "none" /\ verifying' = TRUE
      /\ renewedMidAsk' = (renewedMidAsk \/ (token = "expired" /\ InFlight # {}))
      /\ UNCHANGED <<current, gen, ask, resume, mode, loaded, alive, verified, bound, overlapped>>
  BY DEF PrepareFromDialog, RequestToken, Detach, handlers, page, ghosts
<1>2. AskShape'
  BY <1>1 DEF AskShape, InFlight
<1>3. ResumeShape'
  BY <1>1 DEF ResumeShape
<1>4. Shape'
  BY <1>1 DEF Shape, InFlight
<1>5. Alone'
  BY <1>1 DEF Alone, Waiting, InFlight
<1>6. ResumeHolds'
  BY <1>1 DEF ResumeHolds, Waiting, InFlight
<1>7. GoHolds'
  BY <1>1 DEF GoHolds, Settled
<1>8. TokenHolds'
  BY <1>1 DEF GoHolds, TokenHolds, InFlight
<1>9. AskHolds'
  BY <1>1 DEF GoHolds, AskHolds, InFlight
<1>10. ContinuesWhatItShows'
  BY <1>1 DEF ContinuesWhatItShows, InFlight
<1>11. QED
  BY <1>2, <1>3, <1>4, <1>5, <1>6, <1>7, <1>8, <1>9, <1>10

LEMMA SubmitInv == ASSUME PageInv, NEW a \in Asks, Submit(a), Settled PROVE PageInv'
<1> USE DEF PageInv
<1>1. /\ ask[a].stage = "new"
      /\ \/ /\ AppMode = "local" \/ token = "valid"
            /\ ask' = [ask EXCEPT ![a].stage = "go"]
            /\ UNCHANGED <<active, live, token, verifying, renewedMidAsk>>
         \/ /\ token # "valid"
            /\ ask' = [ask EXCEPT ![a].stage = "token"]
            /\ IF token = "expired" /\ active # Null
                  THEN active' = Null /\ live' = FALSE
                  ELSE UNCHANGED <<active, live>>
            /\ token' = "none" /\ verifying' = TRUE
            /\ renewedMidAsk' = (renewedMidAsk \/ (token = "expired" /\ InFlight # {}))
      /\ UNCHANGED <<current, gen, resume, mode, loaded, alive, verified, bound, overlapped>>
  BY DEF Submit, RequestToken, Detach, conversation, demo, page, ghosts
<1>2. /\ Waiting' \subseteq Waiting
      /\ InFlight' \subseteq InFlight
      /\ \A q \in Waiting' : resume'[q].session = resume[q].session
  BY <1>1 DEF AskShape, Waiting, InFlight
<1>3. \A b \in InFlight' : b \in InFlight /\ ask'[b] = ask[b]
  BY <1>1 DEF AskShape, InFlight
<1>4. AskShape'
  BY <1>1, NullAssumption DEF AskShape, InFlight
<1>5. ResumeShape'
  BY <1>1 DEF ResumeShape
<1>6. Shape'
  BY <1>1 DEF Shape, InFlight
<1>7. Alone'
  BY <1>1, <1>2, FewerWait
<1>8. ResumeHolds'
  BY <1>1 DEF ResumeHolds, Waiting, InFlight
<1>9. GoHolds'
  BY <1>1 DEF AskShape, GoHolds, AppMode, Settled
<1>10. TokenHolds'
  BY <1>1 DEF GoHolds, TokenHolds, InFlight
<1>11. AskHolds'
  BY <1>1, <1>3 DEF AskHolds, GoHolds
<1>12. ContinuesWhatItShows'
  BY <1>1 DEF ContinuesWhatItShows, InFlight
<1>13. QED
  BY <1>4, <1>5, <1>6, <1>7, <1>8, <1>9, <1>10, <1>11, <1>12

LEMMA TurnstileFailsInv == ASSUME PageInv, TurnstileFails PROVE PageInv'
<1> USE DEF PageInv
<1>1. /\ verifying /\ verifying' = FALSE
      /\ ask' = [a \in Asks |-> IF ask[a].stage = "token" THEN NoAsk ELSE ask[a]]
      /\ resume' = [r \in Resumes |-> IF resume[r].stage = "token" THEN Ended ELSE resume[r]]
      /\ (active' = Null /\ live' = FALSE) \/ UNCHANGED <<active, live>>
      /\ UNCHANGED <<current, token, gen, mode, loaded, alive, verified, bound, overlapped, renewedMidAsk>>
  BY DEF TurnstileFails, Detach, conversation, page, ghosts
<1>2. /\ Waiting' \subseteq Waiting
      /\ InFlight' \subseteq InFlight
      /\ \A q \in Waiting' : resume'[q].session = resume[q].session
  BY <1>1 DEF Waiting, InFlight, NoAsk, Ended, NoResume
<1>3. /\ \A a \in Asks : ask'[a] = ask[a] \/ ask'[a] = NoAsk
      /\ \A r \in Resumes : resume'[r] = resume[r] \/ resume'[r] = Ended
  BY <1>1
<1>4. \A b \in Asks : ask'[b] = [stage |-> ask'[b].stage, session |-> ask'[b].session, gen |-> ask'[b].gen]
  BY <1>1 DEF AskShape, NoAsk
<1>5. \A b \in InFlight' : b \in InFlight /\ ask'[b] = ask[b]
  BY <1>3 DEF InFlight, NoAsk
<1>6. AskShape'
  BY <1>1, <1>4, <1>5 DEF AskShape
<1>7. ResumeShape'
  BY <1>1 DEF ResumeShape, Ended, NoResume
<1>8. Shape'
  BY <1>1 DEF Shape, InFlight
<1>9. Alone'
  BY <1>1, <1>2, FewerWait
<1>10. ResumeHolds'
  BY <1>1, <1>2 DEF ResumeHolds
<1>11. GoHolds'
  BY <1>1 DEF GoHolds, NoAsk, Ended, AppMode
<1>12. TokenHolds'
  BY <1>1 DEF TokenHolds, Ended, NoResume
<1>13. AskHolds'
  BY <1>1 DEF AskHolds, InFlight, NoAsk
<1>14. ContinuesWhatItShows'
  BY <1>1 DEF ContinuesWhatItShows, InFlight
<1>15. QED
  BY <1>6, <1>7, <1>8, <1>9, <1>10, <1>11, <1>12, <1>13, <1>14

\* An ask that is sent is alone, or the page remembers that it was not.
LEMMA SendInv == ASSUME PageInv, NEW a \in Asks, Send(a) PROVE PageInv'
<1> USE DEF PageInv
<1>1. /\ ask[a].stage = "go"
      /\ \E s \in SessionIds : ask' = [ask EXCEPT ![a] = [stage |-> "sent", session |-> s,
                                                       gen |-> IF AppMode = "public" THEN gen ELSE Null]]
      /\ current' = Null
      /\ overlapped' = (overlapped \/ Waiting # {} \/ InFlight # {})
      /\ UNCHANGED <<active, live, token, verifying, gen, resume, mode, loaded, alive,
                     verified, bound, renewedMidAsk>>
  BY DEF Send, conversation, demo, page
<1>2. PICK s \in SessionIds : ask' = [ask EXCEPT ![a] = [stage |-> "sent", session |-> s,
                                                           gen |-> IF AppMode = "public" THEN gen ELSE Null]]
  BY <1>1
<1>3. /\ ask'[a] = [stage |-> "sent", session |-> s, gen |-> IF AppMode = "public" THEN gen ELSE Null]
      /\ \A b \in Asks \ {a} : ask'[b] = ask[b]
      /\ ask' = [b \in Asks |-> ask'[b]]
  BY <1>2 DEF AskShape
<1>4. InFlight' = InFlight \cup {a} /\ Waiting' = Waiting
  BY <1>1, <1>3 DEF InFlight, Waiting
<1>5. AskShape'
  BY <1>3, <1>4 DEF AskShape
<1>6. ResumeShape'
  BY <1>1 DEF ResumeShape
<1>7. Shape'
  BY <1>1 DEF Shape, InFlight
<1>8. Alone'
  BY <1>1, <1>4 DEF Alone
<1>9. ResumeHolds'
  BY <1>1, <1>4 DEF ResumeHolds
<1>10. GoHolds'
  BY <1>1 DEF GoHolds, AppMode
<1>11. TokenHolds'
  BY <1>1 DEF TokenHolds, InFlight
<1>12. AskHolds'
  BY <1>1, <1>3, <1>4 DEF AskHolds, GoHolds, Shape
<1>13. ContinuesWhatItShows'
  BY <1>1 DEF ContinuesWhatItShows, InFlight
<1>14. QED
  BY <1>5, <1>6, <1>7, <1>8, <1>9, <1>10, <1>11, <1>12, <1>13

LEMMA AnsweredInv == ASSUME PageInv, NEW a \in Asks, Answered(a) PROVE PageInv'
<1> USE DEF PageInv
<1>1. /\ ask[a].stage = "stored"
      /\ active' = ask[a].session /\ live' = TRUE
      /\ current' = [session |-> ask[a].session, answer |-> a]
      /\ verified' = verified \cup {ask[a].session}
      /\ ask' = [ask EXCEPT ![a] = [stage |-> "over", session |-> @.session, gen |-> Null]]
      /\ overlapped' = (overlapped /\ ~AnsweredAlone(a))
      /\ UNCHANGED <<token, verifying, gen, resume, mode, loaded, alive, bound, renewedMidAsk>>
  BY DEF Answered, demo, page
<1>2. /\ Waiting' \subseteq Waiting
      /\ InFlight' \subseteq InFlight
      /\ \A q \in Waiting' : resume'[q].session = resume[q].session
  BY <1>1 DEF Waiting, InFlight
<1>15. ~ overlapped' => ~ overlapped \/ AnsweredAlone(a)
  BY <1>1 DEF Shape
<1>16. ASSUME AnsweredAlone(a)
       PROVE  Waiting' = {} /\ InFlight' = {} /\ (mode = "public" => token # "none")
  BY <1>1, <1>2, <1>16 DEF AnsweredAlone, InFlight, AskShape
<1>3. a \in InFlight
  BY <1>1 DEF InFlight
<1>4. /\ ask'[a] = [stage |-> "over", session |-> ask[a].session, gen |-> Null]
      /\ \A b \in Asks \ {a} : ask'[b] = ask[b]
      /\ ask' = [b \in Asks |-> ask'[b]]
  BY <1>1 DEF AskShape
<1>5. AskShape'
  BY <1>4 DEF AskShape, InFlight
<1>6. ResumeShape'
  BY <1>1 DEF ResumeShape
<1>7. Shape'
  BY <1>1 DEF Shape, InFlight
<1>8. Alone'
  <2>1. CASE overlapped' = overlapped
    BY <1>2, <2>1, FewerWait
  <2>2. CASE overlapped' # overlapped
    BY <1>1, <1>15, <1>16, <2>2 DEF Shape, Alone
  <2> QED BY <2>1, <2>2
<1>9. ResumeHolds'
  BY <1>1, <1>2, <1>3, <1>15, <1>16 DEF Alone, ResumeHolds
<1>10. GoHolds'
  BY <1>1 DEF GoHolds, AppMode
<1>11. TokenHolds'
  <2> SUFFICES ASSUME mode = "public", loaded = "up", ~ overlapped', ~ renewedMidAsk
               PROVE  /\ token # "none" /\ ask[a].session \in SessionIds /\ bound[ask[a].session] = gen
                      /\ \A r \in Resumes : resume[r].stage # "wait"
    BY <1>1 DEF TokenHolds
  <2>1. ask[a].session \in SessionIds /\ bound[ask[a].session] = gen /\ ask[a].gen # Null
    BY <1>1, <1>3 DEF AskShape, AskHolds
  <2>2. CASE ~ overlapped
    BY <1>3, <2>1, <2>2 DEF AskHolds, Alone, Waiting
  <2>3. CASE AnsweredAlone(a)
    BY <2>1, <2>3 DEF AnsweredAlone, Waiting
  <2> QED BY <1>15, <2>1, <2>2, <2>3
<1>12. AskHolds'
  BY <1>1, <1>2, <1>4, <1>15, <1>16 DEF AskHolds, InFlight
<1>13. ContinuesWhatItShows'
  BY <1>1 DEF ContinuesWhatItShows
<1>14. QED
  BY <1>5, <1>6, <1>7, <1>8, <1>9, <1>10, <1>11, <1>12, <1>13

LEMMA FailedInv == ASSUME PageInv, NEW a \in Asks, Failed(a), Settled PROVE PageInv'
<1> USE DEF PageInv
<1>1. /\ ask[a].stage \in {"error", "401", "aborted"}
      /\ IF ask[a].stage = "401" /\ AppMode = "public" THEN token' = "none" /\ active' = Null /\ live' = FALSE
                                                     ELSE UNCHANGED <<token, active, live>>
      /\ current' \in {current, Null}
      /\ ask' = [ask EXCEPT ![a] = [stage |-> "over", session |-> @.session, gen |-> Null]]
      /\ UNCHANGED <<verifying, gen, resume, mode, loaded, alive, verified, bound, overlapped, renewedMidAsk>>
  BY DEF Failed, Detach, conversation, page, ghosts
<1>2. /\ Waiting' \subseteq Waiting
      /\ InFlight' \subseteq InFlight
      /\ \A q \in Waiting' : resume'[q].session = resume[q].session
  BY <1>1 DEF Waiting, InFlight
<1>3. a \in InFlight /\ a \notin InFlight'
  BY <1>1 DEF AskShape, InFlight
<1>4. /\ ask'[a] = [stage |-> "over", session |-> ask[a].session, gen |-> Null]
      /\ \A b \in Asks \ {a} : ask'[b] = ask[b]
      /\ ask' = [b \in Asks |-> ask'[b]]
  BY <1>1 DEF AskShape
<1>5. AskShape'
  BY <1>4 DEF AskShape, InFlight
<1>6. ResumeShape'
  BY <1>1 DEF ResumeShape
<1>7. Shape'
  BY <1>1 DEF Shape, InFlight
<1>8. Alone'
  BY <1>1, <1>2, FewerWait
<1>9. ResumeHolds'
  BY <1>1, <1>2 DEF ResumeHolds
<1>10. GoHolds'
  BY <1>1 DEF GoHolds, Settled
<1>11. TokenHolds'
  BY <1>1 DEF TokenHolds, InFlight
<1>12. AskHolds'
  BY <1>1, <1>2, <1>3 DEF Alone, AskHolds
<1>13. ContinuesWhatItShows'
  BY <1>1 DEF ContinuesWhatItShows, InFlight
<1>14. QED
  BY <1>5, <1>6, <1>7, <1>8, <1>9, <1>10, <1>11, <1>12, <1>13

\* A reload forgets every handler.
LEMMA ReloadInv == ASSUME PageInv, Reload PROVE PageInv'
<1> USE DEF PageInv
<1>1. /\ loaded' = "loading" /\ active' = Null /\ live' = FALSE /\ current' = Null /\ verifying' = FALSE
      /\ ask' = [a \in Asks |-> IF ask[a].stage = "new"
                                   THEN NoAsk
                                   ELSE [stage |-> "over", session |-> ask[a].session, gen |-> Null]]
      /\ resume' = [r \in Resumes |-> IF resume[r].stage = "new" THEN NoResume ELSE Ended]
      /\ verified' = {} /\ overlapped' = FALSE
      /\ UNCHANGED <<token, gen, mode, alive, bound, renewedMidAsk>>
  BY DEF Reload
<1>2. \A a \in Asks : ask'[a].stage \in {"new", "over"}
  BY <1>1 DEF NoAsk
<1>3. \A r \in Resumes : resume'[r] \in {NoResume, Ended}
  BY <1>1
<1>4. \A r \in Resumes : resume'[r].stage \in {"new", "over"}
  BY <1>3 DEF NoResume, Ended
<1>5. Waiting' = {} /\ InFlight' = {}
  BY <1>2, <1>4 DEF Waiting, InFlight
<1>6. AskShape'
  BY <1>1, <1>5 DEF AskShape, NoAsk
<1>7. ResumeShape'
  BY <1>1 DEF ResumeShape, NoResume, Ended
<1>8. Shape'
  BY <1>1 DEF Shape, InFlight
<1>9. Alone'
  BY <1>5 DEF Alone
<1>10. ResumeHolds'
  BY <1>5 DEF ResumeHolds
<1>11. GoHolds'
  BY <1>1, <1>2, <1>4 DEF GoHolds
<1>12. TokenHolds'
  BY <1>1 DEF TokenHolds
<1>13. AskHolds'
  BY <1>5 DEF AskHolds
<1>14. ContinuesWhatItShows'
  BY <1>1 DEF ContinuesWhatItShows
<1>15. QED
  BY <1>6, <1>7, <1>8, <1>9, <1>10, <1>11, <1>12, <1>13, <1>14

\* A resume that begins is alone, or the page remembers that it was not.
LEMMA BeginResumeInv ==
  ASSUME PageInv, NEW r \in Resumes, NEW e, BeginResume(r, e), Settled, loaded' \in {loaded, "up"}
  PROVE  PageInv'
<1> USE DEF PageInv
<1>1. /\ resume[r].stage = "new"
      /\ overlapped' = (overlapped \/ Waiting # {} \/ InFlight # {})
      /\ current' = Null \/ current'.session = e.id
      /\ \E stage \in {"over", "wait", "token"} :
           /\ stage = "over" => resume' = [resume EXCEPT ![r] = Ended] /\ active' = Null /\ live' = FALSE
           /\ stage # "over" =>
                /\ resume' = [resume EXCEPT ![r] = [NoResume EXCEPT !.stage = stage, !.session = e.id, !.last = e.last]]
                /\ (active' = e.id /\ live' = Null) \/ (active' = Null /\ live' = FALSE)
           /\ stage # "token" => /\ mode = "local" \/ token = "valid" \/ stage = "over"
                                 /\ UNCHANGED <<token, verifying, renewedMidAsk>>
           /\ stage = "token" => /\ token' = "none" /\ verifying' = TRUE
                                 /\ renewedMidAsk' = (renewedMidAsk \/ (token = "expired" /\ InFlight # {}))
      /\ UNCHANGED <<gen, ask, mode, alive, verified, bound>>
  <2>1. CASE mode = "public" /\ e.last = Null
    BY <2>1 DEF BeginResume, Detach, demo
  <2>2. CASE ~ (mode = "public" /\ e.last = Null) /\ (mode = "local" \/ token = "valid")
    BY <2>2 DEF BeginResume, demo
  <2>3. CASE ~ (mode = "public" /\ e.last = Null) /\ ~ (mode = "local" \/ token = "valid")
    BY <2>3 DEF BeginResume, RequestToken, Detach
  <2>4. QED
    BY <2>1, <2>2, <2>3
<1>2. /\ \A q \in Resumes \ {r} : resume'[q] = resume[q]
      /\ resume' = [q \in Resumes |-> resume'[q]]
      /\ resume'[r] = [stage |-> resume'[r].stage, session |-> resume'[r].session,
                       last |-> resume'[r].last, state |-> "-"]
      /\ resume'[r].stage \in {"over", "wait", "token"}
      /\ resume'[r].stage = "over" => active' = Null /\ live' = FALSE
      /\ resume'[r].stage # "over" => /\ resume'[r].session = e.id
                                      /\ (active' = e.id /\ live' = Null) \/ (active' = Null /\ live' = FALSE)
      /\ resume'[r].stage = "wait" => mode = "local" \/ token = "valid"
      /\ \/ UNCHANGED <<token, verifying, renewedMidAsk>>
         \/ /\ resume'[r].stage = "token" /\ token' = "none" /\ verifying' = TRUE
            /\ renewedMidAsk' = (renewedMidAsk \/ (token = "expired" /\ InFlight # {}))
  BY <1>1 DEF ResumeShape, Ended, NoResume
<1>3. Waiting' \subseteq Waiting \cup {r} /\ InFlight' = InFlight
  BY <1>1, <1>2 DEF Waiting, InFlight
<1>4. live' # TRUE
  BY <1>2, NullAssumption
<1>5. AskShape'
  BY <1>1, <1>3 DEF AskShape
<1>6. ResumeShape'
  BY <1>2 DEF ResumeShape
<1>7. Shape'
  BY <1>1 DEF Shape
<1>8. Alone'
  BY <1>1, <1>3 DEF Alone
<1>9. ResumeHolds'
  <2>1. SUFFICES ASSUME ~ overlapped', NEW q \in Waiting'
        PROVE  /\ active' \in {resume'[q].session, Null}
               /\ current' = Null \/ current'.session = resume'[q].session
    BY <1>4 DEF ResumeHolds
  <2>2. q = r /\ resume'[r].stage # "over"
    BY <1>1, <1>3, <2>1 DEF Waiting
  <2>3. resume'[q].session = e.id /\ (active' = e.id \/ active' = Null)
    <3>1. resume'[r].session = e.id
      BY <1>1, <2>2 DEF ResumeShape, NoResume, Ended
    <3>2. active' = e.id \/ active' = Null
      BY <1>2, <2>2
    <3>3. QED
      BY <2>2, <3>1, <3>2
  <2>4. QED
    BY <1>1, <2>3
<1>10. GoHolds'
  BY <1>1, <1>2 DEF GoHolds, Settled
<1>11. TokenHolds'
  <2>1. SUFFICES ASSUME mode = "public", ~ overlapped', NEW q \in Resumes, resume'[q].stage = "wait"
        PROVE  token' # "none" /\ resume'[q].state # "live"
    BY <1>1, <1>4 DEF TokenHolds
  <2>2. q \in Waiting' /\ Waiting = {}
    BY <1>1, <2>1 DEF Waiting
  <2>3. q = r
    BY <1>3, <2>2
  <2>4. QED
    BY <1>2, <2>1, <2>3
<1>12. AskHolds'
  <2>1. SUFFICES ASSUME mode = "public", ~ renewedMidAsk', NEW a \in InFlight
        PROVE  /\ ask[a].gen # Null => ask[a].gen = gen /\ overlapped'
               /\ ask[a].stage = "stored" => ask[a].gen # Null /\ bound[ask[a].session] = gen
    BY <1>1, <1>3 DEF AskHolds
  <2>2. ~ renewedMidAsk /\ overlapped'
    <3>1. renewedMidAsk' = renewedMidAsk \/ renewedMidAsk' = (renewedMidAsk \/ (token = "expired" /\ InFlight # {}))
      BY <1>2
    <3>2. ~ renewedMidAsk
      BY <2>1, <3>1, Zenon
    <3>3. InFlight # {}
      BY <2>1
    <3>4. overlapped' = (overlapped \/ Waiting # {} \/ InFlight # {})
      BY <1>1
    <3> QED BY <3>2, <3>3, <3>4, Zenon
  <2>3. QED
    BY <2>1, <2>2 DEF AskHolds
<1>13. ContinuesWhatItShows'
  BY <1>4 DEF ContinuesWhatItShows
<1>14. QED
  BY <1>5, <1>6, <1>7, <1>8, <1>9, <1>10, <1>11, <1>12, <1>13

LEMMA ResumedInv == ASSUME PageInv, NEW r \in Resumes, Resumed(r), Settled PROVE PageInv'
<1> USE DEF PageInv
<1>1. /\ resume[r].stage = "wait"
      /\ token' = IF resume[r].state = "401" THEN "none" ELSE token
      /\ verified' = IF resume[r].state = "live" THEN verified \cup {resume[r].session} ELSE verified
      /\ resume' = [resume EXCEPT ![r] = Ended]
      /\ renewedMidAsk' = (renewedMidAsk \/ (resume[r].state = "401" /\ InFlight # {}))
      /\ current' \in {current, Null} \/ current'.session = resume[r].session
      /\ \/ active' = Null /\ live' = FALSE
         \/ resume[r].state = "live" /\ live' = TRUE /\ active' = active
         \/ mode = "local" /\ current' = Null /\ active # resume[r].session /\ UNCHANGED <<active, live>>
      /\ UNCHANGED <<verifying, gen, ask, mode, loaded, alive, bound, overlapped>>
  BY DEF Resumed, ContinueIfLive, Detach, conversation, page
<1>2. /\ resume'[r] = Ended
      /\ \A q \in Resumes \ {r} : resume'[q] = resume[q]
      /\ resume' = [q \in Resumes |-> resume'[q]]
  BY <1>1 DEF ResumeShape
<1>3. /\ Waiting' \subseteq Waiting
      /\ InFlight' \subseteq InFlight
      /\ \A q \in Waiting' : resume'[q].session = resume[q].session
  BY <1>1 DEF Waiting, InFlight, Ended, NoResume
<1>4. r \in Waiting /\ r \notin Waiting'
  BY <1>1, <1>2 DEF Waiting, Ended, NoResume
<1>5. AskShape'
  BY <1>1 DEF AskShape, InFlight
<1>6. ResumeShape'
  BY <1>1 DEF ResumeShape, Ended, NoResume
<1>7. Shape'
  BY <1>1 DEF Shape
<1>8. Alone'
  BY <1>1, <1>3, FewerWait
<1>9. ResumeHolds'
  BY <1>1, <1>3, <1>4 DEF Alone, ResumeHolds
<1>10. GoHolds'
  BY <1>1 DEF GoHolds, Settled, Ended, NoResume
<1>11. TokenHolds'
  BY <1>1 DEF TokenHolds, NoResume
<1>12. AskHolds'
  BY <1>1 DEF AskHolds, InFlight
<1>13. ContinuesWhatItShows'
  BY <1>1, <1>4 DEF ResumeHolds, ContinuesWhatItShows
<1>14. QED
  BY <1>5, <1>6, <1>7, <1>8, <1>9, <1>10, <1>11, <1>12, <1>13

LEMMA InitInv == ClientInit => PageInv
<1> SUFFICES ASSUME ClientInit PROVE PageInv
  OBVIOUS
<1>1. /\ ask = [a \in Asks |-> NoAsk] /\ resume = [r \in Resumes |-> NoResume]
      /\ bound = [s \in SessionIds |-> 0] /\ ~ verifying /\ ~ overlapped /\ ~ renewedMidAsk
      /\ active = Null /\ live = FALSE /\ alive = Ids(store)
      /\ token \in {"none", "valid", "expired"}
      /\ overlapped \in BOOLEAN /\ renewedMidAsk \in BOOLEAN
  BY DEF ClientInit
<1>2. Waiting = {} /\ InFlight = {}
  BY <1>1 DEF Waiting, InFlight, NoAsk, NoResume
<1>3. alive \subseteq SessionIds
  BY DEF ClientInit, Ids
<1>4. AskShape
  BY <1>1, <1>2 DEF AskShape, NoAsk
<1>5. ResumeShape
  BY <1>1 DEF ResumeShape, NoResume
<1>6. Shape /\ Alone /\ ResumeHolds /\ AskHolds
  BY <1>1, <1>2, <1>3 DEF Shape, Alone, ResumeHolds, AskHolds
<1>7. GoHolds /\ TokenHolds /\ ContinuesWhatItShows
  BY <1>1 DEF GoHolds, TokenHolds, ContinuesWhatItShows, NoAsk, NoResume
<1>8. QED
  BY <1>4, <1>5, <1>6, <1>7 DEF PageInv

LEMMA LoadInv == ASSUME PageInv, NEW r \in Resumes, Load(r), Settled PROVE PageInv'
<1>1. loaded' = "up"
  BY DEF Load
<1>2. ASSUME NEW e, BeginResume(r, e) PROVE PageInv'
  BY <1>1, <1>2, BeginResumeInv
<1>3. CASE activeKey \in Ids(store)
  BY <1>2, <1>3 DEF Load
<1>4. CASE activeKey \notin Ids(store)
  <2> USE DEF PageInv
  <2>1. /\ active' = Null /\ live' = FALSE
        /\ UNCHANGED <<current, token, verifying, gen, ask, resume, mode, alive, verified,
                       bound, overlapped, renewedMidAsk>>
    BY <1>4 DEF Load, demo, handlers, ghosts
  <2>2. AskShape' /\ ResumeShape' /\ Shape' /\ Alone' /\ AskHolds'
    BY <2>1 DEF AskShape, ResumeShape, Shape, Alone, AskHolds, Waiting, InFlight
  <2>3. ResumeHolds' /\ TokenHolds' /\ ContinuesWhatItShows'
    BY <2>1 DEF ResumeHolds, TokenHolds, ContinuesWhatItShows, Waiting
  <2>4. GoHolds'
    BY <2>1 DEF GoHolds, Settled, AppMode
  <2>5. QED
    BY <2>2, <2>3, <2>4
<1>5. QED
  BY <1>3, <1>4

LEMMA QuietInv ==
  ASSUME PageInv, ClientError \/ (\E s \in SessionIds : RemoveEntry(s)) \/ UNCHANGED clientVars
  PROVE  PageInv'
<1>1. UNCHANGED <<active, live, current, token, verifying, gen, ask, resume, mode, loaded,
                  alive, verified, bound, overlapped, renewedMidAsk>>
  BY DEF ClientError, RemoveEntry, clientVars, conversation, demo, handlers, page, ghosts
<1>2. QED
  BY <1>1, PageAloneInv

LEMMA InvStep == PageInv /\ [ClientNext]_clientVars => PageInv'
<1> SUFFICES ASSUME PageInv, [ClientNext]_clientVars PROVE PageInv'
  OBVIOUS
<1>1. CASE Settled /\ Events
  <2>1. ASSUME NEW r \in Resumes, ResumeClick(r) PROVE PageInv'
    <3>1. PICK k \in DOMAIN sessions : BeginResume(r, sessions[k])
      BY <2>1 DEF ResumeClick
    <3>2. loaded' = loaded
      BY <2>1 DEF ResumeClick
    <3>3. QED
      BY <1>1, <3>1, <3>2, BeginResumeInv
  <2>2. ASSUME NEW r \in Resumes, Load(r) \/ StateReply(r) \/ Resumed(r) PROVE PageInv'
    BY <1>1, <2>2, LoadInv, StateReplyInv, ResumedInv
  <2>3. ASSUME NEW a \in Asks, Submit(a) \/ ServerStores(a) \/ ServerRefuses(a) PROVE PageInv'
    BY <1>1, <2>3, SubmitInv, ServerStoresInv, WithdrawInv
  <2>4. ASSUME NEW a \in Asks, Answered(a) \/ Failed(a) \/ CancelAsk(a) \/ Abort(a) PROVE PageInv'
    BY <1>1, <2>4, AnsweredInv, FailedInv, WithdrawInv
  <2>5. CASE LoadFails \/ PrepareFromDialog \/ TurnstilePasses \/ TurnstileFails \/ Poll401
    BY <1>1, <2>5, LoadFailsInv, PrepareInv, TurnstilePassesInv, TurnstileFailsInv, Poll401Inv
  <2>6. CASE NewSession \/ ClearHistory \/ ClientError \/ Reload \/ ExpireToken
    BY <2>6, DetachInv, QuietInv, ReloadInv, ExpireTokenInv
  <2>7. ASSUME NEW s \in SessionIds, RemoveEntry(s) \/ EndSession(s) PROVE PageInv'
    BY <2>7, QuietInv, EndSessionInv
  <2>8. QED
    BY <1>1, <2>1, <2>2, <2>3, <2>4, <2>5, <2>6, <2>7 DEF Events
<1>2. ASSUME NEW r \in Resumes, ResumeWithToken(r) PROVE PageInv'
  BY <1>2, ResumeWithTokenInv
<1>3. ASSUME NEW a \in Asks, Send(a) PROVE PageInv'
  BY <1>3, SendInv
<1>4. CASE UNCHANGED clientVars
  BY <1>4, QuietInv
<1>5. QED
  BY <1>1, <1>2, <1>3, <1>4 DEF ClientNext

-----------------------------------------------------------------------------
\* The inductive invariant of the page (app.js).
THEOREM PageInvariant == ClientSpec => []PageInv
<1>1. QED
  BY InitInv, InvStep, PTL DEF ClientSpec

\* A page continues only a session the server has confirmed, and the one whose
\* answer it shows, unless two of its handlers overlapped.
THEOREM WhatIsShownContinues == ClientSpec => []ContinuesWhatItShows
<1>1. PageInv => ContinuesWhatItShows
  BY DEF PageInv
<1>2. QED
  BY <1>1, PageInvariant, PTL

\* What a public page continues was last answered under the token it holds,
\* unless the token went while an ask was in flight.
THEOREM TokensDoNotMix == ClientSpec => []RenewedTokenStartsNewSession
<1>1. PageInv => RenewedTokenStartsNewSession
  BY DEF PageInv, TokenHolds, RenewedTokenStartsNewSession
<1>2. QED
  BY <1>1, PageInvariant, PTL

-----------------------------------------------------------------------------
\* The history (sessions, store): an entry that shows an ask is one of the answers given.
Entries == [id : SessionIds, last : Asks \cup {Old, Null}]

Honest(list, given) ==
  /\ list \in Seq(Entries)
  /\ \A k \in 1 .. Len(list) : list[k].last \in Asks => list[k] \in given
  /\ \A j, k \in 1 .. Len(list) : list[j].id = list[k].id => j = k

\* A reply on its way is that of a stored answer.
RepliesAreAnswers ==
  \A a \in Asks : ask[a].stage = "stored" => [id |-> ask[a].session, last |-> a] \in answered

HistoryInv ==
  /\ loaded = "up" => sessions = store
  /\ Honest(sessions, answered) /\ Honest(store, answered)
  /\ RepliesAreAnswers

\* What was answered stays so.
LEMMA StaysHonest ==
  ASSUME NEW list, NEW before, NEW after, Honest(list, before), before \subseteq after
  PROVE  Honest(list, after)
BY DEF Honest

\* Distinct places from 1 up to the size of a set are all taken.
LEMMA PlacesAreTaken ==
  ASSUME NEW S, IsFiniteSet(S), NEW place \in [S -> 1 .. Cardinality(S)],
         \A r, s \in S : place[r] = place[s] => r = s
  PROVE  \A i \in 1 .. Cardinality(S) : \E r \in S : place[r] = i
<1> DEFINE n == Cardinality(S)
<1>1. n \in Nat
  BY FS_CardinalityType
<1>2. IsFiniteSet(1 .. n) /\ Cardinality(1 .. n) = n
  BY <1>1, FS_Interval
<1>3. place \in Injection(S, 1 .. n)
  BY DEF Injection, IsInjective
<1>4. place \in Surjection(S, 1 .. n)
  BY <1>2, <1>3, FS_Injection
<1> QED BY <1>4 DEF Surjection

\* A filtered list has the entries of the other ids, in their order.
LEMMA WithoutKeeps ==
  ASSUME NEW list \in Seq(Entries), NEW id
  PROVE  LET rest == Without(list, id)
         IN  /\ rest \in Seq(Entries)
             /\ \E at \in [1 .. Len(rest) -> 1 .. Len(list)] :
                  /\ \A n \in 1 .. Len(rest) : rest[n] = list[at[n]] /\ rest[n].id # id
                  /\ \A m, n \in 1 .. Len(rest) : m < n => at[m] < at[n]
<1> DEFINE kept == Kept(list, id)
           size == Cardinality(kept)
           Place(k) == Cardinality({j \in kept : j <= k})
           at == [n \in 1 .. size |-> CHOOSE k \in kept : Place(k) = n]
           rest == Without(list, id)
<1>1. kept \subseteq 1 .. Len(list) /\ \A k \in kept : list[k] \in Entries /\ list[k].id # id
  BY DEF Kept
<1>2. IsFiniteSet(kept) /\ size \in Nat /\ Len(list) \in Nat
  <2>1. IsFiniteSet(1 .. Len(list))
    BY FS_Interval
  <2> QED BY <1>1, <2>1, FS_Subset, FS_CardinalityType
<1> HIDE DEF kept
<1>12. \A k \in kept : k \in Int
  BY <1>1, <1>2
<1>3. ASSUME NEW j \in kept, NEW k \in kept, j < k PROVE Place(j) < Place(k)
  <2>1. /\ {i \in kept : i <= j} \subseteq {i \in kept : i <= k}
        /\ k \in {i \in kept : i <= k} /\ k \notin {i \in kept : i <= j}
    BY <1>12, <1>3
  <2>2. IsFiniteSet({i \in kept : i <= k})
    BY <1>2, FS_Subset
  <2> QED BY <2>1, <2>2, FS_Subset, FS_CardinalityType
<1>4. ASSUME NEW k \in kept PROVE Place(k) \in 1 .. size
  <2>1. {i \in kept : i <= k} \subseteq kept /\ k \in {i \in kept : i <= k}
    BY <1>1, <1>2
  <2>2. IsFiniteSet({i \in kept : i <= k}) /\ Place(k) <= size /\ Place(k) \in Nat
    BY <1>2, <2>1, FS_Subset, FS_CardinalityType
  <2>3. Place(k) # 0
    BY <2>1, <2>2, FS_EmptySet
  <2> QED BY <2>2, <2>3
<1>5. \A i \in 1 .. size : \E k \in kept : Place(k) = i
  <2> DEFINE place == [k \in kept |-> Place(k)]
  <2> HIDE DEF Place
  <2>1. \A j, k \in kept : j < k \/ k < j \/ j = k
    BY <1>1, <1>2
  <2>2. place \in [kept -> 1 .. size] /\ \A j, k \in kept : place[j] = place[k] => j = k
    BY <1>3, <1>4, <2>1
  <2>3. \A i \in 1 .. size : \E k \in kept : place[k] = i
    BY <1>2, <2>2, PlacesAreTaken
  <2> QED BY <2>3
<1>6. rest = [n \in 1 .. size |-> list[CHOOSE k \in kept : Place(k) = n]]
  BY DEF Without, kept
<1> HIDE DEF Place, rest
<1>7. \A n \in 1 .. size : at[n] \in kept /\ Place(at[n]) = n
  BY <1>5
<1>8. \A n \in 1 .. size : rest[n] = list[at[n]]
  BY <1>6
<1> HIDE DEF at
<1>9. rest \in Seq(Entries) /\ Len(rest) = size
  <2>1. rest \in [1 .. size -> Entries]
    BY <1>1, <1>6, <1>7, <1>8
  <2> HIDE DEF size
  <2> QED BY <1>2, <2>1
<1>10. ASSUME NEW m \in 1 .. size, NEW n \in 1 .. size, m < n PROVE at[m] < at[n]
  <2>1. ~ (at[n] < at[m]) /\ at[n] # at[m]
    BY <1>3, <1>7, <1>10, <1>2
  <2> QED BY <2>1, <1>12, <1>7
<1>11. at \in [1 .. size -> 1 .. Len(list)]
  BY <1>1, <1>7 DEF at
<1> HIDE DEF size
<1>13. /\ at \in [1 .. Len(rest) -> 1 .. Len(list)]
       /\ \A n \in 1 .. Len(rest) : rest[n] = list[at[n]] /\ rest[n].id # id
       /\ \A m, n \in 1 .. Len(rest) : m < n => at[m] < at[n]
  BY <1>1, <1>7, <1>8, <1>9, <1>10, <1>11
<1> SUFFICES /\ rest \in Seq(Entries)
             /\ \E f \in [1 .. Len(rest) -> 1 .. Len(list)] :
                  /\ \A n \in 1 .. Len(rest) : rest[n] = list[f[n]] /\ rest[n].id # id
                  /\ \A m, n \in 1 .. Len(rest) : m < n => f[m] < f[n]
  BY DEF rest
<1> QED BY <1>9, <1>13

LEMMA WithoutIsHonest ==
  ASSUME NEW list, NEW given, NEW id, Honest(list, given)
  PROVE  /\ Honest(Without(list, id), given)
         /\ \A n \in 1 .. Len(Without(list, id)) : Without(list, id)[n].id # id
<1> DEFINE rest == Without(list, id)
<1>1. list \in Seq(Entries) /\ Len(list) \in Nat
  BY DEF Honest
<1>2. /\ rest \in Seq(Entries) /\ Len(rest) \in Nat
      /\ \E at \in [1 .. Len(rest) -> 1 .. Len(list)] :
           /\ \A n \in 1 .. Len(rest) : rest[n] = list[at[n]] /\ rest[n].id # id
           /\ \A m, n \in 1 .. Len(rest) : m < n => at[m] < at[n]
  <2>1. /\ rest \in Seq(Entries)
        /\ \E at \in [1 .. Len(rest) -> 1 .. Len(list)] :
             /\ \A n \in 1 .. Len(rest) : rest[n] = list[at[n]] /\ rest[n].id # id
             /\ \A m, n \in 1 .. Len(rest) : m < n => at[m] < at[n]
    BY <1>1, WithoutKeeps, Zenon
  <2> HIDE DEF rest
  <2>2. Len(rest) \in Nat
    BY <2>1
  <2> QED BY <2>1, <2>2
<1> HIDE DEF rest
<1>3. PICK at \in [1 .. Len(rest) -> 1 .. Len(list)] :
           /\ \A n \in 1 .. Len(rest) : rest[n] = list[at[n]] /\ rest[n].id # id
           /\ \A m, n \in 1 .. Len(rest) : m < n => at[m] < at[n]
  BY <1>2
<1>4. \A n \in 1 .. Len(rest) : at[n] \in 1 .. Len(list) /\ at[n] \in Int
  BY <1>1
<1>5. ASSUME NEW m \in 1 .. Len(rest), NEW n \in 1 .. Len(rest), rest[m].id = rest[n].id PROVE m = n
  <2>1. at[m] = at[n]
    BY <1>3, <1>4, <1>5 DEF Honest
  <2>2. ~ (m < n) /\ ~ (n < m)
    BY <1>3, <1>4, <2>1
  <2> QED BY <1>2, <2>2
<1>6. \A n \in 1 .. Len(rest) : rest[n].last \in Asks => rest[n] \in given
  BY <1>3, <1>4 DEF Honest
<1>7. Honest(rest, given) /\ \A n \in 1 .. Len(rest) : rest[n].id # id
  BY <1>2, <1>3, <1>5, <1>6 DEF Honest
<1> QED BY <1>7 DEF rest

LEMMA RecordedIsHonest ==
  ASSUME NEW list, NEW given, Honest(list, given), NEW s \in SessionIds, NEW a \in Asks,
         [id |-> s, last |-> a] \in given
  PROVE  Honest(Recorded(list, s, a), given)
<1> DEFINE rest == Without(list, s)
           e == [id |-> s, last |-> a]
           all == <<e>> \o rest
<1>1. Honest(rest, given) /\ \A n \in 1 .. Len(rest) : rest[n].id # s
  BY WithoutIsHonest
<1>2. e \in Entries /\ e.id = s /\ e.last = a /\ e \in given
  BY DEF Entries
<1> HIDE DEF e, rest
<1>3. /\ rest \in Seq(Entries) /\ Len(rest) \in Nat
      /\ all \in Seq(Entries) /\ Len(all) = Len(rest) + 1 /\ all[1] = e
      /\ \A n \in 1 .. Len(all) : n = 1 \/ (n - 1 \in 1 .. Len(rest) /\ all[n] = rest[n - 1])
  BY <1>1, <1>2 DEF Honest
<1> HIDE DEF all
<1>4. \A n \in 1 .. Len(all) : all[n].last \in Asks => all[n] \in given
  BY <1>1, <1>2, <1>3 DEF Honest
<1>5. \A m, n \in 1 .. Len(all) : all[m].id = all[n].id => m = n
  <2> SUFFICES ASSUME NEW m \in 1 .. Len(all), NEW n \in 1 .. Len(all), all[m].id = all[n].id PROVE m = n
    OBVIOUS
  <2>1. CASE m = 1 \/ n = 1
    BY <1>1, <1>2, <1>3, <2>1
  <2>2. CASE m # 1 /\ n # 1
    <3>0. m - 1 \in 1 .. Len(rest) /\ n - 1 \in 1 .. Len(rest) /\ rest[m - 1].id = rest[n - 1].id
      BY <1>3, <2>2
    <3>1. m - 1 = n - 1
      BY <1>1, <3>0 DEF Honest
    <3> QED BY <1>3, <3>1
  <2> QED BY <2>1, <2>2
<1>6. Honest(all, given)
  BY <1>3, <1>4, <1>5 DEF Honest
<1> QED BY <1>6 DEF all, e, rest, Recorded

LEMMA SaveIsHonest ==
  ASSUME NEW list, NEW given, Honest(list, given), Save(list)
  PROVE  sessions' = store' /\ Honest(store', given)
<1>1. PICK n \in {HistoryLimit, HistoryLimit - 1} :
        LET retained == SubSeq(list, 1, IF n < Len(list) THEN n ELSE Len(list))
        IN  sessions' = retained /\ store' = retained
  BY DEF Save
<1> DEFINE m == IF n < Len(list) THEN n ELSE Len(list)
           retained == SubSeq(list, 1, m)
<1>2. list \in Seq(Entries) /\ Len(list) \in Nat /\ m \in 0 .. Len(list)
  BY LimitAssumption DEF Honest
<1> HIDE DEF m
<1>3. /\ retained \in Seq(Entries) /\ Len(retained) = m
      /\ \A k \in 1 .. m : retained[k] = list[k] /\ k \in 1 .. Len(list)
  BY <1>2
<1> HIDE DEF retained
<1>4. Honest(retained, given)
  BY <1>3 DEF Honest
<1>5. sessions' = retained /\ store' = retained
  BY <1>1 DEF retained, m
<1> QED BY <1>4, <1>5

-----------------------------------------------------------------------------
\* A step that leaves the lists alone.
LEMMA ListsUntouched ==
  ASSUME HistoryInv, answered \subseteq answered', RepliesAreAnswers', UNCHANGED history,
         loaded' = loaded \/ loaded' # "up"
  PROVE  HistoryInv'
<1>1. sessions' = sessions /\ store' = store
  BY DEF history
<1>2. PICK after : after = answered'
  OBVIOUS
<1>3. Honest(sessions, after) /\ Honest(store, after)
  BY <1>2, StaysHonest DEF HistoryInv
<1> QED BY <1>1, <1>2, <1>3 DEF HistoryInv

\* One that saves a list made from an honest one.
LEMMA ListSaved ==
  ASSUME NEW list, Honest(list, answered'), Save(list), RepliesAreAnswers'
  PROVE  HistoryInv'
<1>1. PICK after : after = answered'
  OBVIOUS
<1>2. sessions' = store' /\ Honest(store', after)
  BY <1>1, SaveIsHonest
<1> QED BY <1>1, <1>2 DEF HistoryInv

LEMMA EmptyIsHonest == ASSUME NEW given PROVE Honest(<<>>, given)
BY DEF Honest

LEMMA HistoryInitInv == ClientInit => HistoryInv
<1> SUFFICES ASSUME ClientInit PROVE HistoryInv
  OBVIOUS
<1>1. PICK ids \in [1 .. 2 -> SessionIds], last \in {Old, Null}, n \in 0 .. 2 :
       /\ ids[1] # ids[2]
       /\ store = [k \in 1 .. n |-> [id |-> ids[k], last |-> IF k = 1 THEN last ELSE Old]]
  BY DEF ClientInit
<1>2. \A k \in 1 .. n : k = 1 \/ k = 2
  OBVIOUS
<1>3. \A k \in 1 .. n : store[k] \in Entries /\ store[k].id = ids[k] /\ store[k].last \in {Old, Null}
  BY <1>1, <1>2 DEF Entries
<1>4. store \in Seq(Entries) /\ Len(store) = n
  <2>1. store \in [1 .. n -> Entries]
    BY <1>1, <1>3
  <2> QED BY <2>1
<1>5. \A j, k \in 1 .. n : store[j].id = store[k].id => j = k
  BY <1>1, <1>2, <1>3
<1>6. Honest(store, answered)
  BY <1>3, <1>4, <1>5, NullAssumption DEF Honest
<1>7. sessions = <<>> /\ loaded # "up" /\ RepliesAreAnswers
  BY DEF ClientInit, NoAsk, RepliesAreAnswers
<1> QED BY <1>6, <1>7, EmptyIsHonest DEF HistoryInv

LEMMA AnsweredHistory == ASSUME HistoryInv, PageInv, NEW a \in Asks, Answered(a) PROVE HistoryInv'
<1> DEFINE s == ask[a].session
<1>1. /\ ask[a].stage = "stored" /\ Save(Recorded(sessions, s, a)) /\ answered' = answered
      /\ ask' = [ask EXCEPT ![a] = [stage |-> "over", session |-> ask[a].session, gen |-> Null]]
  BY DEF Answered
<1>2. /\ ask'[a].stage = "over"
      /\ \A b \in Asks \ {a} : ask'[b] = ask[b]
  BY <1>1 DEF PageInv, AskShape
<1>3. s \in SessionIds /\ [id |-> s, last |-> a] \in answered
  BY <1>1 DEF PageInv, AskShape, InFlight, HistoryInv, RepliesAreAnswers
<1>4. RepliesAreAnswers'
  BY <1>1, <1>2 DEF HistoryInv, RepliesAreAnswers
<1>5. PICK id, list, given : id = s /\ list = sessions /\ given = answered
  OBVIOUS
<1>6. Honest(Recorded(list, id, a), given)
  BY <1>3, <1>5, RecordedIsHonest DEF HistoryInv
<1> QED BY <1>1, <1>4, <1>5, <1>6, ListSaved

LEMMA EntryRemoved ==
  ASSUME HistoryInv, ask' = ask, answered' = answered, NEW id,
         Save(Without(sessions, id)) \/ Save(Without(store, id))
  PROVE  HistoryInv'
<1>1. PICK given : given = answered
  OBVIOUS
<1>2. Honest(Without(sessions, id), given) /\ Honest(Without(store, id), given)
  BY <1>1, WithoutIsHonest DEF HistoryInv
<1>3. RepliesAreAnswers'
  BY DEF HistoryInv, RepliesAreAnswers
<1> QED BY <1>1, <1>2, <1>3, ListSaved

LEMMA BeginResumeHistory ==
  ASSUME HistoryInv, NEW r \in Resumes, NEW e, BeginResume(r, e)
  PROVE  HistoryInv'
<1>1. ask' = ask /\ answered' = answered
  BY DEF BeginResume
<1>2. CASE mode = "public" /\ e.last = Null
  BY <1>1, <1>2, EntryRemoved DEF BeginResume
<1>3. CASE ~ (mode = "public" /\ e.last = Null)
  <2>1. sessions' = store /\ store' = store
    BY <1>3 DEF BeginResume
  <2> QED BY <1>1, <2>1 DEF HistoryInv, RepliesAreAnswers
<1> QED BY <1>2, <1>3

LEMMA ResumedHistory == ASSUME HistoryInv, NEW r \in Resumes, Resumed(r) PROVE HistoryInv'
<1>1. ask' = ask /\ loaded' = loaded /\ answered' = answered
  BY DEF Resumed, page
<1>2. Save(Without(sessions, resume[r].session)) \/ UNCHANGED history
  BY DEF Resumed
<1>3. PICK id : id = resume[r].session
  OBVIOUS
<1>4. CASE Save(Without(sessions, resume[r].session))
  BY <1>1, <1>3, <1>4, EntryRemoved
<1>5. CASE UNCHANGED history
  BY <1>1, <1>5 DEF HistoryInv, history, RepliesAreAnswers
<1> QED BY <1>2, <1>4, <1>5

\* The steps of a handler or of the server that write no list.
LEMMA QuietHistory ==
  ASSUME HistoryInv, PageInv,
         \/ \E r \in Resumes : StateReply(r) \/ ResumeWithToken(r)
         \/ \E a \in Asks : \/ Submit(a) \/ Send(a) \/ ServerStores(a) \/ ServerRefuses(a)
                            \/ Failed(a) \/ CancelAsk(a) \/ Abort(a)
         \/ PrepareFromDialog \/ TurnstilePasses \/ TurnstileFails \/ Poll401
         \/ NewSession \/ ClientError \/ ExpireToken \/ LoadFails
         \/ \E s \in SessionIds : EndSession(s)
         \/ UNCHANGED clientVars
  PROVE  HistoryInv'
<1> USE DEF PageInv, AskShape, HistoryInv, RepliesAreAnswers
<1>1. ASSUME NEW r \in Resumes, StateReply(r) \/ ResumeWithToken(r) PROVE HistoryInv'
  <2>1. ask' = ask /\ answered' = answered /\ loaded' = loaded /\ UNCHANGED history
    BY <1>1 DEF StateReply, ResumeWithToken, page, ghosts
  <2>2. RepliesAreAnswers'
    BY <2>1
  <2> QED BY <2>1, <2>2, ListsUntouched
<1>2. ASSUME NEW a \in Asks, Submit(a) \/ Send(a) PROVE HistoryInv'
  <2>1. answered' = answered /\ loaded' = loaded /\ UNCHANGED history /\ ask'[a].stage \in {"go", "token", "sent"}
    BY <1>2 DEF Submit, Send, page
  <2>2. \A b \in Asks \ {a} : ask'[b] = ask[b]
    BY <1>2 DEF Submit, Send
  <2>3. RepliesAreAnswers'
    BY <2>1, <2>2
  <2> QED BY <2>1, <2>3, ListsUntouched
<1>3. ASSUME NEW a \in Asks, ServerStores(a) PROVE HistoryInv'
  <2>1. /\ answered' = answered \cup {[id |-> ask[a].session, last |-> a]}
        /\ loaded' = loaded /\ UNCHANGED history
        /\ ask'[a].session = ask[a].session
    BY <1>3 DEF ServerStores, page
  <2>2. \A b \in Asks \ {a} : ask'[b] = ask[b]
    BY <1>3 DEF ServerStores
  <2>3. RepliesAreAnswers'
    BY <2>1, <2>2
  <2> QED BY <2>1, <2>3, ListsUntouched
<1>4. ASSUME NEW a \in Asks, ServerRefuses(a) \/ CancelAsk(a) \/ Abort(a) \/ Failed(a) PROVE HistoryInv'
  <2>1. /\ answered' = answered /\ loaded' = loaded /\ UNCHANGED history
        /\ ask'[a].stage \in {"error", "401", "withdrawn", "aborted", "over"}
    BY <1>4 DEF ServerRefuses, CancelAsk, Abort, Failed, page, ghosts
  <2>2. \A b \in Asks \ {a} : ask'[b] = ask[b]
    BY <1>4 DEF ServerRefuses, CancelAsk, Abort, Failed
  <2>3. RepliesAreAnswers'
    BY <2>1, <2>2
  <2> QED BY <2>1, <2>3, ListsUntouched
<1>5. CASE TurnstilePasses \/ TurnstileFails
  <2>1. answered' = answered /\ loaded' = loaded /\ UNCHANGED history
    BY <1>5 DEF TurnstilePasses, TurnstileFails, page, ghosts
  <2>2. \A b \in Asks : ask'[b].stage = "stored" => ask'[b] = ask[b]
    BY <1>5 DEF TurnstilePasses, TurnstileFails, NoAsk
  <2>3. RepliesAreAnswers'
    BY <2>1, <2>2
  <2> QED BY <2>1, <2>3, ListsUntouched
<1>6. CASE \/ PrepareFromDialog \/ Poll401 \/ NewSession \/ ClientError \/ ExpireToken \/ LoadFails
           \/ (\E s \in SessionIds : EndSession(s)) \/ UNCHANGED clientVars
  <2>1. /\ ask' = ask /\ answered' = answered /\ UNCHANGED history
        /\ loaded' = loaded \/ loaded' # "up"
    BY <1>6 DEF PrepareFromDialog, Poll401, NewSession, ClientError, ExpireToken, LoadFails, EndSession,
                clientVars, handlers, page, ghosts
  <2>2. RepliesAreAnswers'
    BY <2>1
  <2> QED BY <2>1, <2>2, ListsUntouched
<1> QED BY <1>1, <1>2, <1>3, <1>4, <1>5, <1>6

LEMMA ReloadHistory == ASSUME HistoryInv, Reload PROVE HistoryInv'
<1>1. sessions' = <<>> /\ store' = store /\ loaded' = "loading" /\ answered' = answered
  BY DEF Reload
<1>2. \A a \in Asks : ask'[a].stage # "stored"
  BY DEF Reload, NoAsk
<1>3. RepliesAreAnswers'
  BY <1>2 DEF RepliesAreAnswers
<1> QED BY <1>1, <1>3, EmptyIsHonest DEF HistoryInv

LEMMA HistoryStep == ASSUME HistoryInv, PageInv, [ClientNext]_clientVars PROVE HistoryInv'
<1>1. ASSUME NEW r \in Resumes, ResumeClick(r) PROVE HistoryInv'
  <2>1. PICK k \in DOMAIN sessions : BeginResume(r, sessions[k])
    BY <1>1 DEF ResumeClick
  <2>2. PICK e : e = sessions[k]
    OBVIOUS
  <2> QED BY <2>1, <2>2, BeginResumeHistory
<1>2. ASSUME NEW r \in Resumes, Load(r) PROVE HistoryInv'
  <2>1. CASE activeKey \in Ids(store)
    <3>1. PICK k \in DOMAIN store : BeginResume(r, store[k])
      BY <1>2, <2>1 DEF Load
    <3>2. PICK e : e = store[k]
      OBVIOUS
    <3> QED BY <3>1, <3>2, BeginResumeHistory
  <2>2. CASE activeKey \notin Ids(store)
    <3>1. sessions' = store /\ store' = store /\ ask' = ask /\ answered' = answered
      BY <1>2, <2>2 DEF Load, handlers, ghosts
    <3> QED BY <3>1 DEF HistoryInv, RepliesAreAnswers
  <2> QED BY <2>1, <2>2
<1>3. ASSUME NEW s \in SessionIds, RemoveEntry(s) PROVE HistoryInv'
  <2>1. Save(Without(sessions, s)) /\ ask' = ask /\ answered' = answered
    BY <1>3 DEF RemoveEntry, handlers, ghosts
  <2> QED BY <2>1, EntryRemoved
<1>4. CASE ClearHistory
  <2>1. sessions' = <<>> /\ store' = <<>> /\ ask' = ask /\ answered' = answered
    BY <1>4 DEF ClearHistory, handlers, ghosts
  <2> QED BY <2>1, EmptyIsHonest DEF HistoryInv, RepliesAreAnswers
<1>5. ASSUME NEW r \in Resumes, Resumed(r) PROVE HistoryInv'
  BY <1>5, ResumedHistory
<1>6. ASSUME NEW a \in Asks, Answered(a) PROVE HistoryInv'
  BY <1>6, AnsweredHistory
<1>7. CASE Reload
  BY <1>7, ReloadHistory
<1>8. CASE Settled /\ Events
  BY <1>1, <1>2, <1>3, <1>4, <1>5, <1>6, <1>7, <1>8, QuietHistory DEF Events
<1>9. CASE (\E r \in Resumes : ResumeWithToken(r)) \/ (\E a \in Asks : Send(a)) \/ UNCHANGED clientVars
  BY <1>9, QuietHistory
<1> QED BY <1>8, <1>9 DEF ClientNext

\* Every entry of this page's history shows an answer the server has stored in its
\* session, no session is there twice, and the storage is what the page shows.
THEOREM HistoryStaysHonest == ClientSpec => []HistoryIsHonest
<1>1. HistoryInv => HistoryIsHonest
  <2> SUFFICES ASSUME HistoryInv PROVE HistoryIsHonest
    OBVIOUS
  <2>1. Honest(store, answered) /\ DOMAIN store = 1 .. Len(store)
    BY DEF HistoryInv, Honest
  <2> QED BY <2>1 DEF HistoryInv, Honest, HistoryIsHonest
<1>2. PageInv /\ HistoryInv /\ [ClientNext]_clientVars => HistoryInv'
  BY HistoryStep
<1> QED BY <1>1, <1>2, HistoryInitInv, PageInvariant, PTL DEF ClientSpec

-----------------------------------------------------------------------------
\* The dialog of every tab (SettingsDialog): its type, and what a submit took from it.
Values == {Absent, "", "0", "1", "8", "15", "50", "hosted", "local", "undeployed"}
Settings == [WEB_SETTING_NAMES -> Values]
Forms == [stage : {"closed", "open", "preparing", "saving", "saved"}, overrides : Settings,
          inputs : Settings, asked : Settings, seen : Settings]
Reviews(f) == f.stage \in {"preparing", "saving"} =>
                \A n \in WEB_SETTING_NAMES : f.asked[n] \in Reviewed(dialogMode)[n] \cup {""}

SettingsInv == /\ form \in [Tabs -> Forms] /\ tabStore \in [Tabs -> Settings]
               /\ \A t \in Tabs : Reviews(form[t])

LEMMA SettingsTypes ==
  /\ None \in Settings /\ Defaults \in Settings
  /\ \A m : \A n \in WEB_SETTING_NAMES : /\ Typed(m)[n] \subseteq Values /\ Reviewed(m)[n] \subseteq Values
                                         /\ Defaults[n] \in Reviewed(m)[n]
  /\ \A raw : Read(raw) \in Settings
  /\ \A o \in Settings : Effective(o) \in Settings
<1>1. ASSUME NEW m, NEW n \in WEB_SETTING_NAMES
      PROVE  /\ Typed(m)[n] \subseteq Values /\ Reviewed(m)[n] \subseteq Values
             /\ Defaults[n] \in Reviewed(m)[n] /\ Defaults[n] \in Values
  <2>1. CASE n = "embedding_model"
    <3>1. /\ Reviewed(m)["embedding_model"] \in {{"hosted", "local", "undeployed"}, {"hosted", "local"}}
          /\ Typed(m)["embedding_model"] = Reviewed(m)["embedding_model"] /\ Defaults["embedding_model"] = "hosted"
      <4>1. (IF m = "local" THEN {"undeployed"} ELSE {}) \in {{"undeployed"}, {}}
        OBVIOUS
      <4> QED BY <4>1 DEF Typed, Reviewed, Defaults
    <3> QED BY <2>1, <3>1 DEF Values
  <2>2. CASE n = "final_top_k"
    <3>1. /\ Reviewed(m)["final_top_k"] \in {{"1", "8", "15", "50"}, {"1", "8", "15"}}
          /\ Typed(m)["final_top_k"] = {"", "0", "8", "15", "50"} /\ Defaults["final_top_k"] = "8"
      BY DEF Typed, Reviewed, Defaults
    <3> QED BY <2>2, <3>1 DEF Values
  <2> QED BY <2>1, <2>2 DEF WEB_SETTING_NAMES
<1>2. Defaults \in Settings
  <2>1. Defaults \in [WEB_SETTING_NAMES -> {"hosted", "8"}]
    BY DEF Defaults, WEB_SETTING_NAMES
  <2> QED BY <1>1, <2>1 DEF Settings
<1>3. None \in Settings
  BY DEF None, Settings, Values
<1>4. ASSUME NEW CONSTANT raw PROVE Read(raw) \in Settings
  <2>1. \A n \in WEB_SETTING_NAMES : (IF raw[n] \in Reviewed("local")[n] THEN raw[n] ELSE Absent) \in Values
    BY <1>1 DEF Values
  <2>2. CASE raw = Corrupt
    BY <1>3, <2>2 DEF Read
  <2>3. CASE raw # Corrupt
    BY <2>1, <2>3 DEF Read, Settings
  <2> QED BY <2>2, <2>3
<1>5. \A o \in Settings : Effective(o) \in Settings
  BY <1>2 DEF Effective, Settings, Values
<1> QED BY <1>1, <1>2, <1>3, <1>4, <1>5

LEMMA SettingsStep == ASSUME SettingsInv, [SettingsNext]_settingsVars PROVE SettingsInv'
\* One form is replaced, by one whose submit took reviewed values.
<1>1. ASSUME NEW t \in Tabs, NEW STATE new, new \in Forms, form' = [form EXCEPT ![t] = new], dialogMode' = dialogMode,
             tabStore' \in [Tabs -> Settings], new.stage \in {"preparing", "saving"} => Reviews(new)
      PROVE  SettingsInv'
  BY <1>1 DEF SettingsInv, Reviews
<1>2. \A t \in Tabs : form[t] \in Forms
  BY DEF SettingsInv
<1>3. tabStore \in [Tabs -> Settings] /\ Closed \in Forms /\ Closed.stage = "closed"
  BY SettingsTypes DEF SettingsInv, Closed, Forms
<1>4. ASSUME NEW t \in Tabs PROVE Reopened(form[t]) \in Forms /\ Reopened(form[t]).stage = "open"
  <2>1. \A g : g = [form[t] EXCEPT !.stage = "open", !.asked = Defaults, !.seen = Defaults]
                 => g \in Forms /\ g.stage = "open"
    BY <1>2, SettingsTypes DEF Forms
  <2> QED BY <2>1 DEF Reopened
<1>5. CASE UNCHANGED settingsVars
  BY <1>5 DEF settingsVars, SettingsInv, Reviews
<1>6. CASE HandEdit
  BY <1>6 DEF HandEdit, SettingsInv, Reviews
<1>7. ASSUME NEW t \in Tabs, Open(t) PROVE SettingsInv'
  <2> DEFINE new == [Closed EXCEPT !.stage = "open", !.overrides = Stored(t), !.inputs = Effective(Stored(t))]
  <2>1. form' = [form EXCEPT ![t] = new] /\ dialogMode' = dialogMode /\ tabStore' = tabStore
    BY <1>7 DEF Open
  <2>2. Stored(t) \in Settings
    BY <1>3, SettingsTypes DEF Stored
  <2>3. new \in Forms /\ new.stage = "open"
    <3>1. \A s \in Settings : \A e \in Settings : \A g : g = [Closed EXCEPT !.stage = "open", !.overrides = s, !.inputs = e]
            => g \in Forms /\ g.stage = "open"
      BY <1>3 DEF Forms
    <3> QED BY <2>2, <3>1, SettingsTypes
  <2> HIDE DEF new
  <2> QED BY <2>1, <2>3, <1>1, <1>3
<1>8. ASSUME NEW t \in Tabs, UndoAll(t) PROVE SettingsInv'
  <2> DEFINE base == Baseline(form[t])
             new == [form[t] EXCEPT !.inputs = base]
  <2>1. /\ form' = [form EXCEPT ![t] = new] /\ dialogMode' = dialogMode /\ tabStore' = tabStore
        /\ form[t].stage = "open"
    BY <1>8 DEF UndoAll
  <2>2. base \in Settings
    BY <1>2, SettingsTypes DEF Baseline, Forms
  <2>3. new \in Forms /\ new.stage = "open"
    <3> HIDE DEF base
    <3> QED BY <1>2, <2>1, <2>2 DEF Forms
  <2> HIDE DEF new
  <2> QED BY <2>1, <2>3, <1>1, <1>3
<1>9. ASSUME NEW t \in Tabs, StoreInTab(t) PROVE SettingsInv'
  <2>1. form' = [form EXCEPT ![t] = Closed] /\ dialogMode' = dialogMode
    BY <1>9 DEF StoreInTab
  <2> DEFINE changes == Changes(form[t])
             stored == [n \in WEB_SETTING_NAMES |-> IF n \in DOMAIN changes THEN changes[n] ELSE Absent]
  <2>2. \A n \in DOMAIN changes : changes[n] \in Values
    <3>1. \A n \in WEB_SETTING_NAMES : form[t].asked[n] \in Values /\ Defaults[n] \in Values
      BY <1>2, SettingsTypes DEF Forms, Settings
    <3> QED BY <3>1 DEF Changes, Values
  <2>3. tabStore' = [tabStore EXCEPT ![t] = stored]
    BY <1>9 DEF StoreInTab
  <2>4. stored \in Settings
    <3> HIDE DEF changes
    <3> QED BY <2>2 DEF Settings, Values
  <2> HIDE DEF stored
  <2> QED BY <2>1, <2>3, <2>4, <1>1, <1>3
<1>10. ASSUME NEW t \in Tabs, SaveReply(t) \/ Close(t) PROVE SettingsInv'
  <2>1. form' = [form EXCEPT ![t] = Closed] /\ dialogMode' = dialogMode /\ tabStore' = tabStore
    BY <1>10 DEF SaveReply, Close
  <2> QED BY <2>1, <1>1, <1>3
<1>11. ASSUME NEW t \in Tabs, SaveLost(t) PROVE SettingsInv'
  <2>1. form' = [form EXCEPT ![t] = Reopened(form[t])] /\ dialogMode' = dialogMode /\ tabStore' = tabStore
    BY <1>11 DEF SaveLost
  <2> QED BY <2>1, <1>1, <1>3, <1>4
<1>12. ASSUME NEW t \in Tabs, NEW n \in WEB_SETTING_NAMES, Edit(t, n) PROVE SettingsInv'
  <2>1. PICK v \in Values : form' = [form EXCEPT ![t].inputs[n] = v]
    BY <1>12, SettingsTypes DEF Edit
  <2> DEFINE new == [form[t] EXCEPT !.inputs = [form[t].inputs EXCEPT ![n] = v]]
  <2>2. /\ form' = [form EXCEPT ![t] = new] /\ dialogMode' = dialogMode /\ tabStore' = tabStore
        /\ form[t].stage = "open"
    BY <2>1, <1>12 DEF Edit
  <2>3. new \in Forms /\ new.stage = "open"
    BY <1>2, <2>2 DEF Forms, Settings, Values
  <2> HIDE DEF new
  <2> QED BY <2>2, <2>3, <1>1, <1>3
<1>13. ASSUME NEW t \in Tabs, SubmitForm(t) PROVE SettingsInv'
  <2> DEFINE base == Baseline(form[t])
             f == [form[t] EXCEPT !.asked = form[t].inputs, !.seen = base]
             stage == IF ToPrepare(f) THEN "preparing" ELSE "saving"
             sent == [f EXCEPT !.stage = stage]
  <2>1. base \in Settings
    BY <1>2, SettingsTypes DEF Baseline, Forms
  <2>2. f \in Forms /\ f.asked = form[t].inputs
    <3> HIDE DEF base
    <3> QED BY <1>2, <2>1 DEF Forms
  <2>3. form' \in {[form EXCEPT ![t] = Closed], [form EXCEPT ![t] = sent]}
    BY <1>13 DEF SubmitForm
  <2>4. /\ dialogMode' = dialogMode /\ tabStore' = tabStore
        /\ \A n \in WEB_SETTING_NAMES : form[t].inputs[n] \in Reviewed(dialogMode)[n] \cup {""}
    BY <1>13 DEF SubmitForm, WellFormed
  <2>5. stage \in {"preparing", "saving"}
    OBVIOUS
  <2>6. sent \in Forms /\ sent.asked = form[t].inputs
    <3> HIDE DEF f, stage
    <3> QED BY <2>2, <2>5 DEF Forms
  <2> HIDE DEF sent
  <2>7. Reviews(sent)
    BY <2>4, <2>6 DEF Reviews
  <2> QED BY <2>3, <2>4, <2>6, <2>7, <1>1, <1>3
<1>14. ASSUME NEW t \in Tabs, PrepareEnds(t) PROVE SettingsInv'
  <2> DEFINE new == [form[t] EXCEPT !.stage = "saving"]
  <2>1. /\ form' \in {[form EXCEPT ![t] = new], [form EXCEPT ![t] = Reopened(form[t])]}
        /\ dialogMode' = dialogMode /\ tabStore' = tabStore
    BY <1>14 DEF PrepareEnds
  <2>2. new \in Forms /\ new.asked = form[t].asked
    BY <1>2 DEF Forms
  <2> HIDE DEF new
  <2>3. Reviews(new)
    BY <2>2, <1>14 DEF PrepareEnds, SettingsInv, Reviews
  <2> QED BY <2>1, <2>2, <2>3, <1>1, <1>3, <1>4
<1>15. ASSUME NEW t \in Tabs, ServerUpdates(t) PROVE SettingsInv'
  <2> DEFINE new == [form[t] EXCEPT !.stage = "saved"]
  <2>1. form' = [form EXCEPT ![t] = new] /\ dialogMode' = dialogMode /\ tabStore' = tabStore
    BY <1>15 DEF ServerUpdates
  <2>2. new \in Forms /\ new.stage = "saved"
    BY <1>2 DEF Forms
  <2> HIDE DEF new
  <2> QED BY <2>1, <2>2, <1>1, <1>3
<1> QED
  BY <1>5, <1>6, <1>7, <1>8, <1>9, <1>10, <1>11, <1>12, <1>13, <1>14, <1>15 DEF SettingsNext

LEMMA SettingsInitInv == SettingsInit => SettingsInv
<1> SUFFICES ASSUME SettingsInit PROVE SettingsInv
  OBVIOUS
<1>1. Closed \in Forms /\ Closed.stage = "closed"
  BY SettingsTypes DEF Closed, Forms
<1> QED BY <1>1, SettingsTypes DEF SettingsInit, SettingsInv, Reviews

\* What an update leaves effective, field by field.
LEMMA UpdateIsExact ==
  ASSUME NEW f, NEW raw, NEW n \in WEB_SETTING_NAMES,
         \A m \in WEB_SETTING_NAMES : f.asked[m] \in Reviewed("local")[m] \cup {""}
  PROVE  Effective(Read(Update(raw, Changes(f))))[n] =
           IF f.asked[n] = f.seen[n] THEN Effective(Read(raw))[n]
           ELSE IF f.asked[n] = "" THEN Defaults[n] ELSE f.asked[n]
<1> DEFINE changes == Changes(f)
           Given(m) == IF f.asked[m] = "" THEN Defaults[m] ELSE f.asked[m]
           after == Update(raw, changes)
<1>1. /\ DOMAIN changes = {m \in WEB_SETTING_NAMES : f.asked[m] # f.seen[m]}
      /\ \A m \in DOMAIN changes : changes[m] = IF Given(m) = Defaults[m] THEN Absent ELSE Given(m)
  BY DEF Changes
<1>2. \A m \in WEB_SETTING_NAMES : Defaults[m] \in Reviewed("local")[m]
  BY SettingsTypes
<1>3. \A m \in WEB_SETTING_NAMES : Given(m) \in Reviewed("local")[m]
  BY <1>2
<1>4. \A m \in WEB_SETTING_NAMES : Read(raw)[m] \in Reviewed("local")[m] \cup {Absent}
  BY DEF Read, None
<1>5. \A m \in WEB_SETTING_NAMES : after[m] = IF m \in DOMAIN changes THEN changes[m] ELSE Read(raw)[m]
  BY DEF Update
<1>6. \A m \in WEB_SETTING_NAMES : after[m] \in Reviewed("local")[m] \cup {Absent}
  <2> HIDE DEF changes, Given, after
  <2> QED BY <1>1, <1>3, <1>4, <1>5
<1>7. after # Corrupt
  <2>1. after = [m \in WEB_SETTING_NAMES |-> after[m]]
    BY DEF Update
  <2> HIDE DEF after
  <2>2. after \in [WEB_SETTING_NAMES -> {Absent} \cup UNION {Reviewed("local")[m] : m \in WEB_SETTING_NAMES}]
    BY <2>1, <1>6
  <2> QED BY <2>2, SettingsAssumption
<1> HIDE DEF changes, Given, after
<1>8. Read(after)[n] = after[n]
  BY <1>6, <1>7 DEF Read
<1>9. Effective(Read(after))[n] = IF after[n] = Absent THEN Defaults[n] ELSE after[n]
  BY <1>8 DEF Effective
<1>10. CASE f.asked[n] = f.seen[n]
  <2>1. after[n] = Read(raw)[n]
    BY <1>1, <1>5, <1>10
  <2> QED BY <2>1, <1>9, <1>10 DEF Effective, after, changes
<1>11. CASE f.asked[n] # f.seen[n]
  <2>1. after[n] = IF Given(n) = Defaults[n] THEN Absent ELSE Given(n)
    BY <1>1, <1>5, <1>11
  <2>2. Given(n) # Absent
    BY <1>3, SettingsAssumption
  <2>3. Effective(Read(after))[n] = Given(n)
    BY <2>1, <2>2, <1>9
  <2> QED BY <2>3, <1>11 DEF after, changes, Given
<1> QED BY <1>10, <1>11

\* A save changes what its user edited and nothing else, whatever the other tabs
\* save and whoever edits the file between (collectSettingsChanges,
\* WebSettingsStore.update).
THEOREM SavesAreExact == SettingsSpec => SaveChangesOnlyItsEdits
<1> DEFINE Exact ==
      \A t \in Tabs, n \in WEB_SETTING_NAMES :
        form[t].stage = "saving" /\ form'[t].stage = "saved" =>
          Effective(Read(file'))[n] =
            IF form[t].asked[n] = form[t].seen[n] THEN Effective(Read(file))[n]
            ELSE IF form[t].asked[n] = "" THEN Defaults[n] ELSE form[t].asked[n]
<1>1. ASSUME SettingsInv, SettingsNext PROVE Exact
  <2> SUFFICES ASSUME NEW t \in Tabs, NEW n \in WEB_SETTING_NAMES,
                      form[t].stage = "saving", form'[t].stage = "saved"
               PROVE  Effective(Read(file'))[n] =
                        IF form[t].asked[n] = form[t].seen[n] THEN Effective(Read(file))[n]
                        ELSE IF form[t].asked[n] = "" THEN Defaults[n] ELSE form[t].asked[n]
    OBVIOUS
  <2>1. ServerUpdates(t)
    <3>0. form = [u \in Tabs |-> form[u]]
      BY <1>1 DEF SettingsInv
    <3>1. ~ HandEdit
      BY DEF HandEdit
    <3>2. ASSUME NEW u \in Tabs, Open(u) \/ StoreInTab(u) \/ SaveReply(u) \/ Close(u) PROVE FALSE
      BY <3>0, <3>2 DEF Open, StoreInTab, SaveReply, Close, Closed
    <3>3. ASSUME NEW u \in Tabs, UndoAll(u) \/ \E m \in WEB_SETTING_NAMES : Edit(u, m) PROVE FALSE
      BY <3>0, <3>3 DEF UndoAll, Edit
    <3>4. ASSUME NEW u \in Tabs, SubmitForm(u) PROVE FALSE
      BY <3>0, <3>4 DEF SubmitForm
    <3>5. ASSUME NEW u \in Tabs, PrepareEnds(u) PROVE FALSE
      BY <3>0, <3>5 DEF PrepareEnds, Reopened
    <3>6. ASSUME NEW u \in Tabs, SaveLost(u) PROVE FALSE
      <4>1. Reopened(form[u]).stage = "open"
        BY <1>1 DEF SettingsInv, Forms, Reopened
      <4>2. form' = [form EXCEPT ![u] = Reopened(form[u])]
        BY <3>6 DEF SaveLost
      <4> QED BY <3>0, <4>1, <4>2
    <3>7. ASSUME NEW u \in Tabs, ServerUpdates(u) PROVE u = t
      BY <3>0, <3>7 DEF ServerUpdates
    <3> QED BY <1>1, <3>1, <3>2, <3>3, <3>4, <3>5, <3>6, <3>7 DEF SettingsNext
  <2>2. \A m \in WEB_SETTING_NAMES : form[t].asked[m] \in Reviewed("local")[m] \cup {""}
    BY <2>1, <1>1 DEF ServerUpdates, SettingsInv, Reviews
  <2>3. file' = Update(file, Changes(form[t]))
    BY <2>1 DEF ServerUpdates
  <2> QED BY <2>2, <2>3, UpdateIsExact
<1>2. SettingsInv /\ [SettingsNext]_settingsVars => [Exact]_settingsVars
  BY <1>1
<1>3. [][Exact]_settingsVars <=> SaveChangesOnlyItsEdits
  BY DEF SaveChangesOnlyItsEdits
<1>4. SettingsInv /\ [SettingsNext]_settingsVars => SettingsInv'
  BY SettingsStep
<1> HIDE DEF Exact
<1> QED BY <1>2, <1>3, <1>4, SettingsInitInv, PTL DEF SettingsSpec
=============================================================================
