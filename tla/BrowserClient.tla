--------------------------- MODULE BrowserClient ---------------------------
(***************************************************************************)
(* app/static/app.js and browser_state.js: one page of the web application *)
(* with its session history, the submit, cancel and resume handlers, the   *)
(* demo token, and the server as far as its replies matter.  JavaScript    *)
(* runs one handler at a time, but every await lets other handlers in: an  *)
(* action is the run of a handler from one await to the next.              *)
(***************************************************************************)
EXTENDS Integers, Sequences, FiniteSets

CONSTANTS
  SessionIds, Asks, Resumes, \* ids a page may use, and runs of its two long handlers
  Old,                       \* the answer of a history entry of an earlier visit
  HistoryLimit,              \* 20 or 50 entries
  MaxTokens, MaxMishaps, MaxHandlers, \* bounds: verifications; reloads and stray client errors; asks and resumes
  Null

ASSUME NullAssumption == Null \notin BOOLEAN /\ {Old, Null} \cap Asks = {}
ASSUME LimitAssumption == HistoryLimit \in Nat \ {0}

VARIABLES
  mode,      \* what the server runs: "public" or "local"
  loaded,    \* initializeApp: "loading", "up" or "failed"
  sessions,  \* history: a sequence of [id, last], last the latest answer
  store,     \* the sessions key of the storage
  active, activeKey, live, \* activeSessionId, its stored copy, activeSessionLive (Null: being checked)
  current,   \* the answer on screen, as [session, answer]
  token, verifying, gen,   \* demo token, turnstilePromise, number of tokens issued
  busy, request, pending,  \* setBusy, activeRequest, submissionPending
  ask,       \* submit handlers: [stage, session, gen], gen the token sent
  resume,    \* resume handlers: [stage, session, last, state]
  alive,     \* sessions the server holds
  mishaps,   \* reloads and client errors so far
  \* What the properties compare with:
  verified,      \* sessions whose liveness the server has told this page
  answered,      \* the answers the server has stored, as the history entries [id, last] that show them
  bound,         \* token the server last answered each session for
  overlapped,    \* a handler that writes the conversation began while another was waiting, and none was answered alone since
  renewedMidAsk  \* the token was dropped or renewed while an ask was in flight

conversation == <<active, activeKey, live>>
demo == <<token, verifying, gen>>
controls == <<busy, request, pending>>
history == <<sessions, store>>
handlers == <<ask, resume>>
page == <<mode, loaded, mishaps>>
ghosts == <<verified, answered, bound, overlapped, renewedMidAsk>>
clientVars == <<conversation, current, demo, controls, history, handlers, page, alive, ghosts>>

\* list.filter: the entries of the other ids, each behind those before it.
Kept(list, id) == {k \in DOMAIN list : list[k].id # id}
Without(list, id) ==
  [n \in 1 .. Cardinality(Kept(list, id)) |->
     list[CHOOSE k \in Kept(list, id) : Cardinality({j \in Kept(list, id) : j <= k}) = n]]
Ids(list) == {list[k].id : k \in DOMAIN list}
\* appMode, which keeps its first value when the settings could not be loaded.
AppMode == IF loaded = "up" THEN mode ELSE "local"
Idle == request = Null /\ ~pending
Waiting == {r \in Resumes : resume[r].stage \in {"token", "go", "wait"}}
InFlight == {a \in Asks : ask[a].stage \in {"sent", "withdrawn", "stored", "error", "401", "aborted"}}
\* Bound on the handlers of a run.
Room == Cardinality({a \in Asks : ask[a].stage # "new"}) + Cardinality({r \in Resumes : resume[r].stage # "new"}) < MaxHandlers
\* The continuations of a promise run before the next event.
Settled == (\A r \in Resumes : resume[r].stage # "go") /\ (\A a \in Asks : ask[a].stage # "go")

-----------------------------------------------------------------------------
NoAsk == [stage |-> "new", session |-> Null, gen |-> Null]
NoResume == [stage |-> "new", session |-> Null, last |-> Null, state |-> "-"]
Ended == [NoResume EXCEPT !.stage = "over"]

\* Up to two entries of earlier visits, the latest perhaps without an answer, which the server still holds.
ClientInit ==
  /\ mode \in {"public", "local"} /\ loaded = "loading" /\ mishaps = 0
  /\ \E ids \in [1 .. 2 -> SessionIds], last \in {Old, Null}, n \in 0 .. 2 :
       /\ ids[1] # ids[2]
       /\ store = [k \in 1 .. n |-> [id |-> ids[k], last |-> IF k = 1 THEN last ELSE Old]]
  /\ activeKey \in Ids(store) \cup {Null}
  /\ alive = Ids(store)
  /\ token \in (IF mode = "public" THEN {"none", "valid"} ELSE {"none"})
  /\ sessions = <<>> /\ active = Null /\ live = FALSE /\ current = Null
  /\ verifying = FALSE /\ gen = 0
  /\ busy = TRUE /\ request = Null /\ pending = FALSE
  /\ ask = [a \in Asks |-> NoAsk]
  /\ resume = [r \in Resumes |-> NoResume]
  /\ verified = {} /\ answered = {} /\ bound = [s \in SessionIds |-> 0]
  /\ overlapped = FALSE /\ renewedMidAsk = FALSE

Detach == active' = Null /\ live' = FALSE /\ activeKey' = Null

\* saveSessions: the limit, and the oldest entry goes while the storage is full.
Save(list) ==
  \E n \in {HistoryLimit, HistoryLimit - 1} :
    LET retained == SubSeq(list, 1, IF n < Len(list) THEN n ELSE Len(list))
    IN  sessions' = retained /\ store' = retained

\* Mutant: the session of the expired token stays attached.
RequestTokenAttached(s, key, l) ==
  /\ active' = s /\ activeKey' = key /\ live' = l
  /\ token' = "none" /\ verifying' = TRUE
  /\ renewedMidAsk' = (renewedMidAsk \/ (token = "expired" /\ InFlight # {}))
  /\ UNCHANGED gen

\* ensureDemoToken without a valid token: an expired one detaches session s; every caller waits for one verification.
RequestToken(s, key, l) ==
  /\ IF token = "expired" /\ s # Null THEN Detach ELSE active' = s /\ activeKey' = key /\ live' = l
  /\ token' = "none" /\ verifying' = TRUE
  /\ renewedMidAsk' = (renewedMidAsk \/ (token = "expired" /\ InFlight # {}))
  /\ UNCHANGED gen

-----------------------------------------------------------------------------
\* resumeSession, up to its first await.
BeginResume(r, e) ==
  LET started(stage) == [resume EXCEPT ![r] = [NoResume EXCEPT !.stage = stage, !.session = e.id, !.last = e.last]]
  IN  /\ resume[r].stage = "new" /\ Room
      /\ overlapped' = (overlapped \/ Waiting # {} \/ InFlight # {})
      /\ current' = IF mode = "public" /\ e.last # Null THEN [session |-> e.id, answer |-> e.last] ELSE Null
      /\ IF mode = "public" /\ e.last = Null
         THEN \* an incomplete entry is removed
              /\ Save(Without(store, e.id)) /\ Detach /\ busy' = (loaded # "loading" /\ busy)
              /\ resume' = [resume EXCEPT ![r] = Ended] /\ UNCHANGED <<demo, renewedMidAsk>>
         ELSE /\ sessions' = store /\ UNCHANGED store
              /\ busy' = TRUE
              /\ IF mode = "local" \/ token = "valid"
                 THEN /\ active' = e.id /\ activeKey' = e.id /\ live' = Null
                      /\ resume' = started("wait") /\ UNCHANGED <<demo, renewedMidAsk>>
                 ELSE RequestToken(e.id, e.id, Null) /\ resume' = started("token")
      /\ UNCHANGED <<request, pending, ask, mode, mishaps, alive, verified, answered, bound>>

\* A click on another entry of the history; it is not blocked by a resume that is still waiting.
ResumeClick(r) ==
  /\ loaded = "up" /\ Idle
  /\ \E k \in DOMAIN sessions : sessions[k].id # active /\ BeginResume(r, sessions[k])
  /\ UNCHANGED loaded

\* initializeApp: the settings decide the mode, then the active session of the last visit is resumed.
Load(r) ==
  /\ loaded = "loading" /\ loaded' = "up"
  /\ IF activeKey \in Ids(store)
     THEN \E k \in DOMAIN store : store[k].id = activeKey /\ BeginResume(r, store[k])
     ELSE /\ sessions' = store /\ active' = Null /\ live' = FALSE /\ busy' = FALSE
          /\ UNCHANGED <<store, activeKey, current, demo, request, pending, handlers, mode, mishaps, alive, ghosts>>

\* The settings could not be loaded: the page goes on as a local one without a history.
LoadFails ==
  /\ loaded = "loading" /\ loaded' = "failed" /\ busy' = FALSE
  /\ UNCHANGED <<conversation, current, demo, request, pending, history, handlers, mode, mishaps, alive, ghosts>>

\* After the token: a session that is no longer the active one is left alone.
ResumeWithToken(r) ==
  /\ resume[r].stage = "go"
  /\ IF active # resume[r].session
     THEN resume' = [resume EXCEPT ![r] = Ended] /\ busy' = FALSE
     ELSE resume' = [resume EXCEPT ![r].stage = "wait"] /\ UNCHANGED busy
  /\ UNCHANGED <<history, conversation, current, demo, request, pending, ask, page, alive, ghosts>>

\* session_status: a public page is told of its own sessions only; an error counts as not live.
StateReply(r) ==
  /\ resume[r].stage = "wait" /\ resume[r].state = "-"
  /\ LET s == resume[r].session
         mine == s \in alive /\ (mode = "public" => bound[s] = gen)
     IN  \E reply \in {"not live", "401"} \cup (IF mine THEN {"live"} ELSE {}) :
           /\ reply = "401" => mode = "public"
           /\ resume' = [resume EXCEPT ![r].state = reply]
  /\ UNCHANGED <<history, conversation, current, demo, controls, ask, page, alive, ghosts>>

\* Mutant: the liveness of the session is not asked for.
ContinueIfLiveBlind(r) == live' = TRUE /\ UNCHANGED <<active, activeKey>>

\* The end of a resume: the reply decides whether the active session continues.
ContinueIfLive(r) ==
  IF resume[r].state = "live" THEN live' = TRUE /\ UNCHANGED <<active, activeKey>> ELSE Detach

Resumed(r) ==
  LET s == resume[r].session
      replies == IF mode = "local" /\ resume[r].last # Null THEN {"ok", "gone", "error"} ELSE {"-"}
  IN  /\ resume[r].stage = "wait" /\ resume[r].state # "-"
      /\ \E answer \in replies : \* what the request for the stored answer of a local page returned
           CASE answer = "gone" ->
                  /\ current' = Null /\ Save(Without(sessions, s))
                  /\ IF active = s THEN Detach ELSE UNCHANGED conversation
             [] answer = "error" -> current' = Null /\ Detach /\ UNCHANGED history
             [] OTHER ->
                  /\ current' = IF answer = "ok" THEN [session |-> s, answer |-> resume[r].last] ELSE current
                  /\ ContinueIfLive(r) /\ UNCHANGED history
      /\ token' = IF resume[r].state = "401" THEN "none" ELSE token
      /\ verified' = IF resume[r].state = "live" THEN verified \cup {s} ELSE verified
      /\ resume' = [resume EXCEPT ![r] = Ended] /\ busy' = FALSE
      /\ renewedMidAsk' = (renewedMidAsk \/ (resume[r].state = "401" /\ InFlight # {}))
  /\ UNCHANGED <<verifying, gen, request, pending, ask, page, alive, answered, bound, overlapped>>

-----------------------------------------------------------------------------
\* The submit handler, up to its first await; the Ask button is disabled while the page is busy.
Submit(a) ==
  /\ ask[a].stage = "new" /\ Room /\ Idle /\ ~busy /\ live # Null
  /\ pending' = TRUE /\ busy' = TRUE
  /\ IF AppMode = "local" \/ token = "valid"
     THEN /\ ask' = [ask EXCEPT ![a].stage = "go"]
          /\ UNCHANGED <<conversation, demo, renewedMidAsk>>
     ELSE /\ ask' = [ask EXCEPT ![a].stage = "token"]
          /\ RequestToken(active, activeKey, live)
  /\ UNCHANGED <<history, current, request, resume, page, alive, verified, answered, bound, overlapped>>

\* The settings dialog needs a token to prepare a local embedding profile.
PrepareFromDialog ==
  /\ loaded = "up" /\ mode = "public" /\ token # "valid" /\ ~verifying
  /\ RequestToken(active, activeKey, live)
  /\ UNCHANGED <<history, current, controls, handlers, page, alive, verified, answered, bound, overlapped>>

TurnstilePasses ==
  /\ verifying /\ gen < MaxTokens
  /\ verifying' = FALSE /\ token' = "valid" /\ gen' = gen + 1
  /\ ask' = [a \in Asks |-> IF ask[a].stage = "token" THEN [ask[a] EXCEPT !.stage = "go"] ELSE ask[a]]
  /\ resume' = [r \in Resumes |-> IF resume[r].stage = "token" THEN [resume[r] EXCEPT !.stage = "go"] ELSE resume[r]]
  /\ renewedMidAsk' = (renewedMidAsk \/ InFlight # {})
  /\ UNCHANGED <<history, conversation, current, controls, page, alive, verified, answered, bound, overlapped>>

\* Every waiting handler gives up: a submit keeps its draft, a resume detaches.
TurnstileFails ==
  LET submits == {a \in Asks : ask[a].stage = "token"}
      resumes == {r \in Resumes : resume[r].stage = "token"}
  IN  /\ verifying /\ verifying' = FALSE
      /\ ask' = [a \in Asks |-> IF a \in submits THEN NoAsk ELSE ask[a]]
      /\ resume' = [r \in Resumes |-> IF r \in resumes THEN Ended ELSE resume[r]]
      /\ pending' = (pending /\ submits = {})
      /\ busy' = (busy /\ submits \cup resumes = {})
      /\ IF resumes # {} THEN Detach ELSE UNCHANGED conversation
      /\ UNCHANGED <<history, current, token, gen, request, page, alive, ghosts>>

Fresh(s) == /\ s \notin Ids(sessions) \cup Ids(store) \cup alive \cup {active}
            /\ \A a \in Asks : ask[a].session # s

\* The session of a question: the active one if the server holds it, otherwise a new one.
SessionFor(s) == IF active # Null /\ live = TRUE THEN s = active ELSE Fresh(s)

\* The submit handler, up to its fetch.
Send(a) ==
  /\ ask[a].stage = "go"
  /\ \E s \in SessionIds :
       SessionFor(s) /\ ask' = [ask EXCEPT ![a] = [stage |-> "sent", session |-> s,
                                                  gen |-> IF AppMode = "public" THEN gen ELSE Null]]
  /\ request' = a /\ busy' = TRUE /\ current' = Null
  /\ overlapped' = (overlapped \/ Waiting # {} \/ InFlight # {})
  /\ UNCHANGED <<history, conversation, demo, pending, resume, page, alive, verified, answered, bound, renewedMidAsk>>

\* The server's side of an ask: it stores an answer and keeps the session, or refuses; without a token it answers 401.
ServerStores(a) ==
  /\ ask[a].stage = "sent" /\ (mode = "public" => ask[a].gen # Null)
  /\ ask' = [ask EXCEPT ![a].stage = "stored"]
  /\ alive' = alive \cup {ask[a].session}
  /\ answered' = answered \cup {[id |-> ask[a].session, last |-> a]}
  /\ bound' = IF mode = "public" THEN [bound EXCEPT ![ask[a].session] = ask[a].gen] ELSE bound
  /\ UNCHANGED <<history, conversation, current, demo, controls, resume, page, verified, overlapped, renewedMidAsk>>

ServerRefuses(a) ==
  /\ ask[a].stage \in {"sent", "withdrawn"}
  /\ \E reply \in IF mode = "public" THEN {"error", "401"} ELSE {"error"} : ask' = [ask EXCEPT ![a].stage = reply]
  /\ UNCHANGED <<history, conversation, current, demo, controls, resume, page, alive, ghosts>>

\* The finally block: another ask may have taken the place of this one.
Finish(a) ==
  /\ pending' = FALSE
  /\ IF request = a THEN request' = Null /\ busy' = FALSE ELSE UNCHANGED <<request, busy>>

\* Mutant: the earlier entry of the session stays.
RecordedTwice(list, s, answer) == <<[id |-> s, last |-> answer]>> \o list

\* recordTurn: the entry of the session moves to the front with its latest answer.
Recorded(list, s, answer) == <<[id |-> s, last |-> answer]>> \o Without(list, s)

\* An answer that no other handler waits beside settles what overlapping ones left.
AnsweredAlone(a) == Waiting = {} /\ InFlight = {a} /\ (mode = "public" => token # "none")

Answered(a) ==
  LET s == ask[a].session
  IN  /\ ask[a].stage = "stored"
      /\ active' = s /\ activeKey' = s /\ live' = TRUE
      /\ current' = [session |-> s, answer |-> a]
      /\ Save(Recorded(sessions, s, a))
      /\ verified' = verified \cup {s}
      /\ ask' = [ask EXCEPT ![a] = [stage |-> "over", session |-> @.session, gen |-> Null]] /\ Finish(a)
      /\ overlapped' = (overlapped /\ ~AnsweredAlone(a))
      /\ UNCHANGED <<demo, resume, page, alive, answered, bound, renewedMidAsk>>

\* Mutant: the question is entered although no answer came.
FailedRecorded(a) ==
  /\ ask[a].stage \in {"error", "401", "aborted"}
  /\ Save(Recorded(sessions, ask[a].session, a))
  /\ ask' = [ask EXCEPT ![a] = [stage |-> "over", session |-> @.session, gen |-> Null]] /\ Finish(a)
  /\ UNCHANGED <<conversation, current, demo, resume, page, alive, ghosts>>

\* requestJson on 401: the token and the session go; a cancelled ask also clears the screen.
Failed(a) ==
  /\ ask[a].stage \in {"error", "401", "aborted"}
  /\ IF ask[a].stage = "401" /\ AppMode = "public" THEN token' = "none" /\ Detach ELSE UNCHANGED <<token, conversation>>
  /\ current' = IF ask[a].stage = "aborted" THEN Null ELSE current
  /\ ask' = [ask EXCEPT ![a] = [stage |-> "over", session |-> @.session, gen |-> Null]] /\ Finish(a)
  /\ UNCHANGED <<history, verifying, gen, resume, page, alive, ghosts>>

\* The cancel button of the active request: the server agrees while the answer is not stored, and otherwise nothing happens.
CancelAsk(a) ==
  /\ request = a /\ ask[a].stage = "sent" /\ ask' = [ask EXCEPT ![a].stage = "withdrawn"]
  /\ UNCHANGED <<history, conversation, current, demo, controls, resume, page, alive, ghosts>>

\* Its reply aborts the fetch, unless the reply to the ask was first.
Abort(a) ==
  /\ ask[a].stage = "withdrawn" /\ ask' = [ask EXCEPT ![a].stage = "aborted"]
  /\ UNCHANGED <<history, conversation, current, demo, controls, resume, page, alive, ghosts>>

\* A poll for progress, or a cancel, that meets an expired token.
Poll401 ==
  /\ request # Null /\ AppMode = "public" /\ token = "expired"
  /\ token' = "none" /\ Detach /\ renewedMidAsk' = TRUE
  /\ UNCHANGED <<history, current, verifying, gen, controls, handlers, page, alive, verified, answered, bound, overlapped>>

-----------------------------------------------------------------------------
NewSession ==
  /\ Idle /\ ~busy /\ Detach /\ current' = Null
  /\ UNCHANGED <<history, demo, controls, handlers, page, alive, ghosts>>

ClearHistory ==
  /\ Idle /\ ~busy /\ Detach /\ current' = Null
  /\ sessions' = <<>> /\ store' = <<>>
  /\ UNCHANGED <<demo, controls, handlers, page, alive, ghosts>>

RemoveEntry(s) ==
  /\ Idle /\ s \in Ids(sessions) \ {active}
  /\ Save(Without(sessions, s))
  /\ UNCHANGED <<conversation, current, demo, controls, handlers, page, alive, ghosts>>

\* recoverFromClientError: a stray error re-enables the page whatever is in flight.
ClientError ==
  /\ mishaps < MaxMishaps /\ mishaps' = mishaps + 1
  /\ request' = Null /\ pending' = FALSE /\ busy' = FALSE
  /\ UNCHANGED <<history, conversation, current, demo, handlers, mode, loaded, alive, ghosts>>

\* The page is loaded again: only the storage survives, and the handlers of the old page are gone.
Reload ==
  /\ mishaps < MaxMishaps /\ mishaps' = mishaps + 1
  /\ loaded' = "loading" /\ sessions' = <<>> /\ active' = Null /\ live' = FALSE /\ current' = Null
  /\ verifying' = FALSE /\ busy' = TRUE /\ request' = Null /\ pending' = FALSE
  /\ ask' = [a \in Asks |-> IF ask[a].stage = "new" THEN NoAsk ELSE [stage |-> "over", session |-> ask[a].session, gen |-> Null]]
  /\ resume' = [r \in Resumes |-> IF resume[r].stage = "new" THEN NoResume ELSE Ended]
  /\ verified' = {} /\ overlapped' = FALSE
  /\ UNCHANGED <<store, activeKey, token, gen, mode, alive, answered, bound, renewedMidAsk>>

ExpireToken ==
  /\ token = "valid" /\ token' = "expired"
  /\ UNCHANGED <<history, conversation, current, verifying, gen, controls, handlers, page, alive, ghosts>>

EndSession(s) ==
  /\ s \in alive /\ alive' = alive \ {s}
  /\ UNCHANGED <<history, conversation, current, demo, controls, handlers, page, ghosts>>

Events ==
  \/ \E r \in Resumes : ResumeClick(r) \/ Load(r) \/ StateReply(r) \/ Resumed(r)
  \/ \E a \in Asks : Submit(a) \/ ServerStores(a) \/ ServerRefuses(a) \/ Answered(a) \/ Failed(a)
                     \/ CancelAsk(a) \/ Abort(a)
  \/ LoadFails \/ PrepareFromDialog \/ TurnstilePasses \/ TurnstileFails \/ Poll401
  \/ NewSession \/ ClearHistory \/ ClientError \/ Reload \/ ExpireToken
  \/ \E s \in SessionIds : RemoveEntry(s) \/ EndSession(s)

ClientNext ==
  \/ Settled /\ Events
  \/ \E r \in Resumes : ResumeWithToken(r)
  \/ \E a \in Asks : Send(a)

ClientSpec == ClientInit /\ [][ClientNext]_clientVars

-----------------------------------------------------------------------------
(* A page continues a session only after the server has said that it holds *)
(* that very session, and the next question goes to the session whose      *)
(* answer is on screen.  Handlers that overlapped are excepted until one   *)
(* question is answered alone: a resume is not blocked by another one that *)
(* waits, and each writes the conversation when it ends (resumeSession,    *)
(* submit).                                                                *)
ContinuesWhatItShows ==
  active # Null /\ live = TRUE /\ ~overlapped =>
    active \in verified /\ (current = Null \/ current.session = active)

(* A renewed token starts a new session: what a public page continues was  *)
(* last answered under the token it holds now, unless the token went while *)
(* an ask was in flight, whose reply attaches the old session again        *)
(* (ensureDemoToken, requestJson).                                         *)
RenewedTokenStartsNewSession ==
  mode = "public" /\ loaded = "up" /\ active # Null /\ live = TRUE /\ ~overlapped /\ ~renewedMidAsk
    => bound[active] = gen

(* The history is what happened: an entry of this page shows an answer the *)
(* server has stored in that session, never a question that failed, was    *)
(* cancelled or was lost in a reload, and each session is there once.  The *)
(* storage is what the loaded page shows as long as no other page writes   *)
(* it: a public tab has its own, two tabs of a local application share one *)
(* and each writes its whole list (recordTurn, saveSessions, removeSession, *)
(* selectStore).                                                           *)
HistoryIsHonest ==
  /\ loaded = "up" => sessions = store
  /\ \A k \in DOMAIN store :
       /\ store[k].last \in Asks => store[k] \in answered
       /\ \A j \in DOMAIN store : store[j].id = store[k].id => j = k
=============================================================================
