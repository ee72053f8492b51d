------------------------- MODULE EmbeddingRegistry -------------------------
(***************************************************************************)
(* EmbeddingRegistry of app/service.py: the embedding models and the one   *)
(* Chroma client of the web process, built on first use, with failures     *)
(* cached.  Two kinds of call race: runtime, made by every ask, takes the  *)
(* profile's model and then the client; the preparation route looks at the *)
(* client first, clears the profile's failure and then takes its model.    *)
(*                                                                         *)
(* A construction runs outside the state lock, under the profile's build   *)
(* lock (the Chroma build lock for the client), and may take minutes.      *)
(***************************************************************************)
EXTENDS FiniteSets

CONSTANTS
  Asks,       \* calls of runtime
  Prepares,   \* requests to /api/embedding-profiles/prepare
  Profiles,
  ProfileOf,  \* ProfileOf[c]: the profile a call names
  Slow,       \* profiles whose construction may never end
  NoCall

Calls == Asks \cup Prepares

ASSUME CallsAssumption == /\ Asks \cap Prepares = {} /\ NoCall \notin Calls
                          /\ ProfileOf \in [Calls -> Profiles] /\ Slow \subseteq Profiles

VARIABLES
  models,    \* _models: which call built the profile's model
  errors,    \* _errors: which call's construction failed
  buildLock, \* holder of each _profile_build_locks entry
  chroma,    \* _chroma_client / _chroma_error: "none", "open", "failed"
  chromaLock,\* holder of _chroma_build_lock
  pc,        \* "new", "model", "building", "client", "opening", "done", "failed", "unavailable"
  got,       \* the model a call was given
  seen,      \* the cached error a call was given
  since      \* ghost: failed constructions of the profile since a preparation cleared it

client == <<chroma, chromaLock>>
model  == <<models, errors, buildLock>>
registryVars == <<model, client, pc, got, seen, since>>

-----------------------------------------------------------------------------
RegistryInit ==
  /\ models = [p \in Profiles |-> NoCall]
  /\ errors = [p \in Profiles |-> NoCall]
  /\ buildLock = [p \in Profiles |-> NoCall]
  /\ chroma = "none" /\ chromaLock = NoCall
  /\ pc = [c \in Calls |-> "new"]
  /\ got = [c \in Calls |-> NoCall] /\ seen = [c \in Calls |-> NoCall]
  /\ since = [c \in Prepares |-> {}]

Goto(c, where) == pc' = [pc EXCEPT ![c] = where]

\* Where a call goes once it has its model, or its client.
AfterModel(c)  == IF c \in Asks THEN "client" ELSE "done"
AfterClient(c) == IF c \in Asks THEN "done" ELSE "clearing"

StartCall(c) ==
  /\ pc[c] = "new"
  /\ Goto(c, IF c \in Asks THEN "model" ELSE "client")
  /\ UNCHANGED <<model, client, got, seen, since>>

\* Mutant: the preparation leaves the cached failure in place.
ClearNothing(c) ==
  /\ pc[c] = "clearing"
  /\ Goto(c, "model")
  /\ UNCHANGED <<model, client, got, seen, since>>

\* prepare(retry=True) -> clear_failure(model_name)
ClearFailure(c) ==
  /\ pc[c] = "clearing"
  /\ errors' = [errors EXCEPT ![ProfileOf[c]] = NoCall]
  /\ Goto(c, "model")
  /\ UNCHANGED <<models, buildLock, client, got, seen, since>>

\* profile_vector_index_ready: no usable collection, or the client cannot be had.
IndexUnavailable(c) ==
  /\ pc[c] = "clearing"
  /\ Goto(c, "unavailable")
  /\ UNCHANGED <<model, client, got, seen, since>>

\* Mutant: one build lock for every profile.
OneBuildLock(p) == \A q \in Profiles : buildLock[q] = NoCall

\* The profile's build lock can be taken.
BuildLockFree(p) == buildLock[p] = NoCall

\* _model: the previous error of the profile is raised again.
RaiseCached(c) ==
  LET p == ProfileOf[c] IN
  /\ pc[c] = "model" /\ BuildLockFree(p)
  /\ errors[p] # NoCall
  /\ seen' = [seen EXCEPT ![c] = errors[p]]
  /\ Goto(c, "failed")
  /\ UNCHANGED <<model, client, got, since>>

\* _model: the existing model is returned.
Reuse(c) ==
  LET p == ProfileOf[c] IN
  /\ pc[c] = "model" /\ BuildLockFree(p)
  /\ errors[p] = NoCall /\ models[p] # NoCall
  /\ got' = [got EXCEPT ![c] = models[p]]
  /\ Goto(c, AfterModel(c))
  /\ UNCHANGED <<model, client, seen, since>>

\* Mutant: the build lock is not held during the construction.
BeginBuildUnlocked(c) ==
  LET p == ProfileOf[c] IN
  /\ pc[c] = "model"
  /\ errors[p] = NoCall /\ models[p] = NoCall
  /\ Goto(c, "building")
  /\ UNCHANGED <<model, client, got, seen, since>>

\* _model: construction starts, outside the state lock.
BeginBuild(c) ==
  LET p == ProfileOf[c] IN
  /\ pc[c] = "model" /\ BuildLockFree(p)
  /\ errors[p] = NoCall /\ models[p] = NoCall
  /\ buildLock' = [buildLock EXCEPT ![p] = c]
  /\ Goto(c, "building")
  /\ UNCHANGED <<models, errors, client, got, seen, since>>

BuildOk(c) ==
  LET p == ProfileOf[c] IN
  /\ pc[c] = "building"
  /\ models' = [models EXCEPT ![p] = c]
  /\ buildLock' = [buildLock EXCEPT ![p] = NoCall]
  /\ got' = [got EXCEPT ![c] = c]
  /\ Goto(c, AfterModel(c))
  /\ UNCHANGED <<errors, client, seen, since>>

BuildFails(c) ==
  LET p == ProfileOf[c] IN
  /\ pc[c] = "building"
  /\ errors' = [errors EXCEPT ![p] = c]
  /\ buildLock' = [buildLock EXCEPT ![p] = NoCall]
  /\ seen' = [seen EXCEPT ![c] = c]
  /\ Goto(c, "failed")
  /\ since' = [d \in Prepares |-> IF ProfileOf[d] = p /\ pc[d] \in {"model", "building"}
                                  THEN since[d] \cup {c} ELSE since[d]]
  /\ UNCHANGED <<models, client, got>>

\* _client, under its own build lock; a preparation only learns "unavailable".
ClientCached(c) ==
  /\ pc[c] = "client" /\ chromaLock = NoCall
  /\ chroma # "none"
  /\ Goto(c, IF chroma = "open" THEN AfterClient(c)
             ELSE IF c \in Asks THEN "failed" ELSE "unavailable")
  /\ UNCHANGED <<model, client, got, seen, since>>

BeginOpen(c) ==
  /\ pc[c] = "client" /\ chromaLock = NoCall
  /\ chroma = "none"
  /\ chromaLock' = c
  /\ Goto(c, "opening")
  /\ UNCHANGED <<model, chroma, got, seen, since>>

OpenEnds(c) ==
  /\ pc[c] = "opening"
  /\ \/ chroma' = "open" /\ Goto(c, AfterClient(c))
     \/ chroma' = "failed" /\ Goto(c, IF c \in Asks THEN "failed" ELSE "unavailable")
  /\ chromaLock' = NoCall
  /\ UNCHANGED <<model, got, seen, since>>

Ended == {"done", "failed", "unavailable"}
Quiescent == (\A c \in Calls : pc[c] \in Ended) /\ UNCHANGED registryVars

\* Everything a call does by itself, and the end of its construction.
Step(c) == \/ StartCall(c) \/ ClearFailure(c) \/ IndexUnavailable(c)
           \/ RaiseCached(c) \/ Reuse(c) \/ BeginBuild(c)
           \/ ClientCached(c) \/ BeginOpen(c) \/ OpenEnds(c)
Build(c) == BuildOk(c) \/ BuildFails(c)

RegistryNext == (\E c \in Calls : Step(c) \/ Build(c)) \/ Quiescent

RegistrySpec == RegistryInit /\ [][RegistryNext]_registryVars

\* Threads are scheduled; constructions end, except those of the slow profiles.
FairRegistrySpec ==
  /\ RegistrySpec
  /\ \A c \in Calls : WF_registryVars(Step(c))
  /\ \A c \in {d \in Calls : ProfileOf[d] \notin Slow} : WF_registryVars(Build(c))

-----------------------------------------------------------------------------
RegistryTypeOK ==
  /\ models \in [Profiles -> Calls \cup {NoCall}]
  /\ errors \in [Profiles -> Calls \cup {NoCall}]
  /\ buildLock \in [Profiles -> Calls \cup {NoCall}]
  /\ chroma \in {"none", "open", "failed"} /\ chromaLock \in Calls \cup {NoCall}
  /\ pc \in [Calls -> {"new", "clearing", "model", "building", "client", "opening"} \cup Ended]
  /\ got \in [Calls -> Calls \cup {NoCall}] /\ seen \in [Calls -> Calls \cup {NoCall}]
  /\ since \in [Prepares -> SUBSET Calls]
  /\ \A c \in Calls : pc[c] = "building" => buildLock[ProfileOf[c]] = c

\* Every call that gets a model of a profile gets the same object, for ever: the
\* model is never built twice, whatever failures and preparations come between.
OneModelPerProfile ==
  \A c \in Calls : got[c] # NoCall => got[c] = models[ProfileOf[c]]

\* A preparation never reports a failure older than itself.
NoStaleFailure ==
  \A c \in Prepares : pc[c] = "failed" => seen[c] \in since[c]

\* A construction under way is the only one, and nothing is cached meanwhile.
BuilderAlone ==
  \A c \in Calls : pc[c] = "building" => models[ProfileOf[c]] = NoCall

\* Once a preparation has cleared its profile, a cached error is newer than that.
ErrorsAreFresh ==
  \A c \in Prepares :
    pc[c] \in {"model", "building"} /\ errors[ProfileOf[c]] # NoCall
    => errors[ProfileOf[c]] \in since[c]

RegistryInv == RegistryTypeOK /\ OneModelPerProfile /\ NoStaleFailure /\ BuilderAlone /\ ErrorsAreFresh

\* A construction that never ends delays no call of another profile.
OthersFinish ==
  \A c \in Calls : ProfileOf[c] \notin Slow => (pc[c] # "new" ~> pc[c] \in Ended)
=============================================================================
