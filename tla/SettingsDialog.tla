--------------------------- MODULE SettingsDialog ---------------------------
(***************************************************************************)
(* The retrieval settings: the dialog of app/static/app.js in every open   *)
(* tab, the settings routes of app/api.py and app/settings.py with its     *)
(* override file.  Two of the eleven settings stand for all: the embedding *)
(* model and one bounded number.  A local server keeps the overrides in a  *)
(* file that anyone may edit; a public page keeps them in its tab.         *)
(***************************************************************************)
EXTENDS Integers

CONSTANTS
  Tabs,
  Absent, Corrupt,  \* no override of that name; a file that is not a JSON object
  MaxSaves, MaxHandEdits

VARIABLES
  dialogMode,  \* mode of the payload: "local" or "public"
  file,        \* app_settings.json: Corrupt, or a value or Absent for every name
  tabStore,    \* the settings key of a tab's sessionStorage, in the same form
  form,        \* of a tab: stage, overrides (the payload), inputs; asked and seen at its last submit
  saves, handEdits
settingsVars == <<dialogMode, file, tabStore, form, saves, handEdits>>

-----------------------------------------------------------------------------
WEB_SETTING_NAMES == {"embedding_model", "final_top_k"}
None == [n \in WEB_SETTING_NAMES |-> Absent]
Defaults == [embedding_model |-> "hosted", final_top_k |-> "8"]
LocalModels == {"local", "undeployed"}
\* Registered profiles and values within the bounds; a public page is bounded more tightly.
Reviewed(m) == [embedding_model |-> {"hosted", "local"} \cup (IF m = "local" THEN {"undeployed"} ELSE {}),
             final_top_k |-> IF m = "local" THEN {"1", "8", "15", "50"} ELSE {"1", "8", "15"}]
\* What can be typed or selected ("" is a cleared field), and what a hand-edited file may hold.
Typed(m) == [embedding_model |-> Reviewed(m).embedding_model, final_top_k |-> {"", "0", "8", "15", "50"}]
Written == [embedding_model |-> {Absent, "local", "unregistered"}, final_top_k |-> {Absent, "0", "50"}]

\* WebSettingsStore._read: an unreadable file is empty, and an invalid value is dropped.
Read(raw) ==
  IF raw = Corrupt THEN None
  ELSE [n \in WEB_SETTING_NAMES |-> IF raw[n] \in Reviewed("local")[n] THEN raw[n] ELSE Absent]

\* WebSettingsStore.apply, and describe_settings' effective values.
Effective(overrides) == [n \in WEB_SETTING_NAMES |-> IF overrides[n] = Absent THEN Defaults[n] ELSE overrides[n]]

\* Mutant: the stored overrides are replaced by the changes.
UpdateReplaces(raw, changes) == [n \in WEB_SETTING_NAMES |-> IF n \in DOMAIN changes THEN changes[n] ELSE Absent]

\* WebSettingsStore.update under its lock: read, merge and replace; Absent clears an override.
Update(raw, changes) == [n \in WEB_SETTING_NAMES |-> IF n \in DOMAIN changes THEN changes[n] ELSE Read(raw)[n]]

\* validate_public_settings, for what a public page sends with a question.
Accepted(values) == \A n \in WEB_SETTING_NAMES : values[n] = Absent \/ values[n] \in Reviewed("public")[n]

\* Absent is no value of a setting, and a file that is no JSON object no object of settings.
ASSUME SettingsAssumption ==
  /\ \A n \in WEB_SETTING_NAMES : Absent \notin Reviewed("local")[n] \cup {""}
  /\ Corrupt \notin [WEB_SETTING_NAMES -> {Absent} \cup UNION {Reviewed("local")[n] : n \in WEB_SETTING_NAMES}]

-----------------------------------------------------------------------------
Closed == [stage |-> "closed", overrides |-> None, inputs |-> Defaults, asked |-> Defaults, seen |-> Defaults]

SettingsInit ==
  /\ dialogMode \in {"local", "public"}
  /\ file = None /\ tabStore = [t \in Tabs |-> None]
  /\ form = [t \in Tabs |-> Closed]
  /\ saves = 0 /\ handEdits = 0

Stored(t) == IF dialogMode = "public" THEN tabStore[t] ELSE Read(file)
\* renderSettingsForm: the baseline is what the payload makes effective.
Baseline(f) == Effective(f.overrides)

Open(t) ==
  /\ form[t].stage = "closed"
  /\ form' = [form EXCEPT ![t] = [Closed EXCEPT !.stage = "open", !.overrides = Stored(t), !.inputs = Effective(Stored(t))]]
  /\ UNCHANGED <<dialogMode, file, tabStore, saves, handEdits>>

Edit(t, n) ==
  /\ form[t].stage = "open"
  /\ \E v \in Typed(dialogMode)[n] : form' = [form EXCEPT ![t].inputs[n] = v]
  /\ UNCHANGED <<dialogMode, file, tabStore, saves, handEdits>>

\* Undo of all edits.
UndoAll(t) ==
  /\ form[t].stage = "open"
  /\ form' = [form EXCEPT ![t].inputs = Baseline(form[t])]
  /\ UNCHANGED <<dialogMode, file, tabStore, saves, handEdits>>

\* collectSettingsChanges: the edited fields, a default or a cleared field as a cleared override.
Changes(f) ==
  LET given == [n \in WEB_SETTING_NAMES |-> IF f.asked[n] = "" THEN Defaults[n] ELSE f.asked[n]]
  IN  [n \in {m \in WEB_SETTING_NAMES : f.asked[m] # f.seen[m]} |->
        IF given[n] = Defaults[n] THEN Absent ELSE given[n]]
WellFormed(f) == \A n \in WEB_SETTING_NAMES : f.inputs[n] \in Reviewed(dialogMode)[n] \cup {""}

\* localEmbeddingPreparationModel: only an explicit selection is prepared.
ToPrepare(f) == "embedding_model" \in DOMAIN Changes(f) /\ Changes(f).embedding_model \in LocalModels

\* The submit handler: a bad value keeps the dialog open, and without an edit it closes.
SubmitForm(t) ==
  LET f == [form[t] EXCEPT !.asked = form[t].inputs, !.seen = Baseline(form[t])]
  IN  /\ form[t].stage = "open" /\ saves < MaxSaves /\ WellFormed(form[t])
      /\ form' = [form EXCEPT ![t] = IF DOMAIN Changes(f) = {} THEN Closed
                                      ELSE [f EXCEPT !.stage = IF ToPrepare(f) THEN "preparing" ELSE "saving"]]
      /\ saves' = saves + 1
      /\ UNCHANGED <<dialogMode, file, tabStore, handEdits>>

\* Back to editing; what was asked is forgotten.
Reopened(f) == [f EXCEPT !.stage = "open", !.asked = Defaults, !.seen = Defaults]

\* The prepare route: a profile without an index, or that fails to load, is not saved.
PrepareEnds(t) ==
  /\ form[t].stage = "preparing"
  /\ form' \in {[form EXCEPT ![t].stage = "saving"], [form EXCEPT ![t] = Reopened(@)]}
  /\ UNCHANGED <<dialogMode, file, tabStore, saves, handEdits>>

\* A public page stores the changes it has just collected, and the dialog closes.
StoreInTab(t) ==
  LET changes == Changes(form[t])
  IN  /\ form[t].stage = "saving" /\ dialogMode = "public"
      /\ tabStore' = [tabStore EXCEPT ![t] = [n \in WEB_SETTING_NAMES |-> IF n \in DOMAIN changes THEN changes[n] ELSE Absent]]
      /\ form' = [form EXCEPT ![t] = Closed]
      /\ UNCHANGED <<dialogMode, file, saves, handEdits>>

\* PUT /api/settings on the server.
ServerUpdates(t) ==
  /\ form[t].stage = "saving" /\ dialogMode = "local"
  /\ file' = Update(file, Changes(form[t]))
  /\ form' = [form EXCEPT ![t].stage = "saved"]
  /\ UNCHANGED <<dialogMode, tabStore, saves, handEdits>>

\* Its reply closes the dialog.
SaveReply(t) ==
  /\ form[t].stage = "saved" /\ form' = [form EXCEPT ![t] = Closed]
  /\ UNCHANGED <<dialogMode, file, tabStore, saves, handEdits>>

\* The request or its reply is lost: the edits stay, over the payload of before.
SaveLost(t) ==
  /\ form[t].stage \in {"saving", "saved"} /\ dialogMode = "local"
  /\ form' = [form EXCEPT ![t] = Reopened(@)]
  /\ UNCHANGED <<dialogMode, file, tabStore, saves, handEdits>>

\* The dialog is closed without a save.
Close(t) ==
  /\ form[t].stage = "open" /\ form' = [form EXCEPT ![t] = Closed]
  /\ UNCHANGED <<dialogMode, file, tabStore, saves, handEdits>>

HandEdit ==
  /\ dialogMode = "local" /\ handEdits < MaxHandEdits /\ handEdits' = handEdits + 1
  /\ file' \in {Corrupt} \cup
       {raw \in [WEB_SETTING_NAMES -> UNION {Written[n] : n \in WEB_SETTING_NAMES}] : \A n \in WEB_SETTING_NAMES : raw[n] \in Written[n]}
  /\ UNCHANGED <<dialogMode, tabStore, form, saves>>

SettingsNext ==
  \/ HandEdit
  \/ \E t \in Tabs : Open(t) \/ UndoAll(t) \/ SubmitForm(t) \/ PrepareEnds(t) \/ StoreInTab(t)
                     \/ ServerUpdates(t) \/ SaveReply(t) \/ SaveLost(t) \/ Close(t)
  \/ \E t \in Tabs, n \in WEB_SETTING_NAMES : Edit(t, n)

SettingsSpec == SettingsInit /\ [][SettingsNext]_settingsVars

-----------------------------------------------------------------------------
(* A save through the server changes what its user edited and nothing      *)
(* else: a field left as it was shown keeps the value it has by then, be   *)
(* it another tab's or a hand-edited one, and an edited field gets what    *)
(* was typed (collectSettingsChanges, WebSettingsStore.update).            *)
SaveChangesOnlyItsEdits ==
  [][\A t \in Tabs, n \in WEB_SETTING_NAMES :
       form[t].stage = "saving" /\ form'[t].stage = "saved" =>
         Effective(Read(file'))[n] =
           IF form[t].asked[n] = form[t].seen[n] THEN Effective(Read(file))[n]
           ELSE IF form[t].asked[n] = "" THEN Defaults[n] ELSE form[t].asked[n]]_settingsVars

=============================================================================
