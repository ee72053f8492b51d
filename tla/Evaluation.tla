----------------------------- MODULE Evaluation -----------------------------
(* The evaluation harness (evaluation/core.py, models.py).  Preparations     *)
(* build a copy of the index from the committed sources in a directory of    *)
(* their own and swap it with the active one; a run of the evaluation set    *)
(* validates the active state once and then uses it item by item.  Each file *)
(* operation is an action: commands run side by side, fail and are killed.   *)
EXTENDS Naturals, Sequences, SequencesExt, FiniteSets, Functions

CONSTANTS
  Preparers,     \* executions of prepare_fixture_state
  First,         \* the state a first preparation made, before the first step
  Missing,       \* no directory
  NoItems,       \* EvalSetError
  EvalSets,      \* version of the repository -> items of evals/fixtures.json
  StripOf, PathOf, \* raw text -> stripped text, raw path -> relative path
  ItemTypes, ItemIndexes,
  IndexOfType,   \* SOURCE_TYPE_TO_LOGICAL_INDEX
  Packets,       \* what build_evidence may return
  Answers,       \* what generate_answer may return
  MaxCommits, MaxFaults \* bounds: changes of the repository or of the active state, failures of file operations and kills

Versions == 1 .. Len(EvalSets)
RawItems == UNION {Range(EvalSets[v]) : v \in Versions}
ASSUME EvaluationAssumption ==
  /\ EvalSets # <<>> /\ EvalSets \in Seq(Seq(RawItems))
  /\ MaxCommits \in Nat /\ MaxFaults \in Nat
  /\ First \notin Preparers

VARIABLES
  repository, \* version of evals/
  active,     \* fixture-state
  temporary, backup, \* the siblings each preparation makes
  prep,       \* the preparations
  eval,       \* the run of the evaluation set
  report,     \* the report files it wrote
  commits, faults,
  mixed,      \* ghost: preparations during which the repository changed
  unsafe      \* ghost: preparations whose swap was disturbed, see Disturb and Torn
trees == <<active, temporary, backup>>
evalVars == <<repository, trees, prep, eval, report, commits, faults, mixed, unsafe>>

Fresh(p) == [id |-> p, listed |-> 0, read |-> 0, indexed |-> 0, label |-> 0, sealed |-> <<>>]
Content(s) == <<s.listed, s.read, s.indexed>>
NoPrep == [pc |-> "idle", had |-> FALSE, moved |-> FALSE, prior |-> Missing]
NoItem == [packet |-> Missing, state |-> Missing, answer |-> Missing]
NoRun == [pc |-> "idle", version |-> 0, state |-> Missing, todo |-> <<>>, at |-> NoItem, results |-> <<>>, disturbed |-> FALSE]

EvalInit ==
  /\ repository = 1
  /\ active \in {Missing, [id |-> First, listed |-> 1, read |-> 1, indexed |-> 1, label |-> 1, sealed |-> <<1, 1, 1>>]}
  /\ temporary = [p \in Preparers |-> Missing] /\ backup = [p \in Preparers |-> Missing]
  /\ prep = [p \in Preparers |-> NoPrep]
  /\ eval = NoRun /\ report = {}
  /\ commits = 0 /\ faults = 0 /\ mixed = {} /\ unsafe = {}

-----------------------------------------------------------------------------
(* The evaluation set: one invalid item refuses the whole of it. *)
Stripped(value) == IF value \in DOMAIN StripOf THEN StripOf[value] ELSE value
Cleaned(list) == [k \in DOMAIN list |-> Stripped(list[k])]
Strict(list) == "" \notin Range(Cleaned(list)) /\ IsInjective(Cleaned(list))
Lists(raw) == {raw.courses, raw.files, raw.indexes, raw.terms, raw.weaknesses}

\* EvalItem.__post_init__ beside the checks of the loader.
ValidEvalItem(raw) ==
  /\ raw.exact_fields
  /\ "" \notin {Stripped(raw.id), Stripped(raw.query), Stripped(raw.type)}
  /\ \A list \in Lists(raw) : Strict(list)
  /\ Stripped(raw.type) \in ItemTypes
  /\ Range(Cleaned(raw.indexes)) \subseteq ItemIndexes
  /\ Range(Cleaned(raw.files)) \subseteq DOMAIN PathOf
  /\ raw.courses \o raw.files \o raw.indexes \o raw.weaknesses # <<>>

EvalItem(raw) == [id |-> Stripped(raw.id), type |-> Stripped(raw.type),
              courses |-> Range(Cleaned(raw.courses)),
              files |-> {PathOf[f] : f \in Range(Cleaned(raw.files))},
              indexes |-> Range(Cleaned(raw.indexes)), terms |-> Range(Cleaned(raw.terms)),
              weaknesses |-> Range(Cleaned(raw.weaknesses))]

Loaded(raws) ==
  IF /\ raws # <<>> /\ \A raw \in Range(raws) : ValidEvalItem(raw)
     /\ IsInjective([k \in DOMAIN raws |-> Stripped(raws[k].id)])
  THEN [k \in DOMAIN raws |-> EvalItem(raws[k])]
  ELSE NoItems

-----------------------------------------------------------------------------
(* Scores.  A text is the set of the phrases that occur in it. *)
Saying(texts) == UNION texts

\* score_retrieval finds nothing to report.
RetrievalPasses(item, packet) ==
  LET evidence == packet.evidence
      absence == item.courses \cup item.files \cup item.indexes = {} /\ item.weaknesses # {}
  IN  /\ packet.intent = item.type
      /\ item.courses \subseteq {e.course : e \in evidence}
      /\ item.files \subseteq {e.file : e \in evidence}
      /\ item.indexes \subseteq {IndexOfType[e.type] : e \in {e \in evidence : e.type \in DOMAIN IndexOfType}}
      /\ item.terms \subseteq Saying({e.text : e \in evidence})
      /\ item.weaknesses \subseteq Saying(packet.weaknesses)
      /\ absence => evidence = {}

\* score_citations finds nothing to report.
CitationsPass(item, packet, answer) ==
  /\ answer.cites \subseteq {e.id : e \in packet.evidence}
  /\ packet.evidence # {} <=> answer.cites # {}
  /\ \A w \in packet.weaknesses : \E l \in answer.limitations : w \subseteq l
  /\ item.terms \subseteq answer.text
  /\ item.weaknesses \subseteq Saying(answer.limitations)

-----------------------------------------------------------------------------
(* prepare_fixture_state *)
Building == {"inventory", "extract", "index", "manifest", "validate"}
Swapping == {"out", "in", "remove", "put back", "cleanup"}
Doing(p, pc) == prep[p].pc = pc
Proceeds(p, pc) == prep' = [prep EXCEPT ![p].pc = pc]
Ends(p, pc) == prep' = [prep EXCEPT ![p] = [NoPrep EXCEPT !.pc = pc]]
Fault == faults < MaxFaults /\ faults' = faults + 1
Running(run) == run.pc \notin {"idle", "done"}
\* The state the run validated is no longer the one it uses.
Disturbed(run) == [run EXCEPT !.disturbed = @ \/ Running(run)]
\* A swap beside which something else touches the active state.
Disturb(p) == unsafe' = IF \E q \in Preparers \ {p} : prep[q].pc \in Swapping
                        THEN unsafe \cup {p} \cup {q \in Preparers : prep[q].pc \in Swapping} ELSE unsafe

\* A commit changes the sources and the evaluation set.
Commit ==
  /\ commits < MaxCommits /\ commits' = commits + 1
  /\ \E v \in Versions : v > repository /\ repository' = v
  /\ mixed' = mixed \cup {p \in Preparers : prep[p].pc \in Building}
  /\ UNCHANGED <<trees, prep, eval, report, faults, unsafe>>

\* Someone synchronizes or edits the active state.
Drift ==
  /\ commits < MaxCommits /\ commits' = commits + 1
  /\ active # Missing
  /\ active' = [active EXCEPT !.indexed = 0]
  /\ eval' = Disturbed(eval)
  /\ unsafe' = unsafe \cup {p \in Preparers : prep[p].pc \in Swapping}
  /\ UNCHANGED <<repository, temporary, backup, prep, report, faults, mixed>>

\* Validation: the digests of the repository, the profile and the identities.
\* Mutant: the digests of the sources are enough.
UsableByLabel(s) == s # Missing /\ s.label = repository
Usable(s) == s # Missing /\ s.label = repository /\ s.sealed = Content(s) /\ 0 \notin Range(Content(s))

BeginPreparation(p) ==
  /\ Doing(p, "idle") /\ Loaded(EvalSets[repository]) # NoItems
  /\ temporary' = [temporary EXCEPT ![p] = Fresh(p)]
  /\ Proceeds(p, "inventory")
  /\ UNCHANGED <<repository, active, backup, eval, report, commits, faults, mixed, unsafe>>

Build(p) ==
  /\ \/ /\ Doing(p, "inventory") /\ Proceeds(p, "extract")
        /\ temporary' = [temporary EXCEPT ![p].listed = repository]
     \/ /\ Doing(p, "extract") /\ Proceeds(p, "index")
        /\ temporary' = [temporary EXCEPT ![p].read = repository]
     \/ /\ Doing(p, "index") /\ Proceeds(p, "manifest")
        /\ temporary' = [temporary EXCEPT ![p].indexed = @ + temporary[p].read]
     \/ /\ Doing(p, "manifest") /\ Proceeds(p, "validate")
        /\ temporary' = [temporary EXCEPT ![p].sealed = Content(temporary[p]), ![p].label = repository]
     \/ /\ Doing(p, "validate") /\ Usable(temporary[p]) /\ Proceeds(p, "check")
        /\ UNCHANGED temporary
  /\ UNCHANGED <<repository, active, backup, eval, report, commits, faults, mixed, unsafe>>

\* The temporary tree is removed; nothing reads one that could not be.
BuildFails(p) ==
  /\ prep[p].pc \in Building
  /\ IF Doing(p, "validate") /\ ~ Usable(temporary[p]) THEN UNCHANGED faults ELSE Fault
  /\ temporary' = [temporary EXCEPT ![p] = Missing]
  /\ Ends(p, "failed")
  /\ UNCHANGED <<repository, active, backup, eval, report, commits, mixed, unsafe>>

-----------------------------------------------------------------------------
(* _activate_fixture_state *)
CheckActive(p) ==
  /\ Doing(p, "check")
  /\ prep' = [prep EXCEPT ![p].pc = "out", ![p].had = active # Missing, ![p].prior = active]
  /\ Disturb(p)
  /\ UNCHANGED <<repository, trees, eval, report, commits, faults, mixed>>

MoveOut(p) ==
  /\ Doing(p, "out")
  /\ active' = Missing
  /\ backup' = [backup EXCEPT ![p] = active]
  /\ prep' = [prep EXCEPT ![p].pc = "in", ![p].moved = active # Missing]
  /\ eval' = IF active = Missing THEN eval ELSE Disturbed(eval)
  /\ UNCHANGED <<repository, temporary, report, commits, faults, mixed, unsafe>>

\* A copy or a removal that stopped half-way.
Torn(s) == [s EXCEPT !.indexed = 0]

\* shutil.move copies and then removes a directory that cannot be renamed: it
\* fails in the copy, which nothing reads then, or in the removal.
MoveOutFails(p) ==
  /\ Doing(p, "out") /\ active # Missing /\ Fault
  /\ \/ UNCHANGED <<trees, eval, unsafe>>
     \/ /\ backup' = [backup EXCEPT ![p] = active]
        /\ active' = Torn(active) /\ eval' = Disturbed(eval)
        /\ unsafe' = unsafe \cup {p}
        /\ UNCHANGED temporary
  /\ Proceeds(p, "remove")
  /\ UNCHANGED <<repository, report, commits, mixed>>

\* A tree is moved into a directory that exists, below it.
MoveIn(p) ==
  /\ Doing(p, "in")
  /\ active' = IF active = Missing THEN temporary[p] ELSE active
  /\ temporary' = [temporary EXCEPT ![p] = Missing]
  /\ Proceeds(p, "cleanup")
  /\ UNCHANGED <<repository, backup, eval, report, commits, faults, mixed, unsafe>>

MoveInFails(p) ==
  /\ Doing(p, "in") /\ Fault
  /\ \/ UNCHANGED trees
     \/ /\ active = Missing /\ active' \in {Torn(temporary[p]), temporary[p]}
        /\ UNCHANGED <<temporary, backup>>
  /\ Proceeds(p, "remove")
  /\ UNCHANGED <<repository, eval, report, commits, mixed, unsafe>>

\* Mutant: what was moved in half is left where it is.
RemoveNewKeeps(p) ==
  /\ Doing(p, "remove")
  /\ Proceeds(p, "put back")
  /\ UNCHANGED <<repository, trees, eval, report, commits, faults, mixed, unsafe>>

RemoveNew(p) ==
  /\ Doing(p, "remove")
  /\ active' = IF prep[p].moved \/ ~ prep[p].had THEN Missing ELSE active
  /\ eval' = IF active' = active THEN eval ELSE Disturbed(eval)
  /\ Proceeds(p, "put back")
  /\ UNCHANGED <<repository, temporary, backup, report, commits, faults, mixed, unsafe>>

\* The prior state returns, and the failure removes the temporary one.
PutBack(p) ==
  /\ Doing(p, "put back")
  /\ LET returns == prep[p].moved /\ backup[p] # Missing /\ active = Missing
     IN  /\ active' = IF returns THEN backup[p] ELSE active
         /\ backup' = IF prep[p].moved THEN [backup EXCEPT ![p] = Missing] ELSE backup
  /\ temporary' = [temporary EXCEPT ![p] = Missing]
  /\ Ends(p, "failed")
  /\ UNCHANGED <<repository, eval, report, commits, faults, mixed, unsafe>>

\* A failure inside the restoration, and a kill at any step; nothing ever reads
\* the siblings it leaves.
Stops(p) ==
  /\ prep[p].pc \in Building \cup Swapping \cup {"check"} /\ Fault
  /\ Ends(p, "stopped")
  /\ temporary' = [temporary EXCEPT ![p] = Missing]
  /\ backup' = [backup EXCEPT ![p] = Missing]
  /\ UNCHANGED <<repository, active, eval, report, commits, mixed, unsafe>>

\* The new state is in place; a backup that cannot be removed is an error.
Cleanup(p) ==
  /\ Doing(p, "cleanup")
  /\ backup' = [backup EXCEPT ![p] = Missing]
  /\ \/ Ends(p, "done") /\ UNCHANGED faults
     \/ Ends(p, "done with an error") /\ Fault
  /\ UNCHANGED <<repository, active, temporary, eval, report, commits, mixed, unsafe>>

-----------------------------------------------------------------------------
(* run_eval_set *)
prepared == <<repository, trees, prep, commits, faults, mixed, unsafe>>

BeginRun ==
  /\ eval.pc = "idle" /\ Usable(active)
  /\ eval' = [eval EXCEPT !.pc = "load", !.state = active, !.version = repository]
  /\ UNCHANGED <<prepared, report>>

LoadItems ==
  /\ eval.pc = "load"
  /\ LET items == Loaded(EvalSets[repository])
     IN  eval' = IF items = NoItems THEN [eval EXCEPT !.pc = "done"]
                 ELSE [eval EXCEPT !.pc = "item", !.todo = items]
  /\ UNCHANGED <<prepared, report>>

Result(status, traces, state) ==
  [item |-> Head(eval.todo).id, status |-> status, traces |-> traces, state |-> state]
\* Mutant: the set is read again for each item.
RecordsReloading(result) ==
  LET items == Loaded(EvalSets[repository])
      left == IF items = NoItems THEN <<>> ELSE SubSeq(items, Len(eval.results) + 2, Len(items))
  IN  eval' = [eval EXCEPT !.pc = "item", !.at = NoItem, !.results = Append(@, result), !.todo = left]
Records(result) ==
  eval' = [eval EXCEPT !.pc = "item", !.at = NoItem, !.results = Append(@, result), !.todo = Tail(@)]

Evidence ==
  /\ eval.pc = "item" /\ eval.todo # <<>> /\ active # Missing
  /\ \E packet \in Packets : eval' = [eval EXCEPT !.pc = "answer", !.at.packet = packet, !.at.state = active]
  /\ UNCHANGED <<prepared, report>>

\* Before or after the search run was recorded.
EvidenceFails ==
  /\ eval.pc = "item" /\ eval.todo # <<>>
  /\ \E traces \in {{}, {"search run"}} :
       Records(Result("failed", traces, Missing))
  /\ UNCHANGED <<prepared, report>>

\* The answer is stored in the database that is active now.
AnswerItem ==
  /\ eval.pc = "answer"
  /\ active # Missing /\ active.id = eval.at.state.id
  /\ \E answer \in Answers : eval' = [eval EXCEPT !.pc = "score", !.at.answer = answer]
  /\ UNCHANGED <<prepared, report>>

AnswerFails ==
  /\ eval.pc = "answer"
  /\ Records(Result("failed", {"search run", "packet"}, eval.at.state))
  /\ UNCHANGED <<prepared, report>>

Score ==
  /\ eval.pc = "score"
  /\ LET passes == /\ RetrievalPasses(Head(eval.todo), eval.at.packet)
                   /\ CitationsPass(Head(eval.todo), eval.at.packet, eval.at.answer)
     IN  Records(Result(IF passes THEN "passed" ELSE "failed",
                        {"search run", "packet", "answer"}, eval.at.state))
  /\ UNCHANGED <<prepared, report>>

Count(status) == Cardinality({k \in DOMAIN eval.results : eval.results[k].status = status})
Summary == [total |-> Len(eval.results), passed |-> Count("passed"), failed |-> Len(eval.results) - Count("passed")]

\* Two files, one after the other; an error loses the results of the run.
WriteReport ==
  /\ eval.pc = "item" /\ eval.todo = <<>>
  /\ eval' = [NoRun EXCEPT !.pc = "done"]
  /\ \/ report' = {"json", "markdown"} \X {Summary} /\ UNCHANGED faults
     \/ report' \in {{}, {"json"} \X {Summary}} /\ Fault
  /\ UNCHANGED <<repository, trees, prep, commits, mixed, unsafe>>

EvalNext ==
  \/ Commit \/ Drift
  \/ \E p \in Preparers :
       \/ BeginPreparation(p) \/ Build(p) \/ BuildFails(p)
       \/ CheckActive(p) \/ MoveOut(p) \/ MoveOutFails(p) \/ MoveIn(p) \/ MoveInFails(p)
       \/ RemoveNew(p) \/ PutBack(p) \/ Stops(p) \/ Cleanup(p)
  \/ BeginRun \/ LoadItems \/ Evidence \/ EvidenceFails \/ AnswerItem \/ AnswerFails \/ Score
  \/ WriteReport

EvalSpec == EvalInit /\ [][EvalNext]_evalVars

-----------------------------------------------------------------------------
\* evaluation.md: a failed preparation leaves a prior active state untouched.
\* So it is when the swap was the only one, and when no move stopped between
\* copying the prior state and removing it.
FailureKeepsPrior ==
  [][\A p \in Preparers : prep[p].pc \in Swapping /\ prep'[p].pc = "failed" /\ p \notin unsafe
       => active' = prep[p].prior]_prep

\* A report has one result for each item of one version of the evaluation set,
\* that of the validation or one committed since.  An item that passed left all
\* its traces.  It was answered from the state the run validated, of the sources
\* of that version, unless a swap or an edit of that state came between; and a
\* state swapped in since, if nothing edited or tore it, is of one version too.
\* A preparation during which the repository changed is excepted (mixed).
ItemsOf(v) == [k \in DOMAIN EvalSets[v] |-> Stripped(EvalSets[v][k].id)]
Untouched(s) == s.sealed = Content(s) /\ 0 \notin Range(Content(s))
ReportIsFaithful ==
  [][report = {} /\ report' # {} =>
      /\ \E v \in eval.version .. repository : [k \in DOMAIN eval.results |-> eval.results[k].item] = ItemsOf(v)
      /\ \A k \in DOMAIN eval.results : LET r == eval.results[k] IN
           r.status = "passed" =>
             /\ r.traces = {"search run", "packet", "answer"}
             /\ ~ eval.disturbed => /\ r.state = eval.state
                                    /\ r.state.id \notin mixed => Range(Content(r.state)) = {eval.version}
             /\ Untouched(r.state) /\ r.state.id \notin mixed => Range(Content(r.state)) = {r.state.label}]_report
=============================================================================
