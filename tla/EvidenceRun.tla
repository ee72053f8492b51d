----------------------------- MODULE EvidenceRun -----------------------------
(* One recorded retrieval (retrieval/core.py, evidence.py,                  *)
(* evidence_persistence.py) and the answer made from its packet             *)
(* (answering), while extraction goes on replacing the chunks it found.     *)
(* Every access to SQLite is a transaction and an action of its own; the    *)
(* process, or a call of it, may fail between any two.                      *)
EXTENDS RankFusion, QueryPlanning, LexicalSearch, AnswerGeneration

CONSTANTS Files,        \* file ids
          ChunkIds,     \* chunk ids, an interval from 1
          FileInfo,     \* file -> [course, category, extension, path_order]
          Texts,        \* contents of chunks
          TextInfo,     \* text -> [tokens, words, location]
          InitialChunks,
          QueryWords, QueryExtensions, CourseWords,
          Payloads,     \* outputs of the planner model
          Contexts,     \* conversations given to the planner
          Replies,      \* outputs of the answer model
          TopK, FinalTopK, MaxTokens, \* of the configuration
          MaxEdits      \* bound: re-extractions and disappearances
NoRow == [file |-> 0, text |-> Nothing]
NoPlan == NoScope("none", Blank, 0)
NoPacket == [evidence |-> <<>>, weaknesses |-> {}, coverage |-> Nothing, status |-> "none"]
NoAnswer == Answer("none", <<>>, {}, "none")
ASSUME RunAssumption == /\ Files \subseteq Nat /\ ChunkIds \subseteq Nat
                        /\ MaxEdits \in Nat /\ {TopK, FinalTopK, MaxTokens} \subseteq Nat \ {0}
ASSUME CorpusAssumption == /\ IsFiniteSet(Files) /\ 0 \notin Files /\ IsFiniteSet(ChunkIds)
                           /\ NoChunk \notin ChunkIds /\ Nothing \notin Texts
                           /\ InitialChunks \in [ChunkIds -> [file : Files, text : Texts] \cup {NoRow}]
                           /\ \A t \in Texts : TextInfo[t].tokens \in Int
\* Paths are unique, and every word that is looked for has a tier for every name.
ASSUME PathAssumption == /\ \A f \in Files : FileInfo[f].path_order \in Int
                         /\ \A f, g \in Files : FileInfo[f].path_order = FileInfo[g].path_order => f = g
ASSUME TierAssumption == \A w \in MetadataTerms(QueryWords, CourseWords), f \in Files :
                           NameTier[w][f] \in 1 .. NoTier
\* What the models return is text; none of our own wordings looks like a citation.
ASSUME ModelAssumption == /\ \A p \in Payloads : p.queries \in Seq(STRING)
                          /\ \A r \in Replies : r.paragraphs \in Seq([prose : STRING, ids : Seq(STRING \X Nat)])
ASSUME WordingAssumption == {"no model invoked", "nothing fits the prompt", "from the prompt", "validations"}
                              \cap MarkerTexts = {}

VARIABLES chunks,  \* table chunks: id -> row or NoRow
          status,  \* files.index_status, with "missing" for its reason
          edits, rewritten, \* bound; ghost: files re-extracted between ranking and fusion
          pc, plan, sets, fused, attempt, answer, \* of the process
          run,     \* its row of search_runs, the envelopes, the fused rows
          packet, stored, \* its rows of evidence_packets and answers
          outcome  \* what the caller was told
process == <<pc, plan, sets, fused, attempt, answer>>
vars == <<chunks, status, edits, rewritten, process, run, packet, stored, outcome>>
recorded == <<run, packet, stored>>
corpus == <<chunks, status, edits, rewritten>>

Init == /\ chunks = InitialChunks
        /\ status = [f \in Files |-> "indexed"]
        /\ edits = 0 /\ rewritten = {}
        /\ pc = "plan" /\ plan = NoPlan /\ sets = <<>> /\ fused = <<>> /\ attempt = 0
        /\ answer = NoAnswer
        /\ run = [status |-> "none", envelopes |-> <<>>, rows |-> <<>>]
        /\ packet = NoPacket /\ stored = NoAnswer /\ outcome = "none"

----------------------------------------------------------------------------
(* Extraction and inventory beside the run. *)
Ranked(f) == /\ pc \in {"keyword", "semantic", "record", "fuse", "record fused"}
             /\ \E s \in Range(sets) : \E r \in Range(s.results) : r.file = f /\ r.chunk # NoChunk
\* Deleting a chunk sets the reference of a recorded result to NULL.
Forget(rows, gone) == [i \in DOMAIN rows |-> IF rows[i].chunk \in gone
                                             THEN [rows[i] EXCEPT !.chunk = NoChunk] ELSE rows[i]]
Reextract(f) ==
  \E texts \in {<<>>} \cup {<<t>> : t \in Texts} :
    LET gone   == {c \in ChunkIds : chunks[c].file = f}
        kept   == {c \in ChunkIds \ gone : chunks[c] # NoRow}
        next   == Max({0} \cup kept) + 1 \* SQLite: one more than the largest id left
    IN  /\ edits < MaxEdits /\ edits' = edits + 1
        /\ next \in ChunkIds
        /\ chunks' = [c \in ChunkIds |-> IF c = next /\ texts # <<>> THEN [file |-> f, text |-> texts[1]]
                                         ELSE IF c \in gone THEN NoRow ELSE chunks[c]]
        /\ status' = [status EXCEPT ![f] = IF texts = <<>> THEN "failed" ELSE "indexed"]
        /\ rewritten' = IF Ranked(f) THEN rewritten \cup {f} ELSE rewritten
        /\ run' = [run EXCEPT !.rows = Forget(@, gone)]
        /\ UNCHANGED <<process, packet, stored, outcome>>

Disappear(f) ==
  /\ edits < MaxEdits /\ edits' = edits + 1
  /\ status[f] # "missing"
  /\ status' = [status EXCEPT ![f] = "missing"]
  /\ UNCHANGED <<chunks, rewritten, process, recorded, outcome>>

----------------------------------------------------------------------------
(* Planning, and the row that makes the run visible. *)
End(told) == pc' = "done" /\ outcome' = told

Plan(p, context) ==
  /\ pc = "plan"
  /\ IF Refused \in {PlannerContext(context), PlanOf(p)}
     THEN End("planning error") /\ UNCHANGED plan
     ELSE plan' = PlanOf(p) /\ pc' = "start" /\ UNCHANGED outcome
  /\ UNCHANGED <<corpus, sets, fused, attempt, answer, recorded>>

StartRun ==
  /\ pc = "start"
  /\ run' = [run EXCEPT !.status = "running"]
  /\ pc' = IF plan.type = Unsupported THEN "assemble" ELSE "metadata"
  /\ UNCHANGED <<corpus, plan, sets, fused, attempt, answer, packet, stored, outcome>>

StartFails == /\ pc = "start" /\ End("storage error")
              /\ UNCHANGED <<corpus, plan, sets, fused, attempt, answer, recorded>>

----------------------------------------------------------------------------
(* The searches. A result carries what its backend read at that moment. *)
Row(c) == LET r == chunks[c] IN
  [id |-> c, file |-> r.file, text |-> r.text, course |-> FileInfo[r.file].course,
   type |-> FileInfo[r.file].category, words |-> TextInfo[r.text].words]
Searchable == {Row(c) : c \in {c \in ChunkIds : chunks[c] # NoRow /\ status[chunks[c].file] = "indexed"}}
ChunkResult(r) == [chunk |-> r.id, file |-> r.file, course |-> r.course, type |-> r.type,
                   status |-> status[r.file], text |-> r.text, location |-> TextInfo[r.text].location]
FileResult(f) == [chunk |-> NoChunk, file |-> f.id, course |-> f.course, type |-> Nothing,
                  status |-> f.status, text |-> Nothing, location |-> Nothing]
FileRow(f) == LET i == FileInfo[f] IN
  [id |-> f, status |-> status[f], course |-> i.course, category |-> i.category,
   extension |-> i.extension, path_order |-> i.path_order]
FileRows == {FileRow(f) : f \in Files}
Rankings(S) == {s \in SeqOf({ChunkResult(r) : r \in S}, TopK) : IsInjective(s)}
Found(method, query, results) == [method |-> method, query |-> query, results |-> results]

SearchMetadata ==
  /\ pc = "metadata"
  /\ LET hits == MetadataHits(FileRows, QueryWords, plan.courses, CourseWords,
                              SourceTypesFor(plan.indexes), QueryExtensions, TopK)
     IN  sets' = <<Found("metadata", "query", [i \in DOMAIN hits |-> FileResult(hits[i])])>>
  /\ pc' = "record"
  /\ UNCHANGED <<corpus, plan, fused, attempt, answer, recorded, outcome>>

SearchKeyword ==
  LET tokens == KeywordTokens(plan.terms)
      scope  == KeywordScope(Searchable, tokens, plan.courses, SourceTypesFor(plan.indexes))
  IN  /\ pc = "keyword" /\ tokens # <<>>
      /\ \E s \in Rankings(scope) :
           /\ Len(s) = Min({TopK, Cardinality(scope)})
           /\ sets' = Append(sets, Found("keyword", "terms", s))
      /\ pc' = "record"
      /\ UNCHANGED <<corpus, plan, fused, attempt, answer, recorded, outcome>>

\* One embedding call and one hydration for all queries; see VectorIndex.
SearchSemantic ==
  LET scope == {r \in Searchable : /\ r.course \in Range(plan.courses)
                                   /\ r.type \in SourceTypesFor(plan.indexes)}
  IN  /\ pc = "semantic"
      /\ \E lists \in [DOMAIN plan.queries -> Rankings(scope)] :
           sets' = sets \o [q \in DOMAIN plan.queries |-> Found("semantic", plan.queries[q], lists[q])]
      /\ pc' = "record"
      /\ UNCHANGED <<corpus, plan, fused, attempt, answer, recorded, outcome>>

SearchFails == /\ pc \in {"metadata", "keyword", "semantic", "fuse"}
               /\ pc' = "failing"
               /\ UNCHANGED <<corpus, plan, sets, fused, attempt, answer, recorded, outcome>>

Exists(results) == \A c \in {r.chunk : r \in Range(results)} \ {NoChunk} : chunks[c] # NoRow
AfterRecording(done) ==
  CASE done < Len(sets) -> "record" [] done = Len(sets) /\ done = 1 -> "keyword"
    [] done = Len(sets) /\ done = 2 -> "semantic" [] OTHER -> "fuse"

\* A result set is recorded whole, in a transaction that the foreign keys check.
RecordSet ==
  LET s == sets[Len(run.envelopes) + 1]
  IN  /\ pc = "record" /\ Exists(s.results)
      /\ run' = [run EXCEPT !.envelopes = Append(@, [method |-> s.method, count |-> Len(s.results)])]
      /\ pc' = AfterRecording(Len(run.envelopes) + 1)
      /\ UNCHANGED <<corpus, plan, sets, fused, attempt, answer, packet, stored, outcome>>

RecordFails == /\ pc \in {"record", "record fused"} /\ pc' = "failing"
               /\ UNCHANGED <<corpus, plan, sets, fused, attempt, answer, recorded, outcome>>

Fuse == /\ pc = "fuse" /\ fused' = MergeWithRrf(sets) /\ pc' = "record fused"
        /\ UNCHANGED <<corpus, plan, sets, attempt, answer, recorded, outcome>>

HasContent(candidate) == \E c \in candidate.cells : sets[c.set].method # "metadata"
RecordFused ==
  /\ pc = "record fused"
  /\ Exists([i \in DOMAIN fused |-> fused[i].result])
  /\ run' = [run EXCEPT !.rows = [i \in DOMAIN fused |->
               [chunk |-> fused[i].result.chunk, file |-> fused[i].result.file, selected |-> FALSE,
                content |-> HasContent(fused[i])]]]
  /\ pc' = "assemble"
  /\ UNCHANGED <<corpus, plan, sets, fused, attempt, answer, packet, stored, outcome>>

\* mark_failed is best effort: when SQLite refuses it too, the run stays "running".
MarkFailed ==
  /\ pc = "failing" /\ End("retrieval error")
  /\ \/ run' = [run EXCEPT !.status = "failed",
                           !.rows = [i \in DOMAIN @ |-> [@[i] EXCEPT !.selected = FALSE]]]
     \/ UNCHANGED run
  /\ UNCHANGED <<corpus, plan, sets, fused, attempt, answer, packet, stored>>

----------------------------------------------------------------------------
(* Assembly: hydration, selection, flags, packet and status in one          *)
(* BEGIN IMMEDIATE transaction.                                             *)
Hydratable == FoldLeft(LAMBDA kept, c : IF c.result.chunk # NoChunk THEN Append(kept, c) ELSE kept,
                       <<>>, fused)
Words(c)   == TextInfo[chunks[c.result.chunk].text].tokens

\* _hydrate_candidate: the row still is what the search said of it.
Authoritative(c) ==
  LET r == c.result
      row == chunks[r.chunk]
  IN  /\ row.file = r.file /\ status[r.file] = "indexed"
      /\ r.course = FileInfo[r.file].course
      /\ r.type \in {Nothing, FileInfo[r.file].category}
      /\ r.location \in {Nothing, TextInfo[row.text].location}
      /\ Words(c) > 0

Total(numbers) == FoldLeft(LAMBDA sum, n : sum + n, 0, numbers)
TotalWords(s)  == Total([i \in DOMAIN s |-> Words(s[i])])

SelectFitting(candidates) ==
  FoldLeft(LAMBDA chosen, c : IF Len(chosen) < FinalTopK /\ Words(c) <= MaxTokens
                              THEN Append(chosen, c) ELSE chosen, <<>>, candidates)
\* Whole chunks in rank order; one that does not fit does not stop the next.
Select(candidates) ==
  FoldLeft(LAMBDA chosen, c : IF Len(chosen) < FinalTopK /\ TotalWords(chosen) + Words(c) <= MaxTokens
                              THEN Append(chosen, c) ELSE chosen, <<>>, candidates)

\* Passed over for their size, before the last place was taken.
Oversized(candidates, chosen) ==
  {c \in Range(candidates) \ Range(chosen) :
     Cardinality({d \in Range(chosen) : d.rank < c.rank}) < FinalTopK}

Item(c) == [rank |-> c.rank, chunk |-> c.result.chunk, file |-> c.result.file,
            text |-> chunks[c.result.chunk].text, words |-> Words(c),
            course |-> c.result.course, type |-> FileInfo[c.result.file].category]

\* What a content search found in scope, over candidates [content, course, type].
Unhit(candidates) ==
  LET found == {c \in candidates : c.content}
  IN  [courses |-> Range(plan.courses) \ {c.course : c \in found},
       indexes |-> {i \in Range(plan.indexes) : SourceTypeOf[i] \notin {c.type : c \in found}}]

FinalStatus == IF plan.type = Unsupported THEN "unsupported" ELSE "completed"
Nonempty(method) == \E s \in Range(sets) : s.method = method /\ s.results # <<>>
UnhitQueries == {s.query : s \in {s \in Range(sets) : s.method = "semantic" /\ s.results = <<>>}}

\* _weaknesses of the retrieval and _build_weaknesses of the packet.
Weaknesses(candidates, chosen, unhit) ==
  LET when(condition, set) == IF condition THEN set ELSE {}
      passed == Oversized(candidates, chosen)
      files  == IF sets = <<>> THEN {} ELSE Range(sets[1].results)
      supported == plan.type # Unsupported
  IN  UNION {when(supported /\ ~ Nonempty("metadata"), {<<"no files">>}),
             when(supported /\ ~ Nonempty("keyword"), {<<"no keyword hits">>}),
             when(supported /\ Len(fused) < FinalTopK, {<<"few results", Len(fused), "results">>}),
             when(supported /\ fused # <<>> /\ ~ Nonempty("keyword") /\ ~ Nonempty("semantic"),
                  {<<"only files">>}),
             {<<"no hits", q>> : q \in UnhitQueries},
             when(~ supported, {<<"unsupported", plan.reason>>}),
             when(plan.file_inspection, {<<"no file inspection">>}),
             when(plan.python, {<<"no python">>}),
             {<<"no hits in course", c>> : c \in unhit.courses},
             {<<"no hits in index", i>> : i \in unhit.indexes},
             {<<"ineligible", f.status>> : f \in {f \in files : f.status # "indexed"}},
             when(\E c \in passed : Words(c) <= MaxTokens, {<<"over the budget">>}),
             when(\E c \in passed : Words(c) > MaxTokens, {<<"oversized">>}),
             when(chosen = <<>>, {<<"nothing selected">>})}

\* SearchCoverage: counts and what found nothing. The validators are of evidence_models.py.
Coverage(state, counts, unhit, queries) ==
  [status |-> state, counts |-> counts, courses |-> unhit.courses, indexes |-> unhit.indexes,
   queries |-> queries]
Counts(raw, candidates, selectable, evidence, tokens, file_only) ==
  [raw |-> raw, fused |-> candidates, selectable |-> selectable, evidence |-> evidence,
   tokens |-> tokens, file_only |-> file_only, unselected |-> selectable - evidence]

ValidCoverage(c) == /\ c.status # "none"
                    /\ \A field \in DOMAIN c.counts : c.counts[field] \in Nat
                    /\ c.counts.evidence <= c.counts.selectable
                    /\ c.counts.selectable <= c.counts.fused
                    /\ c.counts.file_only <= c.counts.fused
                    /\ c.counts.unselected <= c.counts.selectable
ValidItem(e) == /\ e.type \in Range(SourceTypeOf)
                /\ {e.file, e.chunk, e.words, e.rank} \subseteq Nat \ {0}
ValidPacket(p) == /\ ValidCoverage(p.coverage)
                  /\ p.coverage.counts.evidence = Len(p.evidence)
                  /\ p.coverage.counts.tokens = Total([i \in DOMAIN p.evidence |-> p.evidence[i].words])
                  /\ \A e \in Range(p.evidence) : ValidItem(e)
RawCount(found) == Total([i \in DOMAIN found |-> Len(found[i].results)])

PacketOf(candidates, chosen) ==
  LET unhit == Unhit({[content |-> HasContent(c), course |-> c.result.course,
                       type |-> FileInfo[c.result.file].category] : c \in Range(candidates)})
  IN  [evidence |-> [i \in DOMAIN chosen |-> Item(chosen[i])],
       weaknesses |-> Weaknesses(candidates, chosen, unhit),
       coverage |-> Coverage(FinalStatus,
                    Counts(RawCount(sets), Len(fused), Len(candidates), Len(chosen), TotalWords(chosen),
                           Len(fused) - Len(candidates)), unhit, UnhitQueries),
       status |-> FinalStatus]

MarkedByRank(chosen) == {c.rank : c \in Range(chosen)} \subseteq DOMAIN run.rows
\* The flag is set by rank, chunk and file; a row whose chunk is gone is not found.
Marked(chosen) == \A c \in Range(chosen) : run.rows[c.rank].chunk = c.result.chunk
FlaggedFirst(chosen) == [i \in DOMAIN run.rows |-> [run.rows[i] EXCEPT !.selected = i \in DOMAIN chosen]]
Flagged(chosen) == [i \in DOMAIN run.rows |->
                      [run.rows[i] EXCEPT !.selected = i \in {c.rank : c \in Range(chosen)}]]

Assemble ==
  /\ pc = "assemble"
  /\ LET chosen == Select(Hydratable)
     IN  IF /\ \A c \in Range(Hydratable) : Authoritative(c)
            /\ ValidPacket(PacketOf(Hydratable, chosen))
            /\ Marked(chosen)
         THEN /\ packet' = PacketOf(Hydratable, chosen)
              /\ run' = [run EXCEPT !.status = FinalStatus, !.rows = Flagged(chosen)]
              /\ pc' = "generate"
         ELSE pc' = "failing" /\ UNCHANGED <<run, packet>>
  /\ UNCHANGED <<corpus, plan, sets, fused, attempt, answer, stored, outcome>>

AssembleFails == /\ pc = "assemble" /\ pc' = "failing"
                 /\ UNCHANGED <<corpus, plan, sets, fused, attempt, answer, recorded, outcome>>

----------------------------------------------------------------------------
(* The answer. Only the packet is read; the corpus may move on.             *)
Decide(made) == answer' = made /\ pc' = "store"

AnswerWithoutModel ==
  /\ pc = "generate"
  /\ \/ packet.evidence = <<>> /\ Decide(InsufficientEvidence(packet))
     \/ packet.evidence # <<>> /\ PromptEvidence(packet.evidence) = {} /\ Decide(PromptTooSmall(packet))
  /\ UNCHANGED <<corpus, plan, sets, fused, attempt, recorded, outcome>>

Invoke(reply) ==
  /\ pc = "generate" /\ PromptEvidence(packet.evidence) # {}
  /\ IF ValidReply(reply, packet.evidence, PromptEvidence(packet.evidence))
     THEN Decide(Accepted(reply, packet)) /\ UNCHANGED attempt
     ELSE IF attempt < AnswerRetries THEN attempt' = attempt + 1 /\ UNCHANGED <<answer, pc>>
     ELSE Decide(ValidationRefusal(packet)) /\ UNCHANGED attempt
  /\ UNCHANGED <<corpus, plan, sets, fused, recorded, outcome>>

\* An error of the provider ends the call; only bad replies are tried again.
ProviderFails == /\ pc = "generate" /\ PromptEvidence(packet.evidence) # {}
                 /\ End("provider error")
                 /\ UNCHANGED <<corpus, plan, sets, fused, attempt, answer, recorded>>

\* load_evidence_packet
Loadable == /\ packet # NoPacket /\ ValidPacket(packet)
            /\ run.status \in {"completed", "unsupported"}
            /\ packet.coverage.status = run.status

Store ==
  /\ pc = "store"
  /\ IF Loadable /\ Storable(answer, packet) THEN stored' = answer /\ End(AnswerStatus(answer))
                                 ELSE UNCHANGED stored /\ End("unstorable")
  /\ UNCHANGED <<corpus, plan, sets, fused, attempt, answer, run, packet>>

StoreFails == /\ pc = "store" /\ End("storage error")
              /\ UNCHANGED <<corpus, plan, sets, fused, attempt, answer, recorded>>

Crash == /\ pc # "done" /\ End("crash")
         /\ UNCHANGED <<corpus, plan, sets, fused, attempt, answer, recorded>>

Process == \/ \E p \in Payloads, m \in Contexts : Plan(p, m)
           \/ StartRun \/ StartFails \/ SearchMetadata \/ SearchKeyword \/ SearchSemantic \/ SearchFails
           \/ RecordSet \/ RecordFails \/ Fuse \/ RecordFused \/ MarkFailed \/ Assemble \/ AssembleFails
           \/ AnswerWithoutModel \/ (\E r \in Replies : Invoke(r)) \/ ProviderFails \/ Store \/ StoreFails
Done == pc = "done" /\ UNCHANGED vars
Next == Process \/ Crash \/ Done \/ \E f \in Files : Reextract(f) \/ Disappear(f)
Spec == Init /\ [][Next]_vars

----------------------------------------------------------------------------
(* explain_search_coverage: the packet's, or what the rows of the run say.  *)
SelectableRows ==
  {i \in DOMAIN run.rows : LET r == run.rows[i] IN
     /\ r.chunk # NoChunk /\ chunks[r.chunk].file = r.file /\ status[r.file] = "indexed"}
RecordedNoHits == {plan.queries[q] : q \in {q \in DOMAIN plan.queries :
                     q + 2 \in DOMAIN run.envelopes => run.envelopes[q + 2].count = 0}}
\* A query without an envelope was not reached, which is not the same as no hits.
RecordedEmpty == {plan.queries[q] : q \in {q \in DOMAIN plan.queries :
                    q + 2 \in DOMAIN run.envelopes /\ run.envelopes[q + 2].count = 0}}
PartialCoverage ==
  LET found == {[content |-> run.rows[i].content, course |-> FileInfo[run.rows[i].file].course,
                 type |-> FileInfo[run.rows[i].file].category] : i \in SelectableRows}
      raw   == Total([i \in DOMAIN run.envelopes |-> run.envelopes[i].count])
      file_only == Cardinality({i \in DOMAIN run.rows : run.rows[i].chunk = NoChunk})
  IN  Coverage(run.status, Counts(raw, Len(run.rows), Cardinality(SelectableRows), 0, 0, file_only),
               Unhit(found), RecordedEmpty)
SearchCoverage == IF packet # NoPacket THEN packet.coverage ELSE PartialCoverage

----------------------------------------------------------------------------
\* A packet exists exactly when its run is finished, is the run's only terminal success,
\* and the flagged rows are the ranks of its evidence (load_evidence_packet relies on it).
StatusMatchesPacket ==
  /\ packet # NoPacket <=> run.status \in {"completed", "unsupported"}
  /\ packet # NoPacket => run.status = packet.status
  /\ {i \in DOMAIN run.rows : run.rows[i].selected} = {e.rank : e \in Range(packet.evidence)}

\* Evidence quotes the text that earned its rank, unless its file was extracted again
\* between the search and the recording of the fused list (evidence.py, hydration).
EvidenceIsRanked ==
  \A e \in Range(packet.evidence) : \/ e.text = fused[e.rank].result.text
                                    \/ e.file \in rewritten

\* What generate_answer makes of a packet, the store accepts, but for weaknesses whose
\* white space is not regular; a stored answer cites only evidence of the prompt, and the
\* audit finds it valid unless it is uncited and quotes a query or reason with a marker.
RefusedOnlyForWhiteSpace ==
  /\ outcome = "unstorable" => \E w \in packet.weaknesses : Last(w) \in Irregular
  /\ stored # NoAnswer => /\ Range(stored.citations) \subseteq PromptEvidence(packet.evidence)
                          /\ packet.weaknesses # {} => stored.limitations # {}
                          /\ stored.kind = "answered" <=> stored.citations # <<>>
                          /\ \/ AuditAccepts(stored, packet)
                             \/ stored.citations = <<>> /\ \E w \in packet.weaknesses : Last(w) \in MarkerTexts

\* Whatever moment it is asked at, the coverage of a started run passes its own validators,
\* never blames a query that was not searched, nor a course or index with content evidence.
CoverageIsHonest ==
  LET c == SearchCoverage IN
  run.status # "none" =>
  /\ ValidCoverage(c)
  /\ \A q \in c.queries : \E s \in Range(sets) : s.method = "semantic" /\ s.query = q /\ s.results = <<>>
  /\ \A e \in Range(packet.evidence) :
       HasContent(fused[e.rank]) => e.course \notin c.courses /\ \A i \in c.indexes : SourceTypeOf[i] # e.type

\* A packet holds its items in the order of the fused list, none twice, within the limits
\* of the configuration by the words it says they have (_select_evidence).
KeepsLimits(p) ==
  /\ Len(p.evidence) <= FinalTopK
  /\ Total([i \in DOMAIN p.evidence |-> p.evidence[i].words]) <= MaxTokens
  /\ \A i, j \in DOMAIN p.evidence : i < j => p.evidence[i].rank < p.evidence[j].rank

\* The records of a run agree at every moment: its status with its packet and flags, its
\* coverage with what was searched and found, and its packet with the fused list and the
\* limits (evidence_persistence.py, evidence.py).
RecordsAgree == StatusMatchesPacket /\ CoverageIsHonest /\ KeepsLimits(packet)

\* Every hit supports exactly one fused candidate, and a candidate ranked ahead of
\* another in every list that found the other is ahead of it in the fused list.
FusionIsSound ==
  fused # <<>> =>
  /\ \A c \in Range(Cells(sets)) : Cardinality({i \in DOMAIN fused : c \in fused[i].cells}) = 1
  /\ \A i, j \in DOMAIN fused :
       (i # j /\ \A c \in fused[j].cells : \E d \in fused[i].cells : d.set = c.set /\ d.rank < c.rank) => i < j
=============================================================================
