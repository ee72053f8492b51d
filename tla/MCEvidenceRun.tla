---------------------------- MODULE MCEvidenceRun ----------------------------
(* One run for the program's own database: a retrieval recorded in it, the   *)
(* evaluation that repeats retrievals on a copy of it, and the migration of  *)
(* its schema.  They share no state here, so a behaviour is one of one of    *)
(* them while the others rest.                                               *)
(*                                                                           *)
(* Two files with three chunks; sizes such that a chunk is too large for the *)
(* packet, an item too large for the prompt, and two items for each of them. *)
EXTENDS EvidenceRun, Evaluation, StorageSchema

CONSTANTS p1, p2, s1, s2

MCFileInfo == 1 :> [course |-> "algebra", category |-> "document", extension |-> "pdf", path_order |-> 1]
           @@ 2 :> [course |-> "logic", category |-> "slides", extension |-> "pptx", path_order |-> 2]
MCTexts == {"short", "long", "huge"}
MCTextInfo == [short |-> [tokens |-> 3, words |-> {"ring"}, location |-> "p1"],
               long  |-> [tokens |-> 7, words |-> {"ring", "proof"}, location |-> "p1"],
               huge  |-> [tokens |-> 11, words |-> {"proof"}, location |-> "p2"]]
MCInitialChunks == <<[file |-> 1, text |-> "short"], [file |-> 1, text |-> "huge"],
                     [file |-> 2, text |-> "long"], NoRow>>
MCCourseOfSpelling == [algebra |-> "algebra", ALGEBRA |-> "algebra", logic |-> "logic", magic |-> "none"]
MCTokensOf == [rings |-> <<"ring">>, sets |-> <<"set">>, plus |-> <<>>]
MCNameTier == [report |-> <<2, 7>>]
MCQueryWords == <<"the", "report">>
MCIrregular == {"q  2", "why  so"}
Payload(type, courses, indexes, terms, queries, confidence, reason) ==
  [exact_fields |-> TRUE, type |-> type, courses |-> courses, indexes |-> indexes, terms |-> terms,
   queries |-> queries, file_inspection |-> FALSE, python |-> FALSE, confidence |-> confidence,
   reason |-> reason]
Wide == Payload("find_file", <<"algebra", "ALGEBRA", "logic">>, <<"slides_index">>, <<"rings", "sets">>,
                <<"q1", "q1">>, 90, "wide")
MCPayloads == {Wide,
               [Wide EXCEPT !.courses = <<"algebra">>, !.indexes = <<"document_index">>,
                            !.terms = <<"sets">>, !.queries = <<"q1", "q  2">>, !.python = TRUE],
               [Wide EXCEPT !.terms = <<"plus">>],
               [Wide EXCEPT !.courses = <<"magic">>],
               [Wide EXCEPT !.confidence = 10],
               Payload(Unsupported, <<>>, <<>>, <<>>, <<>>, 90, "why  so"),
               Payload(Unsupported, <<>>, <<>>, <<>>, <<>>, 90, "see [E1]")}
Said(words) == [role |-> "user", content |-> words]
MCContexts == {<<Said("more"), Said("again"), Said("why")>>, <<Said(Blank)>>}
Paragraph(ids) == [prose |-> "plain", ids |-> ids]
Reply(ids) == [fields |-> {"answer_paragraphs"}, paragraphs |-> <<Paragraph(ids)>>, limitations |-> {}]
MCReplies == {Reply(<<<<"E", 1>>, <<"E", 2>>>>),
              [Reply(<<<<"chunk", 1>>, <<"E", 1>>>>) EXCEPT !.limitations = {<<"q  2">>}],
              Reply(<<>>)}

\* The evaluation: one item that a packet can satisfy and one absence.
MCRawItem(id, courses, files, weaknesses) ==
  [exact_fields |-> TRUE, id |-> id, query |-> "q", type |-> "lookup", courses |-> courses, files |-> files,
   indexes |-> IF files = <<>> THEN <<>> ELSE <<"documents">>, terms |-> IF files = <<>> THEN <<>> ELSE <<"ring">>, weaknesses |-> weaknesses]
MCFixtures == <<MCRawItem(" present", <<"algebra">>, <<"algebra\\rings.pdf">>, <<>>), MCRawItem("absent", <<>>, <<>>, <<"none">>)>>
MCEvalSets == <<MCFixtures, <<MCFixtures[1], MCFixtures[1]>>, <<MCFixtures[2]>>>> \* the second names an item twice
MCStripOf == [x \in {" present"} |-> "present"]
MCPathOf == [x \in {"algebra\\rings.pdf"} |-> "algebra/rings.pdf"]
MCIndexOfType == [document |-> "documents"]
MCFound == [id |-> 1, course |-> "algebra", file |-> "algebra/rings.pdf", type |-> "document", text |-> {"ring"}]
MCPackets == {[intent |-> "lookup", evidence |-> {MCFound}, weaknesses |-> {}],
              [intent |-> "lookup", evidence |-> {}, weaknesses |-> {{"none"}}]}
MCGiven == {[cites |-> {1}, limitations |-> {}, text |-> {"ring"}], [cites |-> {}, limitations |-> {{"none"}}, text |-> {}]}

VARIABLE side \* which of the three moves
LocalInit ==
  /\ side \in {"retrieval", "evaluation", "schema"}
  /\ Init /\ EvalInit /\ SchemaInit
  /\ side # "evaluation" => active = Missing \* the others rest in one state
  /\ side # "schema" => db = [table |-> [t \in Migrated |-> NoTable], columns |-> {},
                              old |-> [t \in Migrated |-> NoTable], duplicates |-> FALSE]
LocalNext ==
  \/ side = "retrieval" /\ Next /\ UNCHANGED <<evalVars, schemaVars, side>>
  \/ side = "evaluation" /\ EvalNext /\ UNCHANGED <<vars, schemaVars, side>>
  \/ side = "schema" /\ SchemaNext /\ UNCHANGED <<vars, evalVars, side>>
LocalSpec == LocalInit /\ [][LocalNext]_<<vars, evalVars, schemaVars, side>>
Symmetry == Permutations({p1, p2})
=============================================================================
