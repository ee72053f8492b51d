--------------------------- MODULE QueryPlanning ---------------------------
(* Validation of the planner model's output (retrieval/planner.py) and the  *)
(* scopes it opens (search_contracts.py). A payload is what the model may   *)
(* return; PlanOf is the QueryPlan made of it, or Refused.                  *)
EXTENDS Integers, Sequences, FiniteSets, SequencesExt

CONSTANTS Courses,          \* canonical course names
          CourseOfSpelling, \* spelled name -> course with the same casefold, or NoCourse
          NoCourse,
          QueryLimit,       \* config.semantic_query_limit
          TermLimit,        \* MAX_QUERY_PLAN_KEYWORD_TERMS
          MinConfidence,    \* config.query_plan_min_confidence, in percent
          ContextLimit      \* MAX_QUERY_PLAN_CONTEXT_MESSAGES

SourceTypeOf == [document_index |-> "document", slides_index |-> "slides",
                 notebook_index |-> "notebook", code_index |-> "code",
                 data_schema_index |-> "data_schema", transcript_index |-> "transcript"]
LogicalIndexes == DOMAIN SourceTypeOf
Unsupported == "unknown_or_unsupported"
QueryTypes == {"concept_explanation", "course_summary", "cross_course_comparison", "find_file",
               "assignment_or_project_lookup", "code_question", "data_question", "study_quiz",
               "portfolio_resume", Unsupported}

Refused == [refused |-> TRUE]
Blank == ""

RemoveRepeats(s) ==
  FoldLeft(LAMBDA acc, e : IF e \in Range(acc) THEN acc ELSE Append(acc, e), <<>>, s)

\* Nonblank, allowed, and at most as many as the limit; first spellings stay.
Acceptable(strings, allowed) == \A e \in Range(strings) : e # Blank /\ e \in allowed

\* Spellings of one course collapse into its canonical name.
CanonicalCourses(spelled) ==
  RemoveRepeats([i \in DOMAIN spelled |-> CourseOfSpelling[spelled[i]]])

\* Slide decks are often ingested as documents, so slides search those too.
WidenIndexes(indexes) ==
  IF "slides_index" \in Range(indexes) /\ "document_index" \notin Range(indexes)
  THEN Append(indexes, "document_index") ELSE indexes

NoScope(type, reason, confidence) ==
  [type |-> type, courses |-> <<>>, indexes |-> <<>>, terms |-> <<>>, queries |-> <<>>,
   file_inspection |-> FALSE, python |-> FALSE, confidence |-> confidence, reason |-> reason]

WellFormed(p) ==
  /\ p.exact_fields
  /\ p.type \in QueryTypes
  /\ \A c \in Range(p.courses) : CourseOfSpelling[c] \in Courses
  /\ Acceptable(p.indexes, LogicalIndexes)
  /\ Blank \notin Range(p.terms) \cup Range(p.queries)
  /\ Len(RemoveRepeats(p.terms)) <= TermLimit
  /\ Len(RemoveRepeats(p.queries)) <= QueryLimit
  /\ {p.file_inspection, p.python} \subseteq BOOLEAN
  /\ p.confidence \in 0 .. 100
  /\ p.reason # Blank

ScopesFit(p) ==
  LET scopes == {p.courses, p.indexes, p.terms, p.queries}
  IN  IF p.type = Unsupported THEN scopes = {<<>>} ELSE <<>> \notin scopes

\* A plan the model is unsure of opens no scope, whatever else it says.
PlanOf(p) ==
  IF ~ WellFormed(p) THEN Refused
  ELSE IF p.confidence < MinConfidence THEN NoScope(Unsupported, "low confidence", p.confidence)
  ELSE IF ~ ScopesFit(p) THEN Refused
  ELSE [NoScope(p.type, p.reason, p.confidence) EXCEPT
          !.courses = CanonicalCourses(p.courses), !.indexes = WidenIndexes(RemoveRepeats(p.indexes)),
          !.terms = RemoveRepeats(p.terms), !.queries = RemoveRepeats(p.queries),
          !.file_inspection = p.file_inspection, !.python = p.python]

\* The latest messages only; one malformed message refuses the whole context.
PlannerContext(messages) ==
  IF \E m \in Range(messages) : \/ m.role \notin {"system", "user", "assistant"}
                                \/ m.content = Blank
  THEN Refused
  ELSE SubSeq(messages, IF Len(messages) > ContextLimit THEN Len(messages) - ContextLimit + 1 ELSE 1,
              Len(messages))

SourceTypesFor(indexes) == {SourceTypeOf[i] : i \in Range(indexes)}
=============================================================================
