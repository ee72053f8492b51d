--------------------------- MODULE EmbeddingCall ---------------------------
(***************************************************************************)
(* indexing/profiles.py and indexing/embedding_providers: selecting a      *)
(* profile, building its adapter, and one request for the vectors of a     *)
(* list of texts, with the shared retry policy, the Gemini batch job of    *)
(* the document path, and the positional checks of every response.  A text *)
(* is its position in the list; a vector is the text it embeds and its     *)
(* number of usable components, 0 for anything that is no list of finite   *)
(* numbers.                                                                *)
(***************************************************************************)
EXTENDS Integers, Sequences

CONSTANTS
  Profiles,   \* canonical name -> [provider, dimension]
  Aliases,    \* alias -> canonical name
  Unknown,    \* a name that is neither
  MaxTexts,   \* bound on the texts of one request
  Lengths,    \* vector lengths a provider may answer with
  NoStatus,   \* no HTTP status can be found in an exception
  NoIndex,    \* a response item without an index field
  Null

Blank == Null
TotalAttempts == 3
Hosted == {"google_genai", "nebius"}
Statuses == {NoStatus, 401, 404, 408, 429, 503}

VARIABLES
  stage,     \* "select", "build", "probe", "ready", "request", "polling", "done"
  profile,   \* canonical name
  dim,       \* dimension of the built model
  op,        \* "documents" or "queries"
  n,         \* number of texts
  attempt,   \* attempt of the retry loop in progress
  job,       \* the provider's batch job: Null or its state
  vectors,   \* vectors accepted so far
  result,    \* "none", "vectors", "error"
  diagnosis, \* category the caller is told
  created,   \* batch jobs the provider may have started and billed
  lastFailure,
  faithful   \* history: the response kept to what the provider promises of one

callVars == <<stage, profile, dim, op, n, attempt, job, vectors, result, diagnosis, created, lastFailure, faithful>>

\* What the registry and its alias index can resolve.
Registered == DOMAIN Profiles \cup DOMAIN Aliases

Provider == Profiles[profile].provider

-----------------------------------------------------------------------------
\* An exception: a native network error or not, the status found in it or its chain, and whether a class name reads like a network failure.
Failures == [native : BOOLEAN, status : Statuses, named : BOOLEAN]

IsTransient(f) ==
  \/ f.native
  \/ f.status \in {408, 429} \cup 500 .. 599
  \/ f.status = NoStatus /\ f.named

Category(f) ==
  CASE f.status \in {401, 403}           -> "permission"
    [] f.status = 404                    -> "not found"
    [] f.status = 408                    -> "timeout"
    [] f.status = 429                    -> "rate limit"
    [] f.status \in 500 .. 599           -> "service"
    [] f.status = NoStatus /\ IsTransient(f) -> "network"
    [] OTHER                             -> "provider"

Vector(t, len) == [of |-> t, len |-> len]

\* validate_vectors: as many as expected, none malformed, each of the expected dimension; never reordered.
Valid(vs, count, expected) ==
  /\ Len(vs) = count
  /\ \A k \in DOMAIN vs : vs[k].len > 0 /\ vs[k].len = expected

\* Mutant: the indexes of the items are not looked at.
OrderedByCount(items, count) == Len(items) = count

\* validate_response_order: no item carries an index, or the indexes are exactly 0, 1, ...
Ordered(items, count) ==
  /\ Len(items) = count
  /\ \/ \A k \in DOMAIN items : items[k].index = NoIndex
     \/ \A k \in DOMAIN items : items[k].index = k - 1

ASSUME CallAssumption == MaxTexts \in Nat /\ NoIndex \notin Int /\ Null \notin Failures

-----------------------------------------------------------------------------
CallInit ==
  /\ stage = "select" /\ profile = Null /\ dim = 0
  /\ op = "documents" /\ n = 0 /\ attempt = 0 /\ job = Null
  /\ vectors = <<>> /\ result = "none" /\ diagnosis = "none"
  /\ created = 0 /\ lastFailure = Null /\ faithful = TRUE

Stop(category) ==
  /\ stage' = "done" /\ result' = "error" /\ diagnosis' = category
  /\ UNCHANGED <<profile, dim, op, n, attempt, job, vectors, created>>

\* resolve_embedding_profile: an explicit name wins over the configured one, a blank one does not count.
Select ==
  /\ stage = "select"
  /\ \E model, configured \in Registered \cup {Unknown, Blank} :
       LET requested == IF model # Blank THEN model ELSE configured
           canonical == IF requested \in DOMAIN Profiles THEN requested
                        ELSE IF requested \in DOMAIN Aliases THEN Aliases[requested] ELSE Null
       IN  IF canonical = Null
           THEN Stop("selection") /\ UNCHANGED <<lastFailure, faithful>>
           ELSE /\ profile' = canonical /\ stage' = "build"
                /\ UNCHANGED <<dim, op, n, attempt, job, vectors, result, diagnosis, created, lastFailure, faithful>>

\* A hosted adapter needs a key and takes the declared dimension without asking the provider.
BuildHosted ==
  /\ stage = "build" /\ Provider \in Hosted
  /\ stage' = "ready" /\ dim' = Profiles[profile].dimension
  /\ UNCHANGED <<profile, op, n, attempt, job, vectors, result, diagnosis, created, lastFailure, faithful>>

\* A local model is loaded, then probed for the dimension it really has.
LoadLocal ==
  /\ stage = "build" /\ Provider = "huggingface"
  /\ stage' = "probe" /\ attempt' = 1
  /\ UNCHANGED <<profile, dim, op, n, job, vectors, result, diagnosis, created, lastFailure, faithful>>

\* A missing key or package, or a constructor that raises.
AdapterFails ==
  /\ stage = "build"
  /\ Stop("construction") /\ UNCHANGED <<lastFailure, faithful>>

ProbeAnswers ==
  /\ stage = "probe"
  /\ \E len \in Lengths :
       IF Valid(<<Vector(1, len)>>, 1, len)
       THEN /\ dim' = len /\ stage' = "ready" /\ attempt' = 0
            /\ UNCHANGED <<profile, op, n, job, vectors, result, diagnosis, created, lastFailure, faithful>>
       ELSE Stop("invalid response") /\ UNCHANGED <<lastFailure, faithful>>

\* embed_documents and embed_queries: no texts, no request.
Call ==
  /\ stage = "ready"
  /\ \E o \in {"documents", "queries"}, k \in 0 .. MaxTexts :
       /\ op' = o /\ n' = k /\ attempt' = 1 /\ lastFailure' = Null
       /\ IF k = 0 THEN stage' = "done" /\ result' = "vectors"
                   ELSE stage' = "request" /\ UNCHANGED result
  /\ UNCHANGED <<profile, dim, job, vectors, diagnosis, created, faithful>>

-----------------------------------------------------------------------------
CreatesBatch == Provider = "google_genai" /\ op = "documents"

\* retry_transient: the attempt raises; three in all, and only for a transient failure.
Retried(f) ==
  /\ lastFailure' = f /\ UNCHANGED faithful
  /\ IF attempt < TotalAttempts /\ IsTransient(f)
     THEN /\ attempt' = attempt + 1
          /\ UNCHANGED <<stage, profile, dim, op, n, job, vectors, result, diagnosis, created>>
     ELSE Stop(Category(f))

Fails ==
  /\ \/ stage \in {"probe", "polling"}
     \/ stage = "request" /\ ~CreatesBatch
  /\ \E f \in Failures : Retried(f)

\* Mutant: an ambiguous failure of the creation is retried like any other.
CreateFailsRetried ==
  /\ stage = "request" /\ CreatesBatch
  /\ \E f \in Failures, started \in BOOLEAN :
       /\ lastFailure' = f
       /\ created' = created + (IF started THEN 1 ELSE 0)
       /\ IF attempt < TotalAttempts /\ IsTransient(f)
          THEN attempt' = attempt + 1 /\ UNCHANGED <<stage, result, diagnosis>>
          ELSE stage' = "done" /\ result' = "error" /\ diagnosis' = Category(f) /\ UNCHANGED attempt
  /\ UNCHANGED <<profile, dim, op, n, job, vectors, faithful>>

\* The creation of a batch raises, whether or not the provider has started the job: it is not tried again.
CreateFails ==
  /\ stage = "request" /\ CreatesBatch
  /\ \E f \in Failures, started \in BOOLEAN :
       /\ stage' = "done" /\ result' = "error" /\ diagnosis' = Category(f) /\ lastFailure' = f
       /\ created' = created + (IF started THEN 1 ELSE 0)
  /\ UNCHANGED <<profile, dim, op, n, attempt, job, vectors, faithful>>

Create ==
  /\ stage = "request" /\ CreatesBatch
  /\ created' = created + 1 /\ job' = "running"
  /\ stage' = "polling" /\ attempt' = 1
  /\ UNCHANGED <<profile, dim, op, n, vectors, result, diagnosis, lastFailure, faithful>>

\* The provider's side of a batch job; "odd" is an answer without a readable state.
JobEnds ==
  /\ job = "running"
  /\ job' \in {"succeeded", "failed", "cancelled", "expired", "partly", "odd"}
  /\ UNCHANGED <<stage, profile, dim, op, n, attempt, vectors, result, diagnosis, created, lastFailure, faithful>>

\* A response is any list of items, whatever the provider promises: too few or too many of them, of any
\* texts in any order, malformed or not, and with any of the indexes or none.
Responses(indexes) ==
  UNION {[1 .. m -> [of : 1 .. n, len : Lengths, index : indexes]] : m \in 0 .. n + 1}

\* What the providers promise: an index names the text of its item, and a response without any is in the order of the texts.
Faithful(items) ==
  /\ \A k \in DOMAIN items : items[k].index \in {NoIndex, items[k].of - 1}
  /\ (\A k \in DOMAIN items : items[k].index = NoIndex) =>
       \A j, k \in DOMAIN items : j < k => items[j].of < items[k].of

VectorsOf(items) == [k \in DOMAIN items |-> Vector(items[k].of, items[k].len)]

Accept(vs) ==
  /\ vectors' = vs /\ result' = "vectors" /\ stage' = "done"
  /\ UNCHANGED <<profile, dim, op, n, attempt, job, diagnosis, created, lastFailure>>

Refuse == Stop("invalid response") /\ UNCHANGED lastFailure

\* A list of vectors without indexes arrives; only their number and their dimension can be checked.
Answers ==
  \E items \in Responses({NoIndex}) :
    /\ faithful' = Faithful(items)
    /\ IF Valid(VectorsOf(items), n, dim) THEN Accept(VectorsOf(items)) ELSE Refuse

\* A poll is answered: the loop goes on, or the job's vectors are checked.  Only a job that succeeded as a whole has a result.
Poll ==
  /\ stage = "polling"
  /\ CASE job = "running"   -> /\ attempt' = 1
                               /\ UNCHANGED <<stage, profile, dim, op, n, job, vectors, result, diagnosis, created, lastFailure, faithful>>
       [] job = "succeeded" -> Answers
       [] job = "odd"       -> Refuse /\ UNCHANGED faithful
       [] OTHER             -> Stop("provider") /\ UNCHANGED <<lastFailure, faithful>>

\* One request for all texts: Gemini queries, Nebius, and local documents.
GeminiAnswers ==
  /\ stage = "request" /\ Provider = "google_genai" /\ op = "queries"
  /\ Answers

NebiusAnswers ==
  /\ stage = "request" /\ Provider = "nebius"
  /\ \E items \in Responses({NoIndex} \cup 0 .. n) :
       /\ faithful' = Faithful(items)
       /\ IF Ordered(items, n) /\ Valid(VectorsOf(items), n, dim) THEN Accept(VectorsOf(items)) ELSE Refuse

LocalDocuments ==
  /\ stage = "request" /\ Provider = "huggingface" /\ op = "documents"
  /\ Answers

\* Local queries are embedded one after the other, each with its own three attempts.
LocalQuery ==
  /\ stage = "request" /\ Provider = "huggingface" /\ op = "queries"
  /\ \E len \in Lengths :
       LET v == Vector(Len(vectors) + 1, len)
       IN  IF ~Valid(<<v>>, 1, dim) THEN Refuse
           ELSE IF v.of = n THEN Accept(Append(vectors, v))
           ELSE /\ vectors' = Append(vectors, v) /\ attempt' = 1
                /\ lastFailure' = Null
                /\ UNCHANGED <<stage, profile, dim, op, n, job, result, diagnosis, created>>
  /\ UNCHANGED faithful

CallNext ==
  \/ Select \/ BuildHosted \/ LoadLocal \/ AdapterFails \/ ProbeAnswers \/ Call
  \/ Fails \/ CreateFails \/ Create \/ JobEnds \/ Poll
  \/ GeminiAnswers \/ NebiusAnswers \/ LocalDocuments \/ LocalQuery
  \/ stage = "done" /\ job # "running" /\ UNCHANGED callVars

CallSpec == CallInit /\ [][CallNext]_callVars

-----------------------------------------------------------------------------
(* A caller that gets vectors gets one of the built dimension for each of  *)
(* its texts, whatever list the provider sends.  They are in the order of  *)
(* the texts as long as the provider keeps to its interface: whatever it   *)
(* drops, repeats or malforms then, and in whatever order it sends items   *)
(* that carry their index, no vector is stored under another chunk's id.   *)
(* A list without indexes that is as long as the texts but in another      *)
(* order is taken as it is: nothing in the code can tell                   *)
(* (validate_vectors, validate_response_order).                            *)
VectorsMatchInputs ==
  result = "vectors" =>
    /\ Len(vectors) = n
    /\ \A k \in DOMAIN vectors : vectors[k].len = dim
    /\ faithful => \A k \in DOMAIN vectors : vectors[k].of = k

(* Work that may be billed is not repeated: at most one batch job is       *)
(* created for a document request, and no request is tried again after a   *)
(* failure that will not pass, whatever the exception's chain, status and  *)
(* class name say together (retry_transient, is_transient_error).          *)
RetriesOnlyWhatIsSafe ==
  /\ created <= 1
  /\ attempt > 1 => result = "error" \/ (lastFailure # Null /\ IsTransient(lastFailure))
=============================================================================
