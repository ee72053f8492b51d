-------------------------- MODULE AnswerGeneration --------------------------
(* Answering from a packet (answering/core.py, answering/models.py): which  *)
(* evidence fits the prompt, what the model's reply must look like, what is *)
(* made of it, and what the answer store accepts (answering/persistence.py).*)
(* A packet's evidence is a sequence of items with a rank, a chunk, a cost  *)
(* in prompt words; a weakness is a tuple that ends in the text it quotes.  *)
EXTENDS Integers, Sequences, FiniteSets, SequencesExt, FiniteSetsExt, Ordering

CONSTANTS PromptBudget, \* config.answer_prompt_max_tokens
          PromptBase,   \* words of the prompt without evidence, retry reserve included
          AnswerRetries, \* config.answer_max_retries
          MarkerTexts,  \* texts with a citation marker such as [E1]
          Irregular     \* texts with white space that " ".join(split()) changes

\* Limitations are stored with their white space collapsed.
Collapse(weakness) == IF Last(weakness) \in Irregular THEN <<"collapsed">> \o weakness ELSE weakness
Collapsed(set) == {Collapse(w) : w \in set}

PromptCost(evidence, chosen) == PromptBase + MapThenSumSet(LAMBDA i : evidence[i].words, chosen)

\* Whole items in rank order; one that does not fit does not stop the next.
PromptEvidence(evidence) ==
  LET ahead(i, j) == \/ evidence[i].rank < evidence[j].rank
                     \/ (evidence[i].rank = evidence[j].rank /\ i < j)
      order == InOrder(DOMAIN evidence, ahead)
  IN  FoldLeft(LAMBDA chosen, i : IF PromptCost(evidence, chosen \cup {i}) <= PromptBudget
                                  THEN chosen \cup {i} ELSE chosen, {}, order)

PromptLimitations(evidence) ==
  LET omitted == Len(evidence) - Cardinality(PromptEvidence(evidence))
  IN  IF omitted = 0 THEN {} ELSE {<<"omitted", omitted, "from the prompt">>}

\* "E<n>" is <<"E", n>>; "chunk:<id>" is <<"chunk", id>>. 0 when unknown.
CitedIndex(evidence, allowed, id) ==
  LET found == {i \in allowed : id \in {<<"E", i>>, <<"chunk", evidence[i].chunk>>}}
  IN  IF found = {} THEN 0 ELSE Min(found)

\* parse_model_answer, then _validate_paragraphs; prose is "plain", "blank",
\* or holds a "marker" or a rendered "section".
ValidReply(reply, evidence, allowed) ==
  /\ reply.fields \in {{"answer_paragraphs", "limitations"}, {"answer_paragraphs"}}
  /\ reply.paragraphs # <<>>
  /\ \A p \in Range(reply.paragraphs) :
       /\ p.prose = "plain"
       /\ p.ids # <<>>
       /\ \A id \in Range(p.ids) : CitedIndex(evidence, allowed, id) # 0

\* Citations in order of first appearance, each once.
CitationsOf(reply, evidence, allowed) ==
  LET ids == FlattenSeq([i \in DOMAIN reply.paragraphs |-> reply.paragraphs[i].ids])
  IN  FoldLeft(LAMBDA acc, id : LET i == CitedIndex(evidence, allowed, id)
                                IN  IF i \in Range(acc) THEN acc ELSE Append(acc, i), <<>>, ids)

Answer(kind, citations, limitations, model) ==
  [kind |-> kind, citations |-> citations, limitations |-> limitations, model |-> model]

InsufficientEvidence(packet) ==
  Answer("insufficient", <<>>, Collapsed(packet.weaknesses) \cup {<<"no model invoked">>}, "none")
PromptTooSmall(packet) ==
  Answer("prompt too small", <<>>, Collapsed(packet.weaknesses) \cup {<<"nothing fits the prompt">>}, "none")
ValidationRefusal(packet) ==
  Answer("refusal", <<>>, Collapsed(packet.weaknesses) \cup PromptLimitations(packet.evidence)
                            \cup {<<"failed", AnswerRetries + 1, "validations">>}, "model")
AcceptedSilently(reply, packet) ==
  Answer("answered", CitationsOf(reply, packet.evidence, PromptEvidence(packet.evidence)),
         Collapsed(packet.weaknesses \cup reply.limitations), "model")
Accepted(reply, packet) ==
  Answer("answered", CitationsOf(reply, packet.evidence, PromptEvidence(packet.evidence)),
         Collapsed(packet.weaknesses \cup reply.limitations) \cup PromptLimitations(packet.evidence), "model")

AnswerStatus(answer) == IF answer.citations # <<>> THEN "answered"
                        ELSE IF answer.kind = "refusal" THEN "validation_failed"
                        ELSE "insufficient_evidence"

\* validate_answer_for_storage: packet-derived answers must be the one the packet
\* implies; a cited one must cite prompt evidence and carry every weakness.
Storable(answer, packet) ==
  LET allowed == PromptEvidence(packet.evidence)
  IN  CASE packet.evidence = <<>>   -> answer = InsufficientEvidence(packet)
        [] packet.evidence # <<>> /\ allowed = {} -> answer = PromptTooSmall(packet)
        [] OTHER -> /\ answer.model = "model"
                    /\ IF answer.citations = <<>> THEN answer = ValidationRefusal(packet)
                       ELSE /\ Range(answer.citations) \subseteq allowed
                            /\ packet.weaknesses \cup PromptLimitations(packet.evidence)
                                 \subseteq answer.limitations

\* audit_stored_answer: citations are of the packet and agree with the rendered
\* text, which for an uncited answer is searched for markers to its very end.
AuditAccepts(answer, packet) ==
  /\ Range(answer.citations) \subseteq DOMAIN packet.evidence
  /\ IsInjective(answer.citations)
  /\ answer.citations = <<>> => \A l \in answer.limitations : Last(l) \notin MarkerTexts
=============================================================================
