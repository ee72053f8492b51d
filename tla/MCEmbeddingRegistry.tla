------------------------ MODULE MCEmbeddingRegistry ------------------------
(* Constant values for EmbeddingRegistry: two asks and two preparations of  *)
(* one local profile, one ask of another.                                   *)
EXTENDS EmbeddingRegistry

CONSTANTS a1, a2, a3, r1, r2, gemma, gemini

MCProfileOf == [c \in Calls |-> IF c = a3 THEN gemini ELSE gemma]
=============================================================================
