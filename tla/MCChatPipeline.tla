--------------------------- MODULE MCChatPipeline ---------------------------
(* Instances of ChatPipeline for model checking. *)
EXTENDS ChatPipeline

CONSTANTS llama, mistral, gpt, none, auto

\* On both sides of the limits of decide (28, 64), of the chain's 30, and both
\* more and less than 3 apart.
MCRisk == {20, 30, 36, 42, 44, 80}

=============================================================================
