------------------------- MODULE PromptInterceptor -------------------------
(***************************************************************************)
(* DefenseInDepthInterceptor.inspect_input (security/interceptor.py).  A   *)
(* prompt is what the three layers would find in it: matched by a pattern  *)
(* of the block list, similar to a known jailbreak, malicious in the eyes  *)
(* of the judge.  An empty prompt has none of the three.  Layers 2 and 3   *)
(* may give no answer on any prompt, by an exception, a time-out, another  *)
(* status than 200 or a model that could not be loaded; then they let it   *)
(* pass.                                                                   *)
(***************************************************************************)
CONSTANTS EnableLayer2, EnableLayer3

Prompts == [regex : BOOLEAN, similar : BOOLEAN, malicious : BOOLEAN]

\* The layers that may fail; `answering' are those that do not, this time.
Fallible == {"similarity", "judge"}

Layer1Blocks(prompt) == prompt.regex

Layer2Blocks(prompt, answering) ==
    EnableLayer2 /\ "similarity" \in answering /\ prompt.similar

Layer3Blocks(prompt, answering) ==
    EnableLayer3 /\ "judge" \in answering /\ prompt.malicious

InspectInput(prompt, answering) ==
    /\ ~Layer1Blocks(prompt)
    /\ ~Layer2Blocks(prompt, answering)
    /\ ~Layer3Blocks(prompt, answering)
=============================================================================
