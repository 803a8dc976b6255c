----------------------------- MODULE MCLlmEngine -----------------------------
(* An instance of LlmEngine: the persona is one token, the screen another. *)
EXTENDS LlmEngine

CONSTANTS r1, r2, x, sys, a, b, img

PersonaTokens == <<sys>>
SomePrompts == {<<sys, a>>, <<sys, a, b>>, <<sys, a, b, b>>}
HardPrompts == {<<sys, a, b>>}
SomePicture == <<sys, img>>

-----------------------------------------------------------------------------
(* Statements of the repository that the code does not keep: a configuration *)
(* of this module that names one of them finds a counterexample.             *)

(* The cache is reused as far as last_tokens tells what it holds: but a token *)
(* is pushed before its decode, which may fail, and a prefill that fails      *)
(* leaves cells that the same prompt will not clear.                          *)
AnswersFollowThePrompt ==
  \A j \in Job : Reads(j) => context.kv = Cells(0, View(job[j].prompt \o job[j].said))

(* "cancellation_requested": but the second of two nested guards wipes a flag  *)
(* that was set after the first.                                              *)
CancelIsNotTakenBack == [][cancel /\ ~cancel' => \E j \in Job : At(j, "waiting") /\ lock' = j]_vars

(* The state is latched only when the model has really come to that number of *)
(* layers: but a reload that fails latches it too, and leaves no model.       *)
LatchedMeansAtTarget == latched # None => engine # None /\ layers = latched

(* The governor's role is the role of the model in memory: neither the command *)
(* nor the configuration's loader tells it what it has loaded.                 *)
RoleIsTheModel == engine # None => (role = "Expert") = (engine.model = Expert)

(* A model that cannot be loaded costs the one there was, until someone loads. *)
ModelComesBack == path # None /\ (\A j \in Job : job[j].pc \in {"none", "over"}) => engine # None

(* Applying a configuration loads what it names: not an older one whose loader *)
(* read it before it waited.                                                   *)
AppliedMeansLoaded ==
  [][\A j \in Job : Is(j, {"apply"}) /\ At(j, "waiting") /\ job'[j].pc = "over"
       => job[j].path = config]_vars

(* The record of a question about the screen names the model that answered.  *)
LooksAreAttributed ==
  \A j \in Job : At(j, "closing") /\ job[j].out = "ok" /\ Is(j, {"look"}) => job[j].id = engine.model
=============================================================================
