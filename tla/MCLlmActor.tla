------------------------------ MODULE MCLlmActor ------------------------------
(* Instances of LlmActor. The name of a command says its priority.  *)
EXTENDS LlmActor

CONSTANTS l1, l2, n1, n2, h1, h2, s1, s2

PrioOf == [c \in Cmd |-> CASE c \in {l1, l2} -> Low
                           [] c \in {n1, n2} -> Normal
                           [] OTHER          -> High]

(* A token of one's own, as the actor creates it for a caller that passes none. *)
OwnToken == [c \in Cmd |-> c]

-----------------------------------------------------------------------------
(* Statements of the repository that the code does not keep: a configuration *)
(* of this module that names one of them finds a counterexample.             *)

(* "monitor self.receiver for higher priority commands or shutdown": a        *)
(* generation that runs although the actor holds a shutdown was told to stop. *)
ShutdownCancels ==
  phase = "run" /\ Queued \cap Shutdowns # {} => flag[Token[running]]

(* The callback checks the flag after each token and stops at once: a         *)
(* cancelled generation ends.                                                 *)
CancelledGenerationEnds ==
  \A c \in Generations : (running = c /\ flag[Token[c]]) ~> running # c
=============================================================================
