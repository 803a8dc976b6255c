------------------------------ MODULE MCDbActor ------------------------------
(* Instances of DbActor for TLC: each names a handful of commands and what *)
(* they ask for.                                                           *)
EXTENDS DbActor, TLC

CONSTANTS w, q, g, f, e, p, d, k

(* Each command: with and without responder, in a transaction and outside,   *)
(* the graph and its two publishers, a deletion, a barrier.                  *)
AllCmds == {w, q, e, k, g, p, d, f}
AllKind == w :> "write" @@ q :> "quiet" @@ e :> "event" @@ k :> "ckpt"
           @@ g :> "graph" @@ p :> "project" @@ d :> "forget" @@ f :> "flush"

(* A few at a time: a behaviour calls the commands of one cast. Nothing forces *)
(* anybody to call, so these are whole behaviours, for liveness too.           *)
Casts == {{w, g, p, f}, {w, g, p, d}, {q, g, d, f}, {w, q, e, k}}
OneCast == \E cast \in Casts : called \subseteq cast

(* Session events next to a command that may fail. *)
EventCmds == {w, e, g}
EventKind == w :> "write" @@ e :> "event" @@ g :> "graph"

(* A flush behind a fire-and-forget write and one that may fail. *)
FlushCmds == {q, w, f}
FlushKind == q :> "quiet" @@ w :> "write" @@ f :> "flush"

-----------------------------------------------------------------------------
(* Statements of the repository that the code does not keep: a configuration *)
(* of this module that names one of them finds a counterexample.             *)

(* "wait for all previously queued write commands to be processed and       *)
(* committed to SQLite WAL": an Ok flush would mean that the fire-and-forget *)
(* writes accepted before it, which nobody else is told about, are committed. *)
FlushMeansCommitted ==
  \A b \in Of({"flush"}) : reply[b] = "ok" =>
    \A c \in Of({"quiet"}) : ticket[c] \in 1..ticket[b] => c \in durable

(* A consolidation that reported success has its triples in the published    *)
(* graph ("Re-synchronize In-Memory CsrGraph with newly extracted L3         *)
(* knowledge triples").                                                      *)
ProjectedIsVisible ==
  phase # "down" =>
    \A c \in Of({"project"}) \cap rows : reply[c] = "ok" => c \in shared

(* Once a deletion of the subject was answered, the graph that readers use    *)
(* shows no deleted row.                                                     *)
ForgottenIsInvisible ==
  phase = "idle" /\ (\E c \in Of({"forget"}) : reply[c] = "ok") =>
    shared \cap durable \subseteq rows
=============================================================================
