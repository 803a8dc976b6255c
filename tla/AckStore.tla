------------------------------- MODULE AckStore -------------------------------
(***************************************************************************)
(* What a caller of the database writer may rely on, without the queue, the *)
(* batches, the transactions and the crashes that get in the way: a command *)
(* is stored at most once, an Ok is only told of a stored command, an error *)
(* only of a command that is not and never will be stored. A command whose  *)
(* answer is lost may or may not be stored.                                 *)
(***************************************************************************)
CONSTANT Req
VARIABLES stored, told

storeVars == <<stored, told>>

Init == stored = {} /\ told = [c \in Req |-> "none"]

Undecided == {c \in Req : told[c] = "none"}

(* Several commands become durable together. *)
Persist(S) ==
  /\ S \subseteq Undecided \ stored
  /\ stored' = stored \cup S
  /\ UNCHANGED told

Tell(S, r) ==
  /\ S \subseteq Undecided
  /\ r = "ok" => S \subseteq stored
  /\ r = "err" => S \cap stored = {}
  /\ told' = [c \in Req |-> IF c \in S THEN r ELSE told[c]]
  /\ UNCHANGED stored

Next == \E S \in SUBSET Req : Persist(S) \/ \E r \in {"ok", "err", "lost"} : Tell(S, r)

Spec == Init /\ [][Next]_storeVars

(* The promise itself: told Ok means stored, told an error means not stored. *)
Honest == \A c \in Req : /\ told[c] = "ok" => c \in stored
                         /\ told[c] = "err" => c \notin stored
=============================================================================
