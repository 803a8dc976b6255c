------------------------------ MODULE LlmContext ------------------------------
(***************************************************************************)
(* What the engine keeps of a llama.cpp context between two requests, and    *)
(* how it reuses it: the KV cache, the logits of the last decode, and        *)
(* last_tokens, from which it concludes what the cache holds.                *)
(*                                                                          *)
(* llama.cpp is external: a cell of the cache is a position and a token; the *)
(* logits are those of the cells there were; a decode that fails may leave   *)
(* the cells of a part of its batch.                                         *)
(***************************************************************************)
EXTENDS Integers, Sequences, FiniteSets

CONSTANTS
  NCtx, Reserve,  \* n_ctx and RESERVE_FOR_COMPLETION
  Window          \* n_ctx / 8: what pruning keeps in front, and what it discards

ASSUME ContextAssumption ==
  /\ NCtx \in Nat /\ Reserve \in Nat \ {0} /\ Window \in Nat \ {0}
  /\ Reserve + 1 < NCtx /\ 2 * Window < NCtx

(* slipped is history: a decode failed since the cache was last empty. *)
Empty == [kv |-> {}, logits |-> {}, last |-> <<>>, slipped |-> FALSE]

Cells(p, t) == {<<p + i - 1, t[i]>> : i \in 1..Len(t)}
Decoded(c, p, t) ==
  [c EXCEPT !.kv = @ \cup Cells(p, t), !.logits = c.kv \cup Cells(p, t)]
Undecoded(c, p, t) ==
  {[c EXCEPT !.kv = @ \cup Cells(p, SubSeq(t, 1, n)), !.slipped = TRUE] : n \in 0..(Len(t) - 1)}

(* check_prompt_fits *)
Fits(t) == Len(t) <= NCtx - Reserve - 1

(* The prefix the cache already holds, but for the last token of the prompt:  *)
(* the first token of the answer is sampled from the logits of that one.      *)
(* Mutant: the whole prefix, also when it is the whole prompt.                *)
Agreed(l, t) == {n \in 1..Len(l) : n <= Len(t) /\ \A i \in 1..n : l[i] = t[i]}
WholePrefix(l, t) == Cardinality(Agreed(l, t))
Common(l, t) == LET n == Cardinality(Agreed(l, t)) IN IF n < Len(t) THEN n ELSE Len(t) - 1

Kept(c, n) ==
  IF n = 0 THEN Empty
  ELSE IF n < Len(c.last)
    THEN [c EXCEPT !.kv = {cell \in @ : cell[1] < n}, !.last = SubSeq(@, 1, n)]
    ELSE c

(* prune_kv_cache: the tokens after the first Window leave, the rest moves up. *)
Pruned(c) ==
  [c EXCEPT
     !.kv = {cell \in @ : cell[1] < Window}
              \cup {<<cell[1] - Window, cell[2]>> : cell \in {x \in @ : x[1] >= 2 * Window}},
     !.last = IF Len(@) >= 2 * Window THEN SubSeq(@, 1, Window) \o SubSeq(@, 2 * Window + 1, Len(@))
              ELSE @]

(* What the model ought to see of a conversation: all of it or, when it has   *)
(* outgrown the context, its first tokens and as much of its end as fits      *)
(* after whole windows were discarded.                                        *)
Discarded(n) == IF n <= NCtx THEN 0 ELSE ((n - NCtx + Window - 1) \div Window) * Window
View(t) == LET d == Discarded(Len(t)) IN
  IF d = 0 THEN t ELSE SubSeq(t, 1, Window) \o SubSeq(t, Window + d + 1, Len(t))
=============================================================================
