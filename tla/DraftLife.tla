------------------------------- MODULE DraftLife -------------------------------
(***************************************************************************)
(* What the outbox promises about each draft, whatever requests, expiry,    *)
(* eviction, crashes and changes of the key do: it waits, then it is either *)
(* gone unsent or handed to its platform, once; nothing brings it back.     *)
(***************************************************************************)
CONSTANT Draft
VARIABLE fate

Moves == {<<"unborn", "waiting">>, <<"waiting", "gone">>, <<"waiting", "leaving">>,
          <<"leaving", "sent">>, <<"leaving", "gone">>}

Init == fate = [d \in Draft |-> "unborn"]

Next == /\ fate' \in [Draft -> {"unborn", "waiting", "leaving", "sent", "gone"}]
        /\ \A d \in Draft : fate'[d] = fate[d] \/ <<fate[d], fate'[d]>> \in Moves

Spec == Init /\ [][Next]_fate
=============================================================================
