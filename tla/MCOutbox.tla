------------------------------- MODULE MCOutbox -------------------------------
(* An instance of Outbox: three drafts, the first of which is confirmed,      *)
(* and confirmed again or cancelled, while the others come in and the second  *)
(* is confirmed as well, or the outbox listed.                                *)
EXTENDS Outbox, TLC

CONSTANTS k1, k2, d1, d2, d3, new1, new2, new3, yes1, other1, other2,
          telegram, ann, bob, elsewhere

OpOf == [r \in Req |-> CASE r \in {new1, new2, new3} -> {"draft"}
                         [] r = yes1                  -> {"confirm"}
                         [] r = other1                -> {"confirm", "cancel"}
                         [] r = other2                -> {"confirm", "pending"}]
OnOf == [r \in Req |-> CASE r \in {new2, other2} -> d2 [] r = new3 -> d3 [] OTHER -> d1]

(* Two messages of Messenger to one person, or one to each platform.          *)
SomeRoutes == {[d \in Draft |-> CASE d = d1 -> a [] d = d2 -> b [] OTHER -> telegram] :
                 <<a, b>> \in {<<ann, ann>>, <<telegram, bob>>}}

(* Nothing tells two keys apart but which one a row was encrypted with.       *)
AnyKey == Permutations(Keys)

-----------------------------------------------------------------------------
(* Statements of the repository that the code does not keep: a configuration *)
(* of this module that names one of them finds a counterexample.             *)

(* "No case reports sent that was not sent": but a box that is gone, or that  *)
(* the text never reached, reads as an empty one.                             *)
NothingClaimedUnsent == \A r \in Req : reply[r] = "sent" => sent[On[r]] = 1

(* The box is cleared so that what is sent is what was approved, to whom it   *)
(* was approved for: but the conversation is not looked at again once it is   *)
(* open, and two confirmations share the tab with nothing to keep them apart. *)
SentAsApproved == astray = {}
=============================================================================
