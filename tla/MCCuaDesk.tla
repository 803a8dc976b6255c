------------------------------- MODULE MCCuaDesk -------------------------------
(* An instance of CuaDesk: one command thread beside the poller. *)
EXTENDS CuaDesk

CONSTANTS user, poller

SomePlans == {<<"click", "wait">>, <<"type", "click">>, <<"som">>}
SomeConfigs ==
  {[profile |-> "Flash", verifier |-> FALSE, escalate |-> FALSE, dismiss |-> FALSE]} \cup
  [profile : {"Pro"}, verifier : {TRUE}, escalate : BOOLEAN, dismiss : {TRUE}] \cup
  [profile : {"Pro"}, verifier : BOOLEAN, escalate : {FALSE}, dismiss : {FALSE}]
SomeMacros == {<<"hover", "click">>, <<"retype">>, <<"wait">>}
Budgets == {[budget |-> 0, escalate |-> TRUE], [budget |-> 2, escalate |-> TRUE],
            [budget |-> 1, escalate |-> FALSE]}

-----------------------------------------------------------------------------
(* Statements of the repository that the code does not keep: a configuration *)
(* of this module that names one of them finds a counterexample.             *)

(* "Emergency stop triggered, all actions halted": no input after it. *)
NothingAfterHalt == late = 0

(* Without a human hand or a command nothing stops the plan: but the Escape   *)
(* that dismisses a popup is the key the poller watches.                      *)
HaltHasACause == flag => calls > 0

(* A success covers the waits too. *)
SuccessMeansEverySeen == outcome = "done" => \A i \in 1..Len(plan) : results[i]

(* The status shown agrees with the flag, whoever called when. *)
StatusIsTheFlag == Quiet => (status = "Halted") = flag

(* The token that typing and waiting test agrees with the flag, whoever called *)
(* when: but a reset that lowers the flag before a trigger raises it may reset *)
(* the token after the trigger has cancelled it, and the stop stays half done. *)
TokenIsTheFlag == Quiet => token = flag

(* An action is sent once unless it showed no effect: a popup it opened is     *)
(* dismissed, and the action sent again.                                       *)
SentOnce == \A i \in 1..Len(plan) : ~config.verifier => sent[i] <= 1

(* "Number of retries attempted on this step (0, 1, or 2)": raising the        *)
(* delivery counts as a retry even when the budget is spent and none is made.  *)
RetriesWereMade == report.category = "exhausted" => report.retries < Len(modes)
=============================================================================
