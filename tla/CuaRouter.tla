------------------------------ MODULE CuaRouter ------------------------------
(***************************************************************************)
(* A macro plan of the computer-use crate (System1ActionRouter, router.rs), *)
(* run through the engine without a model in the loop: the target of a step *)
(* is resolved and checked once, then the step is sent in the background,   *)
(* brought to the front when the screen shows no change, and given up with  *)
(* a defect report for the planner. "hover" dwells after it was sent,       *)
(* "retype" is a TypeText that empties the field first, with three calls of  *)
(* the engine whose answers nobody reads. The report keeps the fields that  *)
(* the planner decides on.                                                  *)
(***************************************************************************)
EXTENDS CuaEngine

CONSTANT MacroConfigs   \* budgets a plan may have: [budget, escalate]

ASSUME RouterAssumption ==
  MacroConfigs \subseteq [budget : 0..MaxRetries, escalate : BOOLEAN]

VARIABLES
  macro,   \* max_retries and allow_foreground of the plan
  modes,   \* delivery_modes_attempted
  clears,  \* keys still to send before typing
  report   \* the defect report, NoReport before

router == <<macro, modes, clears, report>>

NoReport == [category |-> "none", retries |-> 0]

Categories == {"none", "precheck", "refused", "killed", "zero diff", "driver", "exhausted"}
MacroPcs == {"macro", "precheck", "attempt", "front", "keys", "routed", "dwell", "look"}

MacroTypeOK ==
  /\ macro \in [budget : 0..MaxRetries, escalate : BOOLEAN]
  /\ modes \in Seq({"background", "foreground"}) /\ Len(modes) <= macro.budget + 1
  /\ clears \in 0..3
  /\ report \in [category : Categories, retries : 0..MaxRetries + 1]

MacroInit == modes = <<>> /\ clears = 0 /\ report = NoReport

Alone == UNCHANGED <<switch, plan, left, sent, late, macro>>
Same == UNCHANGED <<step, results, outcome>>

Defect(category) ==
  /\ report' = [category |-> category, retries |-> attempt]
  /\ pc' = "over" /\ outcome' = (IF category = "killed" THEN "halted" ELSE "failed")
  /\ UNCHANGED <<step, results>>

(* A step that worked: the screen changed, or the verifier itself failed. *)
StepDone == Finish(TRUE, "macro") /\ UNCHANGED report

-----------------------------------------------------------------------------
(* execute_macro_plan: the stop before each step, and the end of the plan. *)
MacroStep ==
  /\ pc = "macro"
  /\ \/ step > Len(plan) /\ End("done") /\ UNCHANGED <<step, results, report>>
     \/ step <= Len(plan) /\ flag /\ Defect("killed")
     \/ step <= Len(plan) /\ ~flag /\ pc' = "precheck" /\ Same /\ UNCHANGED report
  /\ attempt' = 0 /\ delivery' = "background" /\ modes' = <<>>
  /\ Alone /\ UNCHANGED <<call, clears, owed>>

(* The target is found and its coordinates translated; then the stop, the      *)
(* window, what lies above it, its client area and the policy are looked at.   *)
Precheck ==
  /\ pc = "precheck"
  /\ \/ Defect("precheck")
     \/ flag /\ Defect("killed")
     \/ ~flag /\ Defect("refused")
     \/ ~flag /\ pc' = "attempt" /\ Same /\ UNCHANGED report
  /\ Alone /\ UNCHANGED <<call, attempt, delivery, modes, clears, owed>>

(* WaitVisualChange polls the screen and does not look at the stop again. *)
AwaitChange ==
  /\ pc = "attempt" /\ Kind = "wait"
  /\ \/ flag /\ Defect("killed") /\ UNCHANGED modes
     \/ ~flag /\ StepDone /\ UNCHANGED modes
     \/ ~flag /\ Defect("driver") /\ modes' \in {<<>>, <<"background">>}
     \/ ~flag /\ Defect("zero diff") /\ modes' = <<"background">>
  /\ Alone /\ UNCHANGED <<call, attempt, delivery, clears, owed>>

-----------------------------------------------------------------------------
(* One round of the retry loop *)

(* Mutant: the loop goes round once more. *)
OnceMore == attempt <= macro.budget + 1
WithinBudget == attempt <= macro.budget

Round ==
  /\ pc = "attempt" /\ Kind # "wait"
  /\ IF WithinBudget
       THEN \/ flag /\ Defect("killed") /\ UNCHANGED <<modes, clears>>
            \/ /\ ~flag
               /\ modes' = Append(modes, delivery)
               /\ pc' = IF delivery = "foreground" THEN "front" ELSE "keys"
               /\ clears' = IF Kind = "retype" THEN 3 ELSE 0
               /\ Same /\ UNCHANGED report
       ELSE Defect("exhausted") /\ UNCHANGED <<modes, clears>>
  /\ Alone /\ UNCHANGED <<call, attempt, delivery, owed>>

(* BringToFront goes to the driver directly: neither engine, policy nor audit. *)
BringToFront ==
  /\ pc = "front"
  /\ SendInput
  /\ pc' = "keys"
  /\ UNCHANGED <<switch, plan, progress, call, owed, sent, macro, modes, clears, report>>

(* Select all, backspace down, backspace up: whatever the engine answers. *)
ClearField ==
  /\ pc = "keys" /\ clears > 0
  /\ clears' = clears - 1
  /\ Call("keys")
  /\ Alone /\ Same /\ UNCHANGED <<answer, attempt, delivery, modes, report>>

(* The frame before the action is captured, and the action sent. *)
SendAction ==
  /\ pc = "keys" /\ clears = 0
  /\ Call("routed")
  /\ Alone /\ Same /\ UNCHANGED <<answer, attempt, delivery, modes, clears, report>>

Retry == attempt' = attempt + 1 /\ pc' = "attempt" /\ Same /\ UNCHANGED report

(* Mutant: a refusal is tried again like a failure. *)
NothingIsFinal == {"failed", "refused"}
Retryable == {"failed"}

Routed ==
  /\ pc = "routed"
  /\ \/ answer = "halted" /\ Defect("killed") /\ UNCHANGED attempt
     \/ answer \notin Retryable \cup {"ok", "halted"} /\ Defect("refused") /\ UNCHANGED attempt
     \/ answer \in Retryable /\ attempt < macro.budget /\ Retry
     \/ answer \in Retryable /\ attempt >= macro.budget /\ Defect("driver") /\ UNCHANGED attempt
     \/ /\ answer = "ok" /\ pc' = IF Kind = "hover" THEN "dwell" ELSE "look"
        /\ Same /\ UNCHANGED <<attempt, report>>
  /\ Alone /\ UNCHANGED <<call, delivery, modes, clears, owed>>

(* A dwell is cut into pieces with a look at the stop before each. *)
Dwell ==
  /\ pc = "dwell"
  /\ \/ flag /\ Defect("killed")
     \/ ~flag /\ pc' = "look" /\ Same /\ UNCHANGED report
  /\ Alone /\ UNCHANGED <<call, attempt, delivery, modes, clears, owed>>

(* The screen changed, or the verifier failed and the driver is believed. *)
Changed ==
  /\ pc = "look"
  /\ StepDone
  /\ Alone /\ UNCHANGED <<call, attempt, delivery, modes, clears, owed>>

(* Mutant: the window is not brought to the front. *)
NeverEscalates == FALSE
Escalates == delivery = "background" /\ macro.escalate

(* Nothing changed: bring it to the front, try again, or give up. *)
NothingChanged ==
  /\ pc = "look"
  /\ \/ Escalates /\ delivery' = "foreground" /\ Retry
     \/ Escalates /\ Defect("refused") /\ UNCHANGED <<attempt, delivery>>
     \/ ~Escalates /\ attempt < macro.budget /\ Retry /\ UNCHANGED delivery
     \/ ~Escalates /\ attempt >= macro.budget /\ Defect("zero diff") /\ UNCHANGED <<attempt, delivery>>
  /\ Alone /\ UNCHANGED <<call, modes, clears, owed>>

Router ==
  \/ MacroStep \/ Precheck \/ AwaitChange \/ Round \/ BringToFront \/ ClearField
  \/ SendAction \/ Routed \/ Dwell \/ Changed \/ NothingChanged

-----------------------------------------------------------------------------
(* "Background delivery yielded 0% diff, and foreground escalation also yielded *)
(* 0% diff": when the plan allows the foreground, a report of no change comes   *)
(* after the action was sent both ways, whatever failures lay between.          *)
ZeroDiffMeansBoth ==
  report.category = "zero diff" /\ Kind # "wait" =>
    /\ modes[1] = "background" /\ sent[step] > 0
    /\ macro.escalate => delivery = "foreground" /\ sent[step] > 1
=============================================================================
