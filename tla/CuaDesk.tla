------------------------------- MODULE CuaDesk -------------------------------
(***************************************************************************)
(* The computer-use crate at work: a plan of the orchestrator or a macro    *)
(* plan of the router, the engine under both, and the emergency stop that   *)
(* other threads raise or reset between any two steps.                      *)
(***************************************************************************)
EXTENDS CuaPlan, CuaRouter

CONSTANTS Plans, Configs,  \* plans a behaviour may run, and what a request asks for
          MacroPlans       \* macro plans

ASSUME DeskAssumption ==
  /\ Configs \subseteq Config
  /\ Plans \subseteq Seq({"click", "som", "type", "wait"})
  /\ MacroPlans \subseteq Seq({"click", "type", "wait", "hover", "retype"})

vars == <<switch, engine, orchestrator, router>>

TypeOK ==
  /\ EngineTypeOK /\ PlanTypeOK /\ MacroTypeOK
  /\ pc \in PlanPcs \cup MacroPcs \cup {"engine", "select", "over"}
  /\ back \in {"over", "answered", "routed", "keys"}

(* The private state of the executor that does not run is never looked at. *)
Init ==
  /\ PlanInit /\ MacroInit
  /\ \/ /\ plan \in Plans /\ pc = "plan" /\ config \in Configs
        /\ macro = [budget |-> 0, escalate |-> FALSE]
     \/ /\ plan \in MacroPlans /\ pc = "macro" /\ macro \in MacroConfigs
        /\ config = [profile |-> "Flash", verifier |-> FALSE, escalate |-> FALSE, dismiss |-> FALSE]
  /\ EngineInit

Executor ==
  \/ Orchestrator /\ UNCHANGED router
  \/ Router /\ UNCHANGED orchestrator
  \/ Engine /\ UNCHANGED <<orchestrator, router>>

Threading(A) == A /\ Beside /\ UNCHANGED <<orchestrator, router>>
Next == Executor \/ Threading(SwitchNext)

Spec == Init /\ [][Next]_vars

(* The executor's task is scheduled, the driver's and the verifier's calls     *)
(* return; the threads that trigger and reset finish what they began.          *)
FairSpec == Spec /\ WF_vars(Executor) /\ WF_vars(Threading(SwitchStep))

-----------------------------------------------------------------------------
(* A refusal of the policy or of the window is the end of the plan: nobody     *)
(* sends the action again hoping for another answer.                           *)
RefusalIsFinal == [][answer = "refused" /\ Kind # "retype" => UNCHANGED <<sent, attempt>>]_vars

(* What ends a plan ends it: neither a security barrier nor a refusal is       *)
(* followed by more input of the step it stopped.                              *)
StopsAreFinal == BarrierEndsInput /\ RefusalIsFinal

(* What a plan reports was earned: a success by a step that was sent and       *)
(* seen, "no change" by both ways of delivery.                                 *)
ReportsAreEarned == TypeOK /\ SuccessIsEarned /\ ZeroDiffMeansBoth

(* A plan ends, however often the screen disappoints it. *)
PlanEnds == <>(pc = "over")
=============================================================================
