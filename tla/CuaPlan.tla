------------------------------- MODULE CuaPlan -------------------------------
(***************************************************************************)
(* A plan of the computer-use crate run by the orchestrator                 *)
(* (execution/orchestrator.rs) through the engine, with its recovery engine *)
(* (healing.rs). Flash sends each step and believes the driver; Pro looks   *)
(* at the screen after each and recovers. What the screen shows is a choice. *)
(* Input is what reaches the device: a recovery's restore, focus and Escape *)
(* as well as the plan's own actions. "click" stands for every action sent  *)
(* in one piece, "som" for one whose target is an element of the tree,      *)
(* "wait" for WaitVisualChange.                                             *)
(***************************************************************************)
EXTENDS CuaEngine

VARIABLES
  config,        \* the request's profile, verifier and what a recovery may do
  heal, resume,  \* inputs of a recovery still to send, and where it returns
  barrier        \* history: a security barrier has been seen

orchestrator == <<config, heal, resume, barrier>>
planVars == <<switch, engine, orchestrator>>

PlanPcs == {"plan", "next", "step", "window", "resolve", "loop", "answered", "verify", "heal"}

Config == [profile : {"Flash", "Pro"}, verifier : BOOLEAN, escalate : BOOLEAN, dismiss : BOOLEAN]

PlanTypeOK ==
  /\ config \in Config
  /\ resume \in PlanPcs
  /\ heal \in Seq({"restore", "front", "escape down", "escape up"})
  /\ barrier \in BOOLEAN

PlanInit == heal = <<>> /\ resume = "next" /\ barrier = FALSE

Pro == config.profile = "Pro"

(* What a step of the orchestrator alone leaves alone. *)
Inside == UNCHANGED <<switch, plan, left, sent, late, config>>
NoHealing == UNCHANGED <<heal, resume, barrier>>
SameAttempt == UNCHANGED <<attempt, delivery>>
SameStep == UNCHANGED <<step, results, outcome>>

-----------------------------------------------------------------------------
(* The loops over the steps, and the start of a step. They test the stop       *)
(* before the plan, before each step, and in the step.                         *)

StartPlan ==
  /\ pc = "plan"
  /\ \/ flag /\ HaltPlan
     \/ ~flag /\ pc' = "next" /\ SameStep
  /\ Inside /\ NoHealing /\ SameAttempt /\ UNCHANGED <<back, answer, owed>>

NextStep ==
  /\ pc = "next"
  /\ \/ step > Len(plan) /\ End("done") /\ UNCHANGED <<step, results>>
     \/ step <= Len(plan) /\ flag /\ HaltPlan
     \/ step <= Len(plan) /\ ~flag /\ pc' = "step" /\ SameStep
  /\ Inside /\ NoHealing /\ SameAttempt /\ UNCHANGED <<back, answer, owed>>

EnterStep ==
  /\ pc = "step"
  /\ \/ flag /\ HaltPlan
     \/ ~flag /\ pc' = (IF Pro THEN "window" ELSE "resolve") /\ SameStep
  /\ attempt' = 0 /\ delivery' = "background"
  /\ Inside /\ NoHealing /\ UNCHANGED <<back, answer, owed>>

(* A recovery sends its inputs one after the other, tests nothing between      *)
(* them, and ends with one record.                                             *)
Recover(what, to) ==
  /\ pc' = "heal" /\ heal' = what /\ resume' = to
  /\ Owe("heal")

(* Before the action: a window that is minimised, hidden or gone is restored. *)
CheckWindow ==
  /\ pc = "window"
  /\ \/ pc' = "resolve" /\ UNCHANGED <<heal, resume, owed>>
     \/ Recover(<<"restore", "front">>, "resolve")
  /\ Inside /\ SameAttempt /\ SameStep /\ UNCHANGED <<back, answer, barrier>>

(* The element may be missing from the tree, or Flash has no tree at all. *)
ResolveTarget ==
  /\ pc = "resolve"
  /\ \/ pc' = "loop" /\ SameStep
     \/ Kind = "som" /\ FailPlan
  /\ Inside /\ NoHealing /\ SameAttempt /\ UNCHANGED <<back, answer, owed>>

-----------------------------------------------------------------------------
(* One attempt *)

(* A wait is answered by the verifier, and cannot be sent to the device: Pro   *)
(* without a verifier and Flash refuse it. Its success is not looked at.       *)
Wait ==
  /\ pc = "loop" /\ Kind = "wait"
  /\ \/ Pro /\ config.verifier /\ \E seen \in BOOLEAN : Finish(seen, "next")
     \/ FailPlan
  /\ Inside /\ NoHealing /\ SameAttempt /\ UNCHANGED <<back, answer, owed>>

Attempt ==
  /\ pc = "loop" /\ Kind # "wait"
  /\ Call("answered")
  /\ Inside /\ NoHealing /\ SameAttempt /\ SameStep /\ UNCHANGED answer

(* What the caller makes of EmergencyHalted. Mutant: it is retried. *)
AfterHaltRetries == pc' = "loop" /\ SameStep
AfterHalt == HaltPlan

Answered ==
  /\ pc = "answered"
  /\ \/ answer = "halted" /\ AfterHalt
     \/ answer \in {"refused", "failed"} /\ FailPlan
     \/ answer = "ok" /\ Pro /\ pc' = "verify" /\ SameStep
     \/ answer = "ok" /\ ~Pro /\ Finish(TRUE, "next")
  /\ Inside /\ NoHealing /\ SameAttempt /\ UNCHANGED <<back, answer, owed>>

-----------------------------------------------------------------------------
(* Pro looks at the screen *)

(* Mutant: one retry too many. *)
OneMoreRetry == attempt <= MaxRetries
MayRetry == attempt < MaxRetries

(* A security barrier ends the plan; Escape is for the other windows. Mutant: *)
(* the barrier is taken for a popup.                                          *)
BarrierAsPopup ==
  /\ MayRetry /\ config.dismiss
  /\ barrier' = TRUE
  /\ attempt' = attempt + 1
  /\ Recover(<<"escape down", "escape up">>, "loop")
  /\ SameStep /\ UNCHANGED delivery

Barrier ==
  /\ barrier' = TRUE
  /\ FailPlan
  /\ SameAttempt /\ UNCHANGED <<heal, resume, owed>>

Popup ==
  /\ \/ /\ MayRetry /\ config.dismiss
        /\ attempt' = attempt + 1
        /\ Recover(<<"escape down", "escape up">>, "loop")
        /\ SameStep
     \/ /\ ~(MayRetry /\ config.dismiss) /\ FailPlan
        /\ attempt' = IF MayRetry THEN attempt + 1 ELSE attempt
        /\ UNCHANGED <<heal, resume, owed>>
  /\ UNCHANGED <<delivery, barrier>>

(* Nothing changed on the screen: bring the window forward, or try again. Only *)
(* a verifier can tell.                                                        *)
NoOp ==
  /\ config.verifier
  /\ \/ /\ MayRetry /\ attempt' = attempt + 1
        /\ IF delivery = "background" /\ config.escalate
             THEN delivery' = "foreground" /\ Recover(<<"front">>, "loop")
             ELSE pc' = "loop" /\ UNCHANGED <<delivery, heal, resume, owed>>
        /\ SameStep
     \/ ~MayRetry /\ FailPlan /\ SameAttempt /\ UNCHANGED <<heal, resume, owed>>
  /\ UNCHANGED barrier

Degraded ==
  /\ \/ /\ MayRetry /\ attempt' = attempt + 1
        /\ Recover(<<"restore", "front">>, "loop")
        /\ SameStep
     \/ ~MayRetry /\ FailPlan /\ UNCHANGED <<attempt, heal, resume, owed>>
  /\ UNCHANGED <<delivery, barrier>>

Verified == Finish(TRUE, "next") /\ SameAttempt /\ NoHealing /\ UNCHANGED owed

Verify ==
  /\ pc = "verify"
  /\ Barrier \/ Popup \/ NoOp \/ Degraded \/ Verified
  /\ Inside /\ UNCHANGED <<back, answer>>

HealInput ==
  /\ pc = "heal" /\ heal # <<>>
  /\ heal' = Tail(heal)
  /\ escape' = (Head(heal) = "escape down")
  /\ SendInput
  /\ UNCHANGED <<flag, token, status, at, calls, clash, plan, progress, pc, call, owed,
                 sent, config, resume, barrier>>

(* Mutant: no record of the recovery. *)
UnrecordedRecovery == {}
RecoveryRecord == {"heal"}

Healed ==
  /\ pc = "heal" /\ heal = <<>>
  /\ pc' = resume
  /\ Record(RecoveryRecord)
  /\ Inside /\ NoHealing /\ SameAttempt /\ SameStep /\ UNCHANGED <<back, answer>>

Orchestrator ==
  \/ StartPlan \/ NextStep \/ EnterStep \/ CheckWindow \/ ResolveTarget \/ Wait
  \/ Attempt \/ Answered \/ Verify \/ HealInput \/ Healed

-----------------------------------------------------------------------------
(* "Security barrier modals (e.g. UAC consent.exe) must NEVER be auto-dismissed": *)
(* after one was seen the plan sends nothing more and prepares nothing to send.  *)
BarrierEndsInput == [][barrier => UNCHANGED <<left, heal>>]_planVars
=============================================================================
