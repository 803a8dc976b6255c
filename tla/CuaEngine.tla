------------------------------ MODULE CuaEngine ------------------------------
(***************************************************************************)
(* One action of the computer-use crate: CuaEngine::execute_action, called  *)
(* by the executors of plans and racing the emergency stop. What the driver *)
(* answers and what the policy says of a window are choices. An action is   *)
(* sent in pieces when the driver looks at the token between them (typing), *)
(* in one piece otherwise. An executor calls with Call, and reads answer    *)
(* when pc is back where it asked to return.                                *)
(***************************************************************************)
EXTENDS KillSwitch, Sequences

CONSTANTS Pieces,      \* pieces that a text is typed in
          MaxRetries   \* max_step_retries (2 in the code)

ASSUME EngineAssumption ==
  /\ Pieces \in Nat \ {0} /\ MaxRetries \in Nat

VARIABLES
  plan, step,  \* the steps of the plan in execution, and the current one
  pc,          \* where the executor is, or the engine it has called
  back,        \* where the engine's call returns
  answer,      \* what the last call returned
  left,        \* pieces of the action still to send
  attempt,     \* retries of the step
  delivery,    \* current_delivery
  results,     \* success of the steps in step_results
  outcome,     \* of the plan: running, done, failed, halted
  owed,        \* engine calls and recoveries begun that have left no audit record
  sent,        \* history: times the engine has sent each step's action
  late         \* history: inputs sent since the stop is in force

call == <<back, answer, left>>
progress == <<step, attempt, delivery, results, outcome>>
engine == <<plan, step, pc, back, answer, left, attempt, delivery, results, outcome,
            owed, sent, late>>

Kinds == {"click", "som", "type", "wait", "hover", "retype"}
Typed == {"type", "retype"}
Answers == {"none", "ok", "halted", "refused", "failed"}
Works == {"engine", "heal"}

EngineTypeOK ==
  /\ SwitchTypeOK
  /\ plan \in Seq(Kinds) /\ step \in 1..Len(plan) + 1
  /\ answer \in Answers /\ left \in 0..Pieces
  /\ attempt \in 0..MaxRetries + 1 /\ delivery \in {"background", "foreground"}
  /\ results \in Seq(BOOLEAN) /\ Len(results) <= Len(plan)
  /\ outcome \in {"running", "done", "failed", "halted"}
  /\ owed \in [Works -> Nat] /\ late \in Nat
  /\ sent \in [1..Len(plan) -> Nat]

EngineInit ==
  /\ SwitchInit
  /\ step = 1 /\ back = "over" /\ answer = "none" /\ left = 0
  /\ attempt = 0 /\ delivery = "background" /\ results = <<>> /\ outcome = "running"
  /\ owed = [w \in Works |-> 0] /\ late = 0
  /\ sent = [i \in 1..Len(plan) |-> 0]

Kind == plan[step]

Owe(w) == owed' = [owed EXCEPT ![w] = @ + 1]
Record(ws) == owed' = [w \in Works |-> IF w \in ws THEN owed[w] - 1 ELSE owed[w]]

(* The device is given an input: late when the stop is in force. *)
SendInput == late' = IF flag /\ token THEN late + 1 ELSE late

(* How a step leaves the executor. *)
End(what) == pc' = "over" /\ outcome' = what
FailPlan == End("failed") /\ results' = Append(results, FALSE) /\ UNCHANGED step
HaltPlan == End("halted") /\ UNCHANGED <<results, step>>
Finish(ok, at_) ==
  /\ pc' = at_ /\ step' = step + 1 /\ results' = Append(results, ok)
  /\ UNCHANGED outcome

Call(to) ==
  pc' = "engine" /\ back' = to /\ Owe("engine")

-----------------------------------------------------------------------------
(* Every way out leaves one record in the audit. *)
Return(what) == /\ pc' = back /\ answer' = what
                /\ left' = 0
                /\ Record({"engine"})

(* The stop is tested first. Mutant: it is not. *)
StopUnseen == FALSE
StopSeen == flag

EngineHalts ==
  /\ pc = "engine" /\ StopSeen
  /\ Return("halted")
  /\ UNCHANGED <<switch, plan, progress, back, sent, late>>

(* The permission mode, the window's state and the policy, each of which may *)
(* refuse; inspecting the window may fail.                                   *)
EngineRefuses ==
  /\ pc = "engine" /\ ~StopSeen
  /\ \E what \in {"refused", "failed"} : Return(what)
  /\ UNCHANGED <<switch, plan, progress, back, sent, late>>

EngineDispatches ==
  /\ pc = "engine" /\ ~StopSeen
  /\ pc' = "select"
  /\ left' = IF Kind \in Typed /\ back # "keys" THEN Pieces ELSE 1
  /\ UNCHANGED <<switch, plan, progress, back, answer, owed, sent, late>>

(* The select over the dispatch and the token: either may be polled first. *)
Cancelled ==
  /\ pc = "select" /\ token
  /\ Return("halted")
  /\ UNCHANGED <<switch, plan, progress, back, sent, late>>

(* The keys that clear a field before typing are no sending of the step's action. *)
Dispatch ==
  /\ pc = "select" /\ left > 0
  /\ Kind \in Typed /\ back # "keys" => ~token
  /\ left' = left - 1
  /\ SendInput
  /\ sent' = IF left' = 0 /\ back # "keys" THEN [sent EXCEPT ![step] = @ + 1] ELSE sent
  /\ UNCHANGED <<switch, plan, progress, pc, back, answer, owed>>

(* The driver is done, or reports a failure at any piece. *)
Dispatched ==
  /\ pc = "select"
  /\ \/ left = 0 /\ Return("ok")
     \/ \E what \in {"refused", "failed"} : Return(what)
  /\ UNCHANGED <<switch, plan, progress, back, sent, late>>

Engine == EngineHalts \/ EngineRefuses \/ EngineDispatches \/ Cancelled \/ Dispatch \/ Dispatched

-----------------------------------------------------------------------------
(* Threads that trigger and reset, beside the executor. Inputs are counted    *)
(* from the last time the flag was raised.                                    *)
Beside == /\ late' = IF flag' THEN late ELSE 0
          /\ UNCHANGED <<plan, progress, pc, call, owed, sent>>

-----------------------------------------------------------------------------
(* Once the stop is in force (flag and token), at most the action already past *)
(* its test or one recovery after it still reaches the device: three inputs,   *)
(* whatever the retries left.                                                  *)
HaltBites == late <= 3

(* Every call of the engine and every recovery has left exactly one record in  *)
(* the audit by the time the next step starts or the plan ends, on every path. *)
NothingOffTheRecord == pc \in {"next", "macro", "over"} => \A w \in Works : owed[w] = 0

(* A plan that reports success has sent the action of each of its steps, and  *)
(* none more often than the retries allow.                                    *)
SuccessIsEarned ==
  /\ \A i \in 1..Len(plan) : sent[i] <= MaxRetries + 1
  /\ outcome = "done" =>
       /\ Len(results) = Len(plan)
       /\ \A i \in 1..Len(plan) : plan[i] # "wait" => sent[i] > 0 /\ results[i]
=============================================================================
