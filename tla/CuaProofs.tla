------------------------------- MODULE CuaProofs -------------------------------
(***************************************************************************)
(* Proofs about CuaDesk for every set of threads and plans, every number of *)
(* retries, pieces and calls.                                               *)
(***************************************************************************)
EXTENDS CuaDesk, SequenceTheorems, TLAPS

-----------------------------------------------------------------------------
(* The inductive invariant, in parts *)

(* Until a trigger and a reset overlap, all who are in a call want the same,  *)
(* and what each has stored is still in force when it goes on: the one that   *)
(* ends last stores the status over a flag and a token that agree with it.    *)
Agreed == (token <=> flag) /\ (status = "Halted" <=> flag)

Traced(t) ==
  /\ at[t] = "trigger token" => flag
  /\ at[t] = "trigger status" => flag /\ token
  /\ at[t] = "reset token" => ~flag
  /\ at[t] = "reset status" => ~flag /\ ~token

OneKind == \A t, u \in Threads : ~Opposed(at[t], at[u])

SwitchInv ==
  ~clash =>
    /\ OneKind
    /\ Quiet => Agreed
    /\ \A t \in Threads : Traced(t)

(* Where the executor is *)
InStep == pc \notin {"plan", "next", "macro", "over"}
Called == pc \in {"engine", "select"}
PlanRound == \/ pc \in {"window", "resolve", "loop", "answered", "verify", "heal"}
             \/ Called /\ back = "answered"
MacroRound == \/ pc \in {"front", "keys", "routed", "dwell", "look"}
              \/ Called /\ back \in {"routed", "keys"}

(* The engine returns where it was called from; only a field that is to be    *)
(* emptied has keys sent before; an answer of success is there when it is read. *)
CallInv ==
  /\ Called => back \in {"answered", "routed", "keys"}
  /\ Called /\ back = "keys" => Kind = "retype"
  /\ pc \in {"front", "keys"} /\ clears > 0 => Kind = "retype"
  /\ pc \in {"verify", "look", "dwell"} => answer = "ok"
  /\ answer = "refused" => pc \in {"answered", "routed", "over"} \/ Kind = "retype"
  /\ barrier => pc = "over"

(* The engine owes a record while it is called, the recovery while it sends.  *)
Begun(w) == IF w = "engine" THEN Called ELSE pc = "heal"
OwedInv == \A w \in Works : owed[w] = IF Begun(w) THEN 1 ELSE 0

(* A recovery has two inputs at most; an action that is not typed has one.    *)
InputInv ==
  /\ pc = "heal" => Len(heal) <= 2 /\ resume \in {"resolve", "loop"}
  /\ pc = "select" => left <= 1 \/ (Kind \in Typed /\ back # "keys")

(* Inputs since the stop leave room for those that can still follow them: the *)
(* action already past the engine's test, and the recovery after it.          *)
LateInv ==
  /\ flag \/ late = 0
  /\ late <= 3
  /\ pc = "select" => late + left <= 1 \/ (late = 0 /\ Kind \in Typed /\ back # "keys")
  /\ pc \in {"window", "verify"} \/ (pc = "answered" /\ answer = "ok") => late <= 1
  /\ pc = "heal" => late + Len(heal) <= 3
  /\ pc = "front" => late <= 2

(* Steps and results go together; retries keep to their budget.               *)
StepInv ==
  /\ InStep => step <= Len(plan)
  /\ pc # "over" => Len(results) = step - 1 /\ outcome = "running" /\ report = NoReport
  /\ outcome = "done" => step = Len(plan) + 1 /\ Len(results) = Len(plan)

RetryInv ==
  /\ PlanRound => attempt <= MaxRetries
  /\ MacroRound => attempt <= macro.budget /\ Len(modes) = attempt + 1
  /\ pc = "attempt" => attempt <= macro.budget + 1 /\ Len(modes) = attempt
  /\ pc = "precheck" => attempt = 0 /\ modes = <<>> /\ delivery = "background"
  /\ pc = "attempt" /\ attempt = 0 => delivery = "background"
  /\ MacroRound \/ pc = "attempt" => modes = <<>> \/ modes[1] = "background"

(* The action of a step was not sent before the step, at most once for each   *)
(* attempt, and at least once when the engine has said so.                    *)
Before == \/ pc \in {"plan", "next", "macro", "step", "window", "resolve", "precheck"}
          \/ pc = "heal" /\ resume = "resolve"
Tried == \/ pc \in {"answered", "verify", "routed", "dwell", "look"}
         \/ pc = "select" /\ left = 0 /\ back # "keys"
Hit == \/ pc \in {"verify", "look", "dwell"}
       \/ pc \in {"answered", "routed"} /\ answer = "ok"
       \/ pc = "select" /\ left = 0 /\ back # "keys"
InFront == delivery = "foreground" /\ (MacroRound \/ pc = "attempt")

SentInv ==
  /\ \A i \in 1..Len(plan) :
       /\ sent[i] <= MaxRetries + 1
       /\ i > step \/ (i = step /\ Before) => sent[i] = 0
       /\ i = step /\ InStep => sent[i] <= attempt + (IF Tried THEN 1 ELSE 0)
       /\ i < step /\ plan[i] # "wait" => sent[i] > 0 /\ results[i]
  /\ Hit => sent[step] > 0
  /\ InFront => sent[step] > 0
  /\ InFront /\ Hit => sent[step] > 1

IInv ==
  /\ TypeOK /\ SwitchInv /\ CallInv /\ OwedInv /\ InputInv /\ LateInv
  /\ StepInv /\ RetryInv /\ SentInv /\ ZeroDiffMeansBoth

-----------------------------------------------------------------------------
(* Calls *)

LEMMA OrchestratorCall ==
  ASSUME TypeOK, CallInv, InputInv, Orchestrator, UNCHANGED router
  PROVE  CallInv'
<1>1. CASE StartPlan
  BY <1>1 DEF StartPlan, HaltPlan, End, Inside, NoHealing, SameAttempt, SameStep, switch,
     progress, call, engine, orchestrator, router, CallInv, Called, InputInv, Kind, TypeOK,
     PlanTypeOK, PlanPcs
<1>2. CASE NextStep
  BY <1>2 DEF NextStep, HaltPlan, End, Inside, NoHealing, SameAttempt, SameStep, switch,
     progress, call, engine, orchestrator, router, CallInv, Called, InputInv, Kind, TypeOK,
     PlanTypeOK, PlanPcs
<1>3. CASE EnterStep
  BY <1>3 DEF EnterStep, HaltPlan, End, Inside, NoHealing, SameAttempt, SameStep, switch,
     progress, call, engine, orchestrator, router, CallInv, Called, InputInv, Kind, TypeOK,
     PlanTypeOK, PlanPcs
<1>4. CASE CheckWindow
  BY <1>4 DEF CheckWindow, Recover, Owe, Inside, NoHealing, SameAttempt, SameStep, switch,
     progress, call, engine, orchestrator, router, CallInv, Called, InputInv, Kind, TypeOK,
     PlanTypeOK, PlanPcs
<1>5. CASE ResolveTarget
  BY <1>5 DEF ResolveTarget, FailPlan, End, Inside, NoHealing, SameAttempt, SameStep, switch,
     progress, call, engine, orchestrator, router, CallInv, Called, InputInv, Kind, TypeOK,
     PlanTypeOK, PlanPcs
<1>6. CASE Wait
  BY <1>6 DEF Wait, FailPlan, End, Finish, Inside, NoHealing, SameAttempt, SameStep, switch,
     progress, call, engine, orchestrator, router, CallInv, Called, InputInv, Kind, TypeOK,
     PlanTypeOK, PlanPcs
<1>7. CASE Attempt
  BY <1>7 DEF Attempt, Call, Owe, Inside, NoHealing, SameAttempt, SameStep, switch, progress,
     call, engine, orchestrator, router, CallInv, Called, InputInv, Kind, TypeOK, PlanTypeOK,
     PlanPcs
<1>8. CASE Answered
  BY <1>8 DEF Answered, AfterHalt, HaltPlan, FailPlan, End, Finish, Inside, NoHealing,
     SameAttempt, SameStep, switch, progress, call, engine, orchestrator, router, CallInv,
     Called, InputInv, Kind, TypeOK, PlanTypeOK, PlanPcs
<1>9. CASE Verify
  <2>1. CASE Barrier
    BY <1>9, <2>1 DEF Verify, Barrier, FailPlan, End, Inside, NoHealing, SameAttempt, SameStep,
       switch, progress, call, engine, orchestrator, router, CallInv, Called, InputInv, Kind,
       TypeOK, PlanTypeOK, PlanPcs
  <2>2. CASE Popup
    BY <1>9, <2>2 DEF Verify, Popup, MayRetry, FailPlan, End, Recover, Owe, Inside, NoHealing,
       SameAttempt, SameStep, switch, progress, call, engine, orchestrator, router, CallInv,
       Called, InputInv, Kind, TypeOK, PlanTypeOK, PlanPcs
  <2>3. CASE NoOp
    BY <1>9, <2>3 DEF Verify, NoOp, MayRetry, FailPlan, End, Recover, Owe, Inside, NoHealing,
       SameAttempt, SameStep, switch, progress, call, engine, orchestrator, router, CallInv,
       Called, InputInv, Kind, TypeOK, PlanTypeOK, PlanPcs
  <2>4. CASE Degraded
    BY <1>9, <2>4 DEF Verify, Degraded, MayRetry, FailPlan, End, Recover, Owe, Inside,
       NoHealing, SameAttempt, SameStep, switch, progress, call, engine, orchestrator, router,
       CallInv, Called, InputInv, Kind, TypeOK, PlanTypeOK, PlanPcs
  <2>5. CASE Verified
    BY <1>9, <2>5 DEF Verify, Verified, Finish, Inside, NoHealing, SameAttempt, SameStep,
       switch, progress, call, engine, orchestrator, router, CallInv, Called, InputInv, Kind,
       TypeOK, PlanTypeOK, PlanPcs
  <2>6. QED BY <1>9, <2>1, <2>2, <2>3, <2>4, <2>5 DEF Verify
<1>10. CASE HealInput
  BY <1>10 DEF HealInput, SendInput, Inside, NoHealing, SameAttempt, SameStep, switch, progress,
     call, engine, orchestrator, router, CallInv, Called, InputInv, Kind, TypeOK, PlanTypeOK,
     PlanPcs
<1>11. CASE Healed
  BY <1>11 DEF Healed, Record, RecoveryRecord, Inside, NoHealing, SameAttempt, SameStep, switch,
     progress, call, engine, orchestrator, router, CallInv, Called, InputInv, Kind, TypeOK,
     PlanTypeOK, PlanPcs
<1>12. QED BY <1>1, <1>2, <1>3, <1>4, <1>5, <1>6, <1>7, <1>8, <1>9, <1>10, <1>11 DEF Orchestrator

LEMMA RouterCall ==
  ASSUME TypeOK, CallInv, InputInv, Router, UNCHANGED orchestrator
  PROVE  CallInv'
<1>1. CASE MacroStep
  BY <1>1 DEF MacroStep, End, Defect, Alone, Same, switch, progress, call, engine, orchestrator,
     router, CallInv, Called, InputInv, Kind, TypeOK, PlanTypeOK, PlanPcs
<1>2. CASE Precheck
  BY <1>2 DEF Precheck, Defect, Alone, Same, switch, progress, call, engine, orchestrator,
     router, CallInv, Called, InputInv, Kind, TypeOK, PlanTypeOK, PlanPcs
<1>3. CASE AwaitChange
  BY <1>3 DEF AwaitChange, Defect, StepDone, Finish, Alone, Same, switch, progress, call,
     engine, orchestrator, router, CallInv, Called, InputInv, Kind, TypeOK, PlanTypeOK, PlanPcs
<1>4. CASE Round
  <2>1. CASE ~(attempt <= macro.budget) \/ flag
    BY <1>4, <2>1 DEF Round, WithinBudget, Defect, Alone, Same, call, orchestrator, CallInv, Called, Kind
  <2>2. CASE ~flag /\ attempt <= macro.budget
    <3>1. /\ pc = "attempt" /\ UNCHANGED <<plan, step, back, answer, left>> /\ pc' \in {"front", "keys"}
          /\ clears' > 0 => Kind = "retype"
      BY <1>4, <2>2 DEF Round, WithinBudget, Defect, Alone, Same, call
    <3>2. UNCHANGED <<barrier, switch, orchestrator>>
      BY <1>4 DEF Round, Alone, orchestrator
    <3>3. QED BY <3>1, <3>2 DEF CallInv, Called, Kind, orchestrator
  <2>3. QED BY <2>1, <2>2
<1>5. CASE BringToFront
  BY <1>5 DEF BringToFront, SendInput, Alone, Same, switch, progress, call, engine,
     orchestrator, router, CallInv, Called, InputInv, Kind, TypeOK, PlanTypeOK, PlanPcs
<1>6. CASE ClearField
  BY <1>6 DEF ClearField, Call, Owe, Alone, Same, switch, progress, call, engine, orchestrator,
     router, CallInv, Called, InputInv, Kind, TypeOK, PlanTypeOK, PlanPcs
<1>7. CASE SendAction
  BY <1>7 DEF SendAction, Call, Owe, Alone, Same, switch, progress, call, engine, orchestrator,
     router, CallInv, Called, InputInv, Kind, TypeOK, PlanTypeOK, PlanPcs
<1>8. CASE Routed
  BY <1>8 DEF Routed, Defect, Retry, Retryable, Alone, Same, switch, progress, call, engine,
     orchestrator, router, CallInv, Called, InputInv, Kind, TypeOK, PlanTypeOK, PlanPcs
<1>9. CASE Dwell
  BY <1>9 DEF Dwell, Defect, Alone, Same, switch, progress, call, engine, orchestrator, router,
     CallInv, Called, InputInv, Kind, TypeOK, PlanTypeOK, PlanPcs
<1>10. CASE Changed
  BY <1>10 DEF Changed, StepDone, Finish, Alone, Same, switch, progress, call, engine,
     orchestrator, router, CallInv, Called, InputInv, Kind, TypeOK, PlanTypeOK, PlanPcs
<1>11. CASE NothingChanged
  BY <1>11 DEF NothingChanged, Escalates, Retry, Defect, Alone, Same, switch, progress, call,
     engine, orchestrator, router, CallInv, Called, InputInv, Kind, TypeOK, PlanTypeOK, PlanPcs
<1>12. QED BY <1>1, <1>2, <1>3, <1>4, <1>5, <1>6, <1>7, <1>8, <1>9, <1>10, <1>11 DEF Router

LEMMA EngineCall ==
  ASSUME TypeOK, CallInv, InputInv, Engine, UNCHANGED <<orchestrator, router>>
  PROVE  CallInv'
<1>1. CASE EngineHalts
  BY <1>1 DEF EngineHalts, StopSeen, Return, Record, switch, progress, engine, orchestrator,
     router, CallInv, Called, InputInv, Kind, TypeOK, PlanTypeOK, PlanPcs
<1>2. CASE EngineRefuses
  BY <1>2 DEF EngineRefuses, StopSeen, Return, Record, switch, progress, engine, orchestrator,
     router, CallInv, Called, InputInv, Kind, TypeOK, PlanTypeOK, PlanPcs
<1>3. CASE EngineDispatches
  BY <1>3 DEF EngineDispatches, StopSeen, switch, progress, engine, orchestrator, router,
     CallInv, Called, InputInv, Kind, TypeOK, PlanTypeOK, PlanPcs
<1>4. CASE Cancelled
  BY <1>4 DEF Cancelled, Return, Record, switch, progress, engine, orchestrator, router,
     CallInv, Called, InputInv, Kind, TypeOK, PlanTypeOK, PlanPcs
<1>5. CASE Dispatch
  BY <1>5 DEF Dispatch, SendInput, switch, progress, engine, orchestrator, router, CallInv,
     Called, InputInv, Kind, TypeOK, PlanTypeOK, PlanPcs
<1>6. CASE Dispatched
  BY <1>6 DEF Dispatched, Return, Record, switch, progress, engine, orchestrator, router,
     CallInv, Called, InputInv, Kind, TypeOK, PlanTypeOK, PlanPcs
<1>7. QED BY <1>1, <1>2, <1>3, <1>4, <1>5, <1>6 DEF Engine

(* What a step does to the records that are owed *)

OwedStep ==
  \/ UNCHANGED owed /\ (Called' <=> Called) /\ (pc' = "heal" <=> pc = "heal")
  \/ Owe("engine") /\ ~Called /\ pc # "heal" /\ pc' = "engine"
  \/ Record({"engine"}) /\ Called /\ ~Called' /\ pc' # "heal"
  \/ Owe("heal") /\ ~Called /\ pc # "heal" /\ pc' = "heal"
  \/ Record({"heal"}) /\ pc = "heal" /\ ~Called' /\ pc' # "heal"

LEMMA OrchestratorOwes ==
  ASSUME CallInv, InputInv, Orchestrator, UNCHANGED router
  PROVE  OwedStep
<1>1. CASE StartPlan
  BY <1>1 DEF StartPlan, HaltPlan, End, Inside, NoHealing, SameAttempt, SameStep, switch,
     progress, call, engine, orchestrator, router, OwedStep, Called, CallInv, InputInv
<1>2. CASE NextStep
  BY <1>2 DEF NextStep, HaltPlan, End, Inside, NoHealing, SameAttempt, SameStep, switch,
     progress, call, engine, orchestrator, router, OwedStep, Called, CallInv, InputInv
<1>3. CASE EnterStep
  BY <1>3 DEF EnterStep, HaltPlan, End, Inside, NoHealing, SameAttempt, SameStep, switch,
     progress, call, engine, orchestrator, router, OwedStep, Called, CallInv, InputInv
<1>4. CASE CheckWindow
  BY <1>4 DEF CheckWindow, Recover, Inside, NoHealing, SameAttempt, SameStep, switch,
     progress, call, engine, orchestrator, router, OwedStep, Called, CallInv, InputInv
<1>5. CASE ResolveTarget
  BY <1>5 DEF ResolveTarget, FailPlan, End, Inside, NoHealing, SameAttempt, SameStep, switch,
     progress, call, engine, orchestrator, router, OwedStep, Called, CallInv, InputInv
<1>6. CASE Wait
  BY <1>6 DEF Wait, FailPlan, End, Finish, Inside, NoHealing, SameAttempt, SameStep, switch,
     progress, call, engine, orchestrator, router, OwedStep, Called, CallInv, InputInv
<1>7. CASE Attempt
  BY <1>7 DEF Attempt, Call, Inside, NoHealing, SameAttempt, SameStep, switch, progress,
     call, engine, orchestrator, router, OwedStep, Called, CallInv, InputInv
<1>8. CASE Answered
  BY <1>8 DEF Answered, AfterHalt, HaltPlan, FailPlan, End, Finish, Inside, NoHealing,
     SameAttempt, SameStep, switch, progress, call, engine, orchestrator, router, OwedStep,
     Called, CallInv, InputInv
<1>9. CASE Verify
  <2>1. CASE Barrier
    BY <1>9, <2>1 DEF Verify, Barrier, FailPlan, End, Inside, NoHealing, SameAttempt, SameStep,
       switch, progress, call, engine, orchestrator, router, OwedStep, Called, CallInv, InputInv
  <2>2. CASE Popup
    BY <1>9, <2>2 DEF Verify, Popup, MayRetry, FailPlan, End, Recover, Inside, NoHealing,
       SameAttempt, SameStep, switch, progress, call, engine, orchestrator, router, OwedStep,
       Called, CallInv, InputInv
  <2>3. CASE NoOp
    BY <1>9, <2>3 DEF Verify, NoOp, MayRetry, FailPlan, End, Recover, Inside, NoHealing,
       SameAttempt, SameStep, switch, progress, call, engine, orchestrator, router, OwedStep,
       Called, CallInv, InputInv
  <2>4. CASE Degraded
    BY <1>9, <2>4 DEF Verify, Degraded, MayRetry, FailPlan, End, Recover, Inside,
       NoHealing, SameAttempt, SameStep, switch, progress, call, engine, orchestrator, router,
       OwedStep, Called, CallInv, InputInv
  <2>5. CASE Verified
    BY <1>9, <2>5 DEF Verify, Verified, Finish, Inside, NoHealing, SameAttempt, SameStep,
       switch, progress, call, engine, orchestrator, router, OwedStep, Called, CallInv, InputInv
  <2>6. QED BY <1>9, <2>1, <2>2, <2>3, <2>4, <2>5 DEF Verify
<1>10. CASE HealInput
  BY <1>10 DEF HealInput, SendInput, Inside, NoHealing, SameAttempt, SameStep, switch, progress,
     call, engine, orchestrator, router, OwedStep, Called, CallInv, InputInv
<1>11. CASE Healed
  BY <1>11 DEF Healed, RecoveryRecord, Inside, NoHealing, SameAttempt, SameStep, switch,
     progress, call, engine, orchestrator, router, OwedStep, Called, CallInv, InputInv
<1>12. QED BY <1>1, <1>2, <1>3, <1>4, <1>5, <1>6, <1>7, <1>8, <1>9, <1>10, <1>11 DEF Orchestrator

LEMMA RouterOwes ==
  ASSUME CallInv, InputInv, Router, UNCHANGED orchestrator
  PROVE  OwedStep
<1>1. CASE MacroStep
  BY <1>1 DEF MacroStep, End, Defect, Alone, Same, switch, progress, call, engine, orchestrator,
     router, OwedStep, Called, CallInv, InputInv
<1>2. CASE Precheck
  BY <1>2 DEF Precheck, Defect, Alone, Same, switch, progress, call, engine, orchestrator,
     router, OwedStep, Called, CallInv, InputInv
<1>3. CASE AwaitChange
  BY <1>3 DEF AwaitChange, Defect, StepDone, Finish, Alone, Same, switch, progress, call,
     engine, orchestrator, router, OwedStep, Called, CallInv, InputInv
<1>4. CASE Round
  BY <1>4 DEF Round, WithinBudget, Defect, Alone, Same, switch, progress, call, engine,
     orchestrator, router, OwedStep, Called, CallInv, InputInv
<1>5. CASE BringToFront
  BY <1>5 DEF BringToFront, SendInput, Alone, Same, switch, progress, call, engine,
     orchestrator, router, OwedStep, Called, CallInv, InputInv
<1>6. CASE ClearField
  BY <1>6 DEF ClearField, Call, Alone, Same, switch, progress, call, engine, orchestrator,
     router, OwedStep, Called, CallInv, InputInv
<1>7. CASE SendAction
  BY <1>7 DEF SendAction, Call, Alone, Same, switch, progress, call, engine, orchestrator,
     router, OwedStep, Called, CallInv, InputInv
<1>8. CASE Routed
  BY <1>8 DEF Routed, Defect, Retry, Retryable, Alone, Same, switch, progress, call, engine,
     orchestrator, router, OwedStep, Called, CallInv, InputInv
<1>9. CASE Dwell
  BY <1>9 DEF Dwell, Defect, Alone, Same, switch, progress, call, engine, orchestrator, router,
     OwedStep, Called, CallInv, InputInv
<1>10. CASE Changed
  BY <1>10 DEF Changed, StepDone, Finish, Alone, Same, switch, progress, call, engine,
     orchestrator, router, OwedStep, Called, CallInv, InputInv
<1>11. CASE NothingChanged
  BY <1>11 DEF NothingChanged, Escalates, Retry, Defect, Alone, Same, switch, progress, call,
     engine, orchestrator, router, OwedStep, Called, CallInv, InputInv
<1>12. QED BY <1>1, <1>2, <1>3, <1>4, <1>5, <1>6, <1>7, <1>8, <1>9, <1>10, <1>11 DEF Router

LEMMA EngineOwes ==
  ASSUME CallInv, InputInv, Engine, UNCHANGED <<orchestrator, router>>
  PROVE  OwedStep
<1>1. CASE EngineHalts
  BY <1>1 DEF EngineHalts, StopSeen, Return, switch, progress, engine, orchestrator,
     router, OwedStep, Called, CallInv, InputInv
<1>2. CASE EngineRefuses
  BY <1>2 DEF EngineRefuses, StopSeen, Return, switch, progress, engine, orchestrator,
     router, OwedStep, Called, CallInv, InputInv
<1>3. CASE EngineDispatches
  BY <1>3 DEF EngineDispatches, StopSeen, switch, progress, engine, orchestrator, router,
     OwedStep, Called, CallInv, InputInv
<1>4. CASE Cancelled
  BY <1>4 DEF Cancelled, Return, switch, progress, engine, orchestrator, router,
     OwedStep, Called, CallInv, InputInv
<1>5. CASE Dispatch
  BY <1>5 DEF Dispatch, SendInput, switch, progress, engine, orchestrator, router, OwedStep,
     Called, CallInv, InputInv
<1>6. CASE Dispatched
  BY <1>6 DEF Dispatched, Return, switch, progress, engine, orchestrator, router,
     OwedStep, Called, CallInv, InputInv
<1>7. QED BY <1>1, <1>2, <1>3, <1>4, <1>5, <1>6 DEF Engine

LEMMA OwedKept ==
  ASSUME owed \in [Works -> Nat], OwedInv, OwedStep
  PROVE  owed' \in [Works -> Nat] /\ OwedInv'
<1>1. /\ owed["engine"] = IF Called THEN 1 ELSE 0
      /\ owed["heal"] = IF pc = "heal" THEN 1 ELSE 0
  BY DEF OwedInv, Begun, Works
<1>2. ASSUME NEW w \in Works, Owe(w)
      PROVE  owed' \in [Works -> Nat] /\ \A v \in Works : owed'[v] = IF v = w THEN owed[v] + 1 ELSE owed[v]
  BY <1>2 DEF Owe
<1>3. ASSUME NEW w \in Works, Record({w}), owed[w] = 1
      PROVE  owed' \in [Works -> Nat] /\ \A v \in Works : owed'[v] = IF v = w THEN 0 ELSE owed[v]
  BY <1>3 DEF Record
<1>4. "engine" \in Works /\ "heal" \in Works /\ \A w \in Works : w = "engine" \/ w = "heal"
  BY DEF Works
<1>5. /\ owed' \in [Works -> Nat]
      /\ owed'["engine"] = IF Called' THEN 1 ELSE 0
      /\ owed'["heal"] = IF pc' = "heal" THEN 1 ELSE 0
  <2>1. CASE UNCHANGED owed /\ (Called' <=> Called) /\ (pc' = "heal" <=> pc = "heal")
    BY <1>1, <2>1
  <2>2. CASE Owe("engine") /\ ~Called /\ pc # "heal" /\ pc' = "engine"
    BY <1>1, <1>2, <1>4, <2>2 DEF Called
  <2>3. CASE Record({"engine"}) /\ Called /\ ~Called' /\ pc' # "heal"
    BY <1>1, <1>3, <1>4, <2>3 DEF Called
  <2>4. CASE Owe("heal") /\ ~Called /\ pc # "heal" /\ pc' = "heal"
    BY <1>1, <1>2, <1>4, <2>4 DEF Called
  <2>5. CASE Record({"heal"}) /\ pc = "heal" /\ ~Called' /\ pc' # "heal"
    BY <1>1, <1>3, <1>4, <2>5 DEF Called
  <2>6. QED BY <2>1, <2>2, <2>3, <2>4, <2>5 DEF OwedStep
<1>6. QED BY <1>4, <1>5 DEF OwedInv, Begun

HealKeys == {"restore", "front", "escape down", "escape up"}

LEMMA Shorter ==
  ASSUME NEW S, NEW s \in Seq(S), s # <<>>
  PROVE  Tail(s) \in Seq(S) /\ Len(Tail(s)) = Len(s) - 1 /\ Len(s) \in Nat
BY EmptySeq, HeadTailProperties, LenProperties

LEMMA TwoKeys ==
  ASSUME NEW a \in HealKeys, NEW b \in HealKeys
  PROVE  <<a, b>> \in Seq(HealKeys) /\ Len(<<a, b>>) <= 2
OBVIOUS

LEMMA OneKey == ASSUME NEW a \in HealKeys PROVE <<a>> \in Seq(HealKeys) /\ Len(<<a>>) <= 2
OBVIOUS

LEMMA Recoveries ==
  ASSUME NEW to, \/ Recover(<<"restore", "front">>, to) \/ Recover(<<"front">>, to)
                 \/ Recover(<<"escape down", "escape up">>, to)
  PROVE  /\ pc' = "heal" /\ resume' = to /\ heal' \in Seq(HealKeys) /\ Len(heal') <= 2
<1>1. "restore" \in HealKeys /\ "front" \in HealKeys
      /\ "escape down" \in HealKeys /\ "escape up" \in HealKeys
  BY DEF HealKeys
<1>2. CASE Recover(<<"restore", "front">>, to)
  <2>1. <<"restore", "front">> \in Seq(HealKeys) /\ Len(<<"restore", "front">>) <= 2
    BY <1>1, TwoKeys, Zenon
  <2>2. QED BY <1>2, <2>1, Zenon DEF Recover
<1>3. CASE Recover(<<"front">>, to)
  <2>1. <<"front">> \in Seq(HealKeys) /\ Len(<<"front">>) <= 2
    BY <1>1, OneKey, Zenon
  <2>2. QED BY <1>3, <2>1, Zenon DEF Recover
<1>4. CASE Recover(<<"escape down", "escape up">>, to)
  <2>1. <<"escape down", "escape up">> \in Seq(HealKeys) /\ Len(<<"escape down", "escape up">>) <= 2
    BY <1>1, TwoKeys, Zenon
  <2>2. QED BY <1>4, <2>1, Zenon DEF Recover
<1>5. QED BY <1>2, <1>3, <1>4

LEMMA OrchestratorInputs ==
  ASSUME heal \in Seq(HealKeys), left \in Nat, CallInv, InputInv, Orchestrator, UNCHANGED router
  PROVE  InputInv'
<1>1. CASE StartPlan
  BY <1>1 DEF StartPlan, HaltPlan, End, Inside, NoHealing, SameAttempt, SameStep, switch,
     progress, call, engine, orchestrator, router, CallInv, Called, InputInv, Kind, Typed
<1>2. CASE NextStep
  BY <1>2 DEF NextStep, HaltPlan, End, Inside, NoHealing, SameAttempt, SameStep, switch,
     progress, call, engine, orchestrator, router, CallInv, Called, InputInv, Kind, Typed
<1>3. CASE EnterStep
  BY <1>3 DEF EnterStep, HaltPlan, End, Inside, NoHealing, SameAttempt, SameStep, switch,
     progress, call, engine, orchestrator, router, CallInv, Called, InputInv, Kind, Typed
<1>4. CASE CheckWindow
  BY <1>4, Recoveries DEF CheckWindow,  Inside, NoHealing, SameAttempt, SameStep, switch,
     progress, call, engine, orchestrator, router, CallInv, Called, InputInv, Kind, Typed
<1>5. CASE ResolveTarget
  BY <1>5 DEF ResolveTarget, FailPlan, End, Inside, NoHealing, SameAttempt, SameStep, switch,
     progress, call, engine, orchestrator, router, CallInv, Called, InputInv, Kind, Typed
<1>6. CASE Wait
  BY <1>6 DEF Wait, FailPlan, End, Finish, Inside, NoHealing, SameAttempt, SameStep, switch,
     progress, call, engine, orchestrator, router, CallInv, Called, InputInv, Kind, Typed
<1>7. CASE Attempt
  BY <1>7 DEF Attempt, Call, Owe, Inside, NoHealing, SameAttempt, SameStep, switch, progress,
     call, engine, orchestrator, router, CallInv, Called, InputInv, Kind, Typed
<1>8. CASE Answered
  BY <1>8 DEF Answered, AfterHalt, HaltPlan, FailPlan, End, Finish, Inside, NoHealing,
     SameAttempt, SameStep, switch, progress, call, engine, orchestrator, router, CallInv,
     Called, InputInv, Kind, Typed
<1>9. CASE Verify
  <2>1. CASE Barrier
    BY <1>9, <2>1 DEF Verify, Barrier, FailPlan, End, Inside, NoHealing, SameAttempt, SameStep,
       switch, progress, call, engine, orchestrator, router, CallInv, Called, InputInv, Kind,
       Typed
  <2>2. CASE Popup
    BY <1>9, <2>2, Recoveries DEF Verify, Popup, MayRetry, FailPlan, End,  Inside, NoHealing,
       SameAttempt, SameStep, switch, progress, call, engine, orchestrator, router, CallInv,
       Called, InputInv, Kind, Typed
  <2>3. CASE NoOp
    BY <1>9, <2>3, Recoveries DEF Verify, NoOp, MayRetry, FailPlan, End,  Inside, NoHealing,
       SameAttempt, SameStep, switch, progress, call, engine, orchestrator, router, CallInv,
       Called, InputInv, Kind, Typed
  <2>4. CASE Degraded
    BY <1>9, <2>4, Recoveries DEF Verify, Degraded, MayRetry, FailPlan, End,  Inside,
       NoHealing, SameAttempt, SameStep, switch, progress, call, engine, orchestrator, router,
       CallInv, Called, InputInv, Kind, Typed
  <2>5. CASE Verified
    BY <1>9, <2>5 DEF Verify, Verified, Finish, Inside, NoHealing, SameAttempt, SameStep,
       switch, progress, call, engine, orchestrator, router, CallInv, Called, InputInv, Kind,
       Typed
  <2>6. QED BY <1>9, <2>1, <2>2, <2>3, <2>4, <2>5 DEF Verify
<1>10. CASE HealInput
  <2>1. Len(heal') = Len(heal) - 1 /\ Len(heal) \in Nat
    <3>1. heal' = Tail(heal) /\ heal # <<>>
      BY <1>10 DEF HealInput
    <3>2. QED BY <3>1, Shorter, Zenon
  <2>2. pc = "heal" /\ pc' = "heal" /\ resume' = resume
    BY <1>10 DEF HealInput
  <2>3. Len(heal') <= 2
    BY <2>1, <2>2 DEF InputInv
  <2>4. QED BY <2>2, <2>3 DEF InputInv
<1>11. CASE Healed
  BY <1>11 DEF Healed, Record, RecoveryRecord, Inside, NoHealing, SameAttempt, SameStep, switch,
     progress, call, engine, orchestrator, router, CallInv, Called, InputInv, Kind, Typed
<1>12. QED BY <1>1, <1>2, <1>3, <1>4, <1>5, <1>6, <1>7, <1>8, <1>9, <1>10, <1>11 DEF Orchestrator

LEMMA RouterInputs ==
  ASSUME heal \in Seq(HealKeys), left \in Nat, CallInv, InputInv, Router, UNCHANGED orchestrator
  PROVE  InputInv'
<1>1. CASE MacroStep
  BY <1>1 DEF MacroStep, End, Defect, Alone, Same, switch, progress, call, engine, orchestrator,
     router, CallInv, Called, InputInv, Kind, Typed
<1>2. CASE Precheck
  BY <1>2 DEF Precheck, Defect, Alone, Same, switch, progress, call, engine, orchestrator,
     router, CallInv, Called, InputInv, Kind, Typed
<1>3. CASE AwaitChange
  BY <1>3 DEF AwaitChange, Defect, StepDone, Finish, Alone, Same, switch, progress, call,
     engine, orchestrator, router, CallInv, Called, InputInv, Kind, Typed
<1>4. CASE Round
  BY <1>4 DEF Round, WithinBudget, Defect, Alone, Same, switch, progress, call, engine,
     orchestrator, router, CallInv, Called, InputInv, Kind, Typed
<1>5. CASE BringToFront
  BY <1>5 DEF BringToFront, SendInput, Alone, Same, switch, progress, call, engine,
     orchestrator, router, CallInv, Called, InputInv, Kind, Typed
<1>6. CASE ClearField
  BY <1>6 DEF ClearField, Call, Owe, Alone, Same, switch, progress, call, engine, orchestrator,
     router, CallInv, Called, InputInv, Kind, Typed
<1>7. CASE SendAction
  BY <1>7 DEF SendAction, Call, Owe, Alone, Same, switch, progress, call, engine, orchestrator,
     router, CallInv, Called, InputInv, Kind, Typed
<1>8. CASE Routed
  BY <1>8 DEF Routed, Defect, Retry, Retryable, Alone, Same, switch, progress, call, engine,
     orchestrator, router, CallInv, Called, InputInv, Kind, Typed
<1>9. CASE Dwell
  BY <1>9 DEF Dwell, Defect, Alone, Same, switch, progress, call, engine, orchestrator, router,
     CallInv, Called, InputInv, Kind, Typed
<1>10. CASE Changed
  BY <1>10 DEF Changed, StepDone, Finish, Alone, Same, switch, progress, call, engine,
     orchestrator, router, CallInv, Called, InputInv, Kind, Typed
<1>11. CASE NothingChanged
  BY <1>11 DEF NothingChanged, Escalates, Retry, Defect, Alone, Same, switch, progress, call,
     engine, orchestrator, router, CallInv, Called, InputInv, Kind, Typed
<1>12. QED BY <1>1, <1>2, <1>3, <1>4, <1>5, <1>6, <1>7, <1>8, <1>9, <1>10, <1>11 DEF Router

LEMMA EngineInputs ==
  ASSUME heal \in Seq(HealKeys), left \in Nat, CallInv, InputInv, Engine, UNCHANGED <<orchestrator, router>>
  PROVE  InputInv'
<1>1. CASE EngineHalts
  BY <1>1 DEF EngineHalts, StopSeen, Return, Record, switch, progress, engine, orchestrator,
     router, CallInv, Called, InputInv, Kind, Typed
<1>2. CASE EngineRefuses
  BY <1>2 DEF EngineRefuses, StopSeen, Return, Record, switch, progress, engine, orchestrator,
     router, CallInv, Called, InputInv, Kind, Typed
<1>3. CASE EngineDispatches
  BY <1>3 DEF EngineDispatches, StopSeen, switch, progress, engine, orchestrator, router,
     CallInv, Called, InputInv, Kind, Typed
<1>4. CASE Cancelled
  BY <1>4 DEF Cancelled, Return, Record, switch, progress, engine, orchestrator, router,
     CallInv, Called, InputInv, Kind, Typed
<1>5. CASE Dispatch
  BY <1>5 DEF Dispatch, SendInput, switch, progress, engine, orchestrator, router, CallInv,
     Called, InputInv, Kind, Typed
<1>6. CASE Dispatched
  BY <1>6 DEF Dispatched, Return, Record, switch, progress, engine, orchestrator, router,
     CallInv, Called, InputInv, Kind, Typed
<1>7. QED BY <1>1, <1>2, <1>3, <1>4, <1>5, <1>6 DEF Engine

-----------------------------------------------------------------------------
(* Types *)

Control ==
  /\ pc \in PlanPcs \cup MacroPcs \cup {"engine", "select", "over"}
  /\ back \in {"over", "answered", "routed", "keys"}
  /\ answer \in Answers /\ left \in 0..Pieces
  /\ delivery \in {"background", "foreground"}
  /\ outcome \in {"running", "done", "failed", "halted"}
  /\ barrier \in BOOLEAN /\ clears \in 0..3
  /\ heal \in Seq(HealKeys) /\ resume \in PlanPcs

LEMMA OrchestratorControl ==
  ASSUME Control, CallInv, InputInv, Orchestrator, UNCHANGED router
  PROVE  Control'
<1>1. CASE StartPlan
  BY <1>1 DEF StartPlan, HaltPlan, End, Inside, NoHealing, SameAttempt, SameStep, switch,
     progress, call, engine, orchestrator, router, Control, PlanPcs, MacroPcs, Answers, CallInv,
     InputInv, Called
<1>2. CASE NextStep
  BY <1>2 DEF NextStep, HaltPlan, End, Inside, NoHealing, SameAttempt, SameStep, switch,
     progress, call, engine, orchestrator, router, Control, PlanPcs, MacroPcs, Answers, CallInv,
     InputInv, Called
<1>3. CASE EnterStep
  BY <1>3 DEF EnterStep, HaltPlan, End, Inside, NoHealing, SameAttempt, SameStep, switch,
     progress, call, engine, orchestrator, router, Control, PlanPcs, MacroPcs, Answers, CallInv,
     InputInv, Called
<1>4. CASE CheckWindow
  BY <1>4, Recoveries DEF CheckWindow,  Inside, NoHealing, SameAttempt, SameStep, switch,
     progress, call, engine, orchestrator, router, Control, PlanPcs, MacroPcs, Answers, CallInv,
     InputInv, Called
<1>5. CASE ResolveTarget
  BY <1>5 DEF ResolveTarget, FailPlan, End, Inside, NoHealing, SameAttempt, SameStep, switch,
     progress, call, engine, orchestrator, router, Control, PlanPcs, MacroPcs, Answers, CallInv,
     InputInv, Called
<1>6. CASE Wait
  BY <1>6 DEF Wait, FailPlan, End, Finish, Inside, NoHealing, SameAttempt, SameStep, switch,
     progress, call, engine, orchestrator, router, Control, PlanPcs, MacroPcs, Answers, CallInv,
     InputInv, Called
<1>7. CASE Attempt
  BY <1>7 DEF Attempt, Call, Owe, Inside, NoHealing, SameAttempt, SameStep, switch, progress,
     call, engine, orchestrator, router, Control, PlanPcs, MacroPcs, Answers, CallInv, InputInv,
     Called
<1>8. CASE Answered
  BY <1>8 DEF Answered, AfterHalt, HaltPlan, FailPlan, End, Finish, Inside, NoHealing,
     SameAttempt, SameStep, switch, progress, call, engine, orchestrator, router, Control,
     PlanPcs, MacroPcs, Answers, CallInv, InputInv, Called
<1>9. CASE Verify
  <2>1. CASE Barrier
    BY <1>9, <2>1 DEF Verify, Barrier, FailPlan, End, Inside, NoHealing, SameAttempt, SameStep,
       switch, progress, call, engine, orchestrator, router, Control, PlanPcs, MacroPcs,
       Answers, CallInv, InputInv, Called
  <2>2. CASE Popup
    BY <1>9, <2>2, Recoveries DEF Verify, Popup, MayRetry, FailPlan, End,  Inside, NoHealing,
       SameAttempt, SameStep, switch, progress, call, engine, orchestrator, router, Control,
       PlanPcs, MacroPcs, Answers, CallInv, InputInv, Called
  <2>3. CASE NoOp
    BY <1>9, <2>3, Recoveries DEF Verify, NoOp, MayRetry, FailPlan, End,  Inside, NoHealing,
       SameAttempt, SameStep, switch, progress, call, engine, orchestrator, router, Control,
       PlanPcs, MacroPcs, Answers, CallInv, InputInv, Called
  <2>4. CASE Degraded
    BY <1>9, <2>4, Recoveries DEF Verify, Degraded, MayRetry, FailPlan, End,  Inside,
       NoHealing, SameAttempt, SameStep, switch, progress, call, engine, orchestrator, router,
       Control, PlanPcs, MacroPcs, Answers, CallInv, InputInv, Called
  <2>5. CASE Verified
    BY <1>9, <2>5 DEF Verify, Verified, Finish, Inside, NoHealing, SameAttempt, SameStep,
       switch, progress, call, engine, orchestrator, router, Control, PlanPcs, MacroPcs,
       Answers, CallInv, InputInv, Called
  <2>6. QED BY <1>9, <2>1, <2>2, <2>3, <2>4, <2>5 DEF Verify
<1>10. CASE HealInput
  <2>1. heal' \in Seq(HealKeys)
    <3>1. heal' = Tail(heal) /\ heal # <<>>
      BY <1>10 DEF HealInput
    <3>2. QED BY <3>1, Shorter, Zenon DEF Control
  <2>2. UNCHANGED <<pc, back, answer, left, delivery, outcome, barrier, resume, clears>>
    BY <1>10 DEF HealInput, progress, call, router
  <2>3. QED BY <2>1, <2>2 DEF Control
<1>11. CASE Healed
  BY <1>11 DEF Healed, Record, RecoveryRecord, Inside, NoHealing, SameAttempt, SameStep, switch,
     progress, call, engine, orchestrator, router, Control, PlanPcs, MacroPcs, Answers, CallInv,
     InputInv, Called
<1>12. QED BY <1>1, <1>2, <1>3, <1>4, <1>5, <1>6, <1>7, <1>8, <1>9, <1>10, <1>11 DEF Orchestrator

LEMMA RouterControl ==
  ASSUME Control, CallInv, InputInv, Router, UNCHANGED orchestrator
  PROVE  Control'
<1>1. CASE MacroStep
  BY <1>1 DEF MacroStep, End, Defect, Alone, Same, switch, progress, call, engine, orchestrator,
     router, Control, PlanPcs, MacroPcs, Answers, CallInv, InputInv, Called
<1>2. CASE Precheck
  BY <1>2 DEF Precheck, Defect, Alone, Same, switch, progress, call, engine, orchestrator,
     router, Control, PlanPcs, MacroPcs, Answers, CallInv, InputInv, Called
<1>3. CASE AwaitChange
  <2>1. /\ pc' \in {"over", "macro"} /\ outcome' \in {outcome, "halted", "failed"}
        /\ UNCHANGED <<back, answer, left, delivery, clears, orchestrator>>
    BY <1>3 DEF AwaitChange, Defect, StepDone, Finish, Alone, call
  <2>2. QED BY <2>1 DEF Control, MacroPcs, orchestrator
<1>4. CASE Round
  BY <1>4 DEF Round, WithinBudget, Defect, Alone, Same, switch, progress, call, engine,
     orchestrator, router, Control, PlanPcs, MacroPcs, Answers, CallInv, InputInv, Called
<1>5. CASE BringToFront
  BY <1>5 DEF BringToFront, SendInput, Alone, Same, switch, progress, call, engine,
     orchestrator, router, Control, PlanPcs, MacroPcs, Answers, CallInv, InputInv, Called
<1>6. CASE ClearField
  BY <1>6 DEF ClearField, Call, Owe, Alone, Same, switch, progress, call, engine, orchestrator,
     router, Control, PlanPcs, MacroPcs, Answers, CallInv, InputInv, Called
<1>7. CASE SendAction
  BY <1>7 DEF SendAction, Call, Owe, Alone, Same, switch, progress, call, engine, orchestrator,
     router, Control, PlanPcs, MacroPcs, Answers, CallInv, InputInv, Called
<1>8. CASE Routed
  BY <1>8 DEF Routed, Defect, Retry, Retryable, Alone, Same, switch, progress, call, engine,
     orchestrator, router, Control, PlanPcs, MacroPcs, Answers, CallInv, InputInv, Called
<1>9. CASE Dwell
  BY <1>9 DEF Dwell, Defect, Alone, Same, switch, progress, call, engine, orchestrator, router,
     Control, PlanPcs, MacroPcs, Answers, CallInv, InputInv, Called
<1>10. CASE Changed
  BY <1>10 DEF Changed, StepDone, Finish, Alone, Same, switch, progress, call, engine,
     orchestrator, router, Control, PlanPcs, MacroPcs, Answers, CallInv, InputInv, Called
<1>11. CASE NothingChanged
  BY <1>11 DEF NothingChanged, Escalates, Retry, Defect, Alone, Same, switch, progress, call,
     engine, orchestrator, router, Control, PlanPcs, MacroPcs, Answers, CallInv, InputInv,
     Called
<1>12. QED BY <1>1, <1>2, <1>3, <1>4, <1>5, <1>6, <1>7, <1>8, <1>9, <1>10, <1>11 DEF Router

LEMMA EngineControl ==
  ASSUME Control, CallInv, InputInv, Engine, UNCHANGED <<orchestrator, router>>
  PROVE  Control'
<1>1. CASE EngineHalts
  BY <1>1, EngineAssumption DEF EngineHalts, StopSeen, Return, Record, switch, progress, engine, orchestrator,
     router, Control, PlanPcs, MacroPcs, Answers, CallInv, InputInv, Called
<1>2. CASE EngineRefuses
  BY <1>2, EngineAssumption DEF EngineRefuses, StopSeen, Return, Record, switch, progress, engine, orchestrator,
     router, Control, PlanPcs, MacroPcs, Answers, CallInv, InputInv, Called
<1>3. CASE EngineDispatches
  BY <1>3, EngineAssumption DEF EngineDispatches, StopSeen, switch, progress, engine, orchestrator, router,
     Control, PlanPcs, MacroPcs, Answers, CallInv, InputInv, Called
<1>4. CASE Cancelled
  BY <1>4, EngineAssumption DEF Cancelled, Return, Record, switch, progress, engine, orchestrator, router,
     Control, PlanPcs, MacroPcs, Answers, CallInv, InputInv, Called
<1>5. CASE Dispatch
  BY <1>5, EngineAssumption DEF Dispatch, SendInput, switch, progress, engine, orchestrator, router, Control,
     PlanPcs, MacroPcs, Answers, CallInv, InputInv, Called
<1>6. CASE Dispatched
  BY <1>6, EngineAssumption DEF Dispatched, Return, Record, switch, progress, engine, orchestrator, router,
     Control, PlanPcs, MacroPcs, Answers, CallInv, InputInv, Called
<1>7. QED BY <1>1, <1>2, <1>3, <1>4, <1>5, <1>6 DEF Engine

LEMMA OrchestratorFixed ==
  ASSUME Orchestrator, UNCHANGED router PROVE UNCHANGED <<plan, config, macro>>
BY DEF Orchestrator, StartPlan, NextStep, EnterStep, CheckWindow, ResolveTarget, Wait, Attempt,
   Answered, Verify, HealInput, Healed, Inside, NoHealing, SameAttempt, SameStep, switch,
   progress, call, engine, orchestrator, router

LEMMA RouterFixed ==
  ASSUME Router, UNCHANGED orchestrator PROVE UNCHANGED <<plan, config, macro>>
BY DEF Router, MacroStep, Precheck, AwaitChange, Round, BringToFront, ClearField, SendAction,
   Routed, Dwell, Changed, NothingChanged, Alone, Same, switch, progress, call, engine,
   orchestrator, router

LEMMA EngineFixed ==
  ASSUME Engine, UNCHANGED <<orchestrator, router>> PROVE UNCHANGED <<plan, config, macro>>
BY DEF Engine, EngineHalts, EngineRefuses, EngineDispatches, Cancelled, Dispatch, Dispatched,
   switch, progress, engine, orchestrator, router

-----------------------------------------------------------------------------
(* Steps and results *)

(* What a step of the executor does to them: nothing, one more result and the *)
(* next step, or the end of the plan.                                         *)
ProgressStep ==
  \/ /\ UNCHANGED <<step, results, outcome, report>>
     /\ pc # "over" /\ pc' # "over" /\ (InStep' => InStep \/ step <= Len(plan))
  \/ /\ InStep /\ UNCHANGED report
     /\ \E ok \in BOOLEAN : Finish(ok, "next") \/ Finish(ok, "macro")
  \/ InStep /\ FailPlan
  \/ /\ pc # "over" /\ pc' = "over" /\ UNCHANGED <<step, results>>
     /\ outcome' \in {"halted", "failed"} \/ (outcome' = "done" /\ step > Len(plan))

LEMMA OrchestratorProgress ==
  ASSUME Control, CallInv, InputInv, Orchestrator, UNCHANGED router
  PROVE  ProgressStep
<1>1. CASE StartPlan
  BY <1>1 DEF StartPlan, HaltPlan, End, Inside, NoHealing, SameAttempt, SameStep, switch,
     progress, call, engine, orchestrator, router, ProgressStep, InStep, CallInv, InputInv,
     Called
<1>2. CASE NextStep
  BY <1>2 DEF NextStep, HaltPlan, End, Inside, NoHealing, SameAttempt, SameStep, switch,
     progress, call, engine, orchestrator, router, ProgressStep, InStep, CallInv, InputInv,
     Called
<1>3. CASE EnterStep
  BY <1>3 DEF EnterStep, HaltPlan, End, Inside, NoHealing, SameAttempt, SameStep, switch,
     progress, call, engine, orchestrator, router, ProgressStep, InStep, CallInv, InputInv,
     Called
<1>4. CASE CheckWindow
  BY <1>4, Recoveries DEF CheckWindow,  Inside, NoHealing, SameAttempt, SameStep, switch,
     progress, call, engine, orchestrator, router, ProgressStep, InStep, CallInv, InputInv,
     Called
<1>5. CASE ResolveTarget
  BY <1>5 DEF ResolveTarget,  Inside, NoHealing, SameAttempt, SameStep, switch,
     progress, call, engine, orchestrator, router, ProgressStep, InStep, CallInv, InputInv,
     Called
<1>6. CASE Wait
  BY <1>6 DEF Wait, FailPlan, Inside, NoHealing, SameAttempt, SameStep, switch,
     progress, call, engine, orchestrator, router, ProgressStep, InStep, CallInv, InputInv,
     Called
<1>7. CASE Attempt
  BY <1>7 DEF Attempt, Call, Owe, Inside, NoHealing, SameAttempt, SameStep, switch, progress,
     call, engine, orchestrator, router, ProgressStep, InStep, CallInv, InputInv, Called
<1>8. CASE Answered
  BY <1>8 DEF Answered, AfterHalt, HaltPlan, End, Inside, NoHealing,
     SameAttempt, SameStep, switch, progress, call, engine, orchestrator, router, ProgressStep,
     InStep, CallInv, InputInv, Called
<1>9. CASE Verify
  <2>1. CASE Barrier
    BY <1>9, <2>1 DEF Verify, Barrier,  Inside, NoHealing, SameAttempt, SameStep,
       switch, progress, call, engine, orchestrator, router, ProgressStep, InStep, CallInv,
       InputInv, Called
  <2>2. CASE Popup
    BY <1>9, <2>2, Recoveries DEF Verify, Popup, MayRetry,   Inside, NoHealing,
       SameAttempt, SameStep, switch, progress, call, engine, orchestrator, router,
       ProgressStep, InStep, CallInv, InputInv, Called
  <2>3. CASE NoOp
    BY <1>9, <2>3, Recoveries DEF Verify, NoOp, MayRetry,   Inside, NoHealing,
       SameAttempt, SameStep, switch, progress, call, engine, orchestrator, router,
       ProgressStep, InStep, CallInv, InputInv, Called
  <2>4. CASE Degraded
    BY <1>9, <2>4, Recoveries DEF Verify, Degraded, MayRetry,   Inside,
       NoHealing, SameAttempt, SameStep, switch, progress, call, engine, orchestrator, router,
       ProgressStep, InStep, CallInv, InputInv, Called
  <2>5. CASE Verified
    BY <1>9, <2>5 DEF Verify, Verified, Inside, NoHealing, SameAttempt, SameStep,
       switch, progress, call, engine, orchestrator, router, ProgressStep, InStep, CallInv,
       InputInv, Called
  <2>6. QED BY <1>9, <2>1, <2>2, <2>3, <2>4, <2>5 DEF Verify
<1>10. CASE HealInput
  BY <1>10 DEF HealInput, SendInput, Inside, NoHealing, SameAttempt, SameStep, switch, progress,
     call, engine, orchestrator, router, ProgressStep, InStep, CallInv, InputInv, Called
<1>11. CASE Healed
  BY <1>11 DEF Healed, Record, RecoveryRecord, Inside, NoHealing, SameAttempt, SameStep, switch,
     progress, call, engine, orchestrator, router, ProgressStep, InStep, CallInv, InputInv,
     Called
<1>12. QED BY <1>1, <1>2, <1>3, <1>4, <1>5, <1>6, <1>7, <1>8, <1>9, <1>10, <1>11 DEF Orchestrator

LEMMA RouterProgress ==
  ASSUME Control, CallInv, InputInv, Router, UNCHANGED orchestrator
  PROVE  ProgressStep
<1>1. CASE MacroStep
  BY <1>1 DEF MacroStep, End, Defect, Alone, Same, switch, progress, call, engine, orchestrator,
     router, ProgressStep, InStep, CallInv, InputInv, Called
<1>2. CASE Precheck
  BY <1>2 DEF Precheck, Defect, Alone, Same, switch, progress, call, engine, orchestrator,
     router, ProgressStep, InStep, CallInv, InputInv, Called
<1>3. CASE AwaitChange
  BY <1>3 DEF AwaitChange, Defect, StepDone, Alone, Same, switch, progress, call,
     engine, orchestrator, router, ProgressStep, InStep, CallInv, InputInv, Called
<1>4. CASE Round
  BY <1>4 DEF Round, WithinBudget, Defect, Alone, Same, switch, progress, call, engine,
     orchestrator, router, ProgressStep, InStep, CallInv, InputInv, Called
<1>5. CASE BringToFront
  BY <1>5 DEF BringToFront, SendInput, Alone, Same, switch, progress, call, engine,
     orchestrator, router, ProgressStep, InStep, CallInv, InputInv, Called
<1>6. CASE ClearField
  BY <1>6 DEF ClearField, Call, Owe, Alone, Same, switch, progress, call, engine, orchestrator,
     router, ProgressStep, InStep, CallInv, InputInv, Called
<1>7. CASE SendAction
  BY <1>7 DEF SendAction, Call, Owe, Alone, Same, switch, progress, call, engine, orchestrator,
     router, ProgressStep, InStep, CallInv, InputInv, Called
<1>8. CASE Routed
  BY <1>8 DEF Routed, Defect, Retry, Retryable, Alone, Same, switch, progress, call, engine,
     orchestrator, router, ProgressStep, InStep, CallInv, InputInv, Called
<1>9. CASE Dwell
  BY <1>9 DEF Dwell, Defect, Alone, Same, switch, progress, call, engine, orchestrator, router,
     ProgressStep, InStep, CallInv, InputInv, Called
<1>10. CASE Changed
  BY <1>10 DEF Changed, StepDone, Alone, Same, switch, progress, call, engine,
     orchestrator, router, ProgressStep, InStep, CallInv, InputInv, Called
<1>11. CASE NothingChanged
  BY <1>11 DEF NothingChanged, Escalates, Retry, Defect, Alone, Same, switch, progress, call,
     engine, orchestrator, router, ProgressStep, InStep, CallInv, InputInv, Called
<1>12. QED BY <1>1, <1>2, <1>3, <1>4, <1>5, <1>6, <1>7, <1>8, <1>9, <1>10, <1>11 DEF Router

LEMMA EngineProgress ==
  ASSUME Control, CallInv, InputInv, Engine, UNCHANGED <<orchestrator, router>>
  PROVE  ProgressStep
<1>1. CASE EngineHalts
  BY <1>1 DEF EngineHalts, StopSeen, Return, Record, switch, progress, engine, orchestrator,
     router, ProgressStep, InStep, CallInv, InputInv, Called
<1>2. CASE EngineRefuses
  BY <1>2 DEF EngineRefuses, StopSeen, Return, Record, switch, progress, engine, orchestrator,
     router, ProgressStep, InStep, CallInv, InputInv, Called
<1>3. CASE EngineDispatches
  BY <1>3 DEF EngineDispatches, StopSeen, switch, progress, engine, orchestrator, router,
     ProgressStep, InStep, CallInv, InputInv, Called
<1>4. CASE Cancelled
  BY <1>4 DEF Cancelled, Return, Record, switch, progress, engine, orchestrator, router,
     ProgressStep, InStep, CallInv, InputInv, Called
<1>5. CASE Dispatch
  BY <1>5 DEF Dispatch, SendInput, switch, progress, engine, orchestrator, router, ProgressStep,
     InStep, CallInv, InputInv, Called
<1>6. CASE Dispatched
  BY <1>6 DEF Dispatched, Return, Record, switch, progress, engine, orchestrator, router,
     ProgressStep, InStep, CallInv, InputInv, Called
<1>7. QED BY <1>1, <1>2, <1>3, <1>4, <1>5, <1>6 DEF Engine

Steps ==
  /\ plan \in Seq(Kinds) /\ step \in 1..Len(plan) + 1
  /\ results \in Seq(BOOLEAN) /\ Len(results) <= Len(plan)

LEMMA ProgressKept ==
  ASSUME Steps, StepInv, ProgressStep, UNCHANGED plan
  PROVE  Steps' /\ StepInv'
<1>0. Len(plan) \in Nat /\ Len(results) \in Nat
  BY LenProperties DEF Steps
<1>1. CASE /\ UNCHANGED <<step, results, outcome, report>>
           /\ pc # "over" /\ pc' # "over" /\ (InStep' => InStep \/ step <= Len(plan))
  BY <1>1 DEF Steps, StepInv
<1>2. ASSUME InStep, UNCHANGED report, NEW ok \in BOOLEAN, Finish(ok, "next") \/ Finish(ok, "macro")
      PROVE  Steps' /\ StepInv'
  <2>1. results' \in Seq(BOOLEAN) /\ Len(results') = Len(results) + 1
    BY <1>2, AppendProperties DEF Finish, Steps
  <2>2. step' = step + 1 /\ ~InStep' /\ pc # "over" /\ pc' # "over" /\ UNCHANGED outcome
    BY <1>2 DEF Finish, InStep
  <2>3. QED BY <1>0, <1>2, <2>1, <2>2 DEF Steps, StepInv
<1>3. CASE InStep /\ FailPlan
  <2>1. results' \in Seq(BOOLEAN) /\ Len(results') = Len(results) + 1
    BY <1>3, AppendProperties DEF FailPlan, Steps
  <2>2. step' = step /\ pc # "over" /\ pc' = "over" /\ outcome' = "failed"
    BY <1>3 DEF FailPlan, End, InStep
  <2>3. QED BY <1>0, <1>3, <2>1, <2>2 DEF Steps, StepInv, InStep
<1>4. CASE /\ pc # "over" /\ pc' = "over" /\ UNCHANGED <<step, results>>
           /\ outcome' \in {"halted", "failed"} \/ (outcome' = "done" /\ step > Len(plan))
  BY <1>0, <1>4 DEF Steps, StepInv, InStep
<1>5. QED BY <1>1, <1>2, <1>3, <1>4 DEF ProgressStep

-----------------------------------------------------------------------------
(* Retries *)

Delivery == {"background", "foreground"}
Retries ==
  /\ attempt \in 0..MaxRetries + 1
  /\ macro \in [budget : 0..MaxRetries, escalate : BOOLEAN]
  /\ modes \in Seq(Delivery) /\ Len(modes) <= macro.budget + 1

(* What looking at the screen comes to when it does not show success. *)
LEMMA Looks ==
  ASSUME Verify, Popup \/ NoOp \/ Degraded
  PROVE  /\ pc = "verify" /\ UNCHANGED <<step, plan, back, answer, left, sent>>
         /\ \/ /\ pc' = "over"
               /\ attempt' = attempt \/ (attempt' = attempt + 1 /\ attempt < MaxRetries)
            \/ /\ pc' = "loop" \/ (pc' = "heal" /\ resume' = "loop")
               /\ attempt < MaxRetries /\ attempt' = attempt + 1 /\ UNCHANGED results
<1>1. pc = "verify" /\ UNCHANGED <<plan, back, answer, left, sent>>
  BY DEF Verify, Inside
<1>2. CASE Popup
  BY <1>1, <1>2, Recoveries DEF Popup, MayRetry, FailPlan, End, SameStep
<1>3. CASE NoOp
  BY <1>1, <1>3, Recoveries DEF NoOp, MayRetry, FailPlan, End, SameStep, SameAttempt
<1>4. CASE Degraded
  BY <1>1, <1>4, Recoveries DEF Degraded, MayRetry, FailPlan, End, SameStep
<1>5. QED BY <1>2, <1>3, <1>4

LEMMA NoModes == <<>> \in Seq(Delivery) /\ Len(<<>>) = 0
OBVIOUS

LEMMA OneMode == <<"background">> \in Seq(Delivery) /\ Len(<<"background">>) = 1
<1>1. "background" \in Delivery
  BY DEF Delivery
<1>2. ASSUME NEW d \in Delivery PROVE <<d>> \in Seq(Delivery) /\ Len(<<d>>) = 1
  OBVIOUS
<1>3. QED BY <1>1, <1>2, Zenon

LEMMA OrchestratorRetries ==
  ASSUME Control, CallInv, InputInv, Retries, RetryInv, Orchestrator, UNCHANGED router
  PROVE  Retries' /\ RetryInv'
<1>1. CASE StartPlan
  BY <1>1, EngineAssumption DEF StartPlan, HaltPlan, End, Inside, NoHealing, SameAttempt, SameStep, switch,
     progress, call, engine, orchestrator, router, RetryInv, Retries, PlanRound, MacroRound,
     Called, CallInv, InputInv
<1>2. CASE NextStep
  BY <1>2, EngineAssumption DEF NextStep, HaltPlan, End, Inside, NoHealing, SameAttempt, SameStep, switch,
     progress, call, engine, orchestrator, router, RetryInv, Retries, PlanRound, MacroRound,
     Called, CallInv, InputInv
<1>3. CASE EnterStep
  BY <1>3, EngineAssumption DEF EnterStep, HaltPlan, End, Inside, NoHealing, SameAttempt, SameStep, switch,
     progress, call, engine, orchestrator, router, RetryInv, Retries, PlanRound, MacroRound,
     Called, CallInv, InputInv
<1>4. CASE CheckWindow
  BY <1>4, Recoveries, EngineAssumption DEF CheckWindow,  Inside, NoHealing, SameAttempt, SameStep, switch,
     progress, call, engine, orchestrator, router, RetryInv, Retries, PlanRound, MacroRound,
     Called, CallInv, InputInv
<1>5. CASE ResolveTarget
  BY <1>5, EngineAssumption DEF ResolveTarget, FailPlan, End, Inside, NoHealing, SameAttempt, SameStep, switch,
     progress, call, engine, orchestrator, router, RetryInv, Retries, PlanRound, MacroRound,
     Called, CallInv, InputInv
<1>6. CASE Wait
  BY <1>6, EngineAssumption DEF Wait, FailPlan, End, Finish, Inside, NoHealing, SameAttempt, SameStep, switch,
     progress, call, engine, orchestrator, router, RetryInv, Retries, PlanRound, MacroRound,
     Called, CallInv, InputInv
<1>7. CASE Attempt
  BY <1>7, EngineAssumption DEF Attempt, Call, Owe, Inside, NoHealing, SameAttempt, SameStep, switch, progress,
     call, engine, orchestrator, router, RetryInv, Retries, PlanRound, MacroRound, Called,
     CallInv, InputInv
<1>8. CASE Answered
  BY <1>8, EngineAssumption DEF Answered, AfterHalt, HaltPlan, FailPlan, End, Finish, Inside, NoHealing,
     SameAttempt, SameStep, switch, progress, call, engine, orchestrator, router, RetryInv,
     Retries, PlanRound, MacroRound, Called, CallInv, InputInv
<1>9. CASE Verify
  <2>1. CASE Popup \/ NoOp \/ Degraded
    <3>1. UNCHANGED <<macro, modes>>
      BY DEF router
    <3>2. QED BY <1>9, <2>1, <3>1, Looks, EngineAssumption DEF RetryInv, Retries, PlanRound, MacroRound, Called
  <2>2. CASE Verified
    BY <1>9, <2>2, EngineAssumption DEF Verify, Verified, Finish, SameAttempt, router, RetryInv, Retries,
       PlanRound, MacroRound, Called
  <2>3. CASE Barrier
    BY <1>9, <2>3, EngineAssumption DEF Verify, Barrier, FailPlan, End, SameAttempt, router, RetryInv, Retries,
       PlanRound, MacroRound, Called
  <2>4. QED BY <1>9, <2>1, <2>2, <2>3 DEF Verify
<1>10. CASE HealInput
  BY <1>10, EngineAssumption DEF HealInput, SendInput, Inside, NoHealing, SameAttempt, SameStep, switch, progress,
     call, engine, orchestrator, router, RetryInv, Retries, PlanRound, MacroRound, Called,
     CallInv, InputInv
<1>11. CASE Healed
  BY <1>11, EngineAssumption DEF Healed, Record, RecoveryRecord, Inside, NoHealing, SameAttempt, SameStep, switch,
     progress, call, engine, orchestrator, router, RetryInv, Retries, PlanRound, MacroRound,
     Called, CallInv, InputInv
<1>12. QED BY <1>1, <1>2, <1>3, <1>4, <1>5, <1>6, <1>7, <1>8, <1>9, <1>10, <1>11 DEF Orchestrator

LEMMA RouterRetries ==
  ASSUME Control, CallInv, InputInv, Retries, RetryInv, Router, UNCHANGED orchestrator
  PROVE  Retries' /\ RetryInv'
<1>1. CASE MacroStep
  BY <1>1, NoModes, EngineAssumption DEF MacroStep, End, Defect, Alone, Same, switch, progress, call, engine, orchestrator,
     router, RetryInv, Retries, PlanRound, MacroRound, Called, CallInv, InputInv
<1>2. CASE Precheck
  BY <1>2, EngineAssumption DEF Precheck, Defect, Alone, Same, switch, progress, call, engine, orchestrator,
     router, RetryInv, Retries, PlanRound, MacroRound, Called, CallInv, InputInv
<1>3. CASE AwaitChange
  <2>1. pc' \in {"over", "macro"} /\ UNCHANGED <<attempt, macro>>
    BY <1>3 DEF AwaitChange, Defect, StepDone, Finish, Alone
  <2>2. modes' = modes \/ modes' = <<>> \/ modes' = <<"background">>
    BY <1>3, Zenon DEF AwaitChange
  <2>3. macro.budget \in Nat
    BY EngineAssumption DEF Retries
  <2>4. modes' \in Seq(Delivery) /\ Len(modes') <= macro.budget + 1
    <3>1. CASE modes' = modes
      BY <3>1 DEF Retries
    <3>2. CASE modes' = <<>>
      BY <2>3, <3>2, NoModes
    <3>3. CASE modes' = <<"background">>
      <4>1. modes' \in Seq(Delivery) /\ Len(modes') = 1
        BY <3>3, OneMode, Zenon
      <4>2. QED BY <2>3, <4>1
    <3>4. QED BY <2>2, <3>1, <3>2, <3>3
  <2>5. QED BY <2>1, <2>4 DEF RetryInv, Retries, PlanRound, MacroRound, Called
<1>4. CASE Round
  <2>1. CASE ~(attempt <= macro.budget) \/ flag
    BY <1>4, <2>1, EngineAssumption DEF Round, WithinBudget, Defect, Alone, call, RetryInv, Retries, PlanRound, MacroRound, Called
  <2>2. CASE ~flag /\ attempt <= macro.budget
    <3>1. /\ pc = "attempt" /\ modes' = Append(modes, delivery) /\ pc' \in {"front", "keys"}
          /\ UNCHANGED <<attempt, delivery, macro>>
      BY <1>4, <2>2 DEF Round, WithinBudget, Alone
    <3>2. /\ Len(modes) = attempt /\ modes \in Seq(Delivery) /\ delivery \in Delivery
          /\ attempt \in Nat /\ (attempt = 0 => delivery = "background")
          /\ modes = <<>> \/ modes[1] = "background"
      BY <3>1, EngineAssumption DEF RetryInv, Retries, Control, Delivery
    <3>3. /\ modes' \in Seq(Delivery) /\ Len(modes') = attempt + 1
          /\ \A i \in 1..Len(modes) : modes'[i] = modes[i]
          /\ modes'[Len(modes) + 1] = delivery
      BY <3>1, <3>2, AppendProperties
    <3>4. modes'[1] = "background"
      <4>1. CASE attempt = 0
        BY <3>2, <3>3, <4>1
      <4>2. CASE attempt # 0
        <5>1. 1 \in 1..Len(modes)
          BY <3>2, <4>2
        <5>2. modes # <<>>
          BY <3>2, <4>2
        <5>3. QED BY <3>2, <3>3, <5>1, <5>2
      <4>3. QED BY <4>1, <4>2
    <3>5. QED BY <2>2, <3>1, <3>2, <3>3, <3>4 DEF RetryInv, Retries, PlanRound, MacroRound, Called
  <2>3. QED BY <2>1, <2>2
<1>5. CASE BringToFront
  BY <1>5, EngineAssumption DEF BringToFront, SendInput, Alone, Same, switch, progress, call, engine,
     orchestrator, router, RetryInv, Retries, PlanRound, MacroRound, Called, CallInv, InputInv
<1>6. CASE ClearField
  BY <1>6, EngineAssumption DEF ClearField, Call, Owe, Alone, Same, switch, progress, call, engine, orchestrator,
     router, RetryInv, Retries, PlanRound, MacroRound, Called, CallInv, InputInv
<1>7. CASE SendAction
  BY <1>7, EngineAssumption DEF SendAction, Call, Owe, Alone, Same, switch, progress, call, engine, orchestrator,
     router, RetryInv, Retries, PlanRound, MacroRound, Called, CallInv, InputInv
<1>8. CASE Routed
  BY <1>8, EngineAssumption DEF Routed, Defect, Retry, Retryable, Alone, Same, switch, progress, call, engine,
     orchestrator, router, RetryInv, Retries, PlanRound, MacroRound, Called, CallInv, InputInv
<1>9. CASE Dwell
  BY <1>9, EngineAssumption DEF Dwell, Defect, Alone, Same, switch, progress, call, engine, orchestrator, router,
     RetryInv, Retries, PlanRound, MacroRound, Called, CallInv, InputInv
<1>10. CASE Changed
  BY <1>10, EngineAssumption DEF Changed, StepDone, Finish, Alone, Same, switch, progress, call, engine,
     orchestrator, router, RetryInv, Retries, PlanRound, MacroRound, Called, CallInv, InputInv
<1>11. CASE NothingChanged
  <2>1. pc = "look" /\ UNCHANGED <<modes, macro>>
    BY <1>11 DEF NothingChanged, Alone
  <2>2. attempt <= macro.budget /\ Len(modes) = attempt + 1 /\ (modes = <<>> \/ modes[1] = "background")
    BY <2>1 DEF RetryInv, MacroRound
  <2>3. macro.budget \in Nat /\ macro.budget <= MaxRetries /\ attempt \in Nat
    BY EngineAssumption DEF Retries
  <2>4. \/ pc' = "over" /\ attempt' = attempt
        \/ pc' = "attempt" /\ attempt' = attempt + 1
    BY <1>11 DEF NothingChanged, Retry, Defect
  <2>5. Retries'
    BY <2>1, <2>2, <2>3, <2>4, EngineAssumption DEF Retries
  <2>6. ~PlanRound' /\ ~MacroRound' /\ pc' # "precheck"
    BY <2>4 DEF PlanRound, MacroRound, Called
  <2>7. CASE pc' = "over"
    BY <2>5, <2>6, <2>7 DEF RetryInv
  <2>8. CASE pc' = "attempt" /\ attempt' = attempt + 1
    <3>1. Len(modes') = attempt' /\ attempt' <= macro'.budget + 1 /\ attempt' # 0
      BY <2>1, <2>2, <2>3, <2>8
    <3>2. QED BY <2>1, <2>2, <2>5, <2>6, <2>8, <3>1 DEF RetryInv
  <2>9. QED BY <2>4, <2>7, <2>8
<1>12. QED BY <1>1, <1>2, <1>3, <1>4, <1>5, <1>6, <1>7, <1>8, <1>9, <1>10, <1>11 DEF Router

LEMMA EngineRetries ==
  ASSUME Control, CallInv, InputInv, Retries, RetryInv, Engine, UNCHANGED <<orchestrator, router>>
  PROVE  Retries' /\ RetryInv'
<1>1. CASE EngineHalts
  BY <1>1, EngineAssumption DEF EngineHalts, StopSeen, Return, Record, switch, progress, engine, orchestrator,
     router, RetryInv, Retries, PlanRound, MacroRound, Called, CallInv, InputInv
<1>2. CASE EngineRefuses
  BY <1>2, EngineAssumption DEF EngineRefuses, StopSeen, Return, Record, switch, progress, engine, orchestrator,
     router, RetryInv, Retries, PlanRound, MacroRound, Called, CallInv, InputInv
<1>3. CASE EngineDispatches
  BY <1>3, EngineAssumption DEF EngineDispatches, StopSeen, switch, progress, engine, orchestrator, router,
     RetryInv, Retries, PlanRound, MacroRound, Called, CallInv, InputInv
<1>4. CASE Cancelled
  BY <1>4, EngineAssumption DEF Cancelled, Return, Record, switch, progress, engine, orchestrator, router,
     RetryInv, Retries, PlanRound, MacroRound, Called, CallInv, InputInv
<1>5. CASE Dispatch
  BY <1>5, EngineAssumption DEF Dispatch, SendInput, switch, progress, engine, orchestrator, router, RetryInv,
     Retries, PlanRound, MacroRound, Called, CallInv, InputInv
<1>6. CASE Dispatched
  BY <1>6, EngineAssumption DEF Dispatched, Return, Record, switch, progress, engine, orchestrator, router,
     RetryInv, Retries, PlanRound, MacroRound, Called, CallInv, InputInv
<1>7. QED BY <1>1, <1>2, <1>3, <1>4, <1>5, <1>6 DEF Engine

-----------------------------------------------------------------------------
(* The sending of the actions *)

(* What a step does to what was sent: nothing that the executor could take    *)
(* for more than it is, one sending more, or a step that ends after it was    *)
(* sent.                                                                      *)
Quietly ==
  /\ UNCHANGED <<sent, step>>
  /\ Before' => Before
  /\ InStep' => Before \/ (InStep /\ (attempt' = attempt + 1 \/ (attempt' = attempt /\ (Tried => Tried'))))
  /\ Hit' => Hit
  /\ InFront' => InFront \/ Hit
  /\ InFront' /\ Hit' => InFront /\ Hit
Sends ==
  /\ pc = "select" /\ back # "keys" /\ ~Tried /\ left' = 0
  /\ sent' = [sent EXCEPT ![step] = @ + 1]
  /\ UNCHANGED <<pc, back, step, attempt, delivery>>
Finishes ==
  /\ InStep /\ UNCHANGED sent
  /\ \E ok \in BOOLEAN : /\ Finish(ok, "next") \/ Finish(ok, "macro")
                         /\ Kind # "wait" => Hit /\ ok
SentStep == Quietly \/ Sends \/ Finishes

LEMMA OrchestratorSends ==
  ASSUME Control, CallInv, InputInv, RetryInv, attempt \in Nat, Orchestrator, UNCHANGED router
  PROVE  SentStep
<1>1. CASE StartPlan
  BY <1>1 DEF StartPlan, HaltPlan, End, Inside, NoHealing, SameAttempt, SameStep, switch,
     progress, call, engine, orchestrator, router, Quietly, Before, Tried, Hit, InFront,
     InStep, MacroRound, Called, CallInv, InputInv, RetryInv, SentStep, Finishes, Sends
<1>2. CASE NextStep
  BY <1>2 DEF NextStep, HaltPlan, End, Inside, NoHealing, SameAttempt, SameStep, switch,
     progress, call, engine, orchestrator, router, Quietly, Before, Tried, Hit, InFront,
     InStep, MacroRound, Called, CallInv, InputInv, RetryInv, SentStep, Finishes, Sends
<1>3. CASE EnterStep
  BY <1>3 DEF EnterStep, HaltPlan, End, Inside, NoHealing, SameAttempt, SameStep, switch,
     progress, call, engine, orchestrator, router, Quietly, Before, Tried, Hit, InFront,
     InStep, MacroRound, Called, CallInv, InputInv, RetryInv, SentStep, Finishes, Sends
<1>4. CASE CheckWindow
  BY <1>4, Recoveries DEF CheckWindow,  Inside, NoHealing, SameAttempt, SameStep, switch,
     progress, call, engine, orchestrator, router, Quietly, Before, Tried, Hit, InFront,
     InStep, MacroRound, Called, CallInv, InputInv, RetryInv, SentStep, Finishes, Sends
<1>5. CASE ResolveTarget
  BY <1>5 DEF ResolveTarget, FailPlan, End, Inside, NoHealing, SameAttempt, SameStep, switch,
     progress, call, engine, orchestrator, router, Quietly, Before, Tried, Hit, InFront,
     InStep, MacroRound, Called, CallInv, InputInv, RetryInv, SentStep, Finishes, Sends
<1>6. CASE Wait
  BY <1>6 DEF Wait, FailPlan, End, Finish, Inside, NoHealing, SameAttempt, SameStep, switch,
     progress, call, engine, orchestrator, router, Quietly, Before, Tried, Hit, InFront,
     InStep, MacroRound, Called, CallInv, InputInv, RetryInv, SentStep, Finishes, Sends
<1>7. CASE Attempt
  BY <1>7 DEF Attempt, Call, Owe, Inside, NoHealing, SameAttempt, SameStep, switch, progress,
     call, engine, orchestrator, router, Quietly, Before, Tried, Hit, InFront, InStep,
     MacroRound, Called, CallInv, InputInv, RetryInv, SentStep, Finishes, Sends
<1>8. CASE Answered
  <2>1. CASE answer = "halted" /\ AfterHalt
    BY <1>8, <2>1 DEF Answered, AfterHalt, HaltPlan, End, Inside, SameAttempt, SentStep, Quietly, Before, Tried, Hit, InFront, InStep,
       MacroRound, Called
  <2>2. CASE answer \in {"refused", "failed"} /\ FailPlan
    BY <1>8, <2>2 DEF Answered, FailPlan, End, Inside, SameAttempt, SentStep, Quietly, Before, Tried, Hit, InFront, InStep,
       MacroRound, Called
  <2>3. CASE answer = "ok" /\ Pro /\ pc' = "verify" /\ SameStep
    BY <1>8, <2>3 DEF Answered, SameStep, Inside, SameAttempt, SentStep, Quietly, Before, Tried, Hit, InFront, InStep,
       MacroRound, Called
  <2>4. CASE answer = "ok" /\ ~Pro /\ Finish(TRUE, "next")
    BY <1>8, <2>4 DEF Answered, Inside, Finishes, InStep, Hit, SentStep
  <2>5. QED BY <1>8, <2>1, <2>2, <2>3, <2>4 DEF Answered
<1>9. CASE Verify
  <2>1. CASE Popup \/ NoOp \/ Degraded
    <3>1. /\ pc = "verify" /\ UNCHANGED <<step, sent, answer, back>>
          /\ attempt' \in Nat
          /\ \/ pc' = "over"
             \/ /\ pc' = "loop" \/ (pc' = "heal" /\ resume' = "loop")
                /\ attempt' = attempt + 1 /\ UNCHANGED results
      BY <1>9, <2>1, Looks
    <3>2. CASE pc' = "over"
      BY <3>1, <3>2 DEF SentStep, Quietly, Before, Tried, Hit, InFront, InStep,
       MacroRound, Called
    <3>3. CASE pc' # "over"
      <4>1. ~Before' /\ InStep /\ InStep' /\ ~Hit' /\ ~InFront' /\ ~Tried' /\ Tried
        BY <3>1, <3>3 DEF Before, InStep, Hit, InFront, MacroRound, Called, Tried
      <4>2. attempt' = attempt + 1 /\ UNCHANGED <<step, sent>>
        BY <3>1, <3>3
      <4>3. QED BY <4>1, <4>2 DEF SentStep, Quietly
    <3>4. QED BY <3>2, <3>3
  <2>2. CASE Verified
    BY <1>9, <2>2 DEF Verify, Verified, Inside, Finishes, Kind, InStep, Hit, SentStep
  <2>3. CASE Barrier
    BY <1>9, <2>3 DEF Verify, Barrier, FailPlan, End, Inside, SentStep, Quietly, Before, Tried, Hit, InFront, InStep,
       MacroRound, Called
  <2>4. QED BY <1>9, <2>1, <2>2, <2>3 DEF Verify
<1>10. CASE HealInput
  <2>1. /\ pc = "heal" /\ pc' = "heal"
        /\ UNCHANGED <<step, results, attempt, delivery, resume, sent, back, answer, left>>
    BY <1>10 DEF HealInput, progress, call
  <2>2. QED BY <2>1 DEF SentStep, Quietly, Before, Tried, Hit, InFront, InStep,
       MacroRound, Called
<1>11. CASE Healed
  BY <1>11 DEF Healed, Record, RecoveryRecord, Inside, NoHealing, SameAttempt, SameStep, switch,
     progress, call, engine, orchestrator, router, Quietly, Before, Tried, Hit, InFront,
     InStep, MacroRound, Called, CallInv, InputInv, RetryInv, SentStep, Finishes, Sends
<1>12. QED BY <1>1, <1>2, <1>3, <1>4, <1>5, <1>6, <1>7, <1>8, <1>9, <1>10, <1>11 DEF Orchestrator

LEMMA RouterSends ==
  ASSUME Control, CallInv, InputInv, RetryInv, attempt \in Nat, Router, UNCHANGED orchestrator
  PROVE  SentStep
<1>1. CASE MacroStep
  BY <1>1 DEF MacroStep, End, Defect, Alone, Same, switch, progress, call, engine, orchestrator,
     router, Quietly, Before, Tried, Hit, InFront, InStep, MacroRound, Called, CallInv,
     InputInv, RetryInv, SentStep, Finishes, Sends
<1>2. CASE Precheck
  BY <1>2 DEF Precheck, Defect, Alone, Same, switch, progress, call, engine, orchestrator,
     router, Quietly, Before, Tried, Hit, InFront, InStep, MacroRound, Called, CallInv,
     InputInv, RetryInv, SentStep, Finishes, Sends
<1>3. CASE AwaitChange
  BY <1>3 DEF AwaitChange, Defect, StepDone, Finish, Alone, Same, switch, progress, call,
     engine, orchestrator, router, Quietly, Before, Tried, Hit, InFront, InStep,
     MacroRound, Called, CallInv, InputInv, RetryInv, SentStep, Finishes, Sends
<1>4. CASE Round
  BY <1>4 DEF Round, WithinBudget, Defect, Alone, Same, switch, progress, call, engine,
     orchestrator, router, Quietly, Before, Tried, Hit, InFront, InStep, MacroRound,
     Called, CallInv, InputInv, RetryInv, SentStep, Finishes, Sends
<1>5. CASE BringToFront
  BY <1>5 DEF BringToFront, SendInput, Alone, Same, switch, progress, call, engine,
     orchestrator, router, Quietly, Before, Tried, Hit, InFront, InStep, MacroRound,
     Called, CallInv, InputInv, RetryInv, SentStep, Finishes, Sends
<1>6. CASE ClearField
  BY <1>6 DEF ClearField, Call, Owe, Alone, Same, switch, progress, call, engine, orchestrator,
     router, Quietly, Before, Tried, Hit, InFront, InStep, MacroRound, Called, CallInv,
     InputInv, RetryInv, SentStep, Finishes, Sends
<1>7. CASE SendAction
  BY <1>7 DEF SendAction, Call, Owe, Alone, Same, switch, progress, call, engine, orchestrator,
     router, Quietly, Before, Tried, Hit, InFront, InStep, MacroRound, Called, CallInv,
     InputInv, RetryInv, SentStep, Finishes, Sends
<1>8. CASE Routed
  BY <1>8 DEF Routed, Defect, Retry, Retryable, Alone, Same, switch, progress, call, engine,
     orchestrator, router, Quietly, Before, Tried, Hit, InFront, InStep, MacroRound,
     Called, CallInv, InputInv, RetryInv, SentStep, Finishes, Sends
<1>9. CASE Dwell
  BY <1>9 DEF Dwell, Defect, Alone, Same, switch, progress, call, engine, orchestrator, router,
     Quietly, Before, Tried, Hit, InFront, InStep, MacroRound, Called, CallInv, InputInv,
     RetryInv, SentStep, Finishes, Sends
<1>10. CASE Changed
  BY <1>10 DEF Changed, StepDone, Finish, Alone, Same, switch, progress, call, engine,
     orchestrator, router, Quietly, Before, Tried, Hit, InFront, InStep, MacroRound,
     Called, CallInv, InputInv, RetryInv, SentStep, Finishes, Sends
<1>11. CASE NothingChanged
  <2>1. /\ pc = "look" /\ UNCHANGED <<step, results, sent>>
        /\ \/ pc' = "over" /\ attempt' = attempt
           \/ pc' = "attempt" /\ attempt' = attempt + 1
    BY <1>11 DEF NothingChanged, Retry, Defect, Alone, Same
  <2>2. QED BY <2>1 DEF SentStep, Quietly, Before, Tried, Hit, InFront, InStep,
       MacroRound, Called
<1>12. QED BY <1>1, <1>2, <1>3, <1>4, <1>5, <1>6, <1>7, <1>8, <1>9, <1>10, <1>11 DEF Router

LEMMA EngineSends ==
  ASSUME Control, CallInv, InputInv, RetryInv, attempt \in Nat, Engine, UNCHANGED <<orchestrator, router>>
  PROVE  SentStep
<1>1. CASE EngineHalts
  BY <1>1 DEF EngineHalts, StopSeen, Return, Record, switch, progress, engine, orchestrator,
     router, Quietly, Before, Tried, Hit, InFront, InStep, MacroRound, Called, CallInv,
     InputInv, RetryInv, SentStep, Finishes, Sends
<1>2. CASE EngineRefuses
  BY <1>2 DEF EngineRefuses, StopSeen, Return, Record, switch, progress, engine, orchestrator,
     router, Quietly, Before, Tried, Hit, InFront, InStep, MacroRound, Called, CallInv,
     InputInv, RetryInv, SentStep, Finishes, Sends
<1>3. CASE EngineDispatches
  <2>1. /\ pc = "engine" /\ pc' = "select" /\ left' > 0
        /\ UNCHANGED <<step, results, attempt, delivery, sent, back, answer>>
    BY <1>3, EngineAssumption DEF EngineDispatches, progress
  <2>2. QED BY <2>1 DEF SentStep, Quietly, Before, Tried, Hit, InFront, InStep,
       MacroRound, Called
<1>4. CASE Cancelled
  BY <1>4 DEF Cancelled, Return, Record, switch, progress, engine, orchestrator, router,
     Quietly, Before, Tried, Hit, InFront, InStep, MacroRound, Called, CallInv, InputInv,
     RetryInv, SentStep, Finishes, Sends
<1>5. CASE Dispatch
  BY <1>5 DEF Dispatch, SendInput, switch, progress, engine, orchestrator, router, Quietly,
     Before, Tried, Hit, InFront, InStep, MacroRound, Called, CallInv, InputInv,
     RetryInv, SentStep, Finishes, Sends
<1>6. CASE Dispatched
  BY <1>6 DEF Dispatched, Return, Record, switch, progress, engine, orchestrator, router,
     Quietly, Before, Tried, Hit, InFront, InStep, MacroRound, Called, CallInv, InputInv,
     RetryInv, SentStep, Finishes, Sends
<1>7. QED BY <1>1, <1>2, <1>3, <1>4, <1>5, <1>6 DEF Engine

(* The results of the steps before stay as they are. *)
LEMMA ResultsStay ==
  ASSUME Steps, StepInv, ProgressStep
  PROVE  pc # "over" /\ \A i \in 1..Len(results) : results'[i] = results[i]
<1>1. pc # "over"
  BY DEF ProgressStep, InStep
<1>2. UNCHANGED results \/ \E ok \in BOOLEAN : results' = Append(results, ok)
  BY DEF ProgressStep, Finish, FailPlan
<1>3. QED BY <1>1, <1>2, AppendProperties DEF Steps

LEMMA OneMore ==
  ASSUME NEW n, n = 0, NEW a \in Nat, NEW t PROVE n <= a + (IF t THEN 1 ELSE 0)
OBVIOUS

LEMMA SentKept ==
  ASSUME Steps, StepInv, Retries, RetryInv, CallInv, SentInv, SentStep, ProgressStep,
         Steps', StepInv', Retries', UNCHANGED plan, sent \in [1..Len(plan) -> Nat], Control, Control'
  PROVE  sent' \in [1..Len(plan) -> Nat] /\ SentInv'
<1>0. /\ Len(plan) \in Nat /\ step \in 1..Len(plan) + 1 /\ attempt \in Nat /\ attempt' \in Nat
      /\ MaxRetries \in Nat
      /\ \A i \in 1..Len(plan) : sent[i] \in Nat
  <2>1. Len(plan) \in Nat /\ step \in 1..Len(plan) + 1
    BY LenProperties DEF Steps
  <2>2. attempt \in Nat /\ attempt' \in Nat /\ MaxRetries \in Nat
    BY EngineAssumption DEF Retries
  <2>3. \A i \in 1..Len(plan) : sent[i] \in Nat
    OBVIOUS
  <2>4. QED BY <2>1, <2>2, <2>3
<1>p. /\ pc # "over" /\ Len(results) = step - 1
      /\ \A i \in 1..Len(plan) : i < step => results'[i] = results[i]
  <2>1. pc # "over" /\ Len(results) = step - 1
    BY ResultsStay DEF StepInv
  <2>2. \A i \in 1..Len(plan) : i < step => i \in 1..Len(results)
    BY <1>0, <2>1
  <2>3. QED BY <2>1, <2>2, ResultsStay
<1>1. CASE Quietly
  <2>1. sent' = sent /\ step' = step /\ (Before' => Before) /\ (Hit' => Hit)
    BY <1>1 DEF Quietly
  <2>3. ASSUME NEW i \in 1..Len(plan)
        PROVE  /\ sent'[i] <= MaxRetries + 1
               /\ i > step' \/ (i = step' /\ Before') => sent'[i] = 0
    BY <2>1, <2>3 DEF SentInv
  <2>4. ASSUME NEW i \in 1..Len(plan), i = step', InStep'
        PROVE  sent'[i] <= attempt' + (IF Tried' THEN 1 ELSE 0)
    <3>1. sent'[i] = sent[i] /\ sent[i] \in Nat /\ i = step
      BY <1>0, <2>1, <2>4
    <3>2. CASE Before
      <4>1. sent[i] = 0
        BY <3>1, <3>2 DEF SentInv
      <4>2. sent'[i] = 0 /\ attempt' \in Nat
        BY <1>0, <3>1, <4>1
      <4>3. QED BY <4>2, OneMore
    <3>3. CASE InStep /\ attempt' = attempt + 1
      <4>1. sent[i] <= attempt + 1
        BY <1>0, <3>1, <3>3 DEF SentInv
      <4>2. QED BY <1>0, <3>1, <3>3, <4>1
    <3>4. CASE InStep /\ attempt' = attempt /\ (Tried => Tried')
      <4>1. sent[i] <= attempt + (IF Tried THEN 1 ELSE 0)
        BY <3>1, <3>4 DEF SentInv
      <4>2. QED BY <1>0, <3>1, <3>4, <4>1
    <3>5. QED BY <1>1, <2>4, <3>2, <3>3, <3>4 DEF Quietly
  <2>5. ASSUME NEW i \in 1..Len(plan), i < step', plan[i] # "wait"
        PROVE  sent'[i] > 0 /\ results'[i]
    <3>1. sent[i] > 0 /\ results[i]
      BY <2>1, <2>5 DEF SentInv
    <3>2. QED BY <1>p, <2>1, <2>5, <3>1
  <2>6. /\ Hit' => sent'[step'] > 0
        /\ InFront' => sent'[step'] > 0
        /\ InFront' /\ Hit' => sent'[step'] > 1
    BY <1>1, <2>1 DEF Quietly, SentInv
  <2>7. SentInv'
    BY <2>3, <2>4, <2>5, <2>6 DEF SentInv
  <2>8. QED BY <2>1, <2>7
<1>2. CASE Sends
  <2>1. /\ pc = "select" /\ back # "keys" /\ ~Tried /\ InStep
        /\ sent' = [sent EXCEPT ![step] = @ + 1] /\ step' = step
        /\ UNCHANGED <<pc, back, attempt, delivery>>
    BY <1>2 DEF Sends, InStep
  <2>2. step \in 1..Len(plan) /\ sent[step] \in Nat
    BY <1>0, <2>1 DEF StepInv
  <2>3. /\ sent' \in [1..Len(plan) -> Nat] /\ sent'[step] = sent[step] + 1
        /\ \A i \in 1..Len(plan) : i # step => sent'[i] = sent[i]
    BY <2>1, <2>2
  <2>4. sent[step] <= attempt /\ attempt <= MaxRetries
    <3>1. sent[step] <= attempt
      BY <1>0, <2>1, <2>2 DEF SentInv
    <3>2. PlanRound \/ MacroRound
      BY <2>1 DEF PlanRound, MacroRound, CallInv, Called
    <3>3. macro.budget \in 0..MaxRetries
      BY DEF Retries
    <3>4. QED BY <1>0, <3>1, <3>2, <3>3 DEF RetryInv
  <2>5. ~Before' /\ step' = step
    BY <2>1 DEF Before
  <2>6. ASSUME NEW i \in 1..Len(plan)
        PROVE  /\ sent'[i] <= MaxRetries + 1
               /\ i > step' \/ (i = step' /\ Before') => sent'[i] = 0
    <3>1. CASE i = step
      BY <1>0, <2>2, <2>3, <2>4, <2>5, <3>1
    <3>2. CASE i # step
      BY <2>3, <2>5, <3>2 DEF SentInv
    <3>3. QED BY <3>1, <3>2
  <2>7. ASSUME NEW i \in 1..Len(plan), i = step', InStep'
        PROVE  sent'[i] <= attempt' + (IF Tried' THEN 1 ELSE 0)
    <3>1. Tried'
      BY <1>2 DEF Sends, Tried
    <3>2. QED BY <1>0, <2>1, <2>2, <2>3, <2>4, <2>7, <3>1
  <2>8. ASSUME NEW i \in 1..Len(plan), i < step', plan[i] # "wait"
        PROVE  sent'[i] > 0 /\ results'[i]
    <3>1. sent[i] > 0 /\ results[i]
      BY <2>1, <2>8 DEF SentInv
    <3>2. i # step
      BY <1>0, <2>5, <2>8
    <3>3. QED BY <1>p, <2>1, <2>3, <2>8, <3>1, <3>2
  <2>9. /\ Hit' => sent'[step'] > 0
        /\ InFront' => sent'[step'] > 0
        /\ InFront' /\ Hit' => sent'[step'] > 1
    <3>1. InFront' => InFront
      BY <2>1 DEF InFront, MacroRound, Called
    <3>2. InFront => sent[step] > 0
      BY DEF SentInv
    <3>3. QED BY <2>2, <2>3, <2>5, <3>1, <3>2
  <2>10. SentInv'
    BY <2>6, <2>7, <2>8, <2>9 DEF SentInv
  <2>11. QED BY <2>3, <2>10
<1>3. CASE Finishes
  <2>1. PICK ok \in BOOLEAN : /\ Finish(ok, "next") \/ Finish(ok, "macro")
                              /\ Kind # "wait" => Hit /\ ok
    BY <1>3 DEF Finishes
  <2>2. /\ InStep /\ sent' = sent /\ step' = step + 1 /\ results' = Append(results, ok)
        /\ pc' \in {"next", "macro"}
    BY <1>3, <2>1 DEF Finishes, Finish
  <2>3. ~InStep' /\ ~Hit' /\ ~InFront' /\ step \in 1..Len(plan)
    BY <1>0, <2>2 DEF InStep, Hit, InFront, MacroRound, Called, StepInv
  <2>4. results'[step] = ok
    BY <1>0, <1>p, <2>2, AppendProperties DEF Steps
  <2>5. ASSUME NEW i \in 1..Len(plan)
        PROVE  /\ sent'[i] <= MaxRetries + 1
               /\ i > step' \/ (i = step' /\ Before') => sent'[i] = 0
    <3>1. i > step' \/ i = step' => i > step
      BY <1>0, <2>2
    <3>2. QED BY <2>2, <3>1 DEF SentInv
  <2>6. ASSUME NEW i \in 1..Len(plan), i < step', plan[i] # "wait"
        PROVE  sent'[i] > 0 /\ results'[i]
    <3>1. CASE i = step
      BY <2>1, <2>2, <2>4, <2>6, <3>1 DEF SentInv, Kind
    <3>2. CASE i # step
      <4>1. i < step
        BY <1>0, <2>2, <2>6, <3>2
      <4>2. QED BY <1>p, <2>2, <2>6, <4>1 DEF SentInv
    <3>3. QED BY <3>1, <3>2
  <2>7. SentInv'
    BY <2>3, <2>5, <2>6 DEF SentInv
  <2>8. QED BY <2>2, <2>7
<1>9. QED BY <1>1, <1>2, <1>3 DEF SentStep

-----------------------------------------------------------------------------
(* The defect report *)

NoChange == report' = [category |-> "zero diff", retries |-> attempt]
ReportStep ==
  \/ UNCHANGED report
  \/ \E c \in Categories \ {"zero diff"} : report' = [category |-> c, retries |-> attempt]
  \/ /\ NoChange /\ UNCHANGED <<step, sent>>
     /\ Kind = "wait" \/ (pc = "look" /\ ~Escalates /\ UNCHANGED <<modes, delivery>>)

LEMMA RouterReports ==
  ASSUME Control, Router, UNCHANGED orchestrator
  PROVE  ReportStep
<1>1. CASE MacroStep
  BY <1>1 DEF MacroStep, End, Defect, Alone, Same, switch, progress, call, engine, orchestrator,
     router, ReportStep, NoChange, Categories
<1>2. CASE Precheck
  BY <1>2 DEF Precheck, Defect, Alone, Same, switch, progress, call, engine, orchestrator,
     router, ReportStep, NoChange, Categories
<1>3. CASE AwaitChange
  BY <1>3 DEF AwaitChange, Defect, StepDone, Alone, Same, switch, progress, call,
     engine, orchestrator, router, ReportStep, NoChange, Categories
<1>4. CASE Round
  BY <1>4 DEF Round, WithinBudget, Defect, Alone, Same, switch, progress, call, engine,
     orchestrator, router, ReportStep, NoChange, Categories
<1>5. CASE BringToFront
  BY <1>5 DEF BringToFront, Alone, Same, switch, progress, call, engine,
     orchestrator, router, ReportStep, NoChange, Categories
<1>6. CASE ClearField
  BY <1>6 DEF ClearField, Call, Owe, Alone, Same, switch, progress, call, engine, orchestrator,
     router, ReportStep, NoChange, Categories
<1>7. CASE SendAction
  BY <1>7 DEF SendAction, Call, Owe, Alone, Same, switch, progress, call, engine, orchestrator,
     router, ReportStep, NoChange, Categories
<1>8. CASE Routed
  BY <1>8 DEF Routed, Defect, Retry, Retryable, Alone, Same, switch, progress, call, engine,
     orchestrator, router, ReportStep, NoChange, Categories
<1>9. CASE Dwell
  BY <1>9 DEF Dwell, Defect, Alone, Same, switch, progress, call, engine, orchestrator, router,
     ReportStep, NoChange, Categories
<1>10. CASE Changed
  BY <1>10 DEF Changed, StepDone, Alone, Same, switch, progress, call, engine,
     orchestrator, router, ReportStep, NoChange, Categories
<1>11. CASE NothingChanged
  BY <1>11 DEF NothingChanged, Escalates, Retry, Defect, Alone, Same, switch, progress, call,
     engine, orchestrator, router, ReportStep, NoChange, Categories
<1>12. QED BY <1>1, <1>2, <1>3, <1>4, <1>5, <1>6, <1>7, <1>8, <1>9, <1>10, <1>11 DEF Router

LEMMA ReportKept ==
  ASSUME Control, Steps, StepInv, Retries, RetryInv, CallInv, SentInv, ReportStep, ProgressStep,
         UNCHANGED <<plan, macro>>, sent \in [1..Len(plan) -> Nat],
         report \in [category : Categories, retries : 0..MaxRetries + 1]
  PROVE  report' \in [category : Categories, retries : 0..MaxRetries + 1] /\ ZeroDiffMeansBoth'
<1>1. attempt \in 0..MaxRetries + 1 /\ "zero diff" \in Categories
  BY DEF Retries, Categories
<1>n. attempt \in Nat
  BY EngineAssumption DEF Retries
<1>2. CASE UNCHANGED report
  <2>1. report = NoReport
    BY ResultsStay DEF StepInv
  <2>2. report'.category = "none"
    BY <1>2, <2>1 DEF NoReport
  <2>3. QED BY <1>2, <2>2 DEF ZeroDiffMeansBoth
<1>3. CASE \E c \in Categories \ {"zero diff"} : report' = [category |-> c, retries |-> attempt]
  <2>1. PICK c \in Categories \ {"zero diff"} : report' = [category |-> c, retries |-> attempt]
    BY <1>3
  <2>2. report' \in [category : Categories, retries : 0..MaxRetries + 1] /\ report'.category # "zero diff"
    BY <1>1, <2>1
  <2>3. QED BY <2>2 DEF ZeroDiffMeansBoth
<1>4. CASE NoChange /\ UNCHANGED <<step, sent>> /\ Kind = "wait"
  BY <1>1, <1>4 DEF NoChange, ZeroDiffMeansBoth, Kind
<1>5. CASE /\ NoChange /\ UNCHANGED <<step, sent, modes, delivery>>
           /\ pc = "look" /\ ~Escalates
  <2>1. Hit /\ MacroRound /\ InStep
    BY <1>5 DEF Hit, MacroRound, InStep
  <2>2. Len(modes) = attempt + 1 /\ (modes = <<>> \/ modes[1] = "background")
    BY <2>1 DEF RetryInv
  <2>3. modes # <<>>
    <3>1. Len(modes) = attempt + 1 /\ attempt \in Nat
      BY <1>n, <2>2, Zenon
    <3>3. Len(modes) # 0
      BY <3>1
    <3>2. QED BY <3>3, NoModes
  <2>4. sent[step] > 0 /\ (macro.escalate => delivery = "foreground")
    BY <1>5, <2>1 DEF SentInv, Escalates, Control
  <2>5. delivery = "foreground" => sent[step] > 1
    BY <2>1 DEF SentInv, InFront
  <2>6. modes'[1] = "background" /\ sent'[step'] > 0
    BY <1>5, <2>2, <2>3, <2>4
  <2>7. macro'.escalate => delivery' = "foreground" /\ sent'[step'] > 1
    BY <1>5, <2>4, <2>5
  <2>8. ZeroDiffMeansBoth'
    BY <2>6, <2>7 DEF ZeroDiffMeansBoth
  <2>9. QED BY <1>1, <1>5, <2>8 DEF NoChange
<1>6. QED BY <1>2, <1>3, <1>4, <1>5 DEF ReportStep

-----------------------------------------------------------------------------
(* Inputs after the stop *)

LEMMA OrchestratorLate ==
  ASSUME late \in Nat, left \in Nat, heal \in Seq(HealKeys), CallInv, InputInv, InputInv', LateInv, Orchestrator, UNCHANGED router
  PROVE  late' \in Nat /\ LateInv'
<1>1. CASE StartPlan
  BY <1>1 DEF StartPlan, HaltPlan, End, Inside, NoHealing, SameAttempt, SameStep, switch,
     progress, call, engine, orchestrator, router, LateInv, CallInv, InputInv, Called, Kind,
     Typed
<1>2. CASE NextStep
  BY <1>2 DEF NextStep, HaltPlan, End, Inside, NoHealing, SameAttempt, SameStep, switch,
     progress, call, engine, orchestrator, router, LateInv, CallInv, InputInv, Called, Kind,
     Typed
<1>3. CASE EnterStep
  BY <1>3 DEF EnterStep, HaltPlan, End, Inside, NoHealing, SameAttempt, SameStep, switch,
     progress, call, engine, orchestrator, router, LateInv, CallInv, InputInv, Called, Kind,
     Typed
<1>4. CASE CheckWindow
  <2>1. late \in 0..1 /\ flag' = flag /\ late' = late /\ late' \in 0..1
    BY <1>4 DEF CheckWindow, Inside, LateInv, switch
  <2>2. \/ pc' = "resolve"
        \/ pc' = "heal" /\ heal' \in Seq(HealKeys) /\ Len(heal') <= 2
    BY <1>4, Recoveries DEF CheckWindow
  <2>3. CASE pc' = "heal"
    <3>1. Len(heal') <= 2 /\ Len(heal') \in Nat
      BY <2>2, <2>3, LenProperties
    <3>2. late' + Len(heal') <= 3
      BY <2>1, <3>1
    <3>3. QED BY <2>1, <2>3, <3>2 DEF LateInv
  <2>4. CASE pc' = "resolve"
    BY <2>1, <2>4 DEF LateInv
  <2>5. QED BY <2>2, <2>3, <2>4
<1>5. CASE ResolveTarget
  BY <1>5 DEF ResolveTarget, FailPlan, End, Inside, NoHealing, SameAttempt, SameStep, switch,
     progress, call, engine, orchestrator, router, LateInv, CallInv, InputInv, Called, Kind,
     Typed
<1>6. CASE Wait
  BY <1>6 DEF Wait, FailPlan, End, Finish, Inside, NoHealing, SameAttempt, SameStep, switch,
     progress, call, engine, orchestrator, router, LateInv, CallInv, InputInv, Called, Kind,
     Typed
<1>7. CASE Attempt
  BY <1>7 DEF Attempt, Call, Owe, Inside, NoHealing, SameAttempt, SameStep, switch, progress,
     call, engine, orchestrator, router, LateInv, CallInv, InputInv, Called, Kind, Typed
<1>8. CASE Answered
  BY <1>8 DEF Answered, AfterHalt, HaltPlan, FailPlan, End, Finish, Inside, NoHealing,
     SameAttempt, SameStep, switch, progress, call, engine, orchestrator, router, LateInv,
     CallInv, InputInv, Called, Kind, Typed
<1>9. CASE Verify
  <2>1. late \in 0..1 /\ flag' = flag /\ late' = late /\ late' \in 0..1
    BY <1>9 DEF Verify, Inside, LateInv, switch
  <2>2. pc' \in {"over", "next", "heal", "loop"}
    BY <1>9, Recoveries DEF Verify, Barrier, Popup, NoOp, Degraded, Verified, FailPlan, End, Finish
  <2>3. CASE pc' = "heal"
    <3>1. Len(heal') <= 2 /\ Len(heal') \in Nat
      <4>1. pc = "verify"
        BY <1>9 DEF Verify
      <4>2. heal' \in Seq(HealKeys)
        BY <1>9, <2>3, <4>1, Recoveries DEF Verify, Barrier, Popup, NoOp, Degraded, Verified, FailPlan, End, Finish
      <4>3. QED BY <2>3, <4>2, LenProperties DEF InputInv
    <3>2. late' + Len(heal') <= 3
      BY <2>1, <3>1
    <3>3. QED BY <2>1, <2>3, <3>2 DEF LateInv
  <2>4. CASE pc' # "heal"
    BY <2>1, <2>2, <2>4 DEF LateInv
  <2>5. QED BY <2>3, <2>4
<1>10. CASE HealInput
  <2>1. pc = "heal" /\ pc' = "heal" /\ UNCHANGED <<flag, token>> /\ SendInput
    BY <1>10 DEF HealInput
  <2>2. Len(heal') = Len(heal) - 1 /\ Len(heal) \in Nat /\ Len(heal') \in Nat
    <3>1. heal' = Tail(heal) /\ heal # <<>>
      BY <1>10 DEF HealInput
    <3>2. Tail(heal) \in Seq(HealKeys)
      BY <3>1, Shorter, Zenon
    <3>3. Len(Tail(heal)) = Len(heal) - 1 /\ Len(heal) \in Nat
      BY <3>1, Shorter, Zenon
    <3>4. Len(Tail(heal)) \in Nat
      BY <3>2, LenProperties
    <3>5. QED BY <3>1, <3>3, <3>4, Zenon
  <2>3. late' \in Nat /\ (late' = late \/ (late' = late + 1 /\ flag))
    BY <2>1 DEF SendInput
  <2>4. late + Len(heal) <= 3 /\ (flag \/ late = 0)
    BY <2>1 DEF LateInv
  <2>5. late' + Len(heal') <= 3 /\ (flag' \/ late' = 0) /\ late' <= 3
    BY <2>1, <2>2, <2>3, <2>4
  <2>6. QED BY <2>1, <2>3, <2>5 DEF LateInv
<1>11. CASE Healed
  BY <1>11 DEF Healed, Record, RecoveryRecord, Inside, NoHealing, SameAttempt, SameStep, switch,
     progress, call, engine, orchestrator, router, LateInv, CallInv, InputInv, Called, Kind,
     Typed
<1>12. QED BY <1>1, <1>2, <1>3, <1>4, <1>5, <1>6, <1>7, <1>8, <1>9, <1>10, <1>11 DEF Orchestrator

LEMMA RouterLate ==
  ASSUME late \in Nat, left \in Nat, heal \in Seq(HealKeys), CallInv, InputInv, InputInv', LateInv, Router, UNCHANGED orchestrator
  PROVE  late' \in Nat /\ LateInv'
<1>1. CASE MacroStep
  BY <1>1 DEF MacroStep, End, Defect, Alone, Same, switch, progress, call, engine, orchestrator,
     router, LateInv, CallInv, InputInv, Called, Kind, Typed
<1>2. CASE Precheck
  BY <1>2 DEF Precheck, Defect, Alone, Same, switch, progress, call, engine, orchestrator,
     router, LateInv, CallInv, InputInv, Called, Kind, Typed
<1>3. CASE AwaitChange
  <2>1. pc' \in {"over", "macro"} /\ late' = late /\ flag' = flag
    BY <1>3 DEF AwaitChange, Defect, StepDone, Finish, Alone, switch
  <2>2. QED BY <2>1 DEF LateInv
<1>4. CASE Round
  BY <1>4 DEF Round, WithinBudget, Defect, Alone, Same, switch, progress, call, engine,
     orchestrator, router, LateInv, CallInv, InputInv, Called, Kind, Typed
<1>5. CASE BringToFront
  BY <1>5 DEF BringToFront, SendInput, Alone, Same, switch, progress, call, engine,
     orchestrator, router, LateInv, CallInv, InputInv, Called, Kind, Typed
<1>6. CASE ClearField
  BY <1>6 DEF ClearField, Call, Owe, Alone, Same, switch, progress, call, engine, orchestrator,
     router, LateInv, CallInv, InputInv, Called, Kind, Typed
<1>7. CASE SendAction
  BY <1>7 DEF SendAction, Call, Owe, Alone, Same, switch, progress, call, engine, orchestrator,
     router, LateInv, CallInv, InputInv, Called, Kind, Typed
<1>8. CASE Routed
  BY <1>8 DEF Routed, Defect, Retry, Retryable, Alone, Same, switch, progress, call, engine,
     orchestrator, router, LateInv, CallInv, InputInv, Called, Kind, Typed
<1>9. CASE Dwell
  BY <1>9 DEF Dwell, Defect, Alone, Same, switch, progress, call, engine, orchestrator, router,
     LateInv, CallInv, InputInv, Called, Kind, Typed
<1>10. CASE Changed
  BY <1>10 DEF Changed, StepDone, Finish, Alone, Same, switch, progress, call, engine,
     orchestrator, router, LateInv, CallInv, InputInv, Called, Kind, Typed
<1>11. CASE NothingChanged
  BY <1>11 DEF NothingChanged, Escalates, Retry, Defect, Alone, Same, switch, progress, call,
     engine, orchestrator, router, LateInv, CallInv, InputInv, Called, Kind, Typed
<1>12. QED BY <1>1, <1>2, <1>3, <1>4, <1>5, <1>6, <1>7, <1>8, <1>9, <1>10, <1>11 DEF Router

LEMMA EngineLate ==
  ASSUME late \in Nat, left \in Nat, heal \in Seq(HealKeys), CallInv, InputInv, InputInv', LateInv, Engine, UNCHANGED <<orchestrator, router>>
  PROVE  late' \in Nat /\ LateInv'
<1>1. CASE EngineHalts
  BY <1>1 DEF EngineHalts, StopSeen, Return, Record, switch, progress, engine, orchestrator,
     router, LateInv, CallInv, InputInv, Called, Kind, Typed
<1>2. CASE EngineRefuses
  BY <1>2 DEF EngineRefuses, StopSeen, Return, Record, switch, progress, engine, orchestrator,
     router, LateInv, CallInv, InputInv, Called, Kind, Typed
<1>3. CASE EngineDispatches
  BY <1>3 DEF EngineDispatches, StopSeen, switch, progress, engine, orchestrator, router,
     LateInv, CallInv, InputInv, Called, Kind, Typed
<1>4. CASE Cancelled
  BY <1>4 DEF Cancelled, Return, Record, switch, progress, engine, orchestrator, router,
     LateInv, CallInv, InputInv, Called, Kind, Typed
<1>5. CASE Dispatch
  BY <1>5 DEF Dispatch, SendInput, switch, progress, engine, orchestrator, router, LateInv,
     CallInv, InputInv, Called, Kind, Typed
<1>6. CASE Dispatched
  BY <1>6 DEF Dispatched, Return, Record, switch, progress, engine, orchestrator, router,
     LateInv, CallInv, InputInv, Called, Kind, Typed
<1>7. QED BY <1>1, <1>2, <1>3, <1>4, <1>5, <1>6 DEF Engine

-----------------------------------------------------------------------------
(* The emergency stop *)

(* A thread that enters a call of its own kind, or goes on in its call, brings *)
(* no other kind in.                                                          *)
LEMMA KindKept ==
  ASSUME NEW t \in Threads, NEW place, OneKind, at \in [Threads -> Places],
         at' = [at EXCEPT ![t] = place],
         \A u \in Threads : ~Opposed(place, at[u])
  PROVE  OneKind'
<1>1. \A p, q : Opposed(p, q) <=> Opposed(q, p)
  BY DEF Opposed
<1>2. ~Opposed(place, place)
  BY DEF Opposed, Triggering, Resetting
<1>3. \A u \in Threads : at'[u] = IF u = t THEN place ELSE at[u]
  OBVIOUS
<1>4. SUFFICES ASSUME NEW u \in Threads, NEW v \in Threads PROVE ~Opposed(at'[u], at'[v])
  BY DEF OneKind, Opposed
<1>5. QED BY <1>1, <1>2, <1>3 DEF OneKind

LEMMA SwitchKept ==
  ASSUME SwitchTypeOK, SwitchInv, SwitchNext
  PROVE  SwitchTypeOK' /\ SwitchInv'
<1>0. Poller \in Threads /\ Caller \subseteq Threads
  BY DEF Threads
<1>1. ASSUME NEW t \in Threads, NEW place \in {"trigger flag", "reset flag"}, Enter(t, place), calls' \in 0..MaxCalls
      PROVE  SwitchTypeOK' /\ SwitchInv'
  <2>1. /\ at' = [at EXCEPT ![t] = place] /\ at[t] = "out"
        /\ clash' = (~Quiet /\ (clash \/ \E u \in Threads : Opposed(place, at[u])))
        /\ UNCHANGED <<flag, token, status, escape>>
    BY <1>1 DEF Enter, Goto
  <2>2. place \in Places /\ place # "out"
    BY DEF Places, Triggering, Resetting
  <2>3. SwitchTypeOK'
    BY <1>1, <2>1, <2>2 DEF SwitchTypeOK
  <2>4. at'[t] = place /\ \A u \in Threads \ {t} : at'[u] = at[u]
    BY <2>1 DEF SwitchTypeOK
  <2>5. ~Quiet'
    BY <2>2, <2>4 DEF Quiet
  <2>6. ASSUME Quiet PROVE SwitchInv'
    <3>1. \A u \in Threads : at[u] = "out"
      BY <2>6 DEF Quiet
    <3>2. OneKind /\ \A u \in Threads : ~Opposed(place, at[u])
      BY <3>1 DEF OneKind, Opposed, Triggering, Resetting
    <3>3. OneKind'
      BY <2>1, <3>2, KindKept DEF SwitchTypeOK
    <3>4. \A u \in Threads : Traced(u)'
      BY <2>4, <3>1 DEF Traced
    <3>5. QED BY <2>5, <3>3, <3>4 DEF SwitchInv
  <2>7. ASSUME ~clash, \A u \in Threads : ~Opposed(place, at[u]) PROVE SwitchInv'
    <3>1. OneKind /\ \A u \in Threads : Traced(u)
      BY <2>7 DEF SwitchInv
    <3>2. OneKind'
      BY <2>1, <2>7, <3>1, KindKept DEF SwitchTypeOK
    <3>3. \A u \in Threads : Traced(u)'
      BY <2>1, <2>4, <3>1 DEF Traced
    <3>4. QED BY <2>5, <3>2, <3>3 DEF SwitchInv
  <2>8. QED BY <2>1, <2>3, <2>6, <2>7 DEF SwitchInv
<1>2. ASSUME NEW t \in Threads, TriggerHalt(t) \/ Reset(t) PROVE SwitchTypeOK' /\ SwitchInv'
  <2>1. PICK place \in Places : at' = [at EXCEPT ![t] = place]
    BY <1>2 DEF TriggerHalt, RaiseFlag, CancelToken, MarkHalted, Reset, LowerFlag, ResetToken, MarkArmed,
       Goto, Places, Triggering, Resetting
  <2>2. SwitchTypeOK'
    BY <1>2, <2>1 DEF SwitchTypeOK, TriggerHalt, RaiseFlag, CancelToken, MarkHalted, Reset, LowerFlag,
       ResetToken, MarkArmed
  <2>3. at'[t] = place /\ clash' = clash /\ \A u \in Threads \ {t} : at'[u] = at[u]
    BY <1>2, <2>1 DEF SwitchTypeOK, TriggerHalt, RaiseFlag, CancelToken, MarkHalted, Reset, LowerFlag,
       ResetToken, MarkArmed
  <2>4. SUFFICES ASSUME ~clash PROVE SwitchInv'
    BY <2>2, <2>3 DEF SwitchInv
  <2>5. OneKind /\ \A u \in Threads : Traced(u)
    BY <2>4 DEF SwitchInv
  <2>6. CASE TriggerHalt(t)
    <3>1. at[t] \in Triggering /\ (place = "out" \/ place \in Triggering)
      BY <2>3, <2>6 DEF TriggerHalt, RaiseFlag, CancelToken, MarkHalted, Goto, SwitchTypeOK, Triggering
    <3>2. \A u \in Threads : at[u] \notin Resetting
      BY <2>5, <3>1 DEF OneKind, Opposed
    <3>3. \A u \in Threads : ~Opposed(place, at[u])
      BY <3>1, <3>2 DEF Opposed, Triggering, Resetting
    <3>4. OneKind'
      BY <2>1, <2>5, <3>3, KindKept DEF SwitchTypeOK
    <3>5. Traced(t)' /\ (Quiet' => Agreed')
      <4>1. CASE RaiseFlag(t)
        BY <2>3, <4>1 DEF RaiseFlag, Goto, SwitchTypeOK, Traced, Quiet
      <4>2. CASE CancelToken(t)
        <5>1. flag /\ at'[t] = "trigger status"
          BY <2>5, <4>2 DEF CancelToken, Goto, SwitchTypeOK, Traced
        <5>2. QED BY <4>2, <5>1 DEF CancelToken, Traced, Quiet
      <4>3. CASE MarkHalted(t)
        <5>1. flag /\ token /\ at'[t] = "out"
          BY <2>5, <4>3 DEF MarkHalted, Goto, SwitchTypeOK, Traced
        <5>2. QED BY <4>3, <5>1 DEF MarkHalted, Traced, Agreed
      <4>4. QED BY <2>6, <4>1, <4>2, <4>3 DEF TriggerHalt
    <3>6. (flag => flag') /\ (token => token')
      <4>1. (flag' = TRUE \/ flag' = flag) /\ (token' = TRUE \/ token' = token)
        BY <2>6 DEF TriggerHalt, RaiseFlag, CancelToken, MarkHalted
      <4>2. QED BY <2>2, <4>1 DEF SwitchTypeOK
    <3>7. \A u \in Threads \ {t} : Traced(u)'
      BY <2>3, <2>5, <3>2, <3>6 DEF Traced, Resetting
    <3>8. QED BY <3>4, <3>5, <3>7 DEF SwitchInv
  <2>7. CASE Reset(t)
    <3>1. at[t] \in Resetting /\ (place = "out" \/ place \in Resetting)
      BY <2>3, <2>7 DEF Reset, LowerFlag, ResetToken, MarkArmed, Goto, SwitchTypeOK, Resetting
    <3>2. \A u \in Threads : at[u] \notin Triggering
      BY <2>5, <3>1 DEF OneKind, Opposed
    <3>3. \A u \in Threads : ~Opposed(place, at[u])
      BY <3>1, <3>2 DEF Opposed, Triggering, Resetting
    <3>4. OneKind'
      BY <2>1, <2>5, <3>3, KindKept DEF SwitchTypeOK
    <3>5. Traced(t)' /\ (Quiet' => Agreed')
      <4>1. CASE LowerFlag(t)
        BY <2>3, <4>1 DEF LowerFlag, Goto, SwitchTypeOK, Traced, Quiet
      <4>2. CASE ResetToken(t)
        <5>1. ~flag /\ at'[t] = "reset status"
          BY <2>5, <4>2 DEF ResetToken, Goto, SwitchTypeOK, Traced
        <5>2. QED BY <4>2, <5>1 DEF ResetToken, Traced, Quiet
      <4>3. CASE MarkArmed(t)
        <5>1. ~flag /\ ~token /\ at'[t] = "out"
          BY <2>5, <4>3 DEF MarkArmed, Goto, SwitchTypeOK, Traced
        <5>2. QED BY <4>3, <5>1 DEF MarkArmed, Traced, Agreed
      <4>4. QED BY <2>7, <4>1, <4>2, <4>3 DEF Reset
    <3>6. (flag' => flag) /\ (token' => token)
      <4>1. (flag' = FALSE \/ flag' = flag) /\ (token' = FALSE \/ token' = token)
        BY <2>7 DEF Reset, LowerFlag, ResetToken, MarkArmed
      <4>2. QED BY <2>2, <4>1 DEF SwitchTypeOK
    <3>7. \A u \in Threads \ {t} : Traced(u)'
      BY <2>3, <2>5, <3>2, <3>6 DEF Traced, Triggering
    <3>8. QED BY <3>4, <3>5, <3>7 DEF SwitchInv
  <2>8. QED BY <1>2, <2>6, <2>7
<1>3. Asked => calls' \in 0..MaxCalls
  BY SwitchAssumption DEF Asked, SwitchTypeOK
<1>4. calls' = calls => calls' \in 0..MaxCalls
  BY DEF SwitchTypeOK
<1>5. QED BY <1>0, <1>1, <1>2, <1>3, <1>4 DEF SwitchNext, SwitchStep, CallTrigger, CallReset, PollerFires,
   PollerSeesOwnEscape

(* The executor reads the stop and holds Escape down, no more. *)
SwitchRead == UNCHANGED <<flag, token, status, at, calls, clash>> /\ escape' \in BOOLEAN

LEMMA ExecutorReads == ASSUME escape \in BOOLEAN, Executor PROVE SwitchRead
<1>1. ASSUME UNCHANGED switch PROVE SwitchRead
  BY <1>1 DEF switch, SwitchRead
<1>2. CASE Orchestrator
  <2>1. HealInput => SwitchRead
    BY DEF HealInput, SwitchRead
  <2>2. ~HealInput => UNCHANGED switch
    BY <1>2 DEF Orchestrator, StartPlan, NextStep, EnterStep, CheckWindow, ResolveTarget, Wait, Attempt,
       Answered, Verify, Healed, Inside
  <2>3. QED BY <1>1, <2>1, <2>2
<1>3. CASE Router
  BY <1>1, <1>3 DEF Router, MacroStep, Precheck, AwaitChange, Round, BringToFront, ClearField, SendAction,
     Routed, Dwell, Changed, NothingChanged, Alone
<1>4. CASE Engine
  BY <1>1, <1>4 DEF Engine, EngineHalts, EngineRefuses, EngineDispatches, Cancelled, Dispatch, Dispatched
<1>5. QED BY <1>2, <1>3, <1>4 DEF Executor

LEMMA SwitchUndisturbed ==
  ASSUME SwitchTypeOK, SwitchInv, SwitchRead PROVE SwitchTypeOK' /\ SwitchInv'
<1>1. SwitchTypeOK'
  BY DEF SwitchTypeOK, SwitchRead
<1>2. Quiet' <=> Quiet
  BY DEF Quiet, SwitchRead
<1>3. Agreed' <=> Agreed
  BY DEF Agreed, SwitchRead
<1>4. ASSUME NEW t \in Threads PROVE Traced(t)' <=> Traced(t)
  BY DEF Traced, SwitchRead
<1>5. SwitchInv'
  BY <1>2, <1>3, <1>4 DEF SwitchInv, OneKind, Opposed, SwitchRead
<1>6. QED BY <1>1, <1>5

-----------------------------------------------------------------------------
(* The invariant is inductive *)

TypeParts ==
  /\ SwitchTypeOK /\ Control /\ Steps /\ Retries
  /\ owed \in [Works -> Nat] /\ late \in Nat /\ sent \in [1..Len(plan) -> Nat]
  /\ config \in Config
  /\ report \in [category : Categories, retries : 0..MaxRetries + 1]

LEMMA Parts == TypeOK <=> TypeParts
BY DEF TypeOK, TypeParts, EngineTypeOK, PlanTypeOK, MacroTypeOK, Control, Steps, Retries, HealKeys, Delivery

LEMMA PartsNext == TypeOK' <=> TypeParts'
BY DEF TypeOK, TypeParts, EngineTypeOK, PlanTypeOK, MacroTypeOK, Control, Steps, Retries, HealKeys, Delivery

LEMMA ExecutorKeeps == ASSUME IInv, Executor PROVE IInv'
<1>1. TypeParts
  BY Parts DEF IInv
<1>2. SwitchTypeOK' /\ SwitchInv'
  BY <1>1, ExecutorReads, SwitchUndisturbed DEF IInv, TypeParts, SwitchTypeOK
<1>3. heal \in Seq(HealKeys) /\ left \in Nat /\ attempt \in Nat
  BY <1>1, EngineAssumption DEF TypeParts, Control, Retries
<1>4. /\ CallInv' /\ OwedStep /\ InputInv' /\ Control' /\ UNCHANGED <<plan, config, macro>>
      /\ ProgressStep /\ Retries' /\ RetryInv' /\ SentStep /\ late' \in Nat /\ LateInv' /\ ReportStep
  <2>1. CASE Orchestrator /\ UNCHANGED router
    <3>1. /\ CallInv' /\ OwedStep /\ InputInv' /\ Control' /\ UNCHANGED <<plan, config, macro>>
          /\ ProgressStep /\ Retries' /\ RetryInv' /\ SentStep
      BY <1>1, <1>3, <2>1, OrchestratorCall, OrchestratorOwes, OrchestratorInputs, OrchestratorControl,
         OrchestratorFixed, OrchestratorProgress, OrchestratorRetries, OrchestratorSends, Parts DEF IInv, TypeParts
    <3>2. ReportStep
      BY <2>1 DEF router, ReportStep
    <3>3. QED BY <1>1, <1>3, <2>1, <3>1, <3>2, OrchestratorLate DEF IInv, TypeParts
  <2>2. CASE Router /\ UNCHANGED orchestrator
    <3>1. /\ CallInv' /\ OwedStep /\ InputInv' /\ Control' /\ UNCHANGED <<plan, config, macro>>
          /\ ProgressStep /\ Retries' /\ RetryInv' /\ SentStep /\ ReportStep
      BY <1>1, <1>3, <2>2, RouterCall, RouterOwes, RouterInputs, RouterControl, RouterFixed, RouterProgress,
         RouterRetries, RouterSends, RouterReports, Parts DEF IInv, TypeParts
    <3>2. QED BY <1>1, <1>3, <2>2, <3>1, RouterLate DEF IInv, TypeParts
  <2>3. CASE Engine /\ UNCHANGED <<orchestrator, router>>
    <3>1. /\ CallInv' /\ OwedStep /\ InputInv' /\ Control' /\ UNCHANGED <<plan, config, macro>>
          /\ ProgressStep /\ Retries' /\ RetryInv' /\ SentStep
      BY <1>1, <1>3, <2>3, EngineCall, EngineOwes, EngineInputs, EngineControl, EngineFixed, EngineProgress,
         EngineRetries, EngineSends, Parts DEF IInv, TypeParts
    <3>2. ReportStep
      BY <2>3 DEF router, ReportStep
    <3>3. QED BY <1>1, <1>3, <2>3, <3>1, <3>2, EngineLate DEF IInv, TypeParts
  <2>4. QED BY <2>1, <2>2, <2>3 DEF Executor
<1>5. owed' \in [Works -> Nat] /\ OwedInv'
  BY <1>1, <1>4, OwedKept DEF IInv, TypeParts
<1>6. Steps' /\ StepInv'
  BY <1>1, <1>4, ProgressKept DEF IInv, TypeParts
<1>7. sent' \in [1..Len(plan) -> Nat] /\ SentInv'
  BY <1>1, <1>4, <1>6, SentKept DEF IInv, TypeParts
<1>8. report' \in [category : Categories, retries : 0..MaxRetries + 1] /\ ZeroDiffMeansBoth'
  BY <1>1, <1>4, ReportKept DEF IInv, TypeParts
<1>9. TypeParts'
  BY <1>1, <1>2, <1>4, <1>5, <1>6, <1>7, <1>8 DEF TypeParts
<1>10. QED BY <1>2, <1>4, <1>5, <1>6, <1>7, <1>8, <1>9, PartsNext DEF IInv

(* A step that touches nothing but the stop and what counts from it. *)
LEMMA OthersKept ==
  ASSUME IInv, SwitchTypeOK', SwitchInv', late' \in Nat, LateInv',
         UNCHANGED <<plan, progress, pc, call, owed, sent, orchestrator, router>>
  PROVE  IInv'
<1>1. /\ UNCHANGED <<plan, step, attempt, delivery, results, outcome, pc, back, answer, left, owed, sent>>
      /\ UNCHANGED <<config, heal, resume, barrier, macro, modes, clears, report>>
  BY DEF progress, call, orchestrator, router
<1>2. TypeParts
  BY Parts DEF IInv
<1>3. Control' /\ Steps' /\ Retries'
  BY <1>1, <1>2 DEF TypeParts, Control, Steps, Retries
<1>4. TypeParts'
  BY <1>1, <1>2, <1>3 DEF TypeParts
<1>5. CallInv' /\ OwedInv' /\ InputInv'
  BY <1>1 DEF IInv, CallInv, OwedInv, InputInv, Called, Kind, Begun
<1>6. StepInv' /\ RetryInv'
  BY <1>1 DEF IInv, StepInv, RetryInv, InStep, PlanRound, MacroRound, Called
<1>7. (Before' <=> Before) /\ (Tried' <=> Tried) /\ (Hit' <=> Hit) /\ (InFront' <=> InFront)
      /\ (InStep' <=> InStep)
  BY <1>1 DEF Before, Tried, Hit, InFront, InStep, MacroRound, Called
<1>8. SentInv'
  BY <1>1, <1>7 DEF IInv, SentInv
<1>9. ZeroDiffMeansBoth'
  BY <1>1 DEF IInv, ZeroDiffMeansBoth, Kind
<1>10. QED BY <1>4, <1>5, <1>6, <1>8, <1>9, PartsNext DEF IInv

LEMMA SwitchKeeps == ASSUME IInv, Threading(SwitchNext) PROVE IInv'
<1>1. /\ SwitchNext /\ late' = (IF flag' THEN late ELSE 0)
      /\ UNCHANGED <<plan, progress, pc, call, owed, sent, orchestrator, router>>
  BY DEF Threading, Beside
<1>2. TypeParts
  BY Parts DEF IInv
<1>3. SwitchTypeOK' /\ SwitchInv'
  BY <1>1, <1>2, SwitchKept DEF IInv, TypeParts
<1>4. late' \in Nat /\ (late' = late \/ late' = 0) /\ (flag' \/ late' = 0)
  BY <1>1, <1>2 DEF TypeParts
<1>5. UNCHANGED <<pc, step, plan, back, answer, left, heal>>
  BY <1>1 DEF progress, call, orchestrator
<1>6. left \in Nat /\ Len(heal) \in Nat
  BY <1>2, EngineAssumption, LenProperties DEF TypeParts, Control
<1>7. LateInv'
  <2>1. CASE late' = late
    BY <1>4, <1>5, <2>1 DEF IInv, LateInv, Kind
  <2>2. CASE late' = 0
    BY <1>4, <1>5, <1>6, <2>2 DEF IInv, LateInv, InputInv, Kind
  <2>3. QED BY <1>4, <2>1, <2>2
<1>8. QED BY <1>1, <1>3, <1>4, <1>7, OthersKept

LEMMA NothingKeeps == ASSUME IInv, UNCHANGED vars PROVE IInv'
<1>1. UNCHANGED <<switch, engine, orchestrator, router>>
  BY DEF vars
<1>2. UNCHANGED <<plan, progress, pc, call, owed, sent, late, switch>>
  BY <1>1 DEF engine, progress, call
<1>3. TypeParts /\ SwitchRead
  BY <1>2, Parts DEF IInv, switch, SwitchRead, TypeParts, SwitchTypeOK
<1>4. SwitchTypeOK' /\ SwitchInv'
  BY <1>3, SwitchUndisturbed DEF IInv, TypeParts
<1>5. late' \in Nat /\ LateInv'
  BY <1>1, <1>2, <1>3 DEF IInv, TypeParts, LateInv, Kind, progress, call, orchestrator, switch
<1>6. QED BY <1>1, <1>2, <1>4, <1>5, OthersKept

LEMMA InitInv == ASSUME Init PROVE IInv
<1>1. /\ pc \in {"plan", "macro"} /\ step = 1 /\ back = "over" /\ answer = "none" /\ left = 0
      /\ attempt = 0 /\ delivery = "background" /\ results = <<>> /\ outcome = "running" /\ late = 0
      /\ owed = [w \in Works |-> 0] /\ sent = [i \in 1..Len(plan) |-> 0]
      /\ heal = <<>> /\ resume = "next" /\ barrier = FALSE /\ modes = <<>> /\ clears = 0 /\ report = NoReport
  BY DEF Init, PlanInit, MacroInit, EngineInit
<1>2. plan \in Seq(Kinds)
  <2>1. ASSUME NEW S \in SUBSET Kinds, plan \in Seq(S) PROVE plan \in Seq(Kinds)
    BY <2>1
  <2>2. plan \in Seq({"click", "som", "type", "wait"}) \/ plan \in Seq({"click", "type", "wait", "hover", "retype"})
    BY DeskAssumption DEF Init
  <2>3. {"click", "som", "type", "wait"} \in SUBSET Kinds /\ {"click", "type", "wait", "hover", "retype"} \in SUBSET Kinds
    BY DEF Kinds
  <2>4. QED BY <2>1, <2>2, <2>3
<1>3. Len(plan) \in Nat
  BY <1>2, LenProperties
<1>4. config \in Config /\ macro \in [budget : 0..MaxRetries, escalate : BOOLEAN]
  <2>1. [profile |-> "Flash", verifier |-> FALSE, escalate |-> FALSE, dismiss |-> FALSE] \in Config
    BY DEF Config
  <2>2. [budget |-> 0, escalate |-> FALSE] \in [budget : 0..MaxRetries, escalate : BOOLEAN]
    BY EngineAssumption
  <2>3. config \in Config
    BY <2>1, DeskAssumption, Zenon DEF Init
  <2>4. macro \in [budget : 0..MaxRetries, escalate : BOOLEAN]
    BY <2>2, RouterAssumption, Zenon DEF Init
  <2>5. QED BY <2>3, <2>4
<1>5. SwitchTypeOK /\ SwitchInv
  <2>1. /\ ~flag /\ ~token /\ status = "Armed" /\ calls = 0 /\ at = [t \in Threads |-> "out"]
        /\ flag \in BOOLEAN /\ token \in BOOLEAN /\ escape \in BOOLEAN /\ clash \in BOOLEAN
    BY DEF Init, EngineInit, SwitchInit
  <2>2. SwitchTypeOK
    BY <2>1, SwitchAssumption DEF SwitchTypeOK, Places
  <2>3. \A t \in Threads : at[t] = "out"
    BY <2>1
  <2>4. OneKind /\ (\A t \in Threads : Traced(t)) /\ Agreed
    BY <2>1, <2>3 DEF OneKind, Opposed, Triggering, Resetting, Traced, Agreed
  <2>5. QED BY <2>2, <2>4 DEF SwitchInv
<1>6. Control
  <2>1. pc \in PlanPcs \cup MacroPcs \cup {"engine", "select", "over"} /\ resume \in PlanPcs
    BY <1>1 DEF PlanPcs, MacroPcs
  <2>2. heal \in Seq(HealKeys)
    BY <1>1
  <2>3. left \in 0..Pieces /\ answer \in Answers
    BY <1>1, EngineAssumption DEF Answers
  <2>4. /\ back \in {"over", "answered", "routed", "keys"} /\ delivery \in {"background", "foreground"}
        /\ outcome \in {"running", "done", "failed", "halted"}
    BY <1>1
  <2>5. barrier \in BOOLEAN
    BY <1>1
  <2>6. clears \in 0..3
    BY <1>1
  <2>7. QED BY <2>1, <2>2, <2>3, <2>4, <2>5, <2>6 DEF Control
<1>7. Steps
  BY <1>1, <1>2, <1>3 DEF Steps
<1>8. Retries
  BY <1>1, <1>4, NoModes, EngineAssumption DEF Retries
<1>9. report \in [category : Categories, retries : 0..MaxRetries + 1]
  BY <1>1, EngineAssumption DEF NoReport, Categories
<1>10. TypeOK
  BY <1>1, <1>3, <1>4, <1>5, <1>6, <1>7, <1>8, <1>9, Parts DEF TypeParts
<1>11. CallInv /\ OwedInv /\ InputInv /\ LateInv
  BY <1>1 DEF CallInv, OwedInv, InputInv, LateInv, Called, Begun
<1>12. StepInv /\ RetryInv /\ ZeroDiffMeansBoth
  BY <1>1 DEF StepInv, RetryInv, InStep, PlanRound, MacroRound, Called, ZeroDiffMeansBoth, NoReport
<1>13. SentInv
  BY <1>1, <1>3, EngineAssumption DEF SentInv, InStep, Hit, InFront, MacroRound, Called
<1>14. QED BY <1>5, <1>10, <1>11, <1>12, <1>13 DEF IInv

LEMMA Inductive == Spec => []IInv
<1>1. IInv /\ [Next]_vars => IInv'
  BY ExecutorKeeps, SwitchKeeps, NothingKeeps DEF Next
<1>2. QED BY <1>1, InitInv, PTL DEF Spec

-----------------------------------------------------------------------------
(* The theorems *)

(* The state stays in its types: retries, pieces and recorded results within  *)
(* their bounds.                                                              *)
THEOREM TypeCorrect == Spec => []TypeOK
<1>1. IInv => TypeOK
  BY DEF IInv
<1>2. QED BY <1>1, Inductive, PTL

(* The three stores of the emergency stop agree between two calls, as long as *)
(* no two calls overlapped.                                                   *)
THEOREM StopAgrees == Spec => []SwitchAgrees
<1>1. IInv => SwitchAgrees
  BY Zenon DEF IInv, SwitchInv, SwitchAgrees, Agreed, TypeOK, EngineTypeOK, SwitchTypeOK
<1>2. QED BY <1>1, Inductive, PTL

(* Once flag and token are up, at most three inputs still reach the device,   *)
(* whatever the plan, the pieces of its texts and the number of its retries.  *)
THEOREM HaltIsBounded == Spec => []HaltBites
<1>1. IInv => HaltBites
  BY DEF IInv, LateInv, HaltBites
<1>2. QED BY <1>1, Inductive, PTL

(* When a step ends, on whatever path, every engine call and every recovery   *)
(* begun has its record in the audit.                                         *)
THEOREM AllRecorded == Spec => []NothingOffTheRecord
<1>1. IInv => NothingOffTheRecord
  BY DEF IInv, OwedInv, Begun, Called, NothingOffTheRecord
<1>2. QED BY <1>1, Inductive, PTL

(* A plan that reports success sent each of its actions, none more often than *)
(* the retries allow, and a report of no change comes after both deliveries.  *)
THEOREM Earned == Spec => []ReportsAreEarned
<1>1. ASSUME IInv PROVE SuccessIsEarned
  <2>1. Len(plan) \in Nat
    BY <1>1, LenProperties DEF IInv, TypeOK, EngineTypeOK
  <2>2. ASSUME outcome = "done", NEW i \in 1..Len(plan) PROVE i < step
    BY <1>1, <2>1, <2>2 DEF IInv, StepInv
  <2>3. QED BY <1>1, <2>2 DEF IInv, StepInv, SentInv, SuccessIsEarned
<1>2. IInv => ReportsAreEarned
  BY <1>1 DEF IInv, ReportsAreEarned
<1>3. QED BY <1>2, Inductive, PTL

(* A security barrier or a refusal is followed by no further input of the     *)
(* step it stopped.                                                           *)
THEOREM Final == Spec => StopsAreFinal
<1>1. ASSUME IInv, [Next]_vars
      PROVE  /\ [barrier => UNCHANGED <<left, heal>>]_planVars
             /\ [answer = "refused" /\ Kind # "retype" => UNCHANGED <<sent, attempt>>]_vars
  <2>1. CASE UNCHANGED vars
    BY <2>1 DEF vars, planVars, engine, orchestrator
  <2>2. CASE Threading(SwitchNext)
    BY <2>2 DEF Threading, Beside, progress, call, orchestrator
  <2>3. CASE Executor
    <3>1. pc # "over"
      BY <2>3 DEF Executor, Orchestrator, StartPlan, NextStep, EnterStep, CheckWindow, ResolveTarget, Wait,
         Attempt, Answered, Verify, HealInput, Healed, Router, MacroStep, Precheck, AwaitChange, Round,
         BringToFront, ClearField, SendAction, Routed, Dwell, Changed, NothingChanged,
         Engine, EngineHalts, EngineRefuses, EngineDispatches, Cancelled, Dispatch, Dispatched
    <3>2. ~barrier
      BY <1>1, <3>1 DEF IInv, CallInv
    <3>3. ASSUME answer = "refused", Kind # "retype" PROVE UNCHANGED <<sent, attempt>>
      <4>1. pc \in {"answered", "routed"}
        BY <1>1, <3>1, <3>3 DEF IInv, CallInv
      <4>2. Answered \/ Routed
        BY <2>3, <4>1 DEF Executor, Orchestrator, StartPlan, NextStep, EnterStep, CheckWindow, ResolveTarget,
           Wait, Attempt, Verify, HealInput, Healed, Router, MacroStep, Precheck, AwaitChange, Round,
           BringToFront, ClearField, SendAction, Dwell, Changed, NothingChanged,
           Engine, EngineHalts, EngineRefuses, EngineDispatches, Cancelled, Dispatch, Dispatched
      <4>3. CASE Answered
        BY <4>3 DEF Answered, Inside, SameAttempt
      <4>4. CASE Routed
        BY <3>3, <4>4 DEF Routed, Retryable, Alone
      <4>5. QED BY <4>2, <4>3, <4>4
    <3>4. QED BY <3>2, <3>3
  <2>4. QED BY <1>1, <2>1, <2>2, <2>3 DEF Next
<1>2. QED BY <1>1, Inductive, PTL DEF Spec, StopsAreFinal, BarrierEndsInput, RefusalIsFinal
=============================================================================
