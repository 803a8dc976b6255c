------------------------------ MODULE KillSwitch ------------------------------
(***************************************************************************)
(* The emergency stop of the computer-use crate (kill_switch.rs).           *)
(* KillSwitchController is shared by every caller: trigger_halt and reset   *)
(* take no lock and store into five places one after the other, so that two *)
(* of them may interleave. The poller thread triggers on a physical or a    *)
(* synthesised Escape and on a thrashing mouse; commands trigger and reset. *)
(* Left out: the cursor's arithmetic (the mouse may thrash at any time), the *)
(* release of held keys at the end of both calls, the count of aborts.      *)
(***************************************************************************)
EXTENDS Naturals

CONSTANTS Caller,    \* threads that call commands
          Poller,    \* the polling thread
          MaxCalls   \* bound on the triggers and resets that somebody asks for

ASSUME SwitchAssumption == Poller \notin Caller /\ MaxCalls \in Nat

VARIABLES
  flag,      \* halt_signal
  token,     \* the CancellationToken is cancelled
  status,    \* KillSwitchState; Engaged is never entered
  escape,    \* a synthesised Escape is down: GetAsyncKeyState sees it
  at,        \* where a thread is in trigger_halt or reset
  calls,     \* triggers and resets somebody has asked for
  clash      \* history: since somebody has been in a call, or when last somebody
             \* was, a trigger and a reset have overlapped

switch == <<flag, token, status, escape, at, calls, clash>>

Threads == Caller \cup {Poller}

Triggering == {"trigger flag", "trigger token", "trigger status"}
Resetting == {"reset flag", "reset token", "reset status"}
Places == {"out"} \cup Triggering \cup Resetting

SwitchTypeOK ==
  /\ flag \in BOOLEAN /\ token \in BOOLEAN
  /\ escape \in BOOLEAN /\ clash \in BOOLEAN
  /\ status \in {"Armed", "Halted"}
  /\ at \in [Threads -> Places]
  /\ calls \in 0..MaxCalls

SwitchInit ==
  /\ flag = FALSE /\ token = FALSE /\ status = "Armed"
  /\ escape = FALSE /\ clash = FALSE
  /\ at = [t \in Threads |-> "out"] /\ calls = 0

Goto(t, place) == at' = [at EXCEPT ![t] = place]
Quiet == \A t \in Threads : at[t] = "out"

Opposed(p, q) == \/ p \in Triggering /\ q \in Resetting
                 \/ p \in Resetting /\ q \in Triggering

(* A call that begins when nobody is in one leaves what was before behind it. *)
Enter(t, place) ==
  /\ at[t] = "out"
  /\ clash' = (~Quiet /\ (clash \/ \E u \in Threads : Opposed(place, at[u])))
  /\ Goto(t, place)
  /\ UNCHANGED <<flag, token, status, escape>>

Asked == calls < MaxCalls /\ calls' = calls + 1

(* A command: emergency_stop, or its reset. *)
CallTrigger(t) == Asked /\ Enter(t, "trigger flag")
CallReset(t) == Asked /\ Enter(t, "reset flag")

(* The poller: somebody presses Escape, or moves the mouse while an action    *)
(* does; or a recovery holds Escape down, which is the same key to the system. *)
PollerFires == ~flag /\ Asked /\ Enter(Poller, "trigger flag")
PollerSeesOwnEscape ==
  ~flag /\ escape /\ Enter(Poller, "trigger flag") /\ UNCHANGED calls

-----------------------------------------------------------------------------
(* trigger_halt *)

(* Mutant: a trigger that finds the flag up takes the stop for done. *)
RaiseOnce(t) ==
  /\ at[t] = "trigger flag"
  /\ flag' = TRUE
  /\ Goto(t, IF flag THEN "out" ELSE "trigger token")
  /\ UNCHANGED <<token, status, escape, calls, clash>>

RaiseFlag(t) ==
  /\ at[t] = "trigger flag"
  /\ flag' = TRUE
  /\ Goto(t, "trigger token")
  /\ UNCHANGED <<token, status, escape, calls, clash>>

CancelToken(t) ==
  /\ at[t] = "trigger token"
  /\ token' = TRUE
  /\ Goto(t, "trigger status")
  /\ UNCHANGED <<flag, status, escape, calls, clash>>

(* The status, the reason and the time of the halt. *)
MarkHalted(t) ==
  /\ at[t] = "trigger status"
  /\ status' = "Halted"
  /\ Goto(t, "out")
  /\ UNCHANGED <<flag, token, escape, calls, clash>>

TriggerHalt(t) == RaiseFlag(t) \/ CancelToken(t) \/ MarkHalted(t)

-----------------------------------------------------------------------------
(* reset *)

LowerFlag(t) ==
  /\ at[t] = "reset flag"
  /\ flag' = FALSE
  /\ Goto(t, "reset token")
  /\ UNCHANGED <<token, status, escape, calls, clash>>

ResetToken(t) ==
  /\ at[t] = "reset token"
  /\ token' = FALSE
  /\ Goto(t, "reset status")
  /\ UNCHANGED <<flag, status, escape, calls, clash>>

MarkArmed(t) ==
  /\ at[t] = "reset status"
  /\ status' = "Armed"
  /\ Goto(t, "out")
  /\ UNCHANGED <<flag, token, escape, calls, clash>>

Reset(t) == LowerFlag(t) \/ ResetToken(t) \/ MarkArmed(t)

SwitchStep == \E t \in Threads : TriggerHalt(t) \/ Reset(t)
SwitchNext ==
  \/ \E t \in Caller : CallTrigger(t) \/ CallReset(t)
  \/ PollerFires \/ PollerSeesOwnEscape
  \/ SwitchStep

-----------------------------------------------------------------------------
(* The flag that actions test, the token that typing and waiting test and the *)
(* status that the interface shows are three stores of their own. They agree  *)
(* when no call is under way, whatever number of triggers or whatever number   *)
(* of resets have run into each other; the exception is a trigger that has     *)
(* overlapped a reset, and what these two leave lasts only until the next      *)
(* call, or calls of one kind, that nothing of the other kind overlaps: a      *)
(* stop asked for twice stops, also when the first one is half undone.         *)
SwitchAgrees ==
  Quiet /\ ~clash => /\ token = flag
                     /\ (status = "Halted") = flag
=============================================================================
