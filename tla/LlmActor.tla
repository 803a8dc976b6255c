------------------------------- MODULE LlmActor -------------------------------
(***************************************************************************)
(* The LLM actor (crates/liva-llm/src/actor.rs): callers send generations    *)
(* of three priorities and shutdowns into a bounded channel; the actor sorts *)
(* them into three queues, runs one generation at a time in a blocking       *)
(* worker and keeps reading the channel meanwhile, to cancel the generation  *)
(* for a command of higher priority or a shutdown.                           *)
(*                                                                          *)
(* The worker is the streaming backend boot.rs attaches: it looks at the     *)
(* cancel flag between tokens, and waits for room when the consumer of the   *)
(* tokens does not read.                                                     *)
(***************************************************************************)
EXTENDS Naturals, Sequences

CONSTANTS Cmd,
          Prio,      \* the priority of a command
          Shutdowns, \* the commands that are LlmCommand::Shutdown
          Token,     \* the cancel token of a command; two may share a caller's
          ChanCap,   \* capacity of the channel (128 in boot.rs)
          Nothing

Low == 0
Normal == 1
High == 2
Priorities == {Low, Normal, High}
CancelTokens == {Token[c] : c \in Cmd}

ASSUME LlmAssumption ==
  /\ Prio \in [Cmd -> Priorities]
  /\ Shutdowns \subseteq Cmd /\ \A c \in Shutdowns : Prio[c] = High
  /\ ChanCap \in Nat \ {0}
  /\ Nothing \notin Cmd

VARIABLES
  called,    \* commands callers have sent or failed to send
  open,      \* a handle is alive
  channel,
  accepted,  \* history: number of commands accepted
  ticket,    \* history: position of a command in the channel's order
  queue,     \* the three VecDeques of the PriorityQueue
  phase,     \* where the actor's task is
  running,   \* the command whose worker runs
  worker,    \* what the worker is doing with its tokens
  flag,      \* the cancel tokens
  asked,     \* history: tokens their callers have set
  reply

actorVars == <<called, open, channel, accepted, ticket, queue, phase, running, worker, flag,
          asked, reply>>

Phases == {"drain", "pop", "wait", "run", "stopped"}
Replies == {"none", "ok", "error", "cancelled", "dropped", "closed"}

Elems(s) == {s[i] : i \in 1..Len(s)}
Queued == UNION {Elems(queue[p]) : p \in Priorities}
Waiting == Elems(channel) \cup Queued
Generations == Cmd \ Shutdowns

ActorTypeOK ==
  /\ called \subseteq Cmd /\ open \in BOOLEAN
  /\ channel \in Seq(Cmd) /\ Len(channel) <= ChanCap
  /\ accepted \in Nat /\ ticket \in [Cmd -> Nat]
  /\ queue \in [Priorities -> Seq(Cmd)]
  /\ phase \in Phases
  /\ running \in Generations \cup {Nothing} /\ worker \in {"decoding", "sending", "stuck"}
  /\ flag \in [CancelTokens -> BOOLEAN] /\ asked \subseteq CancelTokens
  /\ reply \in [Cmd -> Replies]

ActorInit ==
  /\ called = {} /\ open = TRUE
  /\ channel = <<>> /\ accepted = 0 /\ ticket = [c \in Cmd |-> 0]
  /\ queue = [p \in Priorities |-> <<>>]
  /\ phase = "drain" /\ running = Nothing /\ worker = "decoding"
  /\ flag = [t \in CancelTokens |-> FALSE] /\ asked = {}
  /\ reply = [c \in Cmd |-> "none"]

-----------------------------------------------------------------------------
(* Callers *)

(* send().await: a stopped actor has closed its channel. *)
Send(c) ==
  /\ open /\ c \notin called
  /\ called' = called \cup {c}
  /\ \/ /\ phase # "stopped" /\ Len(channel) < ChanCap
        /\ channel' = Append(channel, c)
        /\ accepted' = accepted + 1
        /\ ticket' = [ticket EXCEPT ![c] = accepted']
        /\ UNCHANGED reply
     \/ /\ phase = "stopped"
        /\ reply' = [reply EXCEPT ![c] = "closed"]
        /\ UNCHANGED <<channel, accepted, ticket>>
  /\ UNCHANGED <<open, queue, phase, running, worker, flag, asked>>

CallerCancels(t) ==
  /\ t \notin asked /\ \E c \in Generations : t = Token[c]
  /\ asked' = asked \cup {t}
  /\ flag' = [flag EXCEPT ![t] = TRUE]
  /\ UNCHANGED <<called, open, channel, accepted, ticket, queue, phase, running, worker, reply>>

DropHandles ==
  /\ open /\ open' = FALSE
  /\ UNCHANGED <<called, channel, accepted, ticket, queue, phase, running, worker, flag,
                 asked, reply>>

-----------------------------------------------------------------------------
(* The actor *)

(* PriorityQueue::push. Mutant: the newest command of a class comes first. *)
PushedFirst(q, c) == [q EXCEPT ![Prio[c]] = <<c>> \o @]
Pushed(q, c) == [q EXCEPT ![Prio[c]] = Append(@, c)]

(* The class pop() serves. *)
Highest == CHOOSE p \in Priorities : /\ queue[p] # <<>>
                                     /\ \A r \in Priorities : queue[r] # <<>> => r <= p

TakeFromChannel ==
  /\ channel # <<>>
  /\ channel' = Tail(channel)
  /\ queue' = Pushed(queue, Head(channel))
  /\ UNCHANGED <<called, open, accepted, ticket>>

Drain ==
  /\ phase = "drain"
  /\ \/ TakeFromChannel /\ UNCHANGED phase
     \/ /\ channel = <<>>
        /\ phase' = "pop"
        /\ UNCHANGED <<called, open, channel, accepted, ticket, queue>>
  /\ UNCHANGED <<running, worker, flag, asked, reply>>

(* The first command of the highest class: a generation gets its worker.   *)
IsGeneration(c) == c \notin Shutdowns

StartGeneration ==
  /\ phase = "pop" /\ Queued # {}
  /\ LET c == Head(queue[Highest]) IN
       /\ IsGeneration(c)
       /\ running' = c
  /\ queue' = [queue EXCEPT ![Highest] = Tail(@)]
  /\ phase' = "run"
  /\ UNCHANGED <<called, open, channel, accepted, ticket, worker, flag, asked, reply>>

(* The actor ends: the responders it still holds are dropped. *)
Stop ==
  /\ phase' = "stopped"
  /\ channel' = <<>> /\ queue' = [p \in Priorities |-> <<>>]
  /\ reply' = [c \in Cmd |-> IF c \in Waiting /\ reply[c] = "none" THEN "dropped" ELSE reply[c]]
  /\ UNCHANGED <<called, open, accepted, ticket, running, worker, flag, asked>>

ShutdownPopped ==
  /\ phase = "pop" /\ Queued # {}
  /\ Head(queue[Highest]) \in Shutdowns
  /\ Stop

NothingQueued ==
  /\ phase = "pop" /\ Queued = {}
  /\ phase' = "wait"
  /\ UNCHANGED <<called, open, channel, accepted, ticket, queue, running, worker, flag,
                 asked, reply>>

Wait ==
  /\ phase = "wait"
  /\ TakeFromChannel
  /\ phase' = "drain"
  /\ UNCHANGED <<running, worker, flag, asked, reply>>

ChannelClosed ==
  /\ phase = "wait" /\ ~open /\ channel = <<>>
  /\ Stop

(* The select while a worker runs. Mutant: a command of the same priority     *)
(* preempts too.                                                             *)
PreemptsEqual(c) == c \in Shutdowns \/ Prio[c] >= Prio[running]
Preempts(c) == c \in Shutdowns \/ Prio[c] > Prio[running]

Monitor ==
  /\ phase = "run"
  /\ TakeFromChannel
  /\ flag' = IF Preempts(Head(channel)) THEN [flag EXCEPT ![Token[running]] = TRUE] ELSE flag
  /\ UNCHANGED <<phase, running, worker, asked, reply>>

(* The worker is done, whatever the reason, and the caller is answered: a    *)
(* cancelled generation may have ended by itself just before.                *)
(* Mutant: a cancelled generation answers nobody.                            *)
OutcomesNoneIfCancelled == IF flag[Token[running]] THEN {"none"} ELSE {"ok", "error"}
Outcomes == {"ok", "error"} \cup IF flag[Token[running]] THEN {"cancelled"} ELSE {}

WorkerDone ==
  /\ phase = "run" /\ worker = "decoding"
  /\ \E r \in Outcomes : reply' = [reply EXCEPT ![running] = r]
  /\ running' = Nothing
  /\ phase' = "drain"
  /\ UNCHANGED <<called, open, channel, accepted, ticket, queue, worker, flag, asked>>

-----------------------------------------------------------------------------
(* The worker and the consumer of its tokens *)

(* The callback of a token: it stops when it sees the flag, and sends        *)
(* otherwise, with a blocking_send when try_send finds the channel full. The *)
(* flag may be set between the two.                                          *)
TokenReady ==
  /\ phase = "run" /\ worker = "decoding" /\ ~flag[Token[running]]
  /\ worker' = "sending"
  /\ UNCHANGED <<called, open, channel, accepted, ticket, queue, phase, running, flag,
                 asked, reply>>

SendToken ==
  /\ worker = "sending"
  /\ worker' \in {"decoding", "stuck"}
  /\ UNCHANGED <<called, open, channel, accepted, ticket, queue, phase, running, flag,
                 asked, reply>>

(* The consumer reads, or drops its receiver. *)
ConsumerReads ==
  /\ worker = "stuck"
  /\ worker' = "decoding"
  /\ UNCHANGED <<called, open, channel, accepted, ticket, queue, phase, running, flag,
                 asked, reply>>

-----------------------------------------------------------------------------
Actor == \/ Drain \/ StartGeneration \/ ShutdownPopped \/ NothingQueued
         \/ Wait \/ ChannelClosed \/ Monitor

ActorNext == \/ \E c \in Cmd : Send(c)
             \/ \E t \in CancelTokens : CallerCancels(t)
             \/ DropHandles
             \/ Actor \/ WorkerDone \/ TokenReady \/ SendToken \/ ConsumerReads

ActorSpec == ActorInit /\ [][ActorNext]_actorVars

(* The actor's task is scheduled. The worker is a thread of its own: it gets  *)
(* rid of its token, and its generation ends, the number of tokens being      *)
(* bounded, unless it is never back to decoding.                              *)
FairSpec == ActorSpec /\ WF_actorVars(Actor) /\ WF_actorVars(SendToken) /\ SF_actorVars(WorkerDone)

(* The same, with consumers that keep reading their tokens. *)
FairConsumerSpec == FairSpec /\ WF_actorVars(ConsumerReads)
-----------------------------------------------------------------------------
(* What the actor promises *)

(* A generation is preempted exactly for a reason. While a command of higher  *)
(* priority waits in the actor's queues, the running generation has been told *)
(* to stop: a High command waits for the rest of one cancelled generation,    *)
(* never for a whole one. And whoever is told "cancelled" had asked for it,   *)
(* or a shutdown or a command of higher priority came after it, or after one  *)
(* that shares its token: with a token of its own an equal or lower command   *)
(* never costs a caller its answer.                                           *)
PreemptedForAReason ==
  /\ ActorTypeOK
  /\ phase = "run" /\ (\E c \in Queued : Prio[c] > Prio[running]) => flag[Token[running]]
  /\ \A c \in Generations : reply[c] = "cancelled" =>
       \/ Token[c] \in asked
       \/ \E b \in Generations, d \in Cmd :
            /\ Token[b] = Token[c] /\ 0 < ticket[b] /\ ticket[b] < ticket[d]
            /\ d \in Shutdowns \/ Prio[d] > Prio[b]

(* Commands of one priority start in the order in which the channel accepted  *)
(* them, whether they were drained, awaited or picked up by the select.       *)
FifoWithinPriority ==
  [][\A c \in Generations : running' = c /\ running # c =>
       \A d \in Waiting : Prio[d] = Prio[c] => ticket[c] <= ticket[d]]_actorVars

(* Every accepted command has its effect, as long as consumers read what they *)
(* asked to be streamed: a caller is answered, by an error if the actor ends   *)
(* first, and a shutdown ends the actor, whatever is queued before it.         *)
EveryoneAnswered ==
  \A c \in Cmd : ticket[c] > 0 ~>
    IF c \in Shutdowns THEN phase = "stopped" ELSE reply[c] # "none"
=============================================================================
