----------------------------- MODULE SessionActor -----------------------------
(***************************************************************************)
(* One conversation session of liva-native-core (agent/session_actor.rs):   *)
(* SessionManager keeps one actor per session id and replaces it once it is *)
(* closed; the actor takes messages from a bounded mailbox, runs each turn  *)
(* in a task of its own on a copy of the state, takes the copy back when    *)
(* the task reports, and checkpoints it.                                    *)
(*                                                                          *)
(* A message is an identity; the state of the session is the set of the     *)
(* messages it has seen. Mode says what a message is: an ExecuteTurn in one *)
(* of the four queue modes, or                                              *)
(*   "guide"  SessionMessage::Steer      "stop"  SessionMessage::Interrupt  *)
(*   "close"  SessionMessage::Shutdown                                      *)
(* A turn is named by its first message. Time is abstract: a deadline or a  *)
(* timeout may expire whenever its branch of the select is enabled.         *)
(* Not modelled: trimming of old history, GetSnapshot (it changes nothing). *)
(***************************************************************************)
EXTENDS Naturals, Sequences, FiniteSets

CONSTANTS Msg,
          Mode,        \* what each message is
          MailCap,     \* capacity of the mailbox (64 in the code)
          MaxBacklog,  \* MAX_FOLLOWUP_QUEUE_DEPTH (16 in the code)
          SteerCap,    \* capacity of a turn's steering channel (8 in the code)
          Faults,      \* checkpointer operations that may ever fail
          MaxLives,    \* bound on the actors the manager spawns
          NoTurn

Modes == {"followup", "interrupt", "steer", "collect", "guide", "stop", "close"}

ASSUME SessionAssumption ==
  /\ Mode \in [Msg -> Modes]
  /\ MailCap \in Nat \ {0} /\ MaxBacklog \in Nat \ {0} /\ SteerCap \in Nat \ {0}
  /\ Faults \subseteq {"save", "load"}
  /\ MaxLives \in Nat \ {0}
  /\ NoTurn \notin Msg

VARIABLES
  handle,     \* which actor a caller's handle leads to, 0 before get_or_create
  lives,      \* actors spawned so far
  alive,      \* the last one still runs its loop
  mailbox,
  ticket,     \* history: position of a message in the order of the mailbox
  accepted,   \* history: messages the mailbox accepted
  reply,      \* what the caller was told
  status,     \* SessionStatus
  active,     \* active_turn, the ActiveTurn struct being named by its turn
  backlog,    \* followup_queue
  buffer,     \* requests of the collect_buffer, empty for None
  state,      \* AgentState of the actor
  saved,      \* the checkpoint in the database
  task,       \* the tasks spawned by start_turn
  applied,    \* steering instructions a turn has read
  broken      \* checkpointer operations that may fail in this behaviour

callVars == <<handle, lives, broken>>
vars == <<handle, lives, alive, mailbox, ticket, accepted, reply, status, active,
          backlog, buffer, state, saved, task, applied, broken>>

Replies == {"none", "done", "interrupted", "ok", "merged", "full", "preempted",
            "no turn", "closed"}

Turn == [lead : Msg, texts : SUBSET Msg, waiting : SUBSET Msg]

(* A task: its copy of the state, the responders it answers, its token. *)
Task == [phase : {"none", "running", "answered", "over", "lost"}, life : Nat,
         copy : SUBSET Msg, waiting : SUBSET Msg, cancelled : BOOLEAN,
         inbox : SUBSET Msg]
NoTask == [phase |-> "none", life |-> 0, copy |-> {}, waiting |-> {},
           cancelled |-> FALSE, inbox |-> {}]

In(phases) == {m \in Msg : task[m].phase \in phases}
Own == {m \in Msg : task[m].life = lives}
InMode(modes) == {m \in Msg : Mode[m] \in modes}

Elems(s) == {s[i] : i \in 1..Len(s)}

(* A one-shot responder answers once. *)
Answered(r, cs, what) == [m \in Msg |-> IF m \in cs /\ r[m] = "none" THEN what ELSE r[m]]

TypeOK ==
  /\ handle \in [Msg -> 0..MaxLives] /\ lives \in 0..MaxLives /\ alive \in BOOLEAN
  /\ mailbox \in Seq(Msg) /\ Len(mailbox) <= MailCap
  /\ ticket \in [Msg -> Nat] /\ accepted \in Nat
  /\ reply \in [Msg -> Replies]
  /\ status \in {"idle", "active", "closed"}
  /\ active \in Msg \cup {NoTurn}
  /\ backlog \in Seq(Turn) /\ Len(backlog) <= MaxBacklog
  /\ buffer \in Seq(Msg)
  /\ state \subseteq Msg /\ saved \subseteq Msg
  /\ task \in [Msg -> Task] /\ \A m \in Msg : Cardinality(task[m].inbox) <= SteerCap
  /\ applied \subseteq Msg /\ broken \subseteq Faults

Init ==
  /\ handle = [m \in Msg |-> 0] /\ lives = 0 /\ alive = FALSE
  /\ mailbox = <<>> /\ ticket = [m \in Msg |-> 0] /\ accepted = 0
  /\ reply = [m \in Msg |-> "none"]
  /\ status = "closed" /\ active = NoTurn /\ backlog = <<>> /\ buffer = <<>>
  /\ state = {} /\ saved = {}
  /\ task = [m \in Msg |-> NoTask] /\ applied = {}
  /\ broken \in SUBSET Faults

-----------------------------------------------------------------------------
(* Callers *)

(* get_or_create hands out the registered actor, or spawns one that starts  *)
(* from the checkpoint. A checkpoint that cannot be loaded counts as none.  *)
GetOrCreate(m) ==
  /\ handle[m] = 0
  /\ \/ /\ alive
        /\ UNCHANGED <<lives, alive, status, state>>
     \/ /\ ~alive /\ lives < MaxLives
        /\ lives' = lives + 1 /\ alive' = TRUE /\ status' = "idle"
        /\ \/ state' = saved
           \/ "load" \in broken /\ state' = {}
  /\ handle' = [handle EXCEPT ![m] = lives']
  /\ UNCHANGED <<mailbox, ticket, accepted, reply, active, backlog, buffer, saved, task, applied,
                 broken>>

(* send().await: the message enters the mailbox, or the actor has gone since *)
(* the handle was obtained.                                                  *)
Send(m) ==
  /\ handle[m] > 0 /\ ticket[m] = 0 /\ reply[m] = "none"
  /\ \/ /\ alive /\ handle[m] = lives /\ Len(mailbox) < MailCap
        /\ mailbox' = Append(mailbox, m)
        /\ accepted' = accepted + 1
        /\ ticket' = [ticket EXCEPT ![m] = accepted']
        /\ UNCHANGED reply
     \/ /\ ~alive \/ handle[m] # lives
        /\ reply' = Answered(reply, {m}, "closed")
        /\ UNCHANGED <<mailbox, ticket, accepted>>
  /\ UNCHANGED <<alive, status, active, backlog, buffer, state, saved, task, applied>>
  /\ UNCHANGED callVars

-----------------------------------------------------------------------------
(* Parts of the actor's handlers *)

(* checkpoint_state: a failing save is logged and forgotten. *)
Checkpoint(s) == \/ saved' = s
                 \/ "save" \in broken /\ saved' = saved

Single(m) == [lead |-> m, texts |-> {m}, waiting |-> {m}]

(* The task start_turn spawns, on a copy of the state s. *)
Spawned(t, s) == [phase |-> "running", life |-> lives, copy |-> s \cup t.texts,
                  waiting |-> t.waiting, cancelled |-> FALSE, inbox |-> {}]

Start(t) ==
  /\ status' = "active" /\ active' = t.lead
  /\ task' = [task EXCEPT ![t.lead] = Spawned(t, state)]

(* trigger_interrupt: the token of the active turn, if it still runs. *)
CancelActive == IF active \in In({"running"})
                THEN [task EXCEPT ![active].cancelled = TRUE] ELSE task

(* drain_and_reject_queues *)
Queued == (UNION {t.waiting : t \in Elems(backlog)}) \cup Elems(buffer)

(* Mutant: an interrupt keeps the backlog. *)
KeepBacklog(t) == <<t>> \o backlog
Preempted(t) == <<t>>

(* Mutant: the queue takes one turn too many. *)
RoomForOneMore == Len(backlog) <= MaxBacklog
BacklogHasRoom == Len(backlog) < MaxBacklog

(* The actor leaves its loop: the queues are rejected, the mailbox is dropped *)
(* with what it holds, a running turn loses the actor it would report to.     *)
(* Mutant: the callers of the collect buffer are forgotten.                   *)
LeftBehindButBuffer == Elems(mailbox) \cup UNION {t.waiting : t \in Elems(backlog)}
LeftBehind == Elems(mailbox) \cup Queued

Exit(r, left) ==
  /\ alive' = FALSE /\ status' = "closed" /\ active' = NoTurn
  /\ mailbox' = <<>> /\ backlog' = <<>> /\ buffer' = <<>>
  /\ reply' = Answered(r, left, "closed")

-----------------------------------------------------------------------------
(* The actor takes a message *)

Receive(m) ==
  /\ alive /\ mailbox # <<>> /\ m = Head(mailbox)
  /\ mailbox' = Tail(mailbox)
  /\ UNCHANGED <<ticket, accepted, alive>>
  /\ UNCHANGED callVars

(* The turn of m starts at once. *)
StartNow(m) ==
  /\ Start(Single(m))
  /\ UNCHANGED <<reply, backlog, buffer, state, saved, applied>>

Enqueue(m) ==
  \/ /\ BacklogHasRoom
     /\ backlog' = Append(backlog, Single(m))
     /\ UNCHANGED reply
  \/ /\ ~BacklogHasRoom
     /\ reply' = Answered(reply, {m}, "full")
     /\ UNCHANGED backlog

HandleFollowup(m) ==
  /\ Receive(m) /\ Mode[m] = "followup"
  /\ \/ status = "idle" /\ StartNow(m)
     \/ /\ status # "idle" /\ Enqueue(m)
        /\ UNCHANGED <<status, active, buffer, state, saved, task, applied>>

(* An interrupt waits for the turn it cancels. Mutant: not when the turn was *)
(* cancelled before.                                                         *)
MustWaitUnlessCancelled == active # NoTurn /\ ~task[active].cancelled
MustWait == status = "active"

HandleInterrupt(m) ==
  /\ Receive(m) /\ Mode[m] = "interrupt"
  /\ \/ ~MustWait /\ StartNow(m)
     \/ /\ MustWait
        /\ task' = CancelActive
        /\ backlog' = Preempted(Single(m)) /\ buffer' = <<>>
        /\ reply' = Answered(reply, Queued \ UNION {t.waiting : t \in Elems(backlog')}, "preempted")
        /\ UNCHANGED <<status, active, state, saved, applied>>

(* try_send into the active turn's channel: the receiver is gone once the   *)
(* turn is over, the channel may be full; the caller is told Ok regardless. *)
Steered(m) == IF /\ active \in In({"running"})
                 /\ Cardinality(task[active].inbox) < SteerCap
              THEN [task EXCEPT ![active].inbox = @ \cup {m}] ELSE task

HandleSteer(m) ==
  /\ Receive(m) /\ Mode[m] = "steer"
  /\ \/ active = NoTurn /\ StartNow(m)
     \/ /\ active # NoTurn
        /\ task' = Steered(m)
        /\ reply' = Answered(reply, {m}, "ok")
        /\ UNCHANGED <<status, active, backlog, buffer, state, saved, applied>>

HandleGuide(m) ==
  /\ Receive(m) /\ Mode[m] = "guide"
  /\ IF active = NoTurn THEN /\ reply' = Answered(reply, {m}, "no turn")
                             /\ UNCHANGED task
                        ELSE /\ task' = Steered(m)
                             /\ reply' = Answered(reply, {m}, "ok")
  /\ UNCHANGED <<status, active, backlog, buffer, state, saved, applied>>

LastIsCollect == backlog # <<>> /\ Mode[backlog[Len(backlog)].lead] = "collect"

HandleCollect(m) ==
  /\ Receive(m) /\ Mode[m] = "collect"
  /\ \/ /\ status = "active" /\ LastIsCollect
        /\ backlog' = [backlog EXCEPT ![Len(backlog)].texts = @ \cup {m}]
        /\ reply' = Answered(reply, {m}, "merged")
        /\ UNCHANGED buffer
     \/ /\ status = "active" /\ ~LastIsCollect
        /\ Enqueue(m)
        /\ UNCHANGED buffer
     \/ /\ status # "active"
        /\ buffer' = Append(buffer, m)
        /\ UNCHANGED <<reply, backlog>>
  /\ UNCHANGED <<status, active, state, saved, task, applied>>

HandleStop(m) ==
  /\ Receive(m) /\ Mode[m] = "stop"
  /\ task' = CancelActive
  /\ reply' = Answered(reply, {m}, "ok")
  /\ UNCHANGED <<status, active, backlog, buffer, state, saved, applied>>

HandleShutdown(m) ==
  /\ alive /\ mailbox # <<>> /\ m = Head(mailbox) /\ Mode[m] = "close"
  /\ Checkpoint(state)
  /\ Exit(Answered(reply, {m}, "ok"), LeftBehind)
  /\ UNCHANGED <<ticket, accepted, state, task, applied>>
  /\ UNCHANGED callVars

-----------------------------------------------------------------------------
(* The other branches of the select *)

(* flush_collect_buffer when the debounce is over: one turn for all. *)
FlushCollect ==
  /\ alive /\ buffer # <<>>
  /\ Start([lead |-> buffer[1], texts |-> Elems(buffer), waiting |-> Elems(buffer)])
  /\ buffer' = <<>>
  /\ UNCHANGED <<alive, mailbox, ticket, accepted, reply, backlog, state, saved, applied>>
  /\ UNCHANGED callVars

IdleTimeout ==
  /\ alive /\ status = "idle" /\ backlog = <<>> /\ buffer = <<>>
  /\ Checkpoint(state)
  /\ Exit(reply, LeftBehind)
  /\ UNCHANGED <<ticket, accepted, state, task, applied>>
  /\ UNCHANGED callVars

(* handle_turn_completion of a turn t of this actor. Mutants: the actor goes *)
(* idle without looking at its queue; it stays active; it checkpoints before *)
(* it takes the turn's state over.                                           *)
BacklogIgnored == <<>>
BacklogAfterTurn == backlog

StaysActive == "active"
StatusAfterLast == "idle"

StateBeforeTurn(t) == state
Checkpointed(t) == task[t].copy

Finished(t) == [task EXCEPT ![t] = [NoTask EXCEPT !.phase = "over", !.life = lives]]

TurnCompletes(t) ==
  /\ alive /\ t \in Own \cap In({"answered"})
  /\ state' = task[t].copy
  /\ Checkpoint(Checkpointed(t))
  /\ \/ /\ BacklogAfterTurn # <<>>
        /\ backlog' = Tail(backlog)
        /\ status' = "active" /\ active' = Head(backlog).lead
        /\ task' = [Finished(t) EXCEPT ![active'] = Spawned(Head(backlog), state')]
     \/ /\ BacklogAfterTurn = <<>>
        /\ status' = StatusAfterLast
        /\ active' = IF active = t THEN NoTurn ELSE active
        /\ task' = Finished(t)
        /\ UNCHANGED backlog
  /\ UNCHANGED <<alive, mailbox, ticket, accepted, reply, buffer, applied>>
  /\ UNCHANGED callVars

-----------------------------------------------------------------------------
(* The task of a turn *)

TakeSteering(t) ==
  /\ t \in In({"running"})
  /\ \E m \in task[t].inbox :
       /\ applied' = applied \cup {m}
       /\ task' = [task EXCEPT ![t].inbox = @ \ {m}]
  /\ UNCHANGED <<alive, mailbox, ticket, accepted, reply, status, active, backlog, buffer,
                 state, saved>>
  /\ UNCHANGED callVars

(* The turn ends, by itself or because it saw its token, and answers. Its   *)
(* steering channel is gone with what nobody read.                          *)
TurnAnswers(t) ==
  /\ t \in In({"running"})
  /\ \E r \in {"done"} \cup (IF task[t].cancelled THEN {"interrupted"} ELSE {}) :
       reply' = Answered(reply, task[t].waiting, r)
  /\ task' = [task EXCEPT ![t] = [@ EXCEPT !.phase = "answered", !.inbox = {},
                                          !.waiting = {}, !.cancelled = FALSE]]
  /\ UNCHANGED <<alive, mailbox, ticket, accepted, status, active, backlog, buffer,
                 state, saved, applied>>
  /\ UNCHANGED callVars

(* It reports to an actor that has left its loop. *)
ReportLost(t) ==
  /\ t \in In({"answered"}) /\ (~alive \/ t \notin Own)
  /\ task' = [task EXCEPT ![t] = [NoTask EXCEPT !.phase = "lost", !.life = task[t].life]]
  /\ UNCHANGED <<alive, mailbox, ticket, accepted, reply, status, active, backlog, buffer,
                 state, saved, applied>>
  /\ UNCHANGED callVars

-----------------------------------------------------------------------------
Handle(m) == \/ HandleFollowup(m) \/ HandleInterrupt(m) \/ HandleSteer(m)
             \/ HandleGuide(m) \/ HandleCollect(m) \/ HandleStop(m) \/ HandleShutdown(m)

Actor == FlushCollect \/ \E m \in Msg : Handle(m) \/ TurnCompletes(m)

TurnTask(t) == TurnAnswers(t) \/ ReportLost(t)

Next == \/ \E m \in Msg : GetOrCreate(m) \/ Send(m)
        \/ Actor \/ IdleTimeout
        \/ \E t \in Msg : TakeSteering(t) \/ TurnTask(t)

Spec == Init /\ [][Next]_vars

(* The actor's task and the tasks of its turns are scheduled, a generation   *)
(* ends, the debounce expires. A message is handled once and a turn reports  *)
(* once, so fairness to all these steps together exhausts each, in whatever  *)
(* order the select takes its ready branches. Nothing forces the idle        *)
(* timeout.                                                                  *)
FairSpec == Spec /\ WF_vars(Actor \/ \E t \in Msg : TurnTask(t))

-----------------------------------------------------------------------------
(* What the actor promises *)

(* "The Actor executing conversational turns sequentially for a single       *)
(* session": no two turns of one actor at a time.                            *)
OneTurnAtATime == Cardinality(Own \cap In({"running"})) <= 1

(* A collected message starts turns of its own, whatever runs.  *)
Uncollected == \A m \in InMode({"collect"}) : ticket[m] = 0

(* Without collected messages it keeps its word: no interrupt, steering turn  *)
(* or follow-up, and no completion that comes late, starts a second turn.     *)
TurnsAreSequential == Uncollected => OneTurnAtATime

(* A turn starts after every turn whose message came before: the backlog is  *)
(* FIFO, and an interrupt leaves nothing older behind that could run after   *)
(* it.                                                                       *)
TurnsStartInOrder ==
  [][\A m \in Msg, n \in Msg :
       Uncollected /\ task[m].phase = "none" /\ task'[m].phase = "running" /\ task[n].phase # "none"
         => ticket[n] < ticket[m]]_vars

(* No turn the actor has taken back is ever forgotten: with a checkpointer   *)
(* that works it is in the checkpoint, in this life of the actor and in the  *)
(* next ones, whatever later turns write.                                    *)
CompletedTurnsAreKept ==
  Uncollected /\ broken = {} => In({"over"}) \subseteq saved

(* Whoever is owed an answer waits in the mailbox, in a queue or with a turn  *)
(* that still runs, and nobody waits who has been answered: an actor that has *)
(* left its loop leaves nobody behind but with its turns.                     *)
Owed == {m \in Msg : ticket[m] > 0 /\ reply[m] = "none"}

NobodyIsStranded ==
  /\ Owed = Elems(mailbox) \cup Queued \cup UNION {task[t].waiting : t \in In({"running"})}
  /\ ~alive => mailbox = <<>> /\ Queued = {}

(* An idle actor has no queued turn that would wait for a completion that    *)
(* will not come (the queue is only served when a turn completes), and no    *)
(* turn of its own running or about to report: the idle timeout never throws *)
(* a turn away. And nobody is stranded.                                      *)
IdleIsSettled ==
  /\ TypeOK /\ NobodyIsStranded
  /\ Uncollected /\ alive /\ status = "idle" =>
       backlog = <<>> /\ Own \cap In({"running", "answered"}) = {}

(* Every message that entered the mailbox is answered, and the actor gets    *)
(* back to Idle, or ends.                                                    *)
EveryoneAnswered ==
  []<>(status # "active" /\ \A m \in Msg : ticket[m] > 0 => reply[m] # "none")
=============================================================================
