----------------------------- MODULE SessionProofs -----------------------------
(***************************************************************************)
(* Proofs about SessionActor for every set of messages and modes, every     *)
(* capacity, every number of lives and every fault of the checkpointer.     *)
(***************************************************************************)
EXTENDS SessionActor, FiniteSetTheorems, SequenceTheorems, TLAPS

-----------------------------------------------------------------------------
(* The inductive invariant. What orders the turns holds until a collected     *)
(* message is sent.                                                           *)

Started == {m \in Msg : task[m].phase # "none"}
Live == In({"running", "answered"})

(* The mailbox is in the order of its tickets, and nothing has a later one. *)
MailInv ==
  /\ \A m \in Msg : ticket[m] <= accepted
  /\ \A i \in 1..Len(mailbox) : ticket[mailbox[i]] > 0
  /\ \A i, j \in 1..Len(mailbox) : i < j => ticket[mailbox[i]] < ticket[mailbox[j]]

(* What was started is older than what is queued, and that than what is in    *)
(* the mailbox. A queued turn is one message.                                 *)
QueueInv ==
  /\ buffer = <<>>
  /\ \A i \in 1..Len(backlog) :
       backlog[i] = Single(backlog[i].lead) /\ ticket[backlog[i].lead] > 0
  /\ \A i, j \in 1..Len(backlog) : i < j => ticket[backlog[i].lead] < ticket[backlog[j].lead]
  /\ \A i \in 1..Len(backlog), j \in 1..Len(mailbox) : ticket[backlog[i].lead] < ticket[mailbox[j]]
  /\ \A m \in Started : ticket[m] > 0
  /\ \A m \in Started, i \in 1..Len(backlog) : ticket[m] < ticket[backlog[i].lead]
  /\ \A m \in Started, i \in 1..Len(mailbox) : ticket[m] < ticket[mailbox[i]]

(* The active turn is the one turn of this life that runs or is to report; a  *)
(* queue needs one to be served.                                              *)
TurnInv ==
  /\ alive => status \in {"idle", "active"}
  /\ ~alive => status = "closed" /\ mailbox = <<>>
  /\ status = "active" <=> active # NoTurn
  /\ status # "active" => backlog = <<>>
  /\ \A m \in Msg : task[m].life <= lives
  /\ \A m, n \in Own \cap Live : m = n
  /\ alive => \A m \in Own \cap Live : m = active
  /\ active # NoTurn => active \in Own \cap Live

(* What has been taken back is in the state, in the checkpoint and in the      *)
(* copy the next turn works on.                                                *)
KeepInv ==
  broken = {} =>
    /\ In({"over"}) \subseteq saved
    /\ alive => In({"over"}) \subseteq state
    /\ alive => \A m \in Own \cap Live : In({"over"}) \cup {m} \subseteq task[m].copy

Orderly == MailInv /\ QueueInv /\ TurnInv /\ KeepInv

FiniteInboxes == \A m \in Msg : IsFiniteSet(task[m].inbox)

(* Who waits for an answer, and where. *)

Distinct(s) == \A i, j \in 1..Len(s) : s[i] = s[j] => i = j
LeadsOf(b) == {b[i].lead : i \in 1..Len(b)}

(* Queued turns have different messages, and each waits for its own. *)
Lined(b) ==
  /\ \A i \in 1..Len(b) : b[i].waiting = {b[i].lead}
  /\ \A i, j \in 1..Len(b) : b[i].lead = b[j].lead => i = j

Waits == [t \in Msg |-> task[t].waiting]

(* The mailbox, the queues and the tasks share nobody, and a message whose turn *)
(* has started is in none of the queues.                                        *)
WaitSets ==
  /\ Elems(mailbox) \cap LeadsOf(backlog) = {} /\ Elems(mailbox) \cap Elems(buffer) = {}
  /\ LeadsOf(backlog) \cap Elems(buffer) = {}
  /\ Started \cap (Elems(mailbox) \cup LeadsOf(backlog) \cup Elems(buffer)) = {}
  /\ \A t \in Msg : /\ Waits[t] \cap (Elems(mailbox) \cup LeadsOf(backlog) \cup Elems(buffer)) = {}
                    /\ t \notin Started => Waits[t] = {}
  /\ \A t, u \in Msg : t # u => Waits[t] \cap Waits[u] = {}
  /\ \A m : m \in Owed <=>
       \/ m \in Elems(mailbox) \cup LeadsOf(backlog) \cup Elems(buffer)
       \/ \E t \in Msg : m \in Waits[t]

WaitInv ==
  /\ Distinct(mailbox) /\ Distinct(buffer) /\ Lined(backlog) /\ WaitSets
  /\ \A m \in Started : ticket[m] > 0
  /\ \A t \in Msg : task[t].phase # "running" => Waits[t] = {}
  /\ ~alive => mailbox = <<>> /\ backlog = <<>> /\ buffer = <<>>

IInv == TypeOK /\ FiniteInboxes /\ WaitInv /\ (Uncollected => Orderly)

-----------------------------------------------------------------------------
(* The tasks *)

TasksOK ==
  /\ task \in [Msg -> Task]
  /\ \A m \in Msg : IsFiniteSet(task[m].inbox) /\ Cardinality(task[m].inbox) <= SteerCap

LEMMA EmptyInbox == IsFiniteSet({}) /\ Cardinality({}) <= SteerCap
BY FS_EmptySet, SessionAssumption

(* A new task, or one that is over, has nothing in its channel. *)
LEMMA NewTask ==
  ASSUME NEW t \in Turn, NEW s \in SUBSET Msg, lives \in Nat
  PROVE  Spawned(t, s) \in Task /\ Spawned(t, s).inbox = {}
BY DEF Spawned, Task, Turn

LEMMA OldTask ==
  ASSUME NEW l \in Nat, NEW p \in {"over", "lost"}
  PROVE  /\ [NoTask EXCEPT !.phase = p, !.life = l] \in Task
         /\ [NoTask EXCEPT !.phase = p, !.life = l].inbox = {}
BY DEF NoTask, Task

LEMMA PutTask ==
  ASSUME TasksOK, NEW m \in Msg, NEW k \in Task, NEW tk, tk = [task EXCEPT ![m] = k],
         IsFiniteSet(k.inbox), Cardinality(k.inbox) <= SteerCap
  PROVE  /\ tk \in [Msg -> Task]
         /\ \A n \in Msg : IsFiniteSet(tk[n].inbox) /\ Cardinality(tk[n].inbox) <= SteerCap
BY DEF TasksOK

LEMMA CancelTask == ASSUME TasksOK, task' = CancelActive PROVE TasksOK'
<1>1. CASE active \notin In({"running"})
  BY <1>1 DEF TasksOK, CancelActive
<1>2. CASE active \in In({"running"})
  <2> DEFINE k == [task[active] EXCEPT !.cancelled = TRUE]
  <2>1. active \in Msg /\ task' = [task EXCEPT ![active] = k]
    BY <1>2 DEF CancelActive, In
  <2>2. k \in Task /\ k.inbox = task[active].inbox
    BY <2>1 DEF TasksOK, Task
  <2>3. IsFiniteSet(k.inbox) /\ Cardinality(k.inbox) <= SteerCap
    BY <2>1, <2>2 DEF TasksOK
  <2> HIDE DEF k
  <2>4. QED BY <2>1, <2>2, <2>3, PutTask DEF TasksOK
<1>3. QED BY <1>1, <1>2

LEMMA SteerTask ==
  ASSUME TasksOK, NEW m \in Msg, task' = Steered(m) PROVE TasksOK'
<1>1. CASE ~(active \in In({"running"}) /\ Cardinality(task[active].inbox) < SteerCap)
  BY <1>1 DEF TasksOK, Steered
<1>2. CASE active \in In({"running"}) /\ Cardinality(task[active].inbox) < SteerCap
  <2> DEFINE box == task[active].inbox \cup {m}
             k == [task[active] EXCEPT !.inbox = box]
  <2>1. active \in Msg /\ task' = [task EXCEPT ![active] = k]
    BY <1>2 DEF Steered, In
  <2>2. IsFiniteSet(task[active].inbox) /\ Cardinality(task[active].inbox) \in Nat
    BY <2>1, FS_CardinalityType DEF TasksOK
  <2>3. IsFiniteSet(box) /\ Cardinality(box) <= SteerCap
    <3>1. /\ IsFiniteSet(box)
          /\ Cardinality(box) = IF m \in task[active].inbox THEN Cardinality(task[active].inbox)
                                ELSE Cardinality(task[active].inbox) + 1
      BY <2>2, FS_AddElement
    <3>2. QED BY <1>2, <2>2, <3>1, SessionAssumption
  <2>4. k \in Task /\ k.inbox = box
    BY <2>1 DEF TasksOK, Task
  <2> HIDE DEF k, box
  <2>6. QED BY <2>1, <2>3, <2>4, PutTask DEF TasksOK
<1>3. QED BY <1>1, <1>2

LEMMA ReadTask ==
  ASSUME TasksOK, NEW t \in Msg, NEW m \in task[t].inbox,
         task' = [task EXCEPT ![t].inbox = @ \ {m}]
  PROVE  TasksOK'
<1> DEFINE less == task[t].inbox \ {m}
           k == [task[t] EXCEPT !.inbox = less]
<1>1. IsFiniteSet(task[t].inbox) /\ Cardinality(task[t].inbox) <= SteerCap
  BY DEF TasksOK
<1>2. IsFiniteSet(less) /\ Cardinality(less) <= Cardinality(task[t].inbox)
  BY <1>1, FS_Subset
<1>3. Cardinality(less) <= SteerCap
  BY <1>1, <1>2, FS_CardinalityType, SessionAssumption
<1>4. less \in SUBSET Msg
  BY DEF TasksOK, Task
<1>5. task' = [task EXCEPT ![t] = k]
  OBVIOUS
<1> HIDE DEF less
<1>6. k \in Task /\ k.inbox = less
  BY <1>4 DEF TasksOK, Task
<1> HIDE DEF k
<1>7. QED BY <1>2, <1>3, <1>5, <1>6, PutTask DEF TasksOK

LEMMA AnswerTask ==
  ASSUME TasksOK, NEW t \in Msg,
         task' = [task EXCEPT ![t] = [@ EXCEPT !.phase = "answered", !.inbox = {},
                                              !.waiting = {}, !.cancelled = FALSE]]
  PROVE  TasksOK'
<1> DEFINE k == [task[t] EXCEPT !.phase = "answered", !.inbox = {},
                                !.waiting = {}, !.cancelled = FALSE]
<1>1. task' = [task EXCEPT ![t] = k]
  OBVIOUS
<1>2. k \in Task /\ k.inbox = {}
  <2>1. task[t] \in Task
    BY DEF TasksOK
  <2>2. QED BY <2>1 DEF Task
<1> HIDE DEF k
<1>3. QED BY <1>1, <1>2, EmptyInbox, PutTask DEF TasksOK

(* What the rest of the type invariant says. *)
Rest ==
  /\ handle \in [Msg -> 0..MaxLives] /\ lives \in 0..MaxLives /\ alive \in BOOLEAN
  /\ mailbox \in Seq(Msg) /\ Len(mailbox) <= MailCap
  /\ ticket \in [Msg -> Nat] /\ accepted \in Nat
  /\ reply \in [Msg -> Replies]
  /\ status \in {"idle", "active", "closed"}
  /\ active \in Msg \cup {NoTurn}
  /\ backlog \in Seq(Turn) /\ Len(backlog) <= MaxBacklog
  /\ buffer \in Seq(Msg)
  /\ state \subseteq Msg /\ saved \subseteq Msg
  /\ applied \subseteq Msg /\ broken \subseteq Faults

LEMMA TypeParts == TypeOK /\ FiniteInboxes <=> Rest /\ TasksOK
BY DEF TypeOK, FiniteInboxes, Rest, TasksOK

LEMMA TypePartsNext == TypeOK' /\ FiniteInboxes' <=> Rest' /\ TasksOK'
BY DEF TypeOK, FiniteInboxes, Rest, TasksOK

LEMMA AnsweredType ==
  ASSUME NEW r \in [Msg -> Replies], NEW cs, NEW what \in Replies
  PROVE  Answered(r, cs, what) \in [Msg -> Replies]
BY DEF Answered

LEMMA ReplyKinds ==
  /\ "none" \in Replies /\ "done" \in Replies /\ "interrupted" \in Replies /\ "ok" \in Replies
  /\ "merged" \in Replies /\ "full" \in Replies /\ "preempted" \in Replies
  /\ "no turn" \in Replies /\ "closed" \in Replies
BY DEF Replies

LEMMA SingleType == ASSUME NEW m \in Msg PROVE Single(m) \in Turn /\ Single(m).lead = m
BY DEF Single, Turn

LEMMA InitType == Init => TypeOK /\ FiniteInboxes
<1> SUFFICES ASSUME Init PROVE Rest /\ TasksOK
  BY TypeParts
<1>1. Rest
  <2>1. /\ handle \in [Msg -> 0..MaxLives] /\ ticket \in [Msg -> Nat] /\ reply \in [Msg -> Replies]
        /\ broken \subseteq Faults
    BY SessionAssumption DEF Init, Replies
  <2>2. mailbox \in Seq(Msg) /\ backlog \in Seq(Turn) /\ buffer \in Seq(Msg)
    BY DEF Init
  <2>3. Len(mailbox) = 0 /\ Len(backlog) = 0
    BY DEF Init
  <2>4. lives \in 0..MaxLives /\ accepted \in Nat
    BY SessionAssumption DEF Init
  <2>6. /\ alive \in BOOLEAN
        /\ status \in {"idle", "active", "closed"} /\ active \in Msg \cup {NoTurn}
        /\ state \subseteq Msg /\ saved \subseteq Msg /\ applied \subseteq Msg
    BY DEF Init
  <2>5. QED BY <2>1, <2>2, <2>3, <2>4, <2>6, SessionAssumption DEF Rest
<1>2. TasksOK
  BY EmptyInbox DEF Init, TasksOK, NoTask, Task
<1>3. QED BY <1>1, <1>2

-----------------------------------------------------------------------------
(* Type correctness *)

LEMMA CallersType ==
  ASSUME Rest, TasksOK, NEW m \in Msg, GetOrCreate(m) \/ Send(m) PROVE Rest' /\ TasksOK'
<1>1. CASE GetOrCreate(m)
  <2>1. TasksOK'
    BY <1>1 DEF GetOrCreate, TasksOK
  <2>2. lives' \in 0..MaxLives
    BY <1>1, SessionAssumption DEF GetOrCreate, Rest
  <2>3. handle' \in [Msg -> 0..MaxLives]
    BY <1>1, <2>2 DEF GetOrCreate, Rest
  <2>4. alive' \in BOOLEAN /\ status' \in {"idle", "active", "closed"} /\ state' \subseteq Msg
    BY <1>1 DEF GetOrCreate, Rest
  <2>5. QED BY <1>1, <2>1, <2>2, <2>3, <2>4 DEF GetOrCreate, Rest
<1>2. CASE Send(m)
  <2>1. TasksOK'
    BY <1>2 DEF Send, TasksOK
  <2>2. mailbox' \in Seq(Msg) /\ Len(mailbox') <= MailCap
    <3>1. Append(mailbox, m) \in Seq(Msg) /\ Len(Append(mailbox, m)) = Len(mailbox) + 1
      BY AppendProperties DEF Rest
    <3>2. mailbox' = mailbox \/ (Len(mailbox) < MailCap /\ mailbox' = Append(mailbox, m))
      BY <1>2 DEF Send
    <3>3. mailbox \in Seq(Msg) /\ Len(mailbox) \in Nat /\ Len(mailbox) <= MailCap
      BY LenProperties DEF Rest
    <3>4. QED BY <3>1, <3>2, <3>3, SessionAssumption
  <2>3. accepted' \in Nat /\ ticket' \in [Msg -> Nat]
    BY <1>2 DEF Send, Rest
  <2>4. reply' \in [Msg -> Replies]
    <3>1. reply' = reply \/ reply' = Answered(reply, {m}, "closed")
      BY <1>2 DEF Send
    <3>2. reply \in [Msg -> Replies]
      BY DEF Rest
    <3>3. Answered(reply, {m}, "closed") \in [Msg -> Replies]
      BY <3>2, AnsweredType, ReplyKinds
    <3>4. QED BY <3>1, <3>2, <3>3
  <2>5. QED BY <1>2, <2>1, <2>2, <2>3, <2>4 DEF Send, Rest, callVars
<1>3. QED BY <1>1, <1>2

LEMMA StartType ==
  ASSUME Rest, TasksOK, NEW t \in Turn, Start(t)
  PROVE  TasksOK' /\ status' \in {"idle", "active", "closed"} /\ active' \in Msg \cup {NoTurn}
<1>1. state \in SUBSET Msg /\ lives \in Nat /\ t.lead \in Msg
  BY SessionAssumption DEF Rest, Turn
<1>2. Spawned(t, state) \in Task /\ Spawned(t, state).inbox = {}
  BY <1>1, NewTask
<1>3. TasksOK'
  BY <1>1, <1>2, EmptyInbox, PutTask DEF Start, TasksOK
<1>4. QED BY <1>1, <1>3 DEF Start

LEMMA StartNowType ==
  ASSUME Rest, TasksOK, NEW m \in Msg, StartNow(m), mailbox' = Tail(mailbox), mailbox # <<>>,
         UNCHANGED <<ticket, accepted, alive>>, UNCHANGED callVars
  PROVE  Rest' /\ TasksOK'
<1>1. Single(m) \in Turn
  BY SingleType
<1>2. TasksOK' /\ status' \in {"idle", "active", "closed"} /\ active' \in Msg \cup {NoTurn}
  BY <1>1, StartType DEF StartNow
<1>3. mailbox' \in Seq(Msg) /\ Len(mailbox') <= MailCap
  BY SessionAssumption DEF Rest
<1>4. QED BY <1>2, <1>3 DEF StartNow, Rest, callVars

LEMMA ReceiveType ==
  ASSUME Rest, NEW m \in Msg, Receive(m)
  PROVE  /\ mailbox' \in Seq(Msg) /\ Len(mailbox') <= MailCap
         /\ UNCHANGED <<ticket, accepted, alive, handle, lives, broken>>
         /\ mailbox # <<>> /\ mailbox' = Tail(mailbox)
BY SessionAssumption DEF Rest, Receive, callVars

LEMMA EnqueueType ==
  ASSUME Rest, NEW m \in Msg, Enqueue(m)
  PROVE  /\ backlog' \in Seq(Turn) /\ Len(backlog') <= MaxBacklog
         /\ reply' \in [Msg -> Replies]
<1>1. Single(m) \in Turn
  BY SingleType
<1>2. backlog' \in Seq(Turn) /\ Len(backlog') <= MaxBacklog
  <2>1. Append(backlog, Single(m)) \in Seq(Turn) /\ Len(Append(backlog, Single(m))) = Len(backlog) + 1
    BY <1>1, AppendProperties DEF Rest
  <2>2. backlog' = backlog \/ (Len(backlog) < MaxBacklog /\ backlog' = Append(backlog, Single(m)))
    BY DEF Enqueue, BacklogHasRoom
  <2>3. backlog \in Seq(Turn) /\ Len(backlog) \in Nat /\ Len(backlog) <= MaxBacklog
    BY LenProperties DEF Rest
  <2>4. QED BY <2>1, <2>2, <2>3, SessionAssumption
<1>3. reply' \in [Msg -> Replies]
  <2>1. reply' = reply \/ reply' = Answered(reply, {m}, "full")
    BY DEF Enqueue
  <2>2. reply \in [Msg -> Replies]
    BY DEF Rest
  <2>3. Answered(reply, {m}, "full") \in [Msg -> Replies]
    BY <2>2, AnsweredType, ReplyKinds
  <2>4. QED BY <2>1, <2>2, <2>3
<1>4. QED BY <1>2, <1>3

LEMMA HandleType ==
  ASSUME Rest, TasksOK, NEW m \in Msg, Handle(m) PROVE Rest' /\ TasksOK'
<1>1. CASE HandleFollowup(m)
  <2>1. CASE StartNow(m)
    BY <1>1, <2>1, StartNowType DEF HandleFollowup, Receive
  <2>2. CASE Enqueue(m) /\ UNCHANGED <<status, active, buffer, state, saved, task, applied>>
    <3>1. TasksOK'
      BY <2>2 DEF TasksOK
    <3>2. QED BY <1>1, <2>2, <3>1, EnqueueType, ReceiveType DEF HandleFollowup, Rest
  <2>3. QED BY <1>1, <2>1, <2>2 DEF HandleFollowup
<1>2. CASE HandleInterrupt(m)
  <2>1. CASE StartNow(m)
    BY <1>2, <2>1, StartNowType DEF HandleInterrupt, Receive
  <2>2. CASE /\ MustWait
             /\ task' = CancelActive
             /\ backlog' = Preempted(Single(m)) /\ buffer' = <<>>
             /\ reply' = Answered(reply, Queued \ UNION {t.waiting : t \in Elems(backlog')}, "preempted")
             /\ UNCHANGED <<status, active, state, saved, applied>>
    <3>1. TasksOK'
      BY <2>2, CancelTask
    <3>2. backlog' \in Seq(Turn) /\ Len(backlog') <= MaxBacklog /\ buffer' \in Seq(Msg)
      BY <2>2, SingleType, SessionAssumption DEF Preempted
    <3>3. reply' \in [Msg -> Replies]
      BY <2>2, AnsweredType, ReplyKinds DEF Rest
    <3>4. QED BY <1>2, <2>2, <3>1, <3>2, <3>3, ReceiveType DEF HandleInterrupt, Rest
  <2>3. QED BY <1>2, <2>1, <2>2 DEF HandleInterrupt
<1>3. CASE HandleSteer(m)
  <2>1. CASE StartNow(m)
    BY <1>3, <2>1, StartNowType DEF HandleSteer, Receive
  <2>2. CASE /\ active # NoTurn
             /\ task' = Steered(m)
             /\ reply' = Answered(reply, {m}, "ok")
             /\ UNCHANGED <<status, active, backlog, buffer, state, saved, applied>>
    <3>1. TasksOK'
      BY <2>2, SteerTask
    <3>2. reply' \in [Msg -> Replies]
      BY <2>2, AnsweredType, ReplyKinds DEF Rest
    <3>3. QED BY <1>3, <2>2, <3>1, <3>2, ReceiveType DEF HandleSteer, Rest
  <2>3. QED BY <1>3, <2>1, <2>2 DEF HandleSteer
<1>4. CASE HandleGuide(m)
  <2>1. TasksOK'
    BY <1>4, SteerTask DEF HandleGuide, TasksOK
  <2>2. reply' \in [Msg -> Replies]
    <3>1. reply' = Answered(reply, {m}, "no turn") \/ reply' = Answered(reply, {m}, "ok")
      BY <1>4 DEF HandleGuide
    <3>2. reply \in [Msg -> Replies]
      BY DEF Rest
    <3>3. Answered(reply, {m}, "no turn") \in [Msg -> Replies] /\ Answered(reply, {m}, "ok") \in [Msg -> Replies]
      BY <3>2, AnsweredType, ReplyKinds
    <3>4. QED BY <3>1, <3>2, <3>3
  <2>3. QED BY <1>4, <2>1, <2>2, ReceiveType DEF HandleGuide, Rest
<1>5. CASE HandleCollect(m)
  <2>0. TasksOK'
    BY <1>5 DEF HandleCollect, TasksOK
  <2>1. CASE status = "active" /\ LastIsCollect
    <3> DEFINE t == [backlog[Len(backlog)] EXCEPT !.texts = @ \cup {m}]
    <3>1. Len(backlog) \in 1..Len(backlog) /\ backlog[Len(backlog)] \in Turn
      BY <2>1 DEF LastIsCollect, Rest
    <3>2. t \in Turn
      BY <3>1 DEF Turn
    <3>3. backlog' = [backlog EXCEPT ![Len(backlog)] = t]
      BY <1>5, <2>1 DEF HandleCollect
    <3> HIDE DEF t
    <3>4. backlog' \in Seq(Turn) /\ Len(backlog') = Len(backlog)
      BY <3>1, <3>2, <3>3 DEF Rest
    <3>5. reply' \in [Msg -> Replies] /\ buffer' = buffer
      <4>1. reply' = Answered(reply, {m}, "merged") /\ buffer' = buffer
        BY <1>5, <2>1 DEF HandleCollect
      <4>2. QED BY <4>1, AnsweredType, ReplyKinds DEF Rest
    <3>6. QED BY <1>5, <2>0, <3>4, <3>5, ReceiveType DEF HandleCollect, Rest
  <2>2. CASE status = "active" /\ ~LastIsCollect
    <3>1. Enqueue(m) /\ buffer' = buffer
      BY <1>5, <2>2 DEF HandleCollect
    <3>2. QED BY <1>5, <2>0, <3>1, EnqueueType, ReceiveType DEF HandleCollect, Rest
  <2>3. CASE status # "active"
    <3>1. buffer' \in Seq(Msg) /\ UNCHANGED <<reply, backlog>>
      <4>1. buffer' = Append(buffer, m) /\ UNCHANGED <<reply, backlog>>
        BY <1>5, <2>3 DEF HandleCollect
      <4>2. QED BY <4>1, AppendProperties DEF Rest
    <3>2. QED BY <1>5, <2>0, <3>1, ReceiveType DEF HandleCollect, Rest
  <2>4. QED BY <2>1, <2>2, <2>3
<1>6. CASE HandleStop(m)
  <2>1. TasksOK'
    BY <1>6, CancelTask DEF HandleStop
  <2>2. reply' \in [Msg -> Replies]
    BY <1>6, AnsweredType, ReplyKinds DEF HandleStop, Rest
  <2>3. QED BY <1>6, <2>1, <2>2, ReceiveType DEF HandleStop, Rest
<1>7. CASE HandleShutdown(m)
  <2>1. TasksOK'
    BY <1>7 DEF HandleShutdown, TasksOK
  <2>2. reply' \in [Msg -> Replies]
    BY <1>7, AnsweredType, ReplyKinds DEF HandleShutdown, Exit, Rest
  <2>3. saved' \subseteq Msg
    BY <1>7 DEF HandleShutdown, Checkpoint, Rest
  <2>4. /\ mailbox' = <<>> /\ backlog' = <<>> /\ buffer' = <<>>
        /\ Len(mailbox') <= MailCap /\ Len(backlog') <= MaxBacklog
    BY <1>7, SessionAssumption DEF HandleShutdown, Exit
  <2>5. alive' \in BOOLEAN /\ status' = "closed" /\ active' = NoTurn
    BY <1>7 DEF HandleShutdown, Exit
  <2>6. UNCHANGED <<handle, lives, broken, ticket, accepted, state, applied>>
    BY <1>7 DEF HandleShutdown, callVars
  <2>7. QED BY <2>1, <2>2, <2>3, <2>4, <2>5, <2>6 DEF Rest
<1>8. QED BY <1>1, <1>2, <1>3, <1>4, <1>5, <1>6, <1>7 DEF Handle

LEMMA OthersType ==
  ASSUME Rest, TasksOK, FlushCollect \/ IdleTimeout PROVE Rest' /\ TasksOK'
<1>1. CASE FlushCollect
  <2> DEFINE t == [lead |-> buffer[1], texts |-> Elems(buffer), waiting |-> Elems(buffer)]
  <2>1. buffer[1] \in Msg /\ Elems(buffer) \subseteq Msg
    BY <1>1 DEF FlushCollect, Elems, Rest
  <2>2. t \in Turn
    BY <2>1 DEF Turn
  <2>3. Start(t)
    BY <1>1 DEF FlushCollect
  <2> HIDE DEF t
  <2>4. TasksOK' /\ status' \in {"idle", "active", "closed"} /\ active' \in Msg \cup {NoTurn}
    BY <2>2, <2>3, StartType
  <2>5. buffer' \in Seq(Msg)
    BY <1>1 DEF FlushCollect
  <2>6. QED BY <1>1, <2>4, <2>5 DEF FlushCollect, Rest, callVars
<1>2. CASE IdleTimeout
  <2>1. TasksOK'
    BY <1>2 DEF IdleTimeout, TasksOK
  <2>2. reply' \in [Msg -> Replies]
    BY <1>2, AnsweredType, ReplyKinds DEF IdleTimeout, Exit, Rest
  <2>3. saved' \subseteq Msg
    BY <1>2 DEF IdleTimeout, Checkpoint, Rest
  <2>4. /\ mailbox' = <<>> /\ backlog' = <<>> /\ buffer' = <<>>
        /\ Len(mailbox') <= MailCap /\ Len(backlog') <= MaxBacklog
    BY <1>2, SessionAssumption DEF IdleTimeout, Exit
  <2>5. alive' \in BOOLEAN /\ status' = "closed" /\ active' = NoTurn
    BY <1>2 DEF IdleTimeout, Exit
  <2>6. UNCHANGED <<handle, lives, broken, ticket, accepted, state, applied>>
    BY <1>2 DEF IdleTimeout, callVars
  <2>7. QED BY <2>1, <2>2, <2>3, <2>4, <2>5, <2>6 DEF Rest
<1>3. QED BY <1>1, <1>2

LEMMA CompletionType ==
  ASSUME Rest, TasksOK, NEW t \in Msg, TurnCompletes(t) PROVE Rest' /\ TasksOK'
<1>1. lives \in Nat /\ task[t].copy \in SUBSET Msg
  BY SessionAssumption DEF Rest, TasksOK, Task
<1>2. state' \in SUBSET Msg /\ saved' \in SUBSET Msg
  BY <1>1 DEF TurnCompletes, Checkpoint, Checkpointed, Rest
<1>3. /\ Finished(t) \in [Msg -> Task]
      /\ \A n \in Msg : IsFiniteSet(Finished(t)[n].inbox) /\ Cardinality(Finished(t)[n].inbox) <= SteerCap
  <2> DEFINE k == [NoTask EXCEPT !.phase = "over", !.life = lives]
  <2>1. k \in Task /\ k.inbox = {}
    BY <1>1, OldTask
  <2>2. Finished(t) = [task EXCEPT ![t] = k]
    BY DEF Finished
  <2> HIDE DEF k
  <2>3. QED BY <2>1, <2>2, EmptyInbox, PutTask
<1>4. CASE backlog # <<>>
  <2>1. Head(backlog) \in Turn /\ Head(backlog).lead \in Msg
    <3>1. Head(backlog) \in Turn
      BY <1>4, HeadTailProperties DEF Rest
    <3>2. QED BY <3>1 DEF Turn
  <2>2. /\ backlog' = Tail(backlog) /\ status' = "active" /\ active' = Head(backlog).lead
        /\ task' = [Finished(t) EXCEPT ![active'] = Spawned(Head(backlog), state')]
    BY <1>4 DEF TurnCompletes, BacklogAfterTurn
  <2>3. Spawned(Head(backlog), state') \in Task /\ Spawned(Head(backlog), state').inbox = {}
    BY <1>1, <1>2, <2>1, NewTask
  <2>4. TasksOK'
    BY <1>3, <2>1, <2>2, <2>3, EmptyInbox DEF TasksOK
  <2>5. backlog' \in Seq(Turn) /\ Len(backlog') <= MaxBacklog
    BY <1>4, <2>2, SessionAssumption DEF Rest
  <2>6. QED BY <1>2, <2>1, <2>2, <2>4, <2>5 DEF TurnCompletes, Rest, callVars
<1>5. CASE backlog = <<>>
  <2>1. status' = "idle" /\ active' \in {active, NoTurn} /\ task' = Finished(t) /\ UNCHANGED backlog
    BY <1>5 DEF TurnCompletes, BacklogAfterTurn, StatusAfterLast
  <2>2. TasksOK'
    BY <1>3, <2>1 DEF TasksOK
  <2>3. QED BY <1>2, <2>1, <2>2 DEF TurnCompletes, Rest, callVars
<1>6. QED BY <1>4, <1>5

LEMMA TaskType ==
  ASSUME Rest, TasksOK, NEW t \in Msg, TakeSteering(t) \/ TurnTask(t) PROVE Rest' /\ TasksOK'
<1>1. CASE TakeSteering(t)
  <2>1. PICK m \in task[t].inbox : applied' = applied \cup {m} /\ task' = [task EXCEPT ![t].inbox = @ \ {m}]
    BY <1>1 DEF TakeSteering
  <2>2. TasksOK'
    BY <2>1, ReadTask
  <2>3. m \in Msg
    BY DEF TasksOK, Task
  <2>4. QED BY <1>1, <2>1, <2>2, <2>3 DEF TakeSteering, Rest, callVars
<1>2. CASE TurnAnswers(t)
  <2>1. TasksOK'
    BY <1>2, AnswerTask DEF TurnAnswers
  <2>2. reply' \in [Msg -> Replies]
    <3>1. \E r \in {"done", "interrupted"} : reply' = Answered(reply, task[t].waiting, r)
      BY <1>2 DEF TurnAnswers
    <3>2. reply \in [Msg -> Replies]
      BY DEF Rest
    <3>3. \A r \in {"done", "interrupted"} : Answered(reply, task[t].waiting, r) \in [Msg -> Replies]
      BY <3>2, AnsweredType, ReplyKinds
    <3>4. QED BY <3>1, <3>2, <3>3
  <2>3. QED BY <1>2, <2>1, <2>2 DEF TurnAnswers, Rest, callVars
<1>3. CASE ReportLost(t)
  <2>1. task[t].life \in Nat
    BY DEF TasksOK, Task
  <2>2. TasksOK'
    BY <1>3, <2>1, OldTask, EmptyInbox, PutTask DEF ReportLost, TasksOK
  <2>3. QED BY <1>3, <2>2 DEF ReportLost, Rest, callVars
<1>4. QED BY <1>1, <1>2, <1>3 DEF TurnTask

LEMMA TypeStep == ASSUME Rest, TasksOK, [Next]_vars PROVE Rest' /\ TasksOK'
<1>1. CASE UNCHANGED vars
  BY <1>1 DEF vars, Rest, TasksOK
<1>2. QED
  BY <1>1, CallersType, HandleType, OthersType, CompletionType, TaskType DEF Next, Actor

-----------------------------------------------------------------------------
(* The order of the turns *)

(* A step that starts, ends or renames no turn. *)
SameTurns ==
  \A n \in Msg : /\ task'[n].phase = task[n].phase /\ task'[n].life = task[n].life
                 /\ task'[n].copy = task[n].copy /\ task'[n].waiting = task[n].waiting

LEMMA CancelSame == ASSUME TasksOK, task' = CancelActive PROVE SameTurns
<1>1. CASE active \notin In({"running"})
  BY <1>1 DEF SameTurns, CancelActive
<1>2. CASE active \in In({"running"})
  <2> DEFINE k == [task[active] EXCEPT !.cancelled = TRUE]
  <2>1. active \in Msg /\ task' = [task EXCEPT ![active] = k]
    BY <1>2 DEF CancelActive, In
  <2>2. /\ k.phase = task[active].phase /\ k.life = task[active].life
        /\ k.copy = task[active].copy /\ k.waiting = task[active].waiting
    BY <2>1 DEF TasksOK, Task
  <2> HIDE DEF k
  <2>3. QED BY <2>1, <2>2 DEF SameTurns, TasksOK
<1>3. QED BY <1>1, <1>2

LEMMA InboxSame ==
  ASSUME TasksOK, NEW t \in Msg, NEW box, task' = [task EXCEPT ![t].inbox = box] PROVE SameTurns
<1> DEFINE k == [task[t] EXCEPT !.inbox = box]
<1>1. task' = [task EXCEPT ![t] = k]
  OBVIOUS
<1>2. /\ k.phase = task[t].phase /\ k.life = task[t].life
      /\ k.copy = task[t].copy /\ k.waiting = task[t].waiting
  BY DEF TasksOK, Task
<1> HIDE DEF k
<1>3. QED BY <1>1, <1>2 DEF SameTurns, TasksOK

LEMMA SteerSame == ASSUME TasksOK, NEW m \in Msg, task' = Steered(m) PROVE SameTurns
<1>1. CASE ~(active \in In({"running"}) /\ Cardinality(task[active].inbox) < SteerCap)
  BY <1>1 DEF SameTurns, Steered
<1>2. CASE active \in In({"running"}) /\ Cardinality(task[active].inbox) < SteerCap
  <2>1. active \in Msg /\ task' = [task EXCEPT ![active].inbox = task[active].inbox \cup {m}]
    BY <1>2 DEF Steered, In
  <2>2. QED BY <2>1, InboxSame
<1>3. QED BY <1>1, <1>2

(* The parts of the order that speak of tasks do not see such a step. *)
LEMMA SameSets ==
  ASSUME TasksOK, TasksOK', SameTurns, lives' = lives
  PROVE  Started' = Started /\ Own' = Own /\ Live' = Live /\ In({"over"})' = In({"over"})
BY DEF SameTurns, Started, Own, Live, In

LEMMA SameTurnInv ==
  ASSUME Rest, TasksOK, TasksOK', SameTurns, TurnInv, alive, mailbox # <<>>,
         UNCHANGED <<lives, alive, status, active>>,
         status # "active" => backlog' = <<>>
  PROVE  TurnInv'
<1>1. Started' = Started /\ Own' = Own /\ Live' = Live
  BY SameSets
<1>2. \A m \in Msg : task'[m].life = task[m].life
  BY DEF SameTurns
<1>3. QED BY <1>1, <1>2 DEF TurnInv

LEMMA SameKeepInv ==
  ASSUME TasksOK, TasksOK', SameTurns, KeepInv, UNCHANGED <<lives, alive, saved, state, broken>>
  PROVE  KeepInv'
<1>1. Own' = Own /\ Live' = Live /\ In({"over"})' = In({"over"})
  BY SameSets
<1>2. \A m \in Msg : task'[m].copy = task[m].copy
  BY DEF SameTurns
<1>3. QED BY <1>1, <1>2 DEF KeepInv, Own

(* What the actor finds at the head of its mailbox. *)
LEMMA TakenMail ==
  ASSUME Rest, MailInv, QueueInv, NEW m \in Msg, mailbox # <<>>, m = Head(mailbox),
         mailbox' = Tail(mailbox), UNCHANGED <<ticket, accepted>>
  PROVE  /\ MailInv' /\ ticket[m] > 0
         /\ \A i \in 1..Len(mailbox') : ticket[m] < ticket[mailbox'[i]]
         /\ \A i \in 1..Len(mailbox') : \E j \in 1..Len(mailbox) : mailbox'[i] = mailbox[j]
         /\ \A i \in 1..Len(backlog) : ticket[backlog[i].lead] < ticket[m]
         /\ \A n \in Started : ticket[n] < ticket[m]
         /\ m \notin Started
<1>1. /\ Len(mailbox) \in Nat \ {0} /\ mailbox[1] = m /\ Len(mailbox') = Len(mailbox) - 1
      /\ \A i \in 1..Len(mailbox') : mailbox'[i] = mailbox[i + 1]
  BY HeadTailProperties, EmptySeq DEF Rest
<1>2. 1 \in 1..Len(mailbox) /\ \A i \in 1..Len(mailbox') : i + 1 \in 1..Len(mailbox) /\ i + 1 > 1
  BY <1>1
<1>3. ticket \in [Msg -> Nat]
  BY DEF Rest
<1>4. ticket[m] > 0
  BY <1>1, <1>2 DEF MailInv
<1>5. \A i \in 1..Len(mailbox') : ticket[m] < ticket[mailbox'[i]] /\ ticket[mailbox'[i]] > 0
  BY <1>1, <1>2 DEF MailInv
<1>6. \A i, j \in 1..Len(mailbox') : i < j => ticket[mailbox'[i]] < ticket[mailbox'[j]]
  <2> SUFFICES ASSUME NEW i \in 1..Len(mailbox'), NEW j \in 1..Len(mailbox'), i < j
               PROVE  ticket[mailbox'[i]] < ticket[mailbox'[j]]
    OBVIOUS
  <2>1. i + 1 < j + 1 /\ i + 1 \in 1..Len(mailbox) /\ j + 1 \in 1..Len(mailbox)
    BY <1>1
  <2>2. QED BY <2>1, <1>1 DEF MailInv
<1>7. MailInv'
  BY <1>5, <1>6 DEF MailInv
<1>8. /\ \A i \in 1..Len(backlog) : ticket[backlog[i].lead] < ticket[m]
      /\ \A n \in Started : ticket[n] < ticket[m]
  BY <1>1, <1>2 DEF QueueInv
<1>9. m \notin Started
  BY <1>3, <1>8
<1>10. QED BY <1>1, <1>2, <1>4, <1>5, <1>7, <1>8, <1>9

(* Nothing is queued, and m starts. *)
LEMMA StartedNow ==
  ASSUME Rest, TasksOK, Rest', TasksOK', Orderly, NEW m \in Msg, alive, active = NoTurn,
         mailbox # <<>>, m = Head(mailbox), mailbox' = Tail(mailbox), StartNow(m),
         UNCHANGED <<ticket, accepted, alive, lives, broken>>
  PROVE  Orderly'
<1>1. /\ MailInv' /\ ticket[m] > 0 /\ m \notin Started
      /\ \A i \in 1..Len(mailbox') : ticket[m] < ticket[mailbox'[i]]
      /\ \A i \in 1..Len(mailbox') : \E j \in 1..Len(mailbox) : mailbox'[i] = mailbox[j]
  BY TakenMail DEF Orderly
<1>2. /\ status # "active" /\ backlog = <<>> /\ backlog' = <<>> /\ buffer' = buffer
      /\ status' = "active" /\ active' = m /\ state' = state /\ saved' = saved
      /\ task' = [task EXCEPT ![m] = Spawned(Single(m), state)]
  BY DEF StartNow, Start, Orderly, TurnInv, Single
<1>3. /\ task'[m].phase = "running" /\ task'[m].life = lives /\ task'[m].copy = state \cup {m}
      /\ \A n \in Msg \ {m} : task'[n] = task[n]
  BY <1>2 DEF TasksOK, Spawned, Single
<1>4. Started' = Started \cup {m}
  BY <1>3 DEF Started
<1>5. Own \cap Live = {}
  BY SessionAssumption DEF Orderly, TurnInv, Own
<1>6. (Own \cap Live)' = {m}
  BY <1>3, <1>5 DEF Own, Live, In
<1>7. In({"over"})' = In({"over"})
  BY <1>1, <1>3 DEF In, Started
<1>8. QueueInv'
  <2>1. Len(backlog') = 0
    BY <1>2
  <2>2. \A n \in Started' : ticket[n] > 0
    BY <1>1, <1>4 DEF Orderly, QueueInv
  <2>3. \A n \in Started', i \in 1..Len(mailbox') : ticket[n] < ticket[mailbox'[i]]
    BY <1>1, <1>4 DEF Orderly, QueueInv
  <2>4. QED BY <1>2, <2>1, <2>2, <2>3 DEF Orderly, QueueInv
<1>9. TurnInv'
  <2>1. \A n \in Msg : task'[n].life <= lives'
    <3>1. lives \in Nat /\ lives' = lives
      BY SessionAssumption DEF Rest
    <3>2. \A n \in Msg : task[n].life <= lives
      BY DEF Orderly, TurnInv
    <3>3. \A n \in Msg : task'[n].life = lives \/ task'[n].life = task[n].life
      BY <1>3
    <3>4. QED BY <3>1, <3>2, <3>3
  <2>2. active' # NoTurn /\ alive'
    BY <1>2, SessionAssumption
  <2>3. QED BY <1>2, <1>6, <2>1, <2>2 DEF TurnInv
<1>10. KeepInv'
  <2>1. (Own \cap Live)' = {m} /\ task'[m].copy = state \cup {m}
    BY <1>3, <1>6
  <2>2. QED BY <1>2, <1>7, <2>1 DEF Orderly, KeepInv
<1>11. QED BY <1>1, <1>8, <1>9, <1>10 DEF Orderly

(* The queue changes, and no turn starts or ends. *)
LEMMA QueuedUp ==
  ASSUME Rest, TasksOK, Rest', TasksOK', Orderly, NEW m \in Msg, alive,
         mailbox # <<>>, m = Head(mailbox), mailbox' = Tail(mailbox), SameTurns,
         UNCHANGED <<ticket, accepted, alive, lives, broken, status, active, state, saved>>,
         buffer' = <<>>,
         \/ backlog' = backlog
         \/ status = "active" /\ backlog' \in {Append(backlog, Single(m)), <<Single(m)>>}
  PROVE  Orderly'
<1>1. /\ MailInv' /\ ticket[m] > 0 /\ m \notin Started
      /\ \A i \in 1..Len(mailbox') : ticket[m] < ticket[mailbox'[i]]
      /\ \A i \in 1..Len(mailbox') : \E j \in 1..Len(mailbox) : mailbox'[i] = mailbox[j]
      /\ \A i \in 1..Len(backlog) : ticket[backlog[i].lead] < ticket[m]
      /\ \A n \in Started : ticket[n] < ticket[m]
  BY TakenMail DEF Orderly
<1>2. Started' = Started
  BY SameSets
<1>3. TurnInv'
  BY SameTurnInv DEF Orderly, TurnInv
<1>4. KeepInv'
  BY SameKeepInv DEF Orderly
<1>5. QueueInv'
  <2>1. \A n \in Started', i \in 1..Len(mailbox') : ticket[n] < ticket[mailbox'[i]]
    BY <1>1, <1>2 DEF Orderly, QueueInv
  <2>2. \A n \in Started' : ticket[n] > 0
    BY <1>2 DEF Orderly, QueueInv
  <2>3. CASE backlog' = backlog
    BY <1>1, <1>2, <2>1, <2>2, <2>3 DEF Orderly, QueueInv
  <2>4. CASE backlog' = Append(backlog, Single(m))
    <3>1. /\ Len(backlog) \in Nat /\ Len(backlog') = Len(backlog) + 1
          /\ backlog'[Len(backlog) + 1] = Single(m)
          /\ \A i \in 1..Len(backlog) : backlog'[i] = backlog[i]
      BY <2>4, SingleType, AppendProperties, LenProperties DEF Rest
    <3>2. \A i \in 1..Len(backlog') : i \in 1..Len(backlog) \/ i = Len(backlog) + 1
      BY <3>1
    <3>3. Single(m).lead = m /\ backlog'[Len(backlog) + 1].lead = m
      BY <3>1, SingleType
    <3>4. \A i \in 1..Len(backlog') : backlog'[i] = Single(backlog'[i].lead) /\ ticket[backlog'[i].lead] > 0
      BY <1>1, <3>1, <3>2, <3>3 DEF Orderly, QueueInv
    <3>5. \A i, j \in 1..Len(backlog') : i < j => ticket[backlog'[i].lead] < ticket[backlog'[j].lead]
      <4> SUFFICES ASSUME NEW i \in 1..Len(backlog'), NEW j \in 1..Len(backlog'), i < j
                   PROVE  ticket[backlog'[i].lead] < ticket[backlog'[j].lead]
        OBVIOUS
      <4>1. i \in 1..Len(backlog)
        BY <3>1, <3>2
      <4>2. CASE j \in 1..Len(backlog)
        BY <3>1, <4>1, <4>2 DEF Orderly, QueueInv
      <4>3. CASE j = Len(backlog) + 1
        BY <1>1, <3>1, <3>3, <4>1, <4>3
      <4>4. QED BY <3>2, <4>2, <4>3
    <3>6. \A i \in 1..Len(backlog'), j \in 1..Len(mailbox') : ticket[backlog'[i].lead] < ticket[mailbox'[j]]
      BY <1>1, <3>1, <3>2, <3>3 DEF Orderly, QueueInv
    <3>7. \A n \in Started', i \in 1..Len(backlog') : ticket[n] < ticket[backlog'[i].lead]
      BY <1>1, <1>2, <3>1, <3>2, <3>3 DEF Orderly, QueueInv
    <3>8. QED BY <2>1, <2>2, <3>4, <3>5, <3>6, <3>7 DEF QueueInv
  <2>5. CASE backlog' = <<Single(m)>>
    <3>1. Len(backlog') = 1 /\ backlog'[1] = Single(m) /\ Single(m).lead = m
      BY <2>5, SingleType
    <3>2. QED BY <1>1, <1>2, <2>1, <2>2, <3>1 DEF QueueInv
  <2>6. QED BY <2>3, <2>4, <2>5
<1>6. QED BY <1>1, <1>3, <1>4, <1>5 DEF Orderly

(* The actor leaves its loop. *)
LEMMA QueueEmptied ==
  ASSUME Rest, TasksOK, Rest', TasksOK', Orderly, NEW r, NEW left, Exit(r, left), Checkpoint(state),
         UNCHANGED <<ticket, accepted, state, task, lives, broken>>, alive
  PROVE  Orderly'
<1>1. /\ ~alive' /\ status' = "closed" /\ active' = NoTurn
      /\ mailbox' = <<>> /\ backlog' = <<>> /\ buffer' = <<>>
  BY DEF Exit
<1>2. Own' = Own /\ Live' = Live /\ Started' = Started /\ In({"over"})' = In({"over"})
  BY DEF Own, Live, Started, In
<1>3. MailInv'
  BY <1>1 DEF Orderly, MailInv
<1>4. QueueInv'
  BY <1>1, <1>2 DEF Orderly, QueueInv
<1>5. TurnInv'
  BY <1>1, <1>2 DEF Orderly, TurnInv
<1>6. KeepInv'
  BY <1>1, <1>2 DEF Orderly, KeepInv, Checkpoint
<1>7. QED BY <1>3, <1>4, <1>5, <1>6 DEF Orderly

(* A message that was sent stays sent. *)
LEMMA StaysSent ==
  ASSUME Rest, TasksOK, [Next]_vars PROVE \A m \in Msg : ticket'[m] = 0 => ticket[m] = 0
<1>1. ASSUME NEW n \in Msg, Send(n) PROVE \A m \in Msg : ticket'[m] = 0 => ticket[m] = 0
  BY <1>1 DEF Send, Rest
<1>2. CASE ~(\E n \in Msg : Send(n))
  <2>1. ticket' = ticket
    BY <1>2 DEF Next, vars, GetOrCreate, Actor, FlushCollect, Handle, HandleFollowup, HandleInterrupt,
       HandleSteer, HandleGuide, HandleCollect, HandleStop, HandleShutdown, Receive, IdleTimeout,
       TurnCompletes, TakeSteering, TurnTask, TurnAnswers, ReportLost
  <2>2. QED BY <2>1
<1>3. QED BY <1>1, <1>2

-----------------------------------------------------------------------------
(* Every step keeps the order *)

(* Until a collected message is sent there is none in the mailbox. *)
LEMMA NotCollected ==
  ASSUME Rest, MailInv, Uncollected, NEW m \in Msg, mailbox # <<>>, m = Head(mailbox)
  PROVE  Mode[m] # "collect"
<1>1. Len(mailbox) \in Nat \ {0} /\ mailbox[1] = m
  BY EmptySeq, HeadTailProperties DEF Rest
<1>2. ticket[m] > 0
  BY <1>1 DEF MailInv
<1>3. QED BY <1>2 DEF Uncollected, InMode

LEMMA HandleOrder ==
  ASSUME Rest, TasksOK, Rest', TasksOK', Orderly, Uncollected, NEW m \in Msg, Handle(m)
  PROVE  Orderly'
<1>1. CASE HandleFollowup(m)
  <2>1. CASE status = "idle" /\ StartNow(m)
    <3>1. active = NoTurn
      BY <2>1 DEF Orderly, TurnInv
    <3>2. QED BY <1>1, <2>1, <3>1, StartedNow DEF HandleFollowup, Receive, callVars
  <2>2. CASE /\ status # "idle" /\ Enqueue(m)
             /\ UNCHANGED <<status, active, buffer, state, saved, task, applied>>
    <3>1. status = "active" /\ buffer' = <<>> /\ SameTurns
      BY <1>1, <2>2 DEF Orderly, TurnInv, QueueInv, SameTurns, HandleFollowup, Receive
    <3>2. backlog' = backlog \/ backlog' = Append(backlog, Single(m))
      BY <2>2 DEF Enqueue
    <3>3. QED BY <1>1, <2>2, <3>1, <3>2, QueuedUp DEF HandleFollowup, Receive, callVars
  <2>3. QED BY <1>1, <2>1, <2>2 DEF HandleFollowup
<1>2. CASE HandleInterrupt(m)
  <2>1. CASE ~MustWait /\ StartNow(m)
    <3>1. active = NoTurn
      BY <2>1 DEF Orderly, TurnInv, MustWait
    <3>2. QED BY <1>2, <2>1, <3>1, StartedNow DEF HandleInterrupt, Receive, callVars
  <2>2. CASE /\ MustWait /\ task' = CancelActive
             /\ backlog' = Preempted(Single(m)) /\ buffer' = <<>>
             /\ UNCHANGED <<status, active, state, saved, applied>>
    <3>1. status = "active" /\ backlog' = <<Single(m)>> /\ SameTurns
      BY <2>2, CancelSame DEF MustWait, Preempted
    <3>2. QED BY <1>2, <2>2, <3>1, QueuedUp DEF HandleInterrupt, Receive, callVars
  <2>3. QED BY <1>2, <2>1, <2>2 DEF HandleInterrupt
<1>3. CASE HandleSteer(m)
  <2>1. CASE active = NoTurn /\ StartNow(m)
    BY <1>3, <2>1, StartedNow DEF HandleSteer, Receive, callVars
  <2>2. CASE task' = Steered(m) /\ UNCHANGED <<status, active, backlog, buffer, state, saved, applied>>
    <3>1. SameTurns /\ buffer' = <<>>
      BY <2>2, SteerSame DEF Orderly, QueueInv
    <3>2. QED BY <1>3, <2>2, <3>1, QueuedUp DEF HandleSteer, Receive, callVars
  <2>3. QED BY <1>3, <2>1, <2>2 DEF HandleSteer
<1>4. CASE HandleGuide(m)
  <2>1. SameTurns
    BY <1>4, SteerSame DEF HandleGuide, SameTurns
  <2>2. buffer' = <<>>
    BY <1>4 DEF HandleGuide, Orderly, QueueInv
  <2>3. QED BY <1>4, <2>1, <2>2, QueuedUp DEF HandleGuide, Receive, callVars
<1>5. CASE HandleCollect(m)
  BY <1>5, NotCollected DEF Orderly, HandleCollect, Receive
<1>6. CASE HandleStop(m)
  <2>1. SameTurns /\ buffer' = <<>>
    BY <1>6, CancelSame DEF HandleStop, Orderly, QueueInv
  <2>2. QED BY <1>6, <2>1, QueuedUp DEF HandleStop, Receive, callVars
<1>7. CASE HandleShutdown(m)
  BY <1>7, QueueEmptied DEF HandleShutdown, callVars
<1>8. QED BY <1>1, <1>2, <1>3, <1>4, <1>5, <1>6, <1>7 DEF Handle

LEMMA CallersOrder ==
  ASSUME Rest, TasksOK, Rest', TasksOK', Orderly, Uncollected', NEW m \in Msg, GetOrCreate(m) \/ Send(m)
  PROVE  Orderly'
<1>1. CASE GetOrCreate(m)
  <2>1. CASE alive
    <3>1. UNCHANGED <<lives, alive, status, state, mailbox, ticket, accepted, active, backlog, buffer,
                      saved, task, broken>>
      BY <1>1, <2>1 DEF GetOrCreate
    <3>2. Own' = Own /\ Live' = Live /\ Started' = Started /\ In({"over"})' = In({"over"})
      BY <3>1 DEF Own, Live, Started, In
    <3>3. MailInv' /\ QueueInv'
      BY <3>1, <3>2 DEF Orderly, MailInv, QueueInv
    <3>4. TurnInv' /\ KeepInv'
      BY <3>1, <3>2 DEF Orderly, TurnInv, KeepInv
    <3>5. QED BY <3>3, <3>4 DEF Orderly
  <2>2. CASE ~alive
    <3>1. /\ lives' = lives + 1 /\ alive' = TRUE /\ status' = "idle"
          /\ broken = {} => state' = saved
          /\ UNCHANGED <<mailbox, ticket, accepted, active, backlog, buffer, saved, task, broken>>
      BY <1>1, <2>2 DEF GetOrCreate
    <3>2. Live' = Live /\ Started' = Started /\ In({"over"})' = In({"over"})
      BY <3>1 DEF Live, Started, In
    <3>3. Own' = {}
      BY <3>1, SessionAssumption DEF Own, Orderly, TurnInv, Rest, TasksOK, Task
    <3>4. MailInv' /\ QueueInv'
      BY <3>1, <3>2 DEF Orderly, MailInv, QueueInv
    <3>5. status # "active" /\ active = NoTurn /\ backlog = <<>>
      BY <2>2 DEF Orderly, TurnInv
    <3>6. \A n \in Msg : task'[n].life <= lives'
      BY <3>1, SessionAssumption DEF Orderly, TurnInv, Rest, TasksOK, Task
    <3>7. TurnInv'
      BY <3>1, <3>3, <3>5, <3>6 DEF TurnInv
    <3>8. KeepInv'
      BY <3>1, <3>2, <3>3 DEF Orderly, KeepInv
    <3>9. QED BY <3>4, <3>7, <3>8 DEF Orderly
  <2>3. QED BY <2>1, <2>2
<1>2. CASE Send(m) /\ UNCHANGED <<mailbox, ticket, accepted>>
  <2>1. UNCHANGED <<lives, alive, status, state, mailbox, ticket, accepted, active, backlog, buffer,
                    saved, task, broken>>
    BY <1>2 DEF Send, callVars
  <2>2. Own' = Own /\ Live' = Live /\ Started' = Started /\ In({"over"})' = In({"over"})
    BY <2>1 DEF Own, Live, Started, In
  <2>3. MailInv' /\ QueueInv'
    BY <2>1, <2>2 DEF Orderly, MailInv, QueueInv
  <2>4. TurnInv' /\ KeepInv'
    BY <2>1, <2>2 DEF Orderly, TurnInv, KeepInv
  <2>5. QED BY <2>3, <2>4 DEF Orderly
<1>3. CASE /\ Send(m) /\ alive /\ mailbox' = Append(mailbox, m)
           /\ accepted' = accepted + 1 /\ ticket' = [ticket EXCEPT ![m] = accepted']
  <2>1. /\ UNCHANGED <<lives, alive, status, state, active, backlog, buffer, saved, task, broken>>
        /\ ticket[m] = 0
    BY <1>3 DEF Send, callVars
  <2>2. Own' = Own /\ Live' = Live /\ Started' = Started /\ In({"over"})' = In({"over"})
    BY <2>1 DEF Own, Live, Started, In
  <2>3. /\ accepted \in Nat /\ ticket \in [Msg -> Nat] /\ ticket'[m] = accepted + 1
        /\ \A n \in Msg \ {m} : ticket'[n] = ticket[n]
        /\ \A n \in Msg : ticket[n] <= accepted
    BY <1>3 DEF Rest, Orderly, MailInv
  <2>4. /\ Len(mailbox) \in Nat /\ Len(mailbox') = Len(mailbox) + 1 /\ mailbox'[Len(mailbox) + 1] = m
        /\ \A i \in 1..Len(mailbox) : mailbox'[i] = mailbox[i] /\ mailbox[i] \in Msg
    BY <1>3, AppendProperties, LenProperties DEF Rest
  <2>5. \A i \in 1..Len(mailbox') : i \in 1..Len(mailbox) \/ i = Len(mailbox) + 1
    BY <2>4
  <2>6. \A i \in 1..Len(mailbox) : ticket[mailbox[i]] > 0 /\ ticket'[mailbox'[i]] = ticket[mailbox[i]]
    BY <2>1, <2>3, <2>4 DEF Orderly, MailInv
  <2>7. ticket'[mailbox'[Len(mailbox) + 1]] = accepted + 1
    BY <2>3, <2>4
  <2>8. MailInv'
    <3>1. \A n \in Msg : ticket'[n] <= accepted'
      BY <1>3, <2>3
    <3>2. \A i \in 1..Len(mailbox') : ticket'[mailbox'[i]] > 0
      BY <2>3, <2>5, <2>6, <2>7
    <3>3. \A i, j \in 1..Len(mailbox') : i < j => ticket'[mailbox'[i]] < ticket'[mailbox'[j]]
      <4> SUFFICES ASSUME NEW i \in 1..Len(mailbox'), NEW j \in 1..Len(mailbox'), i < j
                   PROVE  ticket'[mailbox'[i]] < ticket'[mailbox'[j]]
        OBVIOUS
      <4>1. i \in 1..Len(mailbox)
        BY <2>4, <2>5
      <4>2. CASE j \in 1..Len(mailbox)
        BY <2>6, <4>1, <4>2 DEF Orderly, MailInv
      <4>3. CASE j = Len(mailbox) + 1
        <5>1. ticket[mailbox[i]] <= accepted
          BY <2>3, <2>4, <4>1
        <5>2. ticket'[mailbox'[i]] \in Nat /\ ticket'[mailbox'[i]] <= accepted
          BY <2>3, <2>4, <2>6, <4>1, <5>1
        <5>3. QED BY <2>3, <2>7, <4>3, <5>2
      <4>4. QED BY <2>5, <4>2, <4>3
    <3>4. QED BY <3>1, <3>2, <3>3 DEF MailInv
  <2>9. \A i \in 1..Len(backlog) :
          /\ backlog[i].lead \in Msg /\ ticket[backlog[i].lead] > 0
          /\ ticket'[backlog[i].lead] = ticket[backlog[i].lead]
    <3>1. \A i \in 1..Len(backlog) : backlog[i].lead \in Msg
      <4>1. backlog \in Seq(Turn)
        BY DEF Rest
      <4>2. \A i \in 1..Len(backlog) : backlog[i] \in Turn
        BY <4>1, ElementOfSeq
      <4>3. QED BY <4>2 DEF Turn
    <3>2. QED BY <2>1, <2>3, <3>1 DEF Orderly, QueueInv
  <2>10. \A n \in Started : n \in Msg /\ ticket[n] > 0 /\ ticket'[n] = ticket[n]
    BY <2>1, <2>3 DEF Orderly, QueueInv, Started
  <2>11. QueueInv'
    <3>1. \A i \in 1..Len(backlog), j \in 1..Len(mailbox') : ticket'[backlog[i].lead] < ticket'[mailbox'[j]]
      <4> SUFFICES ASSUME NEW i \in 1..Len(backlog), NEW j \in 1..Len(mailbox')
                   PROVE  ticket'[backlog[i].lead] < ticket'[mailbox'[j]]
        OBVIOUS
      <4>1. CASE j \in 1..Len(mailbox)
        BY <2>6, <2>9, <4>1 DEF Orderly, QueueInv
      <4>2. CASE j = Len(mailbox) + 1
        <5>1. ticket'[backlog[i].lead] <= accepted /\ ticket'[backlog[i].lead] \in Nat
          BY <2>3, <2>9
        <5>2. QED BY <2>3, <2>7, <4>2, <5>1
      <4>3. QED BY <2>5, <4>1, <4>2
    <3>2. \A n \in Started, j \in 1..Len(mailbox') : ticket'[n] < ticket'[mailbox'[j]]
      <4> SUFFICES ASSUME NEW n \in Started, NEW j \in 1..Len(mailbox')
                   PROVE  ticket'[n] < ticket'[mailbox'[j]]
        OBVIOUS
      <4>1. CASE j \in 1..Len(mailbox)
        BY <2>6, <2>10, <4>1 DEF Orderly, QueueInv
      <4>2. CASE j = Len(mailbox) + 1
        <5>1. ticket'[n] <= accepted /\ ticket'[n] \in Nat
          BY <2>3, <2>10
        <5>2. QED BY <2>3, <2>7, <4>2, <5>1
      <4>3. QED BY <2>5, <4>1, <4>2
    <3>3. QED BY <2>1, <2>2, <2>9, <2>10, <3>1, <3>2 DEF Orderly, QueueInv
  <2>12. TurnInv' /\ KeepInv'
    BY <1>3, <2>1, <2>2 DEF Orderly, TurnInv, KeepInv
  <2>13. QED BY <2>8, <2>11, <2>12 DEF Orderly
<1>4. QED BY <1>1, <1>2, <1>3 DEF Send

LEMMA CompletionOrder ==
  ASSUME Rest, TasksOK, Rest', TasksOK', Orderly, NEW t \in Msg, TurnCompletes(t)
  PROVE  Orderly'
<1>1. /\ alive /\ task[t].phase = "answered" /\ task[t].life = lives
      /\ t \in Own \cap Live /\ t \in Started /\ state' = task[t].copy
      /\ broken = {} => saved' = task[t].copy
      /\ UNCHANGED <<alive, mailbox, ticket, accepted, buffer, lives, broken>>
  BY DEF TurnCompletes, Own, In, Live, Started, Checkpoint, Checkpointed, callVars
<1>2. t = active /\ Own \cap Live = {t}
  BY <1>1 DEF Orderly, TurnInv
<1>3. MailInv'
  BY <1>1 DEF Orderly, MailInv
<1>4. broken = {} => In({"over"}) \cup {t} \subseteq task[t].copy
  BY <1>1 DEF Orderly, KeepInv
<1>5. /\ Finished(t)[t].phase = "over" /\ Finished(t)[t].life = lives
      /\ \A n \in Msg \ {t} : Finished(t)[n] = task[n]
      /\ Finished(t) \in [Msg -> Task]
  <2>1. lives \in Nat
    BY SessionAssumption DEF Rest
  <2>2. QED BY <2>1 DEF Finished, TasksOK, NoTask, Task
<1>6. lives \in Nat /\ \A n \in Msg : task[n].life <= lives /\ task[n].life \in Nat
  BY SessionAssumption DEF Rest, Orderly, TurnInv, TasksOK, Task
<1>7. CASE backlog # <<>>
  <2> DEFINE h == Head(backlog).lead
  <2>1. /\ Len(backlog) \in Nat \ {0} /\ Head(backlog) = backlog[1] /\ 1 \in 1..Len(backlog)
        /\ backlog' = Tail(backlog) /\ Len(backlog') = Len(backlog) - 1
        /\ \A i \in 1..Len(backlog') : backlog'[i] = backlog[i + 1]
    <3>1. backlog \in Seq(Turn)
      BY DEF Rest
    <3>2. backlog' = Tail(backlog)
      BY <1>7 DEF TurnCompletes, BacklogAfterTurn
    <3>3. Len(backlog) \in Nat \ {0} /\ Head(backlog) = backlog[1]
      BY <1>7, <3>1, EmptySeq, LenProperties, HeadTailProperties
    <3>4. /\ Len(Tail(backlog)) = Len(backlog) - 1
          /\ \A i \in 1..Len(Tail(backlog)) : Tail(backlog)[i] = backlog[i + 1]
      BY <1>7, <3>1, HeadTailProperties
    <3>5. QED BY <3>2, <3>3, <3>4
  <2>2. h = backlog[1].lead /\ h \in Msg /\ ticket[h] > 0 /\ Head(backlog) = Single(h)
    <3>1. Head(backlog) \in Turn
      BY <1>7, HeadTailProperties DEF Rest
    <3>2. QED BY <2>1, <3>1 DEF Orderly, QueueInv, Turn
  <2>3. /\ \A n \in Started : ticket[n] < ticket[h]
        /\ \A j \in 1..Len(mailbox) : ticket[h] < ticket[mailbox[j]]
    BY <2>1, <2>2 DEF Orderly, QueueInv
  <2>4. h \notin Started /\ h # t
    BY <1>1, <2>2, <2>3 DEF Rest
  <2>5. /\ status' = "active" /\ active' = h
        /\ task' = [Finished(t) EXCEPT ![h] = Spawned(Head(backlog), state')]
    BY <1>7 DEF TurnCompletes, BacklogAfterTurn
  <2> HIDE DEF h
  <2>6. /\ task'[h].phase = "running" /\ task'[h].life = lives /\ task'[h].copy = state' \cup {h}
        /\ task'[t].phase = "over" /\ task'[t].life = lives
        /\ \A n \in Msg \ {t, h} : task'[n] = task[n]
    <3>1. task'[h] = Spawned(Single(h), state')
      BY <1>5, <2>2, <2>5
    <3>2. Spawned(Single(h), state').phase = "running" /\ Spawned(Single(h), state').life = lives
          /\ Spawned(Single(h), state').copy = state' \cup {h}
      BY DEF Spawned, Single
    <3>3. QED BY <1>5, <2>2, <2>4, <2>5, <3>1, <3>2
  <2>7. Started' = Started \cup {h}
    BY <1>1, <2>2, <2>6 DEF Started
  <2>8. (Own \cap Live)' = {h}
    BY <1>1, <1>2, <2>2, <2>6 DEF Own, Live, In
  <2>9. In({"over"})' = In({"over"}) \cup {t}
    BY <2>2, <2>4, <2>6 DEF In, Started
  <2>10. \A i \in 1..Len(backlog') : i + 1 \in 1..Len(backlog) /\ 1 < i + 1
    BY <2>1
  <2>11. QueueInv'
    <3>1. \A i \in 1..Len(backlog') :
            /\ backlog'[i] = Single(backlog'[i].lead) /\ ticket[backlog'[i].lead] > 0
            /\ ticket[h] < ticket[backlog'[i].lead]
      BY <2>1, <2>2, <2>10 DEF Orderly, QueueInv
    <3>2. \A i, j \in 1..Len(backlog') : i < j => ticket[backlog'[i].lead] < ticket[backlog'[j].lead]
      <4> SUFFICES ASSUME NEW i \in 1..Len(backlog'), NEW j \in 1..Len(backlog'), i < j
                   PROVE  ticket[backlog'[i].lead] < ticket[backlog'[j].lead]
        OBVIOUS
      <4>1. i + 1 < j + 1
        BY <2>1
      <4>2. QED BY <2>1, <2>10, <4>1 DEF Orderly, QueueInv
    <3>3. \A i \in 1..Len(backlog'), j \in 1..Len(mailbox') : ticket[backlog'[i].lead] < ticket[mailbox'[j]]
      BY <1>1, <2>1, <2>10 DEF Orderly, QueueInv
    <3>4. \A n \in Started' : ticket[n] > 0
      BY <2>2, <2>7 DEF Orderly, QueueInv
    <3>5. \A n \in Started', i \in 1..Len(backlog') : ticket[n] < ticket[backlog'[i].lead]
      BY <2>1, <2>7, <2>10, <3>1 DEF Orderly, QueueInv
    <3>6. \A n \in Started', i \in 1..Len(mailbox') : ticket[n] < ticket[mailbox'[i]]
      BY <1>1, <2>3, <2>7 DEF Orderly, QueueInv
    <3>7. QED BY <1>1, <3>1, <3>2, <3>3, <3>4, <3>5, <3>6 DEF Orderly, QueueInv
  <2>12. TurnInv'
    <3>1. \A n \in Msg : task'[n].life <= lives'
      BY <1>1, <1>6, <2>6
    <3>2. alive' /\ active' # NoTurn
      BY <1>1, <2>2, <2>5, SessionAssumption
    <3>3. QED BY <2>5, <2>8, <3>1, <3>2 DEF TurnInv
  <2>13. KeepInv'
    <3>1. broken' = {} => In({"over"})' \subseteq saved' /\ In({"over"})' \subseteq state'
      BY <1>1, <1>4, <2>9
    <3>2. QED BY <2>6, <2>8, <3>1 DEF KeepInv
  <2>14. QED BY <1>3, <2>11, <2>12, <2>13 DEF Orderly
<1>8. CASE backlog = <<>>
  <2>1. /\ status' = "idle" /\ active' = NoTurn /\ task' = Finished(t) /\ backlog' = backlog
    BY <1>2, <1>8 DEF TurnCompletes, BacklogAfterTurn, StatusAfterLast
  <2>2. Started' = Started
    BY <1>1, <1>5, <2>1 DEF Started
  <2>3. (Own \cap Live)' = {}
    BY <1>1, <1>2, <1>5, <2>1 DEF Own, Live, In
  <2>4. In({"over"})' = In({"over"}) \cup {t}
    BY <1>5, <2>1 DEF In
  <2>5. QueueInv'
    BY <1>1, <2>1, <2>2 DEF Orderly, QueueInv
  <2>6. TurnInv'
    <3>1. \A n \in Msg : task'[n].life <= lives'
      BY <1>1, <1>5, <1>6, <2>1
    <3>2. QED BY <1>1, <1>8, <2>1, <2>3, <3>1 DEF TurnInv
  <2>7. KeepInv'
    BY <1>1, <1>4, <2>3, <2>4 DEF KeepInv
  <2>8. QED BY <1>3, <2>5, <2>6, <2>7 DEF Orderly
<1>9. QED BY <1>7, <1>8

LEMMA TaskOrder ==
  ASSUME Rest, TasksOK, Rest', TasksOK', Orderly, NEW t \in Msg, TakeSteering(t) \/ TurnTask(t)
  PROVE  Orderly'
<1>0. UNCHANGED <<alive, mailbox, ticket, accepted, status, active, backlog, buffer,
                  state, saved, lives, broken>>
  BY DEF TakeSteering, TurnTask, TurnAnswers, ReportLost, callVars
<1>a. CASE TakeSteering(t)
  <2>1. SameTurns
    <3>1. PICK m \in task[t].inbox : task' = [task EXCEPT ![t].inbox = @ \ {m}]
      BY <1>a DEF TakeSteering
    <3>2. QED BY <3>1, InboxSame
  <2>2. Started' = Started /\ Own' = Own /\ Live' = Live /\ In({"over"})' = In({"over"})
    BY <1>0, <2>1, SameSets
  <2>3. MailInv' /\ QueueInv'
    BY <1>0, <2>2 DEF Orderly, MailInv, QueueInv
  <2>4. TurnInv' /\ KeepInv'
    BY <1>0, <2>1, <2>2 DEF Orderly, TurnInv, KeepInv, SameTurns, Live, In
  <2>5. QED BY <2>3, <2>4 DEF Orderly
<1>b. CASE TurnTask(t)
  <2>0. /\ task[t].phase \in {"running", "answered"}
        /\ task'[t].phase \in {"answered", "lost"} /\ task'[t].life = task[t].life
        /\ \A n \in Msg \ {t} : task'[n] = task[n]
        /\ task'[t].phase = "answered" => task'[t].copy = task[t].copy
        /\ task'[t].phase = "lost" => ~alive \/ task[t].life # lives
    <3>1. CASE TurnAnswers(t)
      <4> DEFINE k == [task[t] EXCEPT !.phase = "answered", !.inbox = {},
                                      !.waiting = {}, !.cancelled = FALSE]
      <4>1. task' = [task EXCEPT ![t] = k] /\ task[t].phase = "running"
        BY <3>1 DEF TurnAnswers, In
      <4>2. k.phase = "answered" /\ k.life = task[t].life /\ k.copy = task[t].copy
        BY DEF TasksOK, Task
      <4> HIDE DEF k
      <4>3. QED BY <4>1, <4>2 DEF TasksOK
    <3>2. CASE ReportLost(t)
      <4> DEFINE k == [NoTask EXCEPT !.phase = "lost", !.life = task[t].life]
      <4>1. /\ task' = [task EXCEPT ![t] = k] /\ task[t].phase = "answered"
            /\ ~alive \/ task[t].life # lives
        BY <3>2 DEF ReportLost, In, Own
      <4>2. k.phase = "lost" /\ k.life = task[t].life
        BY DEF NoTask
      <4> HIDE DEF k
      <4>3. QED BY <4>1, <4>2 DEF TasksOK
    <3>3. QED BY <1>b, <3>1, <3>2 DEF TurnTask
  <2>1. \A n \in Msg : task'[n].life = task[n].life
    BY <2>0
  <2>2. Own' = Own
    BY <1>0, <2>1 DEF Own
  <2>3. Started' = Started /\ In({"over"})' = In({"over"})
    BY <2>0 DEF Started, In
  <2>4. /\ Live' \subseteq Live
        /\ alive => (Own \cap Live)' = Own \cap Live
        /\ \A n \in Live' : task'[n].copy = task[n].copy
    BY <2>0, <2>2 DEF Live, In, Own
  <2>5. MailInv' /\ QueueInv'
    BY <1>0, <2>3 DEF Orderly, MailInv, QueueInv
  <2>6. TurnInv'
    BY <1>0, <2>1, <2>2, <2>4 DEF Orderly, TurnInv
  <2>7. KeepInv'
    BY <1>0, <2>2, <2>3, <2>4 DEF Orderly, KeepInv
  <2>8. QED BY <2>5, <2>6, <2>7 DEF Orderly
<1>8. QED BY <1>a, <1>b

LEMMA OrderStep ==
  ASSUME Rest, TasksOK, Uncollected => Orderly, [Next]_vars
  PROVE  Uncollected' => Orderly'
<1> SUFFICES ASSUME Uncollected' PROVE Orderly'
  OBVIOUS
<1>1. Uncollected
  <2>1. \A m \in Msg : ticket'[m] = 0 => ticket[m] = 0
    BY StaysSent
  <2>2. QED BY <2>1 DEF Uncollected, InMode
<1>2. Orderly /\ Rest' /\ TasksOK'
  BY <1>1, TypeStep
<1>3. CASE UNCHANGED vars
  <2>1. Own' = Own /\ Live' = Live /\ Started' = Started /\ In({"over"})' = In({"over"})
    BY <1>3 DEF vars, Own, Live, Started, In
  <2>2. QED BY <1>2, <1>3, <2>1 DEF vars, Orderly, MailInv, QueueInv, TurnInv, KeepInv
<1>4. CASE FlushCollect
  BY <1>2, <1>4 DEF FlushCollect, Orderly, QueueInv
<1>5. CASE IdleTimeout
  BY <1>2, <1>5, QueueEmptied DEF IdleTimeout, callVars
<1>6. QED
  BY <1>1, <1>2, <1>3, <1>4, <1>5, CallersOrder, HandleOrder, CompletionOrder, TaskOrder DEF Next, Actor

LEMMA InitOrder == ASSUME Init PROVE Orderly
<1>1. /\ \A m \in Msg : task[m] = NoTask /\ ticket[m] = 0
      /\ accepted = 0 /\ lives = 0 /\ mailbox = <<>> /\ backlog = <<>> /\ buffer = <<>>
      /\ ~alive /\ status = "closed" /\ active = NoTurn
  BY DEF Init
<1>2. Started = {} /\ Live = {} /\ In({"over"}) = {}
  BY <1>1 DEF Started, Live, In, NoTask
<1>3. MailInv
  BY <1>1 DEF MailInv
<1>4. QueueInv
  BY <1>1, <1>2 DEF QueueInv
<1>5. TurnInv
  BY <1>1, <1>2 DEF TurnInv, NoTask
<1>6. KeepInv
  BY <1>2 DEF KeepInv
<1>7. QED BY <1>3, <1>4, <1>5, <1>6 DEF Orderly

-----------------------------------------------------------------------------
(* Who waits for an answer, and where: mailbox and queues as sets *)

LEMMA EmptyElems == Elems(<<>>) = {} /\ Distinct(<<>>) /\ LeadsOf(<<>>) = {} /\ Lined(<<>>)
BY DEF Elems, Distinct, LeadsOf, Lined

LEMMA ElemsIn == ASSUME NEW S, NEW s \in Seq(S) PROVE Elems(s) \subseteq S
BY LenProperties DEF Elems

LEMMA Grows ==
  ASSUME NEW S, NEW s \in Seq(S), NEW e \in S, Distinct(s), e \notin Elems(s)
  PROVE  Distinct(Append(s, e)) /\ Elems(Append(s, e)) = Elems(s) \cup {e}
<1>1. /\ Len(s) \in Nat /\ Len(Append(s, e)) = Len(s) + 1
      /\ \A i \in 1..Len(s) : Append(s, e)[i] = s[i]
      /\ Append(s, e)[Len(s) + 1] = e
  BY AppendProperties, LenProperties
<1> DEFINE a == Append(s, e)
<1> HIDE DEF a
<1>2. 1..Len(a) = (1..Len(s)) \cup {Len(s) + 1}
  BY <1>1 DEF a
<1>3. \A i \in 1..Len(s) : a[i] = s[i] /\ a[i] # e
  BY <1>1 DEF a, Elems
<1>4. a[Len(s) + 1] = e
  BY <1>1 DEF a
<1>5. Elems(a) = Elems(s) \cup {e}
  BY <1>2, <1>3, <1>4 DEF Elems
<1>6. Distinct(a)
  BY <1>2, <1>3, <1>4 DEF Distinct
<1>7. QED BY <1>5, <1>6 DEF a

LEMMA Shrinks ==
  ASSUME NEW S, NEW s \in Seq(S), Distinct(s), s # <<>>
  PROVE  /\ Distinct(Tail(s)) /\ Elems(Tail(s)) = Elems(s) \ {Head(s)}
         /\ Head(s) \in Elems(s) /\ Head(s) = s[1] /\ Len(s) >= 1
<1>1. /\ Len(s) \in Nat \ {0} /\ s[1] = Head(s) /\ Len(Tail(s)) = Len(s) - 1
      /\ \A i \in 1..Len(Tail(s)) : Tail(s)[i] = s[i + 1]
  BY HeadTailProperties, EmptySeq, LenProperties
<1> DEFINE u == Tail(s)
<1> HIDE DEF u
<1>2. /\ Len(u) = Len(s) - 1 /\ \A i \in 1..Len(u) : u[i] = s[i + 1] /\ i + 1 \in 1..Len(s)
      /\ 1 \in 1..Len(s)
  BY <1>1 DEF u
<1>3. Distinct(u)
  <2> SUFFICES ASSUME NEW i \in 1..Len(u), NEW j \in 1..Len(u), u[i] = u[j] PROVE i = j
    BY DEF Distinct
  <2>1. s[i + 1] = s[j + 1] /\ i + 1 \in 1..Len(s) /\ j + 1 \in 1..Len(s)
    BY <1>2
  <2>2. i + 1 = j + 1
    BY <2>1 DEF Distinct
  <2>3. QED BY <2>2
<1>4. Elems(u) \subseteq Elems(s) \ {Head(s)}
  <2> SUFFICES ASSUME NEW i \in 1..Len(u) PROVE u[i] \in Elems(s) /\ u[i] # s[1]
    BY <1>1 DEF Elems
  <2>1. u[i] = s[i + 1] /\ i + 1 \in 1..Len(s) /\ i + 1 # 1
    BY <1>1, <1>2
  <2>2. QED BY <1>2, <2>1 DEF Elems, Distinct
<1>5. Elems(s) \ {Head(s)} \subseteq Elems(u)
  <2> SUFFICES ASSUME NEW i \in 1..Len(s), s[i] # s[1] PROVE s[i] \in Elems(u)
    BY <1>1 DEF Elems
  <2>1. i - 1 \in 1..Len(u) /\ (i - 1) + 1 = i
    BY <1>1, <1>2
  <2>2. u[i - 1] = s[i]
    BY <1>2, <2>1
  <2>3. QED BY <2>1, <2>2 DEF Elems
<1>6. s[1] \in Elems(s) /\ Len(s) >= 1
  BY <1>1, <1>2 DEF Elems
<1>7. Elems(u) = Elems(s) \ {Head(s)}
  BY <1>4, <1>5
<1>8. QED BY <1>1, <1>3, <1>6, <1>7 DEF u

LEMMA LineGrows ==
  ASSUME NEW b \in Seq(Turn), NEW m \in Msg, Lined(b), m \notin LeadsOf(b)
  PROVE  Lined(Append(b, Single(m))) /\ LeadsOf(Append(b, Single(m))) = LeadsOf(b) \cup {m}
<1>1. Single(m) \in Turn /\ Single(m).lead = m /\ Single(m).waiting = {m}
  BY SingleType DEF Single
<1> DEFINE a == Append(b, Single(m))
<1> HIDE DEF a
<1>2. /\ Len(b) \in Nat /\ Len(a) = Len(b) + 1 /\ a[Len(b) + 1] = Single(m)
      /\ \A i \in 1..Len(b) : a[i] = b[i]
  BY <1>1, AppendProperties, LenProperties DEF a
<1>3. 1..Len(a) = (1..Len(b)) \cup {Len(b) + 1}
  BY <1>2
<1>4. \A i \in 1..Len(b) : a[i] = b[i] /\ a[i].lead # m
  BY <1>2 DEF LeadsOf
<1>5. LeadsOf(a) = LeadsOf(b) \cup {m}
  BY <1>1, <1>2, <1>3, <1>4 DEF LeadsOf
<1>6. Lined(a)
  BY <1>1, <1>2, <1>3, <1>4 DEF Lined
<1>7. QED BY <1>5, <1>6 DEF a

LEMMA LineShrinks ==
  ASSUME NEW b \in Seq(Turn), Lined(b), b # <<>>
  PROVE  /\ Lined(Tail(b)) /\ LeadsOf(Tail(b)) = LeadsOf(b) \ {Head(b).lead}
         /\ Head(b).lead \in LeadsOf(b) /\ Head(b).waiting = {Head(b).lead} /\ Head(b).lead \in Msg
<1>1. /\ Len(b) \in Nat \ {0} /\ b[1] = Head(b) /\ Len(Tail(b)) = Len(b) - 1
      /\ \A i \in 1..Len(Tail(b)) : Tail(b)[i] = b[i + 1]
  BY HeadTailProperties, EmptySeq, LenProperties
<1> DEFINE u == Tail(b)
<1> HIDE DEF u
<1>2. /\ Len(u) = Len(b) - 1 /\ \A i \in 1..Len(u) : u[i] = b[i + 1] /\ i + 1 \in 1..Len(b)
      /\ 1 \in 1..Len(b)
  BY <1>1 DEF u
<1>3. Lined(u)
  <2>1. \A i \in 1..Len(u) : u[i].waiting = {u[i].lead}
    BY <1>2 DEF Lined
  <2>2. ASSUME NEW i \in 1..Len(u), NEW j \in 1..Len(u), u[i].lead = u[j].lead PROVE i = j
    <3>1. b[i + 1].lead = b[j + 1].lead /\ i + 1 \in 1..Len(b) /\ j + 1 \in 1..Len(b)
      BY <1>2, <2>2
    <3>2. i + 1 = j + 1
      BY <3>1 DEF Lined
    <3>3. QED BY <3>2
  <2>3. QED BY <2>1, <2>2 DEF Lined
<1>4. LeadsOf(u) \subseteq LeadsOf(b) \ {b[1].lead}
  <2> SUFFICES ASSUME NEW i \in 1..Len(u) PROVE u[i].lead \in LeadsOf(b) /\ u[i].lead # b[1].lead
    BY DEF LeadsOf
  <2>1. u[i] = b[i + 1] /\ i + 1 \in 1..Len(b) /\ i + 1 # 1
    BY <1>1, <1>2
  <2>2. QED BY <1>2, <2>1 DEF LeadsOf, Lined
<1>5. LeadsOf(b) \ {b[1].lead} \subseteq LeadsOf(u)
  <2> SUFFICES ASSUME NEW i \in 1..Len(b), b[i].lead # b[1].lead PROVE b[i].lead \in LeadsOf(u)
    BY DEF LeadsOf
  <2>1. i - 1 \in 1..Len(u) /\ (i - 1) + 1 = i
    BY <1>1, <1>2
  <2>2. u[i - 1] = b[i]
    BY <1>2, <2>1
  <2>3. QED BY <2>1, <2>2 DEF LeadsOf
<1>6. b[1] \in Turn
  BY <1>1, <1>2
<1>7. QED BY <1>1, <1>2, <1>3, <1>4, <1>5, <1>6 DEF u, LeadsOf, Lined, Turn

(* Another text for a queued turn changes nothing of who waits. *)
LEMMA LineMerges ==
  ASSUME NEW b \in Seq(Turn), NEW i \in 1..Len(b), NEW x \in SUBSET Msg, Lined(b)
  PROVE  Lined([b EXCEPT ![i].texts = x]) /\ LeadsOf([b EXCEPT ![i].texts = x]) = LeadsOf(b)
<1> DEFINE k == [b[i] EXCEPT !.texts = x]
           a == [b EXCEPT ![i] = k]
<1>1. b[i] \in Turn /\ b \in [1..Len(b) -> Turn]
  BY LenProperties
<1>2. k \in Turn /\ k.lead = b[i].lead /\ k.waiting = b[i].waiting
  BY <1>1 DEF Turn
<1>3. [b EXCEPT ![i].texts = x] = a
  OBVIOUS
<1> HIDE DEF k
<1>4. Len(a) = Len(b) /\ \A j \in 1..Len(b) : a[j].lead = b[j].lead /\ a[j].waiting = b[j].waiting
  BY <1>1, <1>2, ExceptSeq
<1> HIDE DEF a
<1>5. QED BY <1>3, <1>4 DEF Lined, LeadsOf

LEMMA QueuedSets ==
  ASSUME Rest, Lined(backlog) PROVE Queued = LeadsOf(backlog) \cup Elems(buffer)
<1>1. UNION {t.waiting : t \in Elems(backlog)} = LeadsOf(backlog)
  BY DEF Elems, LeadsOf, Lined
<1>2. QED BY <1>1 DEF Queued

-----------------------------------------------------------------------------
(* Answers *)

LEMMA OwedAfter ==
  ASSUME Rest, NEW cs, NEW what \in Replies \ {"none"}, reply' = Answered(reply, cs, what),
         ticket' = ticket
  PROVE  Owed' = Owed \ cs
BY DEF Rest, Answered, Owed

LEMMA AnswerKinds ==
  {"done", "interrupted", "ok", "merged", "full", "preempted", "no turn", "closed"} \subseteq Replies \ {"none"}
BY DEF Replies

LEMMA SameWaits == ASSUME SameTurns, TasksOK, TasksOK' PROVE Waits' = Waits /\ Started' = Started
BY DEF SameTurns, Waits, Started

-----------------------------------------------------------------------------
(* What a step does to the sets of those who wait *)

LEMMA TakenHead ==
  ASSUME Rest, WaitInv, NEW m \in Msg, mailbox # <<>>, m = Head(mailbox), mailbox' = Tail(mailbox)
  PROVE  /\ m \in Elems(mailbox) /\ Distinct(mailbox') /\ Elems(mailbox') = Elems(mailbox) \ {m}
         /\ m \notin LeadsOf(backlog) /\ m \notin Elems(buffer) /\ m \notin Started
         /\ m \in Owed /\ ticket[m] > 0
<1>1. m \in Elems(mailbox) /\ Distinct(mailbox') /\ Elems(mailbox') = Elems(mailbox) \ {m}
  BY Shrinks DEF Rest, WaitInv
<1>2. m \in Owed
  BY <1>1 DEF WaitInv, WaitSets
<1>3. ticket[m] > 0
  BY <1>2 DEF Owed
<1>4. QED BY <1>1, <1>2, <1>3 DEF WaitInv, WaitSets

(* It is answered. *)
LEMMA TakenAnswered ==
  ASSUME Rest, WaitInv, NEW m \in Msg, Receive(m), NEW what \in Replies \ {"none"},
         reply' = Answered(reply, {m}, what), Waits' = Waits, Started' = Started,
         Elems(buffer') = Elems(buffer), Distinct(buffer'),
         Lined(backlog'), LeadsOf(backlog') = LeadsOf(backlog),
         \A t \in Msg : task'[t].phase = task[t].phase
  PROVE  WaitInv'
<1>1. /\ m \in Elems(mailbox) /\ Distinct(mailbox') /\ Elems(mailbox') = Elems(mailbox) \ {m}
      /\ m \notin LeadsOf(backlog) /\ m \notin Elems(buffer) /\ m \notin Started
  BY TakenHead DEF Receive
<1>2. Owed' = Owed \ {m}
  BY OwedAfter DEF Receive
<1>3. WaitSets'
  BY <1>1, <1>2 DEF WaitInv, WaitSets
<1>4. QED BY <1>1, <1>3 DEF WaitInv, Receive

(* Its turn starts. *)
LEMMA TakenStarts ==
  ASSUME Rest, TasksOK, WaitInv, NEW m \in Msg, Receive(m), StartNow(m)
  PROVE  WaitInv'
<1>1. /\ m \in Elems(mailbox) /\ Distinct(mailbox') /\ Elems(mailbox') = Elems(mailbox) \ {m}
      /\ m \notin LeadsOf(backlog) /\ m \notin Elems(buffer) /\ m \notin Started
      /\ m \in Owed /\ ticket[m] > 0
  BY TakenHead DEF Receive
<1>2. UNCHANGED <<reply, ticket, backlog, buffer, alive>> /\ alive
  BY DEF StartNow, Receive
<1>3. task' = [task EXCEPT ![m] = Spawned(Single(m), state)]
  BY DEF StartNow, Start, Single
<1>4. /\ task'[m].phase = "running" /\ task'[m].waiting = {m}
      /\ \A n \in Msg \ {m} : task'[n] = task[n]
  BY <1>3 DEF TasksOK, Spawned, Single
<1>5. Started' = Started \cup {m}
  BY <1>4 DEF Started
<1>6. /\ \A n \in Msg \ {m} : Waits'[n] = Waits[n]
      /\ Waits'[m] = {m} /\ Waits[m] = {}
  BY <1>1, <1>4 DEF Waits, WaitInv, WaitSets
<1>7. Owed' = Owed
  BY <1>2 DEF Owed
<1>8. WaitSets'
  <2>1. \A t \in Msg :
          /\ Waits'[t] \cap (Elems(mailbox') \cup LeadsOf(backlog') \cup Elems(buffer')) = {}
          /\ t \notin Started' => Waits'[t] = {}
    BY <1>1, <1>2, <1>5, <1>6 DEF WaitInv, WaitSets
  <2>2. \A t, u \in Msg : t # u => Waits'[t] \cap Waits'[u] = {}
    BY <1>1, <1>6 DEF WaitInv, WaitSets
  <2>3. \A n : (\E t \in Msg : n \in Waits'[t]) <=> n = m \/ \E t \in Msg : n \in Waits[t]
    BY <1>6
  <2>4. \A n : n \in Owed' <=>
          \/ n \in Elems(mailbox') \cup LeadsOf(backlog') \cup Elems(buffer')
          \/ \E t \in Msg : n \in Waits'[t]
    BY <1>1, <1>2, <1>7, <2>3 DEF WaitInv, WaitSets
  <2>5. /\ Elems(mailbox') \cap LeadsOf(backlog') = {} /\ Elems(mailbox') \cap Elems(buffer') = {}
        /\ LeadsOf(backlog') \cap Elems(buffer') = {}
        /\ Started' \cap (Elems(mailbox') \cup LeadsOf(backlog') \cup Elems(buffer')) = {}
    BY <1>1, <1>2, <1>5 DEF WaitInv, WaitSets
  <2>6. QED BY <2>1, <2>2, <2>4, <2>5 DEF WaitSets
<1>9. \A t \in Msg : task'[t].phase # "running" => Waits'[t] = {}
  BY <1>4, <1>6 DEF WaitInv
<1>10. QED BY <1>1, <1>2, <1>5, <1>8, <1>9 DEF WaitInv

(* Nothing is done with the tasks, and it is queued, or refused for want of room. *)
LEMMA TakenQueued ==
  ASSUME Rest, WaitInv, NEW m \in Msg, Receive(m), Enqueue(m), UNCHANGED <<buffer, task>>
  PROVE  WaitInv'
<1>1. /\ m \in Elems(mailbox) /\ Distinct(mailbox') /\ Elems(mailbox') = Elems(mailbox) \ {m}
      /\ m \notin LeadsOf(backlog) /\ m \notin Elems(buffer) /\ m \notin Started
  BY TakenHead DEF Receive
<1>2. Waits' = Waits /\ Started' = Started
  BY DEF Waits, Started
<1>3. CASE backlog' = Append(backlog, Single(m)) /\ UNCHANGED reply
  <2>1. Lined(backlog') /\ LeadsOf(backlog') = LeadsOf(backlog) \cup {m}
    BY <1>1, <1>3, LineGrows DEF Rest, WaitInv
  <2>2. Owed' = Owed
    BY <1>3 DEF Owed, Receive
  <2>3. WaitSets'
    BY <1>1, <1>2, <2>1, <2>2 DEF WaitInv, WaitSets
  <2>4. QED BY <1>1, <1>2, <2>1, <2>3 DEF WaitInv, Receive
<1>4. CASE reply' = Answered(reply, {m}, "full") /\ UNCHANGED backlog
  BY <1>2, <1>4, TakenAnswered, AnswerKinds DEF WaitInv
<1>5. QED BY <1>3, <1>4 DEF Enqueue

LEMMA TakenCollected ==
  ASSUME Rest, WaitInv, NEW m \in Msg, Receive(m), buffer' = Append(buffer, m),
         UNCHANGED <<reply, backlog, task>>
  PROVE  WaitInv'
<1>1. /\ m \in Elems(mailbox) /\ Distinct(mailbox') /\ Elems(mailbox') = Elems(mailbox) \ {m}
      /\ m \notin LeadsOf(backlog) /\ m \notin Elems(buffer) /\ m \notin Started
  BY TakenHead DEF Receive
<1>2. Waits' = Waits /\ Started' = Started
  BY DEF Waits, Started
<1>3. Distinct(buffer') /\ Elems(buffer') = Elems(buffer) \cup {m}
  BY <1>1, Grows DEF Rest, WaitInv
<1>4. Owed' = Owed
  BY DEF Owed, Receive
<1>5. WaitSets'
  BY <1>1, <1>2, <1>3, <1>4 DEF WaitInv, WaitSets
<1>6. QED BY <1>1, <1>2, <1>3, <1>5 DEF WaitInv, Receive

(* An interrupt is alone in the queues. *)
LEMMA TakenPreempts ==
  ASSUME Rest, WaitInv, NEW m \in Msg, Receive(m), Waits' = Waits, Started' = Started,
         \A t \in Msg : task'[t].phase = task[t].phase,
         backlog' = <<Single(m)>>, buffer' = <<>>,
         reply' = Answered(reply, Queued \ UNION {t.waiting : t \in Elems(backlog')}, "preempted")
  PROVE  WaitInv'
<1>1. /\ m \in Elems(mailbox) /\ Distinct(mailbox') /\ Elems(mailbox') = Elems(mailbox) \ {m}
      /\ m \notin LeadsOf(backlog) /\ m \notin Elems(buffer) /\ m \notin Started
  BY TakenHead DEF Receive
<1>2. /\ Lined(backlog') /\ LeadsOf(backlog') = {m}
      /\ UNION {t.waiting : t \in Elems(backlog')} = {m}
  BY DEF Lined, LeadsOf, Elems, Single
<1>3. Elems(buffer') = {} /\ Distinct(buffer')
  BY EmptyElems
<1>4. Owed' = Owed \ (LeadsOf(backlog) \cup Elems(buffer))
  <2>1. Queued \ {m} = LeadsOf(backlog) \cup Elems(buffer)
    BY <1>1, QueuedSets DEF WaitInv
  <2>2. QED BY <1>2, <2>1, OwedAfter, AnswerKinds DEF Receive
<1>5. WaitSets'
  BY <1>1, <1>2, <1>3, <1>4 DEF WaitInv, WaitSets
<1>6. QED BY <1>1, <1>2, <1>3, <1>5 DEF WaitInv, Receive

(* The actor leaves its loop. *)
LEMMA EveryoneLeft ==
  ASSUME Rest, WaitInv, NEW r, Exit(r, LeftBehind), r = reply \/ \E m \in Elems(mailbox) : r = Answered(reply, {m}, "ok"),
         UNCHANGED <<ticket, task>>
  PROVE  WaitInv'
<1>1. mailbox' = <<>> /\ backlog' = <<>> /\ buffer' = <<>> /\ reply' = Answered(r, LeftBehind, "closed")
  BY DEF Exit
<1>2. Waits' = Waits /\ Started' = Started
  BY DEF Waits, Started
<1>3. LeftBehind = Elems(mailbox) \cup LeadsOf(backlog) \cup Elems(buffer)
  BY QueuedSets DEF LeftBehind, WaitInv
<1>4. \A m \in Msg : reply'[m] = "none" <=> reply[m] = "none" /\ m \notin LeftBehind
  BY <1>1, <1>3 DEF Answered, Rest
<1>5. Owed' = Owed \ LeftBehind
  BY <1>4 DEF Owed
<1>6. WaitSets'
  BY <1>1, <1>2, <1>3, <1>5, EmptyElems DEF WaitInv, WaitSets
<1>7. QED BY <1>1, <1>2, <1>6, EmptyElems DEF WaitInv

(* The turn of k starts with those who leave the queues. *)
LEMMA LeaveForTurn ==
  ASSUME WaitSets, NEW k \in Msg, NEW X, k \in X,
         X = (LeadsOf(backlog) \cup Elems(buffer)) \ (LeadsOf(backlog') \cup Elems(buffer')),
         LeadsOf(backlog') \subseteq LeadsOf(backlog), Elems(buffer') \subseteq Elems(buffer),
         Elems(mailbox') = Elems(mailbox), Started' = Started \cup {k}, Owed' = Owed,
         Waits'[k] = X, \A t \in Msg \ {k} : Waits'[t] = Waits[t]
  PROVE  WaitSets'
<1>1. Waits[k] = {}
  BY DEF WaitSets
<1>2. \A t \in Msg :
        /\ Waits'[t] \cap (Elems(mailbox') \cup LeadsOf(backlog') \cup Elems(buffer')) = {}
        /\ t \notin Started' => Waits'[t] = {}
  BY <1>1 DEF WaitSets
<1>3. \A t, u \in Msg : t # u => Waits'[t] \cap Waits'[u] = {}
  BY DEF WaitSets
<1>4. \A n : (\E t \in Msg : n \in Waits'[t]) <=> n \in X \/ \E t \in Msg : n \in Waits[t]
  BY <1>1
<1>5. \A n : n \in Owed' <=>
        \/ n \in Elems(mailbox') \cup LeadsOf(backlog') \cup Elems(buffer')
        \/ \E t \in Msg : n \in Waits'[t]
  BY <1>4 DEF WaitSets
<1>6. /\ Elems(mailbox') \cap LeadsOf(backlog') = {} /\ Elems(mailbox') \cap Elems(buffer') = {}
      /\ LeadsOf(backlog') \cap Elems(buffer') = {}
      /\ Started' \cap (Elems(mailbox') \cup LeadsOf(backlog') \cup Elems(buffer')) = {}
  BY DEF WaitSets
<1>7. QED BY <1>2, <1>3, <1>5, <1>6 DEF WaitSets

LEMMA FlushKeepsWaits ==
  ASSUME Rest, TasksOK, WaitInv, FlushCollect PROVE WaitInv'
<1> DEFINE k == buffer[1]
           t == [lead |-> buffer[1], texts |-> Elems(buffer), waiting |-> Elems(buffer)]
<1>1. /\ k \in Elems(buffer) /\ k \in Msg
  BY Shrinks, ElemsIn DEF Rest, WaitInv, FlushCollect
<1>2. task' = [task EXCEPT ![k] = Spawned(t, state)]
  BY DEF FlushCollect, Start
<1>3. Spawned(t, state).phase = "running" /\ Spawned(t, state).waiting = Elems(buffer)
  BY DEF Spawned
<1>4. /\ UNCHANGED <<alive, mailbox, ticket, reply, backlog>> /\ buffer' = <<>> /\ alive
  BY DEF FlushCollect
<1> HIDE DEF t, k
<1>5. /\ task'[k].phase = "running" /\ task'[k].waiting = Elems(buffer)
      /\ \A n \in Msg \ {k} : task'[n] = task[n]
  BY <1>1, <1>2, <1>3 DEF TasksOK
<1>6. Started' = Started \cup {k} /\ k \notin Started
  BY <1>1, <1>5 DEF Started, WaitInv, WaitSets
<1>7. Waits'[k] = Elems(buffer) /\ \A n \in Msg \ {k} : Waits'[n] = Waits[n]
  BY <1>1, <1>5 DEF Waits
<1>8. Elems(buffer') = {} /\ Distinct(buffer')
  BY <1>4, EmptyElems
<1>9. WaitSets'
  <2>1. Elems(buffer) = (LeadsOf(backlog) \cup Elems(buffer)) \ (LeadsOf(backlog') \cup Elems(buffer'))
    BY <1>4, <1>8 DEF WaitInv, WaitSets
  <2>2. Owed' = Owed
    BY <1>4 DEF Owed
  <2>3. QED BY <1>1, <1>4, <1>6, <1>7, <1>8, <2>1, <2>2, LeaveForTurn DEF WaitInv
<1>10. \A m \in Started' : ticket'[m] > 0
  <2>1. k \in Owed
    BY <1>1 DEF WaitInv, WaitSets
  <2>2. QED BY <1>4, <1>6, <2>1 DEF WaitInv, Owed
<1>11. \A n \in Msg : task'[n].phase # "running" => Waits'[n] = {}
  BY <1>5, <1>7 DEF WaitInv
<1>12. QED BY <1>4, <1>8, <1>9, <1>10, <1>11 DEF WaitInv

LEMMA CompletionKeepsWaits ==
  ASSUME Rest, TasksOK, WaitInv, NEW t \in Msg, TurnCompletes(t) PROVE WaitInv'
<1>1. /\ task[t].phase = "answered" /\ t \in Started /\ alive
      /\ UNCHANGED <<alive, mailbox, ticket, reply, buffer>>
  BY DEF TurnCompletes, In, Started
<1>2. Waits[t] = {}
  BY <1>1 DEF WaitInv
<1>3. /\ Finished(t) = [task EXCEPT ![t] = Finished(t)[t]]
      /\ Finished(t)[t].phase = "over" /\ Finished(t)[t].waiting = {}
  BY DEF Finished, NoTask, TasksOK
<1>4. Owed' = Owed
  BY <1>1 DEF Owed
<1>5. CASE backlog # <<>>
  <2> DEFINE h == Head(backlog)
             k == h.lead
  <2>1. /\ backlog' = Tail(backlog)
        /\ task' = [Finished(t) EXCEPT ![k] = Spawned(h, state')]
    BY <1>5 DEF TurnCompletes, BacklogAfterTurn
  <2>2. /\ Lined(backlog') /\ LeadsOf(backlog') = LeadsOf(backlog) \ {k}
        /\ k \in LeadsOf(backlog) /\ h.waiting = {k} /\ k \in Msg
    BY <1>5, <2>1, LineShrinks DEF Rest, WaitInv
  <2>3. Spawned(h, state').phase = "running" /\ Spawned(h, state').waiting = {k}
    BY <2>2 DEF Spawned
  <2>4. k \notin Started /\ k # t
    BY <1>1, <2>2 DEF WaitInv, WaitSets
  <2> HIDE DEF h, k
  <2>5. /\ task'[k].phase = "running" /\ task'[k].waiting = {k}
        /\ task'[t].phase = "over" /\ task'[t].waiting = {}
        /\ \A n \in Msg \ {k, t} : task'[n] = task[n]
    BY <1>3, <2>1, <2>2, <2>3, <2>4 DEF TasksOK
  <2>6. Started' = Started \cup {k}
    BY <1>1, <2>2, <2>5 DEF Started
  <2>7. Waits'[k] = {k} /\ \A n \in Msg \ {k} : Waits'[n] = Waits[n]
    BY <1>2, <2>2, <2>5 DEF Waits
  <2>8. WaitSets'
    <3>1. {k} = (LeadsOf(backlog) \cup Elems(buffer)) \ (LeadsOf(backlog') \cup Elems(buffer'))
      BY <1>1, <2>2 DEF WaitInv, WaitSets
    <3>2. QED BY <1>1, <1>4, <2>2, <2>6, <2>7, <3>1, LeaveForTurn DEF WaitInv
  <2>9. \A m \in Started' : ticket'[m] > 0
    <3>1. k \in Owed
      BY <2>2 DEF WaitInv, WaitSets
    <3>2. QED BY <1>1, <2>6, <3>1 DEF WaitInv, Owed
  <2>10. \A n \in Msg : task'[n].phase # "running" => Waits'[n] = {}
    BY <1>2, <2>5, <2>7 DEF WaitInv
  <2>11. QED BY <1>1, <2>2, <2>8, <2>9, <2>10 DEF WaitInv
<1>6. CASE backlog = <<>>
  <2>1. task' = Finished(t) /\ UNCHANGED backlog
    BY <1>6 DEF TurnCompletes, BacklogAfterTurn
  <2>2. Started' = Started /\ Waits' = Waits
    BY <1>1, <1>2, <1>3, <2>1 DEF Started, Waits, TasksOK
  <2>3. \A n \in Msg : task'[n].phase # "running" => Waits'[n] = {}
    BY <1>2, <1>3, <2>1, <2>2 DEF WaitInv, TasksOK
  <2>4. WaitSets'
    BY <1>1, <1>4, <2>1, <2>2 DEF WaitInv, WaitSets
  <2>5. QED BY <1>1, <2>1, <2>2, <2>3, <2>4 DEF WaitInv
<1>7. QED BY <1>5, <1>6

(* A turn answers all who wait for it, reads its channel, or is lost. *)
LEMMA TaskKeepsWaits ==
  ASSUME Rest, TasksOK, TasksOK', WaitInv, NEW t \in Msg, TakeSteering(t) \/ TurnTask(t)
  PROVE  WaitInv'
<1>1. UNCHANGED <<alive, mailbox, ticket, backlog, buffer>>
  BY DEF TakeSteering, TurnTask, TurnAnswers, ReportLost
<1>2. CASE TakeSteering(t)
  <2>1. PICK m \in task[t].inbox : task' = [task EXCEPT ![t].inbox = @ \ {m}]
    BY <1>2 DEF TakeSteering
  <2>2. SameTurns
    BY <2>1, InboxSame
  <2>3. Waits' = Waits /\ Started' = Started /\ \A n \in Msg : task'[n].phase = task[n].phase
    BY <2>2, SameWaits DEF SameTurns
  <2>4. Owed' = Owed
    BY <1>1, <1>2 DEF Owed, TakeSteering
  <2>5. QED BY <1>1, <2>3, <2>4 DEF WaitInv, WaitSets
<1>3. CASE TurnAnswers(t)
  <2>1. /\ task[t].phase = "running"
        /\ task' = [task EXCEPT ![t] = [@ EXCEPT !.phase = "answered", !.inbox = {},
                                                 !.waiting = {}, !.cancelled = FALSE]]
    BY <1>3 DEF TurnAnswers, In
  <2>2. /\ task'[t].phase = "answered" /\ task'[t].waiting = {}
        /\ \A n \in Msg \ {t} : task'[n] = task[n]
    BY <2>1 DEF TasksOK, Task
  <2>3. Waits'[t] = {} /\ Waits[t] = task[t].waiting /\ \A n \in Msg \ {t} : Waits'[n] = Waits[n]
    BY <2>2 DEF Waits
  <2>4. Started' = Started
    BY <2>1, <2>2 DEF Started
  <2>5. Owed' = Owed \ Waits[t]
    BY <1>1, <1>3, <2>3, OwedAfter, AnswerKinds DEF TurnAnswers
  <2>6. WaitSets'
    <3>1. \A n : (\E u \in Msg : n \in Waits'[u]) <=> n \notin Waits[t] /\ \E u \in Msg : n \in Waits[u]
      BY <2>3 DEF WaitInv, WaitSets
    <3>2. \A n : n \in Owed' <=>
            \/ n \in Elems(mailbox') \cup LeadsOf(backlog') \cup Elems(buffer')
            \/ \E u \in Msg : n \in Waits'[u]
      BY <1>1, <2>5, <3>1 DEF WaitInv, WaitSets
    <3>3. \A u \in Msg :
            /\ Waits'[u] \cap (Elems(mailbox') \cup LeadsOf(backlog') \cup Elems(buffer')) = {}
            /\ u \notin Started' => Waits'[u] = {}
      BY <1>1, <2>3, <2>4 DEF WaitInv, WaitSets
    <3>4. \A u, v \in Msg : u # v => Waits'[u] \cap Waits'[v] = {}
      BY <2>3 DEF WaitInv, WaitSets
    <3>5. QED BY <1>1, <2>4, <3>2, <3>3, <3>4 DEF WaitInv, WaitSets
  <2>7. \A n \in Msg : task'[n].phase # "running" => Waits'[n] = {}
    BY <2>2, <2>3 DEF WaitInv
  <2>8. QED BY <1>1, <2>4, <2>6, <2>7 DEF WaitInv
<1>4. CASE ReportLost(t)
  <2>1. /\ task[t].phase = "answered"
        /\ task' = [task EXCEPT ![t] = [NoTask EXCEPT !.phase = "lost", !.life = task[t].life]]
    BY <1>4 DEF ReportLost, In
  <2>2. /\ task'[t].phase = "lost" /\ task'[t].waiting = {}
        /\ \A n \in Msg \ {t} : task'[n] = task[n]
    BY <2>1 DEF TasksOK, NoTask
  <2>3. Waits[t] = {}
    BY <2>1 DEF WaitInv
  <2>4. Waits' = Waits /\ Started' = Started
    BY <2>1, <2>2, <2>3 DEF Waits, Started
  <2>5. Owed' = Owed
    BY <1>1, <1>4 DEF Owed, ReportLost
  <2>6. \A n \in Msg : task'[n].phase # "running" => Waits'[n] = {}
    BY <2>2, <2>3, <2>4 DEF WaitInv
  <2>7. QED BY <1>1, <2>4, <2>5, <2>6 DEF WaitInv, WaitSets
<1>5. QED BY <1>2, <1>3, <1>4 DEF TurnTask

LEMMA CallersKeepWaits ==
  ASSUME Rest, WaitInv, NEW m \in Msg, GetOrCreate(m) \/ Send(m) PROVE WaitInv'
<1>1. CASE GetOrCreate(m)
  <2>1. UNCHANGED <<mailbox, ticket, reply, backlog, buffer, task>> /\ (~alive' => ~alive)
    BY <1>1 DEF GetOrCreate
  <2>2. Waits' = Waits /\ Started' = Started /\ Owed' = Owed
    BY <2>1 DEF Waits, Started, Owed
  <2>3. QED BY <2>1, <2>2 DEF WaitInv, WaitSets
<1>2. CASE Send(m)
  <2>1. /\ UNCHANGED <<backlog, buffer, task, alive>> /\ ticket[m] = 0 /\ reply[m] = "none"
        /\ ticket \in [Msg -> Nat] /\ accepted \in Nat /\ reply \in [Msg -> Replies]
    BY <1>2 DEF Send, Rest
  <2>2. Waits' = Waits /\ Started' = Started
    BY <2>1 DEF Waits, Started
  <2>3. m \notin Owed /\ m \notin Started
    BY <2>1 DEF Owed, WaitInv
  <2>4. CASE /\ mailbox' = Append(mailbox, m) /\ accepted' = accepted + 1
             /\ ticket' = [ticket EXCEPT ![m] = accepted'] /\ UNCHANGED reply /\ alive
    <3>1. m \notin Elems(mailbox)
      BY <2>3 DEF WaitInv, WaitSets
    <3>2. Distinct(mailbox') /\ Elems(mailbox') = Elems(mailbox) \cup {m}
      BY <2>4, <3>1, Grows DEF Rest, WaitInv
    <3>3. ticket'[m] > 0 /\ \A n \in Msg \ {m} : ticket'[n] = ticket[n]
      BY <2>1, <2>4
    <3>4. Owed' = Owed \cup {m}
      BY <2>1, <2>4, <3>3 DEF Owed
    <3>5. WaitSets'
      BY <2>1, <2>2, <2>3, <3>2, <3>4 DEF WaitInv, WaitSets
    <3>6. \A n \in Started' : ticket'[n] > 0
      BY <2>2, <2>3, <3>3 DEF WaitInv, Started
    <3>7. QED BY <2>1, <2>2, <2>4, <3>2, <3>5, <3>6 DEF WaitInv
  <2>5. CASE reply' = Answered(reply, {m}, "closed") /\ UNCHANGED <<mailbox, ticket, accepted>>
    <3>1. Owed' = Owed \ {m}
      BY <2>5, OwedAfter, AnswerKinds
    <3>2. Owed' = Owed
      BY <2>3, <3>1
    <3>3. QED BY <2>1, <2>2, <2>5, <3>2 DEF WaitInv, WaitSets
  <2>6. QED BY <1>2, <2>4, <2>5 DEF Send
<1>3. QED BY <1>1, <1>2

LEMMA HandleKeepsWaits ==
  ASSUME Rest, TasksOK, TasksOK', WaitInv, NEW m \in Msg, Handle(m) PROVE WaitInv'
<1> DEFINE Same == Waits' = Waits /\ Started' = Started /\ \A t \in Msg : task'[t].phase = task[t].phase
<1>1. SameTurns => Same
  BY SameWaits DEF SameTurns
<1>2. UNCHANGED task => Same
  BY DEF Waits, Started
<1>3. ASSUME Receive(m), Same, UNCHANGED <<backlog, buffer>>,
             NEW what \in Replies \ {"none"}, reply' = Answered(reply, {m}, what)
      PROVE  WaitInv'
  BY <1>3, TakenAnswered DEF WaitInv
<1> HIDE DEF Same
<1>4. CASE HandleFollowup(m)
  BY <1>4, TakenStarts, TakenQueued DEF HandleFollowup
<1>5. CASE HandleInterrupt(m)
  <2>1. CASE StartNow(m)
    BY <1>5, <2>1, TakenStarts DEF HandleInterrupt
  <2>2. CASE /\ task' = CancelActive
             /\ backlog' = Preempted(Single(m)) /\ buffer' = <<>>
             /\ reply' = Answered(reply, Queued \ UNION {t.waiting : t \in Elems(backlog')}, "preempted")
    <3>1. Same
      BY <1>1, <2>2, CancelSame
    <3>2. QED BY <1>5, <2>2, <3>1, TakenPreempts DEF Same, HandleInterrupt, Preempted
  <2>3. QED BY <1>5, <2>1, <2>2 DEF HandleInterrupt
<1>6. CASE HandleSteer(m)
  <2>1. CASE StartNow(m)
    BY <1>6, <2>1, TakenStarts DEF HandleSteer
  <2>2. CASE /\ task' = Steered(m) /\ reply' = Answered(reply, {m}, "ok")
             /\ UNCHANGED <<backlog, buffer>>
    BY <1>1, <1>3, <1>6, <2>2, SteerSame, AnswerKinds DEF HandleSteer
  <2>3. QED BY <1>6, <2>1, <2>2 DEF HandleSteer
<1>7. CASE HandleGuide(m)
  <2>1. Same
    BY <1>1, <1>2, <1>7, SteerSame DEF HandleGuide
  <2>2. reply' = Answered(reply, {m}, "no turn") \/ reply' = Answered(reply, {m}, "ok")
    BY <1>7 DEF HandleGuide
  <2>3. QED BY <1>3, <1>7, <2>1, <2>2, AnswerKinds DEF HandleGuide
<1>8. CASE HandleCollect(m)
  <2>1. CASE /\ LastIsCollect /\ backlog' = [backlog EXCEPT ![Len(backlog)].texts = @ \cup {m}]
             /\ reply' = Answered(reply, {m}, "merged") /\ UNCHANGED <<buffer, task>>
    <3> DEFINE n == Len(backlog)
               x == backlog[n].texts \cup {m}
    <3>1. n \in 1..Len(backlog)
      BY <2>1, EmptySeq, LenProperties DEF LastIsCollect, Rest
    <3>2. backlog' = [backlog EXCEPT ![n].texts = x]
      BY <2>1
    <3> HIDE DEF n
    <3>3. backlog[n] \in Turn
      BY <3>1 DEF Rest
    <3>4. x \in SUBSET Msg
      BY <3>3 DEF Turn
    <3> HIDE DEF x
    <3>5. Lined(backlog') /\ LeadsOf(backlog') = LeadsOf(backlog)
      BY <3>1, <3>2, <3>4, LineMerges DEF Rest, WaitInv
    <3>6. Same
      BY <1>2, <2>1
    <3>7. QED BY <1>8, <2>1, <3>5, <3>6, TakenAnswered, AnswerKinds DEF Same, HandleCollect, WaitInv
  <2>2. CASE Enqueue(m) /\ UNCHANGED <<buffer, task>>
    BY <1>8, <2>2, TakenQueued DEF HandleCollect
  <2>3. CASE buffer' = Append(buffer, m) /\ UNCHANGED <<reply, backlog, task>>
    BY <1>8, <2>3, TakenCollected DEF HandleCollect
  <2>4. QED BY <1>8, <2>1, <2>2, <2>3 DEF HandleCollect
<1>9. CASE HandleStop(m)
  <2>1. Same
    BY <1>1, <1>9, CancelSame DEF HandleStop
  <2>2. QED BY <1>3, <1>9, <2>1, AnswerKinds DEF HandleStop
<1>10. CASE HandleShutdown(m)
  <2>1. m \in Elems(mailbox)
    BY <1>10, Shrinks DEF HandleShutdown, Rest, WaitInv
  <2>2. Exit(Answered(reply, {m}, "ok"), LeftBehind) /\ UNCHANGED <<ticket, task>>
    BY <1>10 DEF HandleShutdown
  <2>3. QED BY <2>1, <2>2, EveryoneLeft
<1>11. QED BY <1>4, <1>5, <1>6, <1>7, <1>8, <1>9, <1>10 DEF Handle

LEMMA WaitStep == ASSUME Rest, TasksOK, TasksOK', WaitInv, [Next]_vars PROVE WaitInv'
<1>1. CASE UNCHANGED vars
  <2>1. UNCHANGED <<mailbox, ticket, reply, backlog, buffer, task, alive>>
    BY <1>1 DEF vars
  <2>2. Waits' = Waits /\ Started' = Started /\ Owed' = Owed
    BY <2>1 DEF Waits, Started, Owed
  <2>3. QED BY <2>1, <2>2 DEF WaitInv, WaitSets
<1>2. CASE IdleTimeout
  <2>1. Exit(reply, LeftBehind) /\ UNCHANGED <<ticket, task>>
    BY <1>2 DEF IdleTimeout
  <2>2. QED BY <2>1, EveryoneLeft
<1>3. QED
  BY <1>1, <1>2, CallersKeepWaits, HandleKeepsWaits, FlushKeepsWaits, CompletionKeepsWaits, TaskKeepsWaits DEF Next, Actor

LEMMA InitWaits == ASSUME Init PROVE WaitInv
<1>1. mailbox = <<>> /\ backlog = <<>> /\ buffer = <<>>
  BY DEF Init
<1>2. \A t \in Msg : task[t].phase = "none" /\ task[t].waiting = {}
  BY DEF Init, NoTask
<1>3. Started = {} /\ Owed = {} /\ \A t \in Msg : Waits[t] = {}
  BY <1>2 DEF Init, Started, Owed, Waits
<1>4. WaitSets
  BY <1>1, <1>3, EmptyElems DEF WaitSets
<1>5. QED BY <1>1, <1>3, <1>4, EmptyElems DEF WaitInv

LEMMA WaitsAreMet == ASSUME Rest, WaitInv PROVE NobodyIsStranded
<1>1. Queued = LeadsOf(backlog) \cup Elems(buffer)
  BY QueuedSets DEF WaitInv
<1>2. \A n : (\E t \in Msg : n \in Waits[t]) <=> \E t \in In({"running"}) : n \in task[t].waiting
  BY DEF WaitInv, Waits, In
<1>3. ~alive => mailbox = <<>> /\ Queued = {}
  BY <1>1, EmptyElems DEF WaitInv
<1>4. Owed = Elems(mailbox) \cup Queued \cup UNION {task[t].waiting : t \in In({"running"})}
  BY <1>1, <1>2 DEF WaitInv, WaitSets
<1>5. QED BY <1>3, <1>4 DEF NobodyIsStranded

LEMMA IInvStep == IInv /\ [Next]_vars => IInv'
<1> SUFFICES ASSUME IInv, [Next]_vars PROVE IInv'
  OBVIOUS
<1>1. Rest /\ TasksOK /\ WaitInv /\ (Uncollected => Orderly)
  BY TypeParts DEF IInv
<1>2. Rest' /\ TasksOK'
  BY <1>1, TypeStep
<1>3. WaitInv'
  BY <1>1, <1>2, WaitStep
<1>4. Uncollected' => Orderly'
  BY <1>1, OrderStep
<1>5. QED BY <1>2, <1>3, <1>4, TypePartsNext DEF IInv

LEMMA Inductive == Spec => []IInv
<1>1. Init => IInv
  BY InitType, InitOrder, InitWaits DEF IInv
<1>2. QED BY <1>1, IInvStep, PTL DEF Spec

-----------------------------------------------------------------------------
(* The theorems *)

(* The state stays in its types: the mailbox, the backlog and the steering    *)
(* channel of a turn never hold more than their bounds.                       *)
THEOREM TypeCorrect == Spec => []TypeOK
<1>1. IInv => TypeOK
  BY DEF IInv
<1>2. QED BY <1>1, Inductive, PTL

(* A session runs its turns one at a time, whatever interrupts, steers or     *)
(* ends it, as long as nothing was collected.                                 *)
THEOREM Sequential == Spec => []TurnsAreSequential
<1>1. IInv => TurnsAreSequential
  <2> SUFFICES ASSUME IInv, Uncollected PROVE OneTurnAtATime
    BY DEF TurnsAreSequential
  <2>1. \A m, n \in Own \cap In({"running"}) : m = n
    BY DEF IInv, Orderly, TurnInv, Live, In
  <2>2. CASE Own \cap In({"running"}) = {}
    BY <2>2, FS_EmptySet DEF OneTurnAtATime
  <2>3. CASE Own \cap In({"running"}) # {}
    <3>1. PICK m : Own \cap In({"running"}) = {m}
      BY <2>1, <2>3
    <3>2. QED BY <3>1, FS_Singleton DEF OneTurnAtATime
  <2>4. QED BY <2>2, <2>3
<1>2. QED BY <1>1, Inductive, PTL

(* Who is owed an answer is who waits in the mailbox, in a queue or with a    *)
(* turn that runs, in every queue mode, collected messages included: nobody   *)
(* is forgotten and nobody is answered twice, over every interrupt, shutdown  *)
(* and new life of the session.                                               *)
THEOREM NobodyStranded == Spec => []NobodyIsStranded
<1>1. IInv => NobodyIsStranded
  BY TypeParts, WaitsAreMet DEF IInv
<1>2. QED BY <1>1, Inductive, PTL

(* An idle actor has an empty queue and no turn of its own about to report:   *)
(* the idle timeout never throws a turn away. And nobody is stranded.         *)
THEOREM Settled == Spec => []IdleIsSettled
<1>1. IInv => IdleIsSettled
  <2> SUFFICES ASSUME IInv, Uncollected, alive, status = "idle"
               PROVE  backlog = <<>> /\ Own \cap In({"running", "answered"}) = {}
    BY TypeParts, WaitsAreMet DEF IdleIsSettled, IInv
  <2>1. active = NoTurn /\ backlog = <<>> /\ \A m \in Own \cap Live : m = active
    BY DEF IInv, Orderly, TurnInv
  <2>2. Own \cap Live = {}
    BY <2>1, SessionAssumption DEF Own
  <2>3. QED BY <2>1, <2>2 DEF Live
<1>2. QED BY <1>1, Inductive, PTL

(* With a checkpointer that works, every turn the actor took back is in the   *)
(* checkpoint, through every later turn, shutdown and life of the session.    *)
THEOREM Kept == Spec => []CompletedTurnsAreKept
<1>1. IInv => CompletedTurnsAreKept
  BY DEF CompletedTurnsAreKept, IInv, Orderly, KeepInv
<1>2. QED BY <1>1, Inductive, PTL

-----------------------------------------------------------------------------
(* The order in which turns start *)

NextInOrder ==
  \A m \in Msg, n \in Msg :
    Uncollected /\ task[m].phase = "none" /\ task'[m].phase = "running" /\ task[n].phase # "none"
      => ticket[n] < ticket[m]

(* A step that starts a turn starts the head of the mailbox or of the backlog. *)
LEMMA Starts ==
  ASSUME Rest, TasksOK, Orderly, Uncollected, [Next]_vars,
         NEW m \in Msg, task[m].phase = "none", task'[m].phase = "running"
  PROVE  \/ mailbox # <<>> /\ m = Head(mailbox)
         \/ backlog # <<>> /\ m = Head(backlog).lead
<1>1. ASSUME NEW n \in Msg, Receive(n), StartNow(n) PROVE n = m /\ mailbox # <<>> /\ m = Head(mailbox)
  <2>1. task' = [task EXCEPT ![n] = Spawned(Single(n), state)]
    BY <1>1 DEF StartNow, Start, Single
  <2>2. QED BY <1>1, <2>1 DEF Receive, TasksOK
<1>2. ASSUME NEW n \in Msg, Handle(n) PROVE mailbox # <<>> /\ m = Head(mailbox)
  <2>1. StartNow(n) \/ SameTurns
    <3>1. UNCHANGED task => SameTurns
      BY DEF SameTurns
    <3>2. QED BY <1>2, <3>1, CancelSame, SteerSame DEF Handle, HandleFollowup, HandleInterrupt, HandleSteer,
       HandleGuide, HandleCollect, HandleStop, HandleShutdown
  <2>2. ~SameTurns
    BY DEF SameTurns
  <2>3. Receive(n)
    <3>1. ~HandleShutdown(n)
      BY <2>2 DEF HandleShutdown, SameTurns
    <3>2. QED BY <1>2, <3>1 DEF Handle, HandleFollowup, HandleInterrupt, HandleSteer,
       HandleGuide, HandleCollect, HandleStop
  <2>4. QED BY <1>1, <2>1, <2>2, <2>3
<1>3. ASSUME NEW t \in Msg, TurnCompletes(t) PROVE backlog # <<>> /\ m = Head(backlog).lead
  <2>1. Finished(t) = [task EXCEPT ![t] = Finished(t)[t]] /\ Finished(t)[t].phase = "over"
    BY DEF Finished, NoTask, TasksOK
  <2>2. Finished(t)[m].phase # "running"
    BY <2>1 DEF TasksOK
  <2>3. backlog # <<>> /\ task' = [Finished(t) EXCEPT ![Head(backlog).lead] = Spawned(Head(backlog), state')]
    BY <1>3, <2>2 DEF TurnCompletes, BacklogAfterTurn
  <2>4. QED BY <2>2, <2>3
<1>4. ASSUME NEW t \in Msg, TakeSteering(t) \/ TurnTask(t) PROVE FALSE
  <2>1. CASE TakeSteering(t)
    <3>1. PICK n \in task[t].inbox : task' = [task EXCEPT ![t].inbox = @ \ {n}]
      BY <2>1 DEF TakeSteering
    <3>2. SameTurns
      BY <3>1, InboxSame
    <3>3. QED BY <3>2 DEF SameTurns
  <2>2. CASE TurnTask(t)
    <3>1. PICK k : task' = [task EXCEPT ![t] = k] /\ task[t].phase # "none"
      BY <2>2 DEF TurnTask, TurnAnswers, ReportLost, In
    <3>2. QED BY <3>1 DEF TasksOK
  <2>3. QED BY <1>4, <2>1, <2>2
<1>5. CASE UNCHANGED task
  BY <1>5
<1>6. ~FlushCollect
  BY DEF FlushCollect, Orderly, QueueInv
<1>7. (\E n \in Msg : GetOrCreate(n) \/ Send(n)) \/ IdleTimeout \/ UNCHANGED vars => UNCHANGED task
  BY DEF GetOrCreate, Send, IdleTimeout, vars
<1>8. QED BY <1>2, <1>3, <1>4, <1>5, <1>6, <1>7 DEF Next, Actor

(* A turn starts only after every turn whose message came before it: neither  *)
(* the queue nor an interrupt lets a later message overtake.                  *)
THEOREM InOrder == Spec => TurnsStartInOrder
<1>1. IInv /\ [Next]_vars => [NextInOrder]_vars
  <2> SUFFICES ASSUME IInv, [Next]_vars, Uncollected, NEW m \in Msg, NEW n \in Msg,
                      task[m].phase = "none", task'[m].phase = "running", task[n].phase # "none"
               PROVE  ticket[n] < ticket[m]
    BY DEF NextInOrder
  <2>1. Rest /\ TasksOK /\ Orderly
    BY TypeParts DEF IInv
  <2>2. n \in Started
    BY DEF Started
  <2>3. CASE mailbox # <<>> /\ m = Head(mailbox)
    <3>1. Len(mailbox) \in Nat \ {0} /\ mailbox[1] = m
      BY <2>1, <2>3, EmptySeq, LenProperties, HeadTailProperties DEF Rest
    <3>2. QED BY <2>1, <2>2, <3>1 DEF Orderly, QueueInv
  <2>4. CASE backlog # <<>> /\ m = Head(backlog).lead
    <3>1. Len(backlog) \in Nat \ {0} /\ backlog[1].lead = m
      BY <2>1, <2>4, EmptySeq, LenProperties, HeadTailProperties DEF Rest
    <3>2. QED BY <2>1, <2>2, <3>1 DEF Orderly, QueueInv
  <2>5. QED BY <2>1, <2>3, <2>4, Starts
<1>2. QED BY <1>1, Inductive, PTL DEF Spec, TurnsStartInOrder, NextInOrder
=============================================================================
