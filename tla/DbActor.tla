------------------------------- MODULE DbActor -------------------------------
(***************************************************************************)
(* The dedicated SQLite writer of liva-native-core (db_actor.rs): callers   *)
(* put commands into a bounded channel, one OS thread takes them in greedy  *)
(* batches, runs each batch as a transaction split around the commands that *)
(* cannot live in one, publishes the L3 graph snapshot after the COMMIT and *)
(* answers the callers.                                                     *)
(*                                                                          *)
(* A command is an identity; what it writes is abstracted to that identity. *)
(* What the thread does with a command depends on its Kind:                 *)
(*   "write"   PersistTurn(sBatch), SaveAgentCheckpoint, recall statistics  *)
(*   "quiet"   the same, submitted with try_send and no responder           *)
(*   "graph"   InsertL3Triple(sBatch), InsertL3Node, InsertL3Edge           *)
(*   "event"   AppendSessionEvent, which carries its own responder          *)
(*   "flush"   Flush              "ckpt"  CheckpointWal                     *)
(*   "exec"    Execute with an ordinary closure                             *)
(*   "project" Execute with the closure of consume_pending_once, which adds *)
(*             L3 rows and stores a graph of its own                        *)
(*   "forget"  Execute with the closure of delete_subject, which deletes    *)
(*             the L3 rows                                                  *)
(***************************************************************************)
EXTENDS Naturals, Sequences

CONSTANTS Cmd,        \* the commands callers may ever submit
          Kind,       \* what each command asks for
          QueueCap,   \* capacity of the channel (1024 in the code)
          BatchMax,   \* longest batch (50 in the code)
          MaxCrashes  \* bound on the crashes of the process

Kinds == {"write", "quiet", "graph", "event", "flush",
          "ckpt", "exec", "project", "forget"}

ASSUME DbActorAssumption ==
  /\ Kind \in [Cmd -> Kinds]
  /\ QueueCap \in Nat \ {0}
  /\ BatchMax \in Nat \ {0}
  /\ MaxCrashes \in Nat

VARIABLES
  called,    \* commands whose submission is over, accepted or not
  open,      \* some DbActorHandle (Sender) is still alive
  queue,     \* the mpsc channel
  accepted,  \* history: how many commands the channel has accepted
  ticket,    \* history: position of a command in the channel's order, 0 if none
  phase,     \* where the writer thread is
  conn,      \* persistent_conn is Some
  batch,     \* commands of the current batch not yet executed
  done,      \* commands executed whose notification is pending
  durable,   \* commands whose effect is committed to SQLite
  rows,      \* commands whose L3 rows are committed and not deleted
  reply,     \* what the caller was told
  builder,   \* csr_builder, as the commands whose rows it holds
  shared,    \* the published snapshot (ArcSwap)
  mine,      \* last_stored_arc is the published snapshot
  crashes

chanVars  == <<called, open, queue, accepted, ticket>>
dbVars    == <<durable, rows>>
graphVars == <<builder, shared, mine>>
vars == <<called, open, queue, accepted, ticket, phase, conn, batch, done, durable,
          rows, reply, builder, shared, mine, crashes>>

Phases == {"idle", "drain", "reject", "split", "tx", "abort",
           "publish", "refresh", "ack", "stopped", "down"}

Replies == {"none", "ok", "err", "lost"}

Of(kinds)  == {c \in Cmd : Kind[c] \in kinds}
Execute    == Of({"exec", "project", "forget"})
Standalone == Execute \cup Of({"ckpt"})
InTx       == Cmd \ Standalone
GraphRow   == Of({"graph", "project"})
Writes     == Cmd \ Of({"flush", "ckpt"})
Replying   == Cmd \ Of({"quiet"})

Elems(s) == {s[i] : i \in 1..Len(s)}
InFlight == Elems(queue) \cup Elems(batch) \cup done

(* The first command of the batch is one a transaction may hold. *)
HeadInTx == batch # <<>> /\ Head(batch) \in InTx

(* Each one-shot responder of cs that is still held receives r. *)
Answer(cs, r) ==
  reply' = [c \in Cmd |-> IF c \in cs \cap Replying /\ reply[c] = "none"
                          THEN r ELSE reply[c]]

TypeOK ==
  /\ called \subseteq Cmd
  /\ open \in BOOLEAN
  /\ queue \in Seq(Cmd)
  /\ accepted \in Nat
  /\ ticket \in [Cmd -> Nat]
  /\ phase \in Phases
  /\ conn \in BOOLEAN
  /\ batch \in Seq(Cmd)
  /\ Len(queue) <= QueueCap /\ Len(batch) <= BatchMax
  /\ done \subseteq Cmd
  /\ durable \subseteq Cmd
  /\ rows \subseteq Cmd
  /\ reply \in [Cmd -> Replies]
  /\ builder \subseteq Cmd
  /\ shared \subseteq Cmd
  /\ mine \in BOOLEAN
  /\ crashes \in Nat

(* DatabasePool::new loads the graph from the tables (empty here) and hands *)
(* one copy to the ArcSwap and another to the thread, whose last_stored_arc *)
(* is a third one: it is never the published one at first.                  *)
Init ==
  /\ called = {} /\ open = TRUE
  /\ queue = <<>> /\ accepted = 0 /\ ticket = [c \in Cmd |-> 0]
  /\ phase = "idle" /\ conn \in BOOLEAN
  /\ batch = <<>> /\ done = {}
  /\ durable = {} /\ rows = {}
  /\ reply = [c \in Cmd |-> "none"]
  /\ builder = {} /\ shared = {} /\ mine = FALSE
  /\ crashes = 0

-----------------------------------------------------------------------------
(* Callers *)

Enqueue(c) ==
  /\ queue' = Append(queue, c)
  /\ accepted' = accepted + 1
  /\ ticket' = [ticket EXCEPT ![c] = accepted']

Callable(c) ==
  /\ open /\ phase \notin {"stopped", "down"}
  /\ c \notin called
  /\ called' = called \cup {c}
  /\ UNCHANGED <<open, phase, conn, batch, done, durable, rows, crashes>>
  /\ UNCHANGED graphVars

(* send().await and blocking_send once the channel has room; a try_send that *)
(* finds room.                                                               *)
Submit(c) ==
  /\ Callable(c)
  /\ Len(queue) < QueueCap
  /\ Enqueue(c)
  /\ UNCHANGED reply

(* A fire-and-forget try_send on a full channel drops the command; a        *)
(* blocking_send gives up after its 1000 attempts and tells its caller, as  *)
(* try_checkpoint_wal does at once.                                         *)
NotAccepted(c) ==
  /\ Callable(c)
  /\ Len(queue) = QueueCap
  /\ Kind[c] \in {"quiet", "graph", "flush", "exec", "ckpt"}
  /\ Answer({c}, "err")
  /\ UNCHANGED <<queue, accepted, ticket>>

(* The last handle is dropped: the channel closes behind what it holds. *)
CloseHandles ==
  /\ open /\ phase # "down"
  /\ open' = FALSE
  /\ UNCHANGED <<called, queue, accepted, ticket, phase, conn, batch, done, durable,
                 rows, reply, crashes>>
  /\ UNCHANGED graphVars

-----------------------------------------------------------------------------
(* The writer thread: forming a batch *)

(* A rejected command's responder hears the error. Mutant: a variant falls *)
(* through to the catch-all arm.                                           *)
RejectCommandButWrites(c) == Answer({c} \ Of({"write"}), "err")
RejectCommand(c) == Answer({c}, "err")

(* A Flush or an Execute is the last command of its batch. *)
EndsBatch == Execute \cup Of({"flush"})

RoomInBatch == Len(batch) < BatchMax

(* Mutant: the newest command first. *)
NewestFirst(b, c) == <<c>> \o b
Extended(b, c) == Append(b, c)

Receive ==
  /\ phase = "idle" /\ queue # <<>>
  /\ conn' = TRUE
  /\ batch' = <<Head(queue)>>
  /\ queue' = Tail(queue)
  /\ phase' = IF Head(queue) \in EndsBatch THEN "split" ELSE "drain"
  /\ UNCHANGED <<called, open, accepted, ticket, done, reply, crashes>>
  /\ UNCHANGED dbVars /\ UNCHANGED graphVars

(* writer_pool.get() fails: the first command is rejected, then whatever *)
(* try_recv still finds.                                                 *)
CheckoutFails ==
  /\ phase = "idle" /\ queue # <<>> /\ ~conn
  /\ RejectCommand(Head(queue))
  /\ queue' = Tail(queue)
  /\ phase' = "reject"
  /\ UNCHANGED <<called, open, accepted, ticket, conn, batch, done, crashes>>
  /\ UNCHANGED dbVars /\ UNCHANGED graphVars

RejectQueued ==
  /\ phase = "reject"
  /\ \/ /\ queue # <<>>
        /\ RejectCommand(Head(queue))
        /\ queue' = Tail(queue)
        /\ UNCHANGED phase
     \/ /\ queue = <<>>
        /\ phase' = "idle"
        /\ UNCHANGED <<queue, reply>>
  /\ UNCHANGED <<called, open, accepted, ticket, conn, batch, done, crashes>>
  /\ UNCHANGED dbVars /\ UNCHANGED graphVars

(* try_recv until the batch is full, the channel is empty, or a command that *)
(* ends the batch was taken.                                                 *)
Drain ==
  /\ phase = "drain"
  /\ \/ /\ RoomInBatch /\ queue # <<>>
        /\ batch' = Extended(batch, Head(queue))
        /\ queue' = Tail(queue)
        /\ phase' = IF Head(queue) \in EndsBatch THEN "split" ELSE "drain"
     \/ /\ ~RoomInBatch \/ queue = <<>>
        /\ phase' = "split"
        /\ UNCHANGED <<batch, queue>>
  /\ UNCHANGED <<called, open, accepted, ticket, conn, done, reply, crashes>>
  /\ UNCHANGED dbVars /\ UNCHANGED graphVars

BatchOver ==
  /\ phase = "split" /\ batch = <<>>
  /\ phase' = "idle"
  /\ UNCHANGED <<conn, batch, done, reply, crashes>>
  /\ UNCHANGED chanVars /\ UNCHANGED dbVars /\ UNCHANGED graphVars

(* blocking_recv returns None. Mutant: the thread holds a Sender itself. *)
DisconnectedNever == FALSE
Disconnected == ~open /\ queue = <<>>

Terminate ==
  /\ phase = "idle" /\ Disconnected
  /\ phase' = "stopped"
  /\ UNCHANGED <<conn, batch, done, reply, crashes>>
  /\ UNCHANGED chanVars /\ UNCHANGED dbVars /\ UNCHANGED graphVars

-----------------------------------------------------------------------------
(* The writer thread: the commands between two standalone ones, as one    *)
(* transaction                                                            *)

(* AppendSessionEvent answers its caller with the row id as soon as the    *)
(* INSERT ran; the other notifications wait for the COMMIT. Mutants: every *)
(* command, or Flush, is answered when executed.                           *)
AllAnsweredAtExecution == Cmd
FlushAnsweredAtExecution == Of({"event", "flush"})
AnsweredAtExecution == Of({"event"})

(* Nothing of a failed transaction is kept. Mutant: no ROLLBACK. *)
NothingRolledBack == done
KeptByRollback == {}

(* The graph is published when the transaction had mutations. Mutant: never. *)
NotPublished == "ack"
AfterCommit == IF done \cap GraphRow # {} THEN "publish" ELSE "ack"

(* BEGIN IMMEDIATE succeeds, or fails and every command of the transaction *)
(* is rejected.                                                            *)
Begin ==
  /\ phase = "split" /\ HeadInTx
  /\ phase' \in {"tx", "abort"}
  /\ UNCHANGED <<conn, batch, done, reply, crashes>>
  /\ UNCHANGED chanVars /\ UNCHANGED dbVars /\ UNCHANGED graphVars

ExecuteOk ==
  /\ phase = "tx" /\ HeadInTx
  /\ done' = done \cup {Head(batch)}
  /\ batch' = Tail(batch)
  /\ Answer({Head(batch)} \cap AnsweredAtExecution, "ok")
  /\ UNCHANGED <<phase, conn, crashes>>
  /\ UNCHANGED chanVars /\ UNCHANGED dbVars /\ UNCHANGED graphVars

(* The operation fails: ROLLBACK, and the failing command and those executed *)
(* before it are told. Flush cannot fail.                                    *)
ExecuteFails ==
  /\ phase = "tx" /\ HeadInTx
  /\ Kind[Head(batch)] # "flush"
  /\ Answer(done \cup {Head(batch)}, "err")
  /\ done' = KeptByRollback
  /\ batch' = Tail(batch)
  /\ phase' = "abort"
  /\ UNCHANGED <<conn, crashes>>
  /\ UNCHANGED chanVars /\ UNCHANGED dbVars /\ UNCHANGED graphVars

(* The rest of the transaction's commands are rejected one by one. *)
RejectRest ==
  /\ phase = "abort"
  /\ \/ /\ HeadInTx
        /\ RejectCommand(Head(batch))
        /\ batch' = Tail(batch)
        /\ UNCHANGED phase
     \/ /\ ~HeadInTx
        /\ phase' = "split"
        /\ UNCHANGED <<batch, reply>>
  /\ UNCHANGED <<conn, done, crashes>>
  /\ UNCHANGED chanVars /\ UNCHANGED dbVars /\ UNCHANGED graphVars

CommitOk ==
  /\ phase = "tx" /\ ~HeadInTx
  /\ durable' = durable \cup (done \cap Writes)
  /\ rows' = rows \cup (done \cap GraphRow)
  /\ phase' = AfterCommit
  /\ UNCHANGED <<conn, batch, done, reply, crashes>>
  /\ UNCHANGED chanVars /\ UNCHANGED graphVars

(* Mutant of CommitFails: the graph was published before the COMMIT. *)
CommitFailsTooLate ==
  /\ phase = "tx" /\ ~HeadInTx
  /\ Answer(done, "err")
  /\ done' = KeptByRollback
  /\ shared' = shared \cup (done \cap GraphRow)
  /\ phase' = "split"
  /\ UNCHANGED <<conn, batch, crashes, builder, mine>>
  /\ UNCHANGED chanVars /\ UNCHANGED dbVars

CommitFails ==
  /\ phase = "tx" /\ ~HeadInTx
  /\ Answer(done, "err")
  /\ done' = KeptByRollback
  /\ phase' = "split"
  /\ UNCHANGED <<conn, batch, crashes>>
  /\ UNCHANGED chanVars /\ UNCHANGED dbVars /\ UNCHANGED graphVars

(* The builder is re-synchronized when someone else stored a graph since.  *)
(* Mutant: the thread trusts its own builder.                              *)
BuilderAlone == builder
Resynced == IF mine THEN builder ELSE shared

(* The mutations are applied to the builder, its snapshot is stored. *)
Publish ==
  /\ phase = "publish"
  /\ builder' = Resynced \cup (done \cap GraphRow)
  /\ shared' = builder'
  /\ mine' = TRUE
  /\ phase' = "ack"
  /\ UNCHANGED <<conn, batch, done, reply, crashes>>
  /\ UNCHANGED chanVars /\ UNCHANGED dbVars

Acknowledge ==
  /\ phase = "ack"
  /\ Answer(done, "ok")
  /\ done' = {}
  /\ phase' = "split"
  /\ UNCHANGED <<conn, batch, crashes>>
  /\ UNCHANGED chanVars /\ UNCHANGED dbVars /\ UNCHANGED graphVars

-----------------------------------------------------------------------------
(* The writer thread: a standalone command, outside the ambient transaction. *)
(* A closure commits or rolls back by itself.                                *)

HeadStandalone == phase = "split" /\ batch # <<>> /\ Head(batch) \in Standalone

StandaloneOk ==
  /\ HeadStandalone
  /\ LET c == Head(batch) IN
       /\ done' = {c}
       /\ durable' = durable \cup ({c} \cap Writes)
       /\ rows' = IF Kind[c] = "forget" THEN {} ELSE rows \cup ({c} \cap GraphRow)
       /\ phase' = IF Kind[c] = "project" THEN "refresh" ELSE "ack"
  /\ batch' = Tail(batch)
  /\ UNCHANGED <<conn, reply, crashes>>
  /\ UNCHANGED chanVars /\ UNCHANGED graphVars

StandaloneFails ==
  /\ HeadStandalone
  /\ Answer({Head(batch)}, "err")
  /\ batch' = Tail(batch)
  /\ UNCHANGED <<phase, conn, done, crashes>>
  /\ UNCHANGED chanVars /\ UNCHANGED dbVars /\ UNCHANGED graphVars

(* consume_pending_once, after its transaction: CsrGraph::from_db and a store *)
(* of its own. When from_db fails the failure is ignored.                     *)
Refresh ==
  /\ phase = "refresh"
  /\ \/ shared' = rows /\ mine' = FALSE
     \/ UNCHANGED <<shared, mine>>
  /\ phase' = "ack"
  /\ UNCHANGED <<conn, batch, done, reply, builder, crashes>>
  /\ UNCHANGED chanVars /\ UNCHANGED dbVars

-----------------------------------------------------------------------------
(* Crash of the process: SQLite discards the open transaction, the channel *)
(* and the responders are gone.                                            *)
Crash ==
  /\ phase \notin {"down", "stopped"} /\ crashes < MaxCrashes
  /\ crashes' = crashes + 1
  /\ phase' = "down"
  /\ queue' = <<>> /\ batch' = <<>> /\ done' = {}
  /\ Answer(InFlight, "lost")
  /\ UNCHANGED <<called, open, accepted, ticket, conn, durable, rows>>
  /\ UNCHANGED graphVars

(* The next process opens the database and reloads the graph from the tables. *)
Restart ==
  /\ phase = "down"
  /\ phase' = "idle" /\ conn' \in BOOLEAN /\ open' = TRUE
  /\ builder' = rows /\ shared' = rows /\ mine' = FALSE
  /\ UNCHANGED <<called, queue, accepted, ticket, batch, done, durable, rows, reply, crashes>>

-----------------------------------------------------------------------------
Worker == \/ Receive \/ CheckoutFails \/ RejectQueued \/ Drain \/ BatchOver
          \/ Terminate
          \/ Begin \/ ExecuteOk \/ ExecuteFails \/ RejectRest
          \/ CommitOk \/ CommitFails \/ Publish \/ Acknowledge
          \/ StandaloneOk \/ StandaloneFails \/ Refresh

Next == \/ \E c \in Cmd : Submit(c) \/ NotAccepted(c)
        \/ CloseHandles
        \/ Worker
        \/ Crash
        \/ Restart

Spec == Init /\ [][Next]_vars

(* The thread is scheduled and every SQLite call returns (busy_timeout bounds *)
(* the wait for a lock), so the thread keeps taking its next step.            *)
FairSpec == Spec /\ WF_vars(Worker)
-----------------------------------------------------------------------------
(* What the actor promises *)

Promised == Of({"write", "graph", "exec", "project", "forget"})

(* A caller that was answered Ok finds its write in the database, whatever   *)
(* happens next: rollbacks of other commands and crashes included. (The      *)
(* reply of process_transactional_batch comes after the COMMIT.)             *)
AckedIsDurable == \A c \in Promised : reply[c] = "ok" => c \in durable

(* A caller that was answered with an error never finds its write in the     *)
(* database, neither then nor later: nothing of a rolled back transaction,   *)
(* of a rejected batch or of a full channel gets committed.                  *)
FailedLeavesNoTrace == \A c \in Writes : reply[c] = "err" => c \notin durable

(* Writes reach the database in the order in which the channel accepted      *)
(* their commands, across batches, transactions, standalone operations and   *)
(* failures in between.                                                      *)
CommitsFollowTheQueue ==
  [][\A c \in durable' \ durable, d \in durable : ticket[d] < ticket[c]]_vars

(* When the thread waits for work, every command it took was answered: no    *)
(* exit of the batch code drops a responder (the "silent drop" of RISK-01).  *)
NobodyForgotten ==
  phase \in {"idle", "stopped"} =>
    \A c \in Replying : ticket[c] > 0 /\ reply[c] = "none" => c \in Elems(queue)

(* An answered Flush is a barrier: no command accepted before it is waiting, *)
(* being executed or in an open transaction.                                 *)
FlushIsABarrier ==
  \A f \in Of({"flush"}) : reply[f] = "ok" =>
    \A c \in InFlight : ticket[c] >= ticket[f]

(* What a caller is told is true, whatever other commands, rollbacks and      *)
(* crashes do: the three promises to callers together, of a well-typed actor  *)
(* whose batches and channel keep their limits.                               *)
AnswersAreTrue == TypeOK /\ AckedIsDurable /\ FailedLeavesNoTrace /\ FlushIsABarrier

(* Readers of the published graph never see a row whose transaction has not *)
(* committed: the snapshot is stored after the COMMIT, and nothing of a      *)
(* rolled back transaction stays in the builder.                             *)
GraphShowsOnlyCommitted == shared \subseteq durable

(* A caller whose graph insert was answered Ok sees it in the published      *)
(* graph as long as its rows exist, also after the consolidation stored a    *)
(* graph of its own and after a restart.                                     *)
GraphReadsItsWrites ==
  phase # "down" =>
    \A c \in Of({"graph"}) \cap rows : reply[c] = "ok" => c \in shared

(* The published graph shows rows of the database, and the rows of whoever    *)
(* was answered.                                                             *)
GraphIsHonest == GraphShowsOnlyCommitted /\ GraphReadsItsWrites

(* The two publishers of the graph, this thread's builder and the            *)
(* consolidation's store, never undo each other: a row readers could see and *)
(* that still exists stays visible.                                          *)
NoLostGraphUpdate == [][shared \cap rows' \subseteq shared']_vars

(* Every command the channel accepted is eventually answered, unless the     *)
(* process crashes on it; and once the last handle is dropped the thread     *)
(* finishes what was accepted and ends (DbActorJoinGuard joins it).          *)
EveryoneAnswered ==
  /\ \A c \in Replying : ticket[c] > 0 ~> reply[c] # "none"
  /\ ~open ~> (phase \in {"stopped", "down"} \/ open)

(* The actor, whatever its queue, batches, failures and crashes do, is an     *)
(* honest store to the callers it promises something.                        *)
Store == INSTANCE AckStore WITH Req    <- Promised,
                                stored <- durable \cap Promised,
                                told   <- [c \in Promised |-> reply[c]]
ImplementsStore == Store!Spec

-----------------------------------------------------------------------------
(* Statements of the repository's documentation that the code does not keep *)

(* An event whose append was answered with a row id is in session_events.    *)
AppendedEventIsDurable ==
  phase = "idle" => \A c \in Of({"event"}) : reply[c] = "ok" => c \in durable
=============================================================================
