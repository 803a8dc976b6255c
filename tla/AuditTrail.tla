------------------------------- MODULE AuditTrail -------------------------------
(***************************************************************************)
(* The trail of the computer-use crate (audit.rs) and its way to disk: any  *)
(* thread records an event into a ring and offers it to a channel, without  *)
(* ever waiting; a worker takes events in micro-batches, appends them to a  *)
(* file that is rotated by day, and hands the batch to the bridge of        *)
(* DbActor, whose writer inserts row by row. Nobody waits for the result of *)
(* either. An event is its identity and the day it happened.                *)
(***************************************************************************)
EXTENDS Naturals, FiniteSets, Sequences, WriterThread

CONSTANTS
  Event, Day,   \* events, and the function to the day of each
  QueueCap,     \* mpsc_buffer_capacity
  BatchMax,     \* micro_batch_size
  RingSize,     \* RING_BUFFER_CAPACITY
  BridgeCap,    \* channel of the bridge
  MaxCrashes,   \* bound on the crashes
  Unknown       \* no day, no event

ASSUME AuditAssumption ==
  /\ {QueueCap, BatchMax, RingSize, BridgeCap} \subseteq Nat \ {0}
  /\ MaxCrashes \in Nat /\ IsFiniteSet(Event)
  /\ Unknown \notin Event /\ \A e \in Event : Day[e] # Unknown

VARIABLES
  rec,      \* what the recorder of each event is at
  at, head, ring,     \* its number, the next number, the slots
  queue, batch, worker,
  active, buffer,     \* lines in the active file and in the BufWriter before it
  open, stamp,        \* the logger has a writer; its current_date_stamp
  rotated,            \* the files of earlier days, oldest first
  bridge, inserting, tables, ledger,
  crashes,
  \* history variables
  accepted,  \* events in the order the channel took them
  faults     \* what went wrong and nobody was told: "file", "rename", "db", "lap", "crash"

ringVars == <<rec, at, head, ring>>
fileVars == <<active, buffer, open, stamp, rotated>>
dbVars == <<bridge, inserting, tables, ledger>>
audit == <<ringVars, queue, batch, worker, fileVars, dbVars, crashes, accepted, faults>>

Elems(s) == {s[i] : i \in 1..Len(s)}
Bridged == UNION {Elems(bridge[i]) : i \in 1..Len(bridge)}
InFlight == Elems(queue) \cup Elems(batch) \cup Bridged \cup Elems(inserting)
Filed == (UNION {Elems(rotated[i].lines) : i \in 1..Len(rotated)}) \cup Elems(active)
Days == {Day[e] : e \in Event}

AuditTypeOK ==
  /\ rec \in [Event -> {"new", "numbered", "stored", "done"}]
  /\ head \in 0..Cardinality(Event) /\ at \in [Event -> 0..Cardinality(Event)]
  /\ ring \in [0..RingSize - 1 -> Event \cup {Unknown}]
  /\ {queue, batch, active, buffer, inserting, ledger, accepted} \subseteq Seq(Event)
  /\ bridge \in Seq(Seq(Event) \ {<<>>}) /\ rotated \in Seq([day : Days, lines : Seq(Event)])
  /\ Len(queue) <= QueueCap /\ Len(batch) <= BatchMax /\ Len(bridge) <= BridgeCap
  /\ worker \in {"init", "recv", "collect", "file", "hand"}
  /\ stamp \in Days \cup {Unknown} /\ open \in BOOLEAN /\ tables \in BOOLEAN
  /\ (inserting # <<>>) = (holder = "audit")
  /\ Filed \cup Elems(buffer) \cup Elems(ledger) \cup InFlight \subseteq Elems(accepted)
  /\ faults \subseteq {"file", "rename", "db", "lap", "crash"}
  /\ crashes \in 0..MaxCrashes

AuditInit ==
  /\ rec = [e \in Event |-> "new"] /\ at = [e \in Event |-> Cardinality(Event)]
  /\ head = 0 /\ ring = [i \in 0..RingSize - 1 |-> Unknown]
  /\ queue = <<>> /\ batch = <<>> /\ worker = "init"
  /\ active = <<>> /\ buffer = <<>> /\ open = FALSE /\ stamp = Unknown /\ rotated = <<>>
  /\ bridge = <<>> /\ inserting = <<>> /\ tables = FALSE /\ ledger = <<>>
  /\ crashes = 0 /\ accepted = <<>> /\ faults = {}

-----------------------------------------------------------------------------
(* record: number, slot, offer *)

Recording == UNCHANGED <<holder, batch, worker, crashes>> /\ UNCHANGED <<fileVars, dbVars>>

TakeNumber(e) ==
  /\ rec[e] = "new"
  /\ rec' = [rec EXCEPT ![e] = "numbered"]
  /\ at' = [at EXCEPT ![e] = head] /\ head' = head + 1
  /\ Recording /\ UNCHANGED <<ring, queue, accepted, faults>>

Slot(n) == n % RingSize

(* A recorder that others have lapped in between overwrites a newer event. *)
FillSlot(e) ==
  /\ rec[e] = "numbered"
  /\ rec' = [rec EXCEPT ![e] = "stored"]
  /\ ring' = [ring EXCEPT ![Slot(at[e])] = e]
  /\ faults' = IF head - at[e] > RingSize THEN faults \cup {"lap"} ELSE faults
  /\ Recording /\ UNCHANGED <<at, head, queue, accepted>>

(* try_send: without room the event stays in the ring only, and is counted. *)
Offer(e) ==
  /\ rec[e] = "stored"
  /\ rec' = [rec EXCEPT ![e] = "done"]
  /\ IF Len(queue) < QueueCap
       THEN queue' = Append(queue, e) /\ accepted' = Append(accepted, e)
       ELSE UNCHANGED <<queue, accepted>>
  /\ Recording /\ UNCHANGED <<at, head, ring, faults>>

-----------------------------------------------------------------------------
(* The worker collects a batch *)

Collecting == UNCHANGED <<holder, crashes, accepted, faults>> /\ UNCHANGED <<ringVars, fileVars, dbVars>>

TakeFirst ==
  /\ worker = "recv" /\ queue # <<>>
  /\ batch' = <<Head(queue)>> /\ queue' = Tail(queue)
  /\ worker' = "collect"
  /\ Collecting

(* Mutant: the batch is checked against its size after the event is taken. *)
OneMoreFits == Len(batch) <= BatchMax
AnotherFits == Len(batch) < BatchMax

TakeNext ==
  /\ worker = "collect" /\ AnotherFits /\ queue # <<>>
  /\ batch' = Append(batch, Head(queue)) /\ queue' = Tail(queue)
  /\ UNCHANGED worker /\ Collecting

(* Mutant: the event that is taken when the wait ends is lost with the wait. *)
QueueAfterTimeout == IF queue = <<>> THEN queue ELSE Tail(queue)
QueueAfterWait == queue

(* The batch is full, or micro_batch_timeout_ms is over. *)
BatchOver ==
  /\ worker = "collect"
  /\ worker' = "file" /\ queue' = QueueAfterWait
  /\ UNCHANGED batch /\ Collecting

-----------------------------------------------------------------------------
(* StreamingJsonlLogger *)

BatchDay == Day[Head(batch)]

(* Mutant: the file of before the restart is not probed for its day. *)
StampOnly == stamp
(* The day of the lines in the active file: the logger's, or its first line's. *)
PreviousDay == IF stamp # Unknown THEN stamp
               ELSE IF active # <<>> THEN Day[Head(active)] ELSE Unknown

(* Lines reach the file, stay in the BufWriter, or are lost after an error. *)
Lines(file, lines) ==
  \/ active' = file \o lines /\ buffer' = <<>> /\ UNCHANGED faults
  \/ /\ lines # <<>> /\ faults' = faults \cup {"file"}
     /\ \E i \in 0..Len(lines) - 1 : \E j \in i..Len(lines) :
          /\ j >= Len(buffer) \/ i = j
          /\ active' = file \o SubSeq(lines, 1, i)
          /\ buffer' = SubSeq(lines, i + 1, j)

Written == worker' = "hand" /\ UNCHANGED <<holder, queue, batch, crashes, accepted>>
           /\ UNCHANGED <<ringVars, dbVars>>

(* Same day: append and flush. Without a writer nothing happens, silently. *)
WriteToday ==
  /\ worker = "file" /\ stamp = BatchDay
  /\ IF open THEN Lines(active, buffer \o batch)
             ELSE UNCHANGED <<active, buffer>> /\ faults' = faults \cup {"file"}
  /\ Written /\ UNCHANGED <<open, stamp, rotated>>

(* Another day. The writer is flushed and dropped, and the lines it could not   *)
(* flush with it.                                                               *)
Flushed == IF buffer = <<>> THEN {active} ELSE {active \o SubSeq(buffer, 1, i) : i \in 0..Len(buffer)}

LostIn(file) == IF file = active \o buffer THEN {} ELSE {"file"}

(* The directory cannot be created: the old stamp stays, without a writer. *)
NoDirectory ==
  /\ worker = "file" /\ stamp # BatchDay
  /\ \E file \in Flushed : active' = file
  /\ buffer' = <<>> /\ open' = FALSE /\ faults' = faults \cup {"file"}
  /\ Written /\ UNCHANGED <<stamp, rotated>>

(* The old file gets its day as its name, if it can be renamed; then the new   *)
(* one is opened, if it can be, and the batch appended.                        *)
Rotate ==
  /\ worker = "file" /\ stamp # BatchDay
  /\ \E file \in Flushed, renamed \in BOOLEAN, opened \in BOOLEAN :
       LET due == PreviousDay \notin {Unknown, BatchDay}
           kept == IF due /\ renamed THEN <<>> ELSE file
           wrong == LostIn(file) \cup (IF due /\ ~renamed THEN {"rename"} ELSE {})
       IN /\ renamed \/ due
          /\ rotated' = IF due /\ renamed /\ file # <<>>
                          THEN Append(rotated, [day |-> PreviousDay, lines |-> file]) ELSE rotated
          /\ open' = opened /\ stamp' = (IF opened THEN BatchDay ELSE Unknown)
          /\ IF opened
               THEN \/ active' = kept \o batch /\ buffer' = <<>> /\ faults' = faults \cup wrong
                    \/ /\ faults' = faults \cup wrong \cup {"file"}
                       /\ \E i \in 0..Len(batch) - 1 : \E j \in i..Len(batch) :
                            active' = kept \o SubSeq(batch, 1, i) /\ buffer' = SubSeq(batch, i + 1, j)
               ELSE active' = kept /\ buffer' = <<>> /\ faults' = faults \cup wrong \cup {"file"}
  /\ Written

(* The batch goes to the bridge; its result has no receiver. *)
HandOver ==
  /\ worker = "hand" /\ Len(bridge) < BridgeCap
  /\ bridge' = Append(bridge, batch) /\ batch' = <<>> /\ worker' = "recv"
  /\ UNCHANGED <<holder, queue, inserting, tables, ledger, crashes, accepted, faults>>
  /\ UNCHANGED <<ringVars, fileVars>>

-----------------------------------------------------------------------------
(* The bridge and the writer *)

Storing == UNCHANGED <<queue, batch, crashes, accepted>> /\ UNCHANGED <<ringVars, fileVars>>

(* Mutant: the worker returns with the error of init_tables. *)
EndsWithoutTables(made) == IF made THEN "recv" ELSE "over"
WorkerAfterInit(made) == "recv"

(* The worker waits for the answer of init_tables, and goes on without tables. *)
InitTables ==
  /\ worker = "init" /\ InPassing
  /\ \/ tables' = TRUE /\ UNCHANGED faults
     \/ faults' = faults \cup {"db"} /\ UNCHANGED tables
  /\ worker' = WorkerAfterInit(tables')
  /\ UNCHANGED <<bridge, inserting, ledger>> /\ Storing

(* The bridge executes one batch at a time, on the writer's connection, outside *)
(* a transaction. Without connection or tables the whole batch fails.           *)
BeginBatch ==
  /\ bridge # <<>>
  /\ bridge' = Tail(bridge)
  /\ \/ tables /\ Takes("audit") /\ inserting' = Head(bridge) /\ UNCHANGED faults
     \/ InPassing /\ faults' = faults \cup {"db"} /\ UNCHANGED inserting
  /\ UNCHANGED <<worker, tables, ledger>> /\ Storing

InsertRow ==
  /\ inserting # <<>>
  /\ ledger' = Append(ledger, Head(inserting)) /\ inserting' = Tail(inserting)
  /\ IF inserting' = <<>> THEN Gives("audit") ELSE UNCHANGED holder
  /\ UNCHANGED <<worker, bridge, tables, faults>> /\ Storing

(* A row fails, and the rows after it; those before it stay. *)
InsertFails ==
  /\ inserting # <<>>
  /\ Gives("audit")
  /\ inserting' = <<>> /\ faults' = faults \cup {"db"}
  /\ UNCHANGED <<worker, bridge, tables, ledger>> /\ Storing

-----------------------------------------------------------------------------
(* The process ends; files and rows stay. *)
AuditCrash ==
  /\ crashes < MaxCrashes /\ crashes' = crashes + 1
  /\ rec' = [e \in Event |-> IF rec[e] = "new" THEN "new" ELSE "done"]
  /\ at' = [e \in Event |-> Cardinality(Event)]
  /\ head' = 0 /\ ring' = [i \in 0..RingSize - 1 |-> Unknown]
  /\ queue' = <<>> /\ batch' = <<>> /\ worker' = "init"
  /\ buffer' = <<>> /\ open' = FALSE /\ stamp' = Unknown
  /\ bridge' = <<>> /\ inserting' = <<>>
  /\ faults' = faults \cup {"crash"}
  /\ UNCHANGED <<active, rotated, tables, ledger, accepted>>

Recorder == \E e \in Event : TakeNumber(e) \/ FillSlot(e) \/ Offer(e)
Worker == TakeFirst \/ TakeNext \/ BatchOver \/ WriteToday \/ NoDirectory \/ Rotate \/ HandOver
StoreStep == InitTables \/ BeginBatch \/ InsertRow \/ InsertFails

AuditNext == Recorder \/ Worker \/ StoreStep

-----------------------------------------------------------------------------
Earlier(x, y) == \E k, l \in 1..Len(accepted) : k < l /\ accepted[k] = x /\ accepted[l] = y
InOrder(s) == \A i, j \in 1..Len(s) : i < j => Earlier(s[i], s[j])

Files == Append([i \in 1..Len(rotated) |-> rotated[i].lines], active \o buffer)

FilesInOrder ==
  \A i \in 1..Len(Files) :
    /\ InOrder(Files[i])
    /\ \A j \in i + 1..Len(Files) : \A x \in Elems(Files[i]), y \in Elems(Files[j]) : Earlier(x, y)

AtRest == worker = "recv" /\ InFlight = {}

(* The ring shows the newest events that are in their slots, unless someone was *)
(* lapped between number and slot.                                              *)
RingIsRecent ==
  "lap" \notin faults =>
    \A e \in Event : rec[e] \in {"stored", "done"} /\ at[e] < head /\ head - at[e] <= RingSize
      => ring[Slot(at[e])] = e

(* The files, over rotations, restarts and errors, and the ledger list the      *)
(* events in the order in which the channel took them, each at most once. When  *)
(* nothing failed and nothing is under way, both list all of them. A file is    *)
(* named for the day of its first line, unless a rename was ignored.            *)
TrailIsFaithful ==
  /\ AuditTypeOK
  /\ \A i, j \in 1..Len(accepted) : accepted[i] = accepted[j] => i = j
  /\ FilesInOrder /\ InOrder(ledger)
  /\ AtRest /\ faults \subseteq {"lap"} => Filed = Elems(accepted) /\ Elems(ledger) = Elems(accepted)
  /\ "rename" \notin faults => \A i \in 1..Len(rotated) : rotated[i].day = Day[Head(rotated[i].lines)]
  /\ RingIsRecent
=============================================================================
