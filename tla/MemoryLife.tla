------------------------------ MODULE MemoryLife ------------------------------
(***************************************************************************)
(* The life of a remembered conversation turn: persisted as an event with   *)
(* its projection (a row of vectors_meta under the same id), consolidated   *)
(* into triples of the knowledge graph or dead-lettered, and deleted with   *)
(* its conversation, with the whole subject, or by retention                *)
(* (memory_consolidation.rs, db/deletion.rs, memory_retention.rs). Turn n   *)
(* is the n-th to arrive. All owners but "local", contents and vectors are  *)
(* left out; the triples of different turns are different.                  *)
(***************************************************************************)
EXTENDS Naturals, FiniteSets, WriterThread

CONSTANTS
  Chat,           \* conversations of the local owner
  OutOfScope,     \* another domain, or a type that is not conversation_turn
  Entries,        \* bound on the turns
  MaxRetries,     \* MAX_RETRIES
  BatchSize,
  MaxOverwrites,  \* bound on the uses of memory:upsert_vector
  Nowhere         \* no row

ASSUME MemoryAssumption ==
  /\ Entries \in Nat /\ {MaxRetries, BatchSize} \subseteq Nat \ {0} /\ MaxOverwrites \in Nat
  /\ Nowhere \notin Chat /\ OutOfScope \notin Chat

Entry == 1..Entries
VectorRow == [chat : Chat \cup {OutOfScope}, sourced : BOOLEAN, at : Entry]

ASSUME NowhereIsNoRow == Nowhere \notin VectorRow

VARIABLES
  event,     \* rows of events: status, retry_count, conversation
  vector,    \* rows of vectors_meta: conversation, whether sourced by the event, created_at
  dlq,       \* rows of dlq_consolidation
  known,     \* turns whose triples are in l3_edges
  graph,     \* turns whose triples are in the graph in memory
  old,       \* turns 1..old are before the retention's cutoff
  sweep,     \* conversations the sweeper has yet to delete
  overwrites,
  \* history variables
  young,     \* turns after the cutoff when the sweeper chose
  touched,   \* turns whose projection memory:upsert_vector has written
  swept,     \* turns after the cutoff that retention removed, and if it had seen them
  erased     \* turns deleted with their conversation

rows == <<event, vector, dlq, known>>
memory == <<rows, graph, old, sweep, overwrites, young, touched, swept, erased>>

NoEvent == [status |-> "none", retry |-> 0, chat |-> Nowhere]
Deleted == [NoEvent EXCEPT !.status = "deleted"]
In(status) == {e \in Entry : event[e].status = status}
Arrived == Entry \ In("none")
Stored == Arrived \ In("deleted")

MemoryInit ==
  /\ event = [e \in Entry |-> NoEvent] /\ vector = [e \in Entry |-> Nowhere]
  /\ dlq = {} /\ known = {} /\ graph = {}
  /\ old = 0 /\ sweep = {} /\ overwrites = 0
  /\ young = {} /\ touched = {} /\ swept = {} /\ erased = {}

-----------------------------------------------------------------------------
(* Writing *)

Row(chat, sourced, at) == [chat |-> chat, sourced |-> sourced, at |-> at]

(* PersistTurn: event and projection, in one transaction. *)
Persist(e) ==
  /\ e = Cardinality(Arrived) + 1 /\ InPassing
  /\ \E c \in Chat :
       /\ event' = [event EXCEPT ![e] = [status |-> "pending", retry |-> 0, chat |-> c]]
       /\ vector' = [vector EXCEPT ![e] = Row(c, TRUE, e)]
  /\ UNCHANGED <<dlq, known, graph, old, sweep, overwrites, young, touched, swept, erased>>

(* memory:upsert_vector under the id of a turn: an existing row keeps created_at. *)
Overwrite(e) ==
  /\ e \in Arrived /\ overwrites < MaxOverwrites /\ InPassing
  /\ \E c \in Chat \cup {OutOfScope}, sourced \in BOOLEAN :
       vector' = [vector EXCEPT ![e] =
                    Row(c, sourced, IF @ = Nowhere THEN Cardinality(Arrived) ELSE @.at)]
  /\ overwrites' = overwrites + 1 /\ touched' = touched \cup {e}
  /\ UNCHANGED <<event, dlq, known, graph, old, sweep, young, swept, erased>>

-----------------------------------------------------------------------------
(* Consolidation *)

(* The oldest pending turns. *)
Batch == {e \in In("pending") : Cardinality({d \in In("pending") : d < e}) < BatchSize}

(* projection_matches *)
Matches(e) ==
  /\ vector[e] # Nowhere
  /\ vector[e].chat = event[e].chat /\ vector[e].sourced

(* Mutant: the attempt is not counted. *)
AfterMismatchUncounted(row) == row
AfterMismatch(row) ==
  [row EXCEPT !.retry = @ + 1,
              !.status = IF row.retry + 1 >= MaxRetries THEN "dlq" ELSE "pending"]

(* process_pending_batch in its transaction; then, if there were triples, the     *)
(* graph in memory is loaded from the rows, and nobody minds if that fails.       *)
Consolidate ==
  /\ Batch # {} /\ InPassing
  /\ event' = [e \in Entry |->
                 IF e \notin Batch THEN event[e]
                 ELSE IF Matches(e) THEN [event[e] EXCEPT !.status = "consolidated"]
                 ELSE AfterMismatch(event[e])]
  /\ dlq' = dlq \cup {e \in Batch : event'[e].status = "dlq"}
  /\ \E told \in SUBSET {e \in Batch : Matches(e)} :
       /\ known' = known \cup told
       /\ graph' \in IF told = {} THEN {graph} ELSE {graph, known'}
  /\ UNCHANGED <<vector, old, sweep, overwrites, young, touched, swept, erased>>

-----------------------------------------------------------------------------
(* Deletion *)

OfChats(C) == {e \in Stored : event[e].chat \in C}
RowsIn(C) == {e \in Entry : vector[e] # Nowhere /\ vector[e].chat \in C}

(* Mutant: the dead letters are looked up after the events were deleted. *)
LettersAfterEvents(C) == {}
LettersOf(C) == OfChats(C)

(* The rows of the conversations C; the triples are not among them. *)
Erase(C) ==
  /\ event' = [e \in Entry |-> IF e \in OfChats(C) THEN Deleted ELSE event[e]]
  /\ vector' = [e \in Entry |-> IF e \in RowsIn(C) THEN Nowhere ELSE vector[e]]
  /\ dlq' = dlq \ LettersOf(C)

(* memory:delete_conversation *)
DeleteConversation(c) ==
  /\ InPassing
  /\ Erase({c}) /\ erased' = erased \cup OfChats({c})
  /\ UNCHANGED <<known, graph, old, sweep, overwrites, young, touched, swept>>

(* memory:delete_subject takes the triples too, and rows out of scope that are in *)
(* the owner's domain; the graph in memory stays.                                 *)
DeleteSubject ==
  /\ InPassing
  /\ Erase(Chat) \/ Erase(Chat \cup {OutOfScope})
  /\ known' = {}
  /\ UNCHANGED <<graph, old, sweep, overwrites, young, touched, swept, erased>>

-----------------------------------------------------------------------------
(* Retention *)

TurnsAge ==
  /\ old < Cardinality(Arrived) /\ old' = old + 1
  /\ UNCHANGED <<holder, rows, graph, sweep, overwrites, young, touched, swept, erased>>

Activity(c) == OfChats({c}) \cup {vector[e].at : e \in RowsIn({c})}

(* Mutant: the oldest activity counts. *)
AnyIsOld(c) == \E n \in Activity(c) : n <= old
NothingRecent(c) == Activity(c) # {} /\ \A n \in Activity(c) : n <= old

Eligible == {c \in Chat : NothingRecent(c)}
Recent == {e \in Stored : e > old}

Retire(C, seen) ==
  /\ Erase(C)
  /\ swept' = swept \cup {[entry |-> e, seen |-> e \in seen] : e \in OfChats(C) \cap Recent}

(* sweep_once reads on a connection of its own, beside the writer. *)
SweepChooses ==
  /\ sweep = {} /\ Eligible # {}
  /\ sweep' = Eligible /\ young' = Recent
  /\ UNCHANGED <<holder, rows, graph, old, overwrites, touched, swept, erased>>

(* Each conversation is a transaction of its own; an error ends the batch. *)
SweepDeletes(c) ==
  /\ c \in sweep /\ InPassing
  /\ Retire({c}, young)
  /\ sweep' = sweep \ {c}
  /\ UNCHANGED <<known, graph, old, overwrites, young, touched, erased>>

SweepFails ==
  /\ sweep # {} /\ sweep' = {}
  /\ UNCHANGED <<holder, rows, graph, old, overwrites, young, touched, swept, erased>>

(* memory:sweep_retention chooses and deletes in one closure of the writer. *)
SweepCommand ==
  /\ InPassing
  /\ \E C \in SUBSET Eligible : C # {} /\ Retire(C, Recent)
  /\ UNCHANGED <<known, graph, old, sweep, overwrites, young, touched, erased>>

-----------------------------------------------------------------------------
MemoryCrash ==
  /\ sweep' = {} /\ graph' = known
  /\ UNCHANGED <<rows, old, overwrites, young, touched, swept, erased>>

MemoryNext ==
  \/ \E e \in Entry : Persist(e) \/ Overwrite(e)
  \/ Consolidate
  \/ \E c \in Chat : DeleteConversation(c) \/ SweepDeletes(c)
  \/ DeleteSubject \/ TurnsAge \/ SweepChooses \/ SweepFails \/ SweepCommand

-----------------------------------------------------------------------------
MemoryTypeOK ==
  /\ event \in [Entry -> [status : {"none", "deleted", "pending", "consolidated", "dlq"},
                          retry : 0..MaxRetries, chat : Chat \cup {Nowhere}]]
  /\ vector \in [Entry -> VectorRow \cup {Nowhere}]
  /\ dlq \cup known \cup graph \subseteq Entry
  /\ old \in 0..Cardinality(Arrived) /\ sweep \subseteq Chat /\ overwrites \in 0..MaxOverwrites

(* An event, its projection and its dead letter agree through consolidation,    *)
(* deletions and overwritten rows: there is a letter exactly for the events     *)
(* given up after MaxRetries attempts; only a turn whose projection somebody    *)
(* wrote over can come to that or be left without one, and no other leaves a    *)
(* row behind when it is deleted.                                               *)
LineageHolds ==
  /\ MemoryTypeOK
  /\ dlq = In("dlq")
  /\ \A e \in Entry : event[e].retry = MaxRetries <=> e \in dlq
  /\ known \subseteq In("consolidated") \cup In("deleted")
  /\ \A e \in Arrived \ touched :
       /\ event[e].retry = 0
       /\ IF e \in Stored THEN Matches(e) ELSE vector[e] = Nowhere

(* Retention never removes a turn that was there and recent when it chose: the *)
(* last activity of a conversation decides, in the events and in the vectors.  *)
RetentionSparesTheActive == \A s \in swept : ~s.seen
=============================================================================
