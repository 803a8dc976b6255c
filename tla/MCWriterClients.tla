---------------------------- MODULE MCWriterClients ----------------------------
(* An instance of WriterClients, and what one behaviour of it may show. *)
EXTENDS WriterClients

CONSTANTS name, city, chat, other, e1, e2, e3

DayOf == [e \in Event |-> IF e = e3 THEN 2 ELSE 1]

(* Turns and events do not meet; one change of the table meets the events, two *)
(* meet two turns and two facts, one meets three turns and one fact, or a      *)
(* crash. The third turn begins when the first is over. One kind of fault      *)
(* happens to the trail, and an error of the file before a crash. Remembered   *)
(* turns meet neither; a crash meets those whose projections nobody writes over. *)
Turning == turn[1].pc # "new" \/ changes > 1
Recorded == \E e \in Event : rec[e] # "new"
Remembered == event[1].status # "none"

OneCast ==
  /\ Remembered =>
       /\ changes = 0 /\ turn[1].pc = "new" /\ ~Recorded /\ tables /\ faults \subseteq {"crash"}
       /\ crashes > 0 => overwrites = 0
  /\ ~(Turning /\ Recorded)
  /\ Turning => ~tables /\ faults \subseteq {"crash"} /\ (crashes > 0 => changes <= 1)
  /\ turn[Turns].pc # "new" =>
       /\ turn[1].pc = "over" /\ changes <= 1 /\ crashes = 0 /\ held[city] = {}
       /\ \A t \in Turn : turn[t].fact # city
  /\ Cardinality(faults) <= 1 \/ faults = {"crash", "file"}
  /\ Recorded /\ changes > 0 => faults \subseteq {"db"}

-----------------------------------------------------------------------------
(* Statements of the repository that the code does not keep: a configuration *)
(* of this module that names one of them finds a counterexample.             *)

(* The version tells whether the copy is current: but the rows are read before *)
(* the version, and the version is raised before the commit.                   *)
VersionTells ==
  ready /\ cached = version /\ change = None /\ Refreshing = {} => facts = db

(* A deleted fact is asked for no more. *)
DeletedIsForgotten ==
  change = None => \A s \in Session : pending[s] # None => db[pending[s].fact] # None

(* "Flushes a micro-batch of events to SQLite WAL inside a single transaction." *)
BatchIsATransaction == [][ledger' # ledger => inserting' = <<>>]_vars

(* "Event retained in RAM ring buffer": the newest RingSize events are there.   *)
RingHoldsTheNewest ==
  (\A e \in Event : rec[e] # "numbered") =>
    \A e \in Event : rec[e] = "done" /\ at[e] < head /\ head - at[e] <= RingSize => ring[Slot(at[e])] = e

(* "Retention does not delete a conversation that is still active": but a turn *)
(* may arrive between the sweeper's choice and its deletion.                    *)
RetentionSparesTheLate == swept = {}

(* "Deletes a conversation from every projection the runtime produces": but its *)
(* triples stay.                                                                *)
ForgottenMeansForgotten == erased \cap known = {}

(* What the rows no longer say, the graph in memory does not say either: but    *)
(* nothing replaces it after a deletion.                                        *)
GraphForgets == graph \subseteq known
=============================================================================
