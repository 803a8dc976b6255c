---------------------------- MODULE ClientsProofs ----------------------------
(***************************************************************************)
(* Proofs about WriterClients: the copy of active recall and its             *)
(* challenges, the rows of the remembered turns, and the ring, the files and *)
(* the ledger of the audit trail, for every set of facts, sessions,          *)
(* conversations and events, every number of turns and changes, every size   *)
(* of the ring, of channels and batches, every number of retries, and any    *)
(* number of crashes.                                                        *)
(***************************************************************************)
EXTENDS WriterClients, FiniteSetTheorems, SequenceTheorems, TLAPS

-----------------------------------------------------------------------------
(* Active recall: the inductive invariant *)

Points == {"new", "check", "read", "stamp", "swap trie", "swap facts", "search", "compare",
           "again", "match", "ask", "judge", "over"}
TurnRecord ==
  [pc : Points, session : Session \cup {None}, fact : Fact \cup {None}, rows : Table,
   alone : BOOLEAN, back : {"search", "again"}, ask : Challenge \cup {None}]

At(t, pc) == turn[t].pc = pc

(* What a turn carries where it is. *)
TurnsInv ==
  /\ turn \in [Turn -> TurnRecord]
  /\ \A t \in Turn :
       /\ turn[t].pc \notin {"new", "over"} => turn[t].fact \in Fact
       /\ turn[t].pc \in {"ask", "judge"} => turn[t].ask # None
       /\ turn[t].ask # None => turn[t].ask.fresh
       /\ At(t, "ask") => turn[t].ask.asker = t

(* Every value somebody holds is one the fact has had. *)
Had(f, v) == v = None \/ v \in held[f]
HadInv ==
  /\ \A f \in Fact : Had(f, db[f]) /\ Had(f, facts[f]) /\ \A t \in Turn : Had(f, turn[t].rows[f])
  /\ \A s \in Session : pending[s] # None => pending[s].answer \in held[pending[s].fact]
  /\ \A t \in Turn : turn[t].ask # None => turn[t].ask.answer \in held[turn[t].ask.fact]

(* A challenge is in one place: with the session, with the turn that judges  *)
(* it, or judged; the turn that asked it is over by then.                    *)
WithSession(t, s) == pending[s] # None /\ pending[s].asker = t
WithJudge(t, u) == At(u, "judge") /\ turn[u].ask.asker = t
OnceInv ==
  /\ judged \in [Turn -> SUBSET [by : Turn, fresh : BOOLEAN]]
  /\ \A t \in Turn :
       /\ judged[t] = {} \/ \E u \in Turn : judged[t] = {[by |-> u, fresh |-> TRUE]}
       /\ judged[t] # {} => At(t, "over") /\ \A s \in Session : ~WithSession(t, s)
       /\ judged[t] # {} => \A u \in Turn : ~WithJudge(t, u)
       /\ \A s \in Session : WithSession(t, s) =>
            /\ At(t, "over")
            /\ \A r \in Session : WithSession(t, r) => r = s
            /\ \A u \in Turn : ~WithJudge(t, u)
       /\ \A u \in Turn : WithJudge(t, u) => At(t, "over") /\ \A v \in Turn : WithJudge(t, v) => v = u

(* Who refreshes alone has the table in hand, and the version that goes with it. *)
CopyInv ==
  /\ \A t \in Turn : turn[t].alone =>
       /\ Refreshing = {t} /\ change = None /\ turn[t].rows = db
       /\ turn[t].pc \in {"swap trie", "swap facts"} => cached = version
       /\ At(t, "swap facts") => trie = Keys(db)
  /\ Refreshing = {} /\ exact /\ change # None /\ change.kind = "set" => cached # version
  /\ ready /\ exact /\ cached = version /\ change = None /\ Refreshing = {} =>
       trie = Keys(db) /\ facts = db

(* A turn judges once, so the updates of the statistics are no more than turns. *)
Finished == {t \in Turn : At(t, "over")}
CountInv == stats <= Cardinality(Finished)

RecallInv == RecallTypeOK /\ TurnsInv /\ HadInv /\ OnceInv /\ CopyInv /\ CountInv

-----------------------------------------------------------------------------
(* Remembered turns: the inductive invariant *)

(* Turns arrive one after the other; what an event says goes with its status. *)
EventInv ==
  /\ \E n \in 0..Entries : \A e \in Entry : event[e].status # "none" <=> e <= n
  /\ \A e \in Entry :
       /\ event[e].status \in {"none", "deleted"} => event[e].retry = 0
       /\ event[e].status \in {"pending", "consolidated"} => event[e].retry < MaxRetries
       /\ event[e].status \in {"pending", "consolidated", "dlq"} => event[e].chat \in Chat

(* Nothing recent was in what the sweeper chose, and nothing it saw comes to it. *)
SweepInv ==
  /\ young \subseteq Arrived
  /\ \A c \in sweep : OfChats({c}) \cap young = {}
  /\ RetentionSparesTheActive

MemoryInv == EventInv /\ LineageHolds /\ SweepInv

-----------------------------------------------------------------------------
(* The rows of the remembered turns *)

LEMMA CountTo == ASSUME NEW n \in Nat PROVE IsFiniteSet(1..n) /\ Cardinality(1..n) = n
<1>1. 1 \in Int /\ n \in Int
  OBVIOUS
<1>2. IsFiniteSet(1..n) /\ Cardinality(1..n) = IF 1 > n THEN 0 ELSE n - 1 + 1
  BY <1>1, FS_Interval, Zenon
<1>3. QED BY <1>2

Counted ==
  \E n \in 0..Entries :
    /\ \A e \in Entry : event[e].status # "none" <=> e <= n
    /\ Arrived = 1..n /\ Cardinality(Arrived) = n

LEMMA ArrivedSoFar == EventInv => Counted
<1> SUFFICES ASSUME EventInv PROVE Counted
  OBVIOUS
<1>1. PICK n \in 0..Entries : \A e \in Entry : event[e].status # "none" <=> e <= n
  BY DEF EventInv
<1>2. n \in Nat /\ n <= Entries /\ Entries \in Nat
  BY MemoryAssumption
<1>3. Arrived = 1..n
  BY <1>1, <1>2 DEF Arrived, In, Entry
<1>4. QED BY <1>1, <1>2, <1>3, CountTo DEF Counted

LEMMA CountedNext == EventInv' => Counted'
BY ArrivedSoFar, PTL

(* What LineageHolds says of the rows, event by event. *)
RowsFit ==
  /\ event \in [Entry -> [status : {"none", "deleted", "pending", "consolidated", "dlq"},
                          retry : 0..MaxRetries, chat : Chat \cup {Nowhere}]]
  /\ vector \in [Entry -> VectorRow \cup {Nowhere}]
  /\ dlq \subseteq Entry /\ known \subseteq Entry
  /\ \A e \in Entry :
       /\ e \in dlq <=> event[e].status = "dlq"
       /\ event[e].retry = MaxRetries <=> e \in dlq
       /\ e \in known => event[e].status \in {"consolidated", "deleted"}
       /\ event[e].status # "none" /\ e \notin touched =>
            /\ event[e].retry = 0
            /\ event[e].status = "deleted" => vector[e] = Nowhere
            /\ event[e].status # "deleted" => Matches(e)

Bounded == old \in 0..Cardinality(Arrived) /\ sweep \subseteq Chat /\ overwrites \in 0..MaxOverwrites
           /\ graph \subseteq Entry

LEMMA LineageIsRows == LineageHolds <=> RowsFit /\ Bounded
<1>1. ASSUME LineageHolds PROVE RowsFit /\ Bounded
  BY <1>1 DEF LineageHolds, MemoryTypeOK, RowsFit, Bounded, In, Arrived, Stored
<1>2. ASSUME RowsFit, Bounded PROVE LineageHolds
  <2>1. MemoryTypeOK
    BY <1>2 DEF MemoryTypeOK, RowsFit, Bounded
  <2>2. dlq = In("dlq") /\ known \subseteq In("consolidated") \cup In("deleted")
    BY <1>2 DEF RowsFit, In
  <2>3. \A e \in Arrived \ touched :
          /\ event[e].retry = 0
          /\ IF e \in Stored THEN Matches(e) ELSE vector[e] = Nowhere
    BY <1>2 DEF RowsFit, In, Arrived, Stored
  <2>4. QED BY <1>2, <2>1, <2>2, <2>3 DEF LineageHolds, RowsFit
<1>3. QED BY <1>1, <1>2

(* Steps that leave the rows alone. *)
LEMMA SameRows ==
  ASSUME MemoryInv, UNCHANGED <<rows, touched>>, Bounded', SweepInv'
  PROVE  MemoryInv'
<1>1. RowsFit /\ EventInv
  BY LineageIsRows DEF MemoryInv
<1>2. RowsFit' /\ EventInv'
  BY <1>1 DEF RowsFit, EventInv, rows, Matches
<1>3. LineageHolds'
  BY <1>2, LineageIsRows, PTL
<1>4. QED BY <1>2, <1>3 DEF MemoryInv

LEMMA LineageFrom == ASSUME RowsFit', Bounded' PROVE LineageHolds'
BY LineageIsRows, PTL

-----------------------------------------------------------------------------
(* A turn arrives *)

LEMMA PersistKeeps == ASSUME MemoryInv, NEW e \in Entry, Persist(e) PROVE MemoryInv'
<1>1. RowsFit /\ Bounded /\ EventInv /\ SweepInv
  BY LineageIsRows DEF MemoryInv
<1>2. PICK n \in 0..Entries :
        /\ \A d \in Entry : event[d].status # "none" <=> d <= n
        /\ Arrived = 1..n /\ Cardinality(Arrived) = n
  BY <1>1, ArrivedSoFar DEF Counted
<1>3. /\ n \in Nat /\ Entries \in Nat /\ MaxRetries \in Nat \ {0} /\ Entry \subseteq Nat
      /\ Nowhere \notin Chat
  BY MemoryAssumption DEF Entry
<1>4. e = n + 1
  BY <1>2 DEF Persist
<1>5. PICK c \in Chat :
        /\ event' = [event EXCEPT ![e] = [status |-> "pending", retry |-> 0, chat |-> c]]
        /\ vector' = [vector EXCEPT ![e] = Row(c, TRUE, e)]
  BY DEF Persist
<1>6. Row(c, TRUE, e) \in VectorRow /\ Row(c, TRUE, e).chat = c /\ Row(c, TRUE, e).sourced
  BY DEF Row, VectorRow
<1>7. \A d \in Entry : d # e => event'[d] = event[d] /\ vector'[d] = vector[d]
  BY <1>1, <1>5 DEF RowsFit
<1>8. /\ event'[e].status = "pending" /\ event'[e].retry = 0 /\ event'[e].chat = c
      /\ vector'[e] = Row(c, TRUE, e)
  BY <1>1, <1>5 DEF RowsFit
<1>9. /\ event' \in [Entry -> [status : {"none", "deleted", "pending", "consolidated", "dlq"},
                               retry : 0..MaxRetries, chat : Chat \cup {Nowhere}]]
      /\ vector' \in [Entry -> VectorRow \cup {Nowhere}]
  <2>1. [status |-> "pending", retry |-> 0, chat |-> c]
          \in [status : {"none", "deleted", "pending", "consolidated", "dlq"},
               retry : 0..MaxRetries, chat : Chat \cup {Nowhere}]
    BY <1>3
  <2>2. QED BY <1>1, <1>5, <1>6, <2>1 DEF RowsFit
<1>10. UNCHANGED <<dlq, known, graph, old, sweep, overwrites, young, touched, swept>>
  BY DEF Persist
<1>11. event[e].status = "none" /\ e \notin Arrived
  BY <1>2, <1>3, <1>4
<1>12. Matches(e)'
  BY <1>6, <1>8, NowhereIsNoRow DEF Matches
<1>13. \A d \in Entry : d # e => (Matches(d) => Matches(d)')
  BY <1>7 DEF Matches
<1>14. RowsFit'
  <2>1. \A d \in Entry : d # e =>
       /\ d \in dlq' <=> event'[d].status = "dlq"
       /\ event'[d].retry = MaxRetries <=> d \in dlq'
       /\ d \in known' => event'[d].status \in {"consolidated", "deleted"}
       /\ event'[d].status # "none" /\ d \notin touched' =>
            /\ event'[d].retry = 0
            /\ event'[d].status = "deleted" => vector'[d] = Nowhere
            /\ event'[d].status # "deleted" => Matches(d)'
    BY <1>1, <1>7, <1>10, <1>13 DEF RowsFit
  <2>2. e \notin dlq' /\ e \notin known'
    BY <1>1, <1>10, <1>11 DEF RowsFit
  <2>3. QED BY <1>1, <1>3, <1>8, <1>9, <1>10, <1>12, <2>1, <2>2 DEF RowsFit
<1>15. EventInv'
  <2>1. n + 1 \in 0..Entries
    BY <1>2, <1>3, <1>4 DEF Entry
  <2>2. \A d \in Entry : event'[d].status # "none" <=> d <= n + 1
    BY <1>2, <1>3, <1>4, <1>7, <1>8
  <2>3. QED BY <1>1, <1>3, <1>7, <1>8, <2>1, <2>2 DEF EventInv
<1>16. Arrived' = Arrived \cup {e}
  BY <1>7, <1>8, <1>11 DEF Arrived, In
<1>17. Bounded'
  <2>1. PICK m \in 0..Entries : Cardinality(Arrived') = m /\ Arrived' = 1..m
    BY <1>15, CountedNext DEF Counted
  <2>2. n <= m
    <3>1. \A i \in 1..n : i \in 1..m
      BY <1>2, <1>16, <2>1
    <3>2. QED BY <1>3, <3>1
  <2>3. QED BY <1>1, <1>2, <1>3, <1>10, <2>1, <2>2 DEF Bounded
<1>18. SweepInv'
  <2>1. \A d \in sweep : OfChats({d})' \cap young = {}
    BY <1>1, <1>7, <1>11 DEF SweepInv, OfChats, Stored, Arrived, In
  <2>2. QED BY <1>1, <1>10, <1>16, <2>1 DEF SweepInv, RetentionSparesTheActive
<1>19. QED BY <1>14, <1>15, <1>17, <1>18, LineageFrom DEF MemoryInv

LEMMA OverwriteKeeps == ASSUME MemoryInv, NEW e \in Entry, Overwrite(e) PROVE MemoryInv'
<1>1. RowsFit /\ Bounded /\ EventInv /\ SweepInv
  BY LineageIsRows DEF MemoryInv
<1>2. PICK n \in 0..Entries :
        /\ \A d \in Entry : event[d].status # "none" <=> d <= n
        /\ Arrived = 1..n /\ Cardinality(Arrived) = n
  BY <1>1, ArrivedSoFar DEF Counted
<1>3. /\ overwrites < MaxOverwrites /\ overwrites' = overwrites + 1 /\ touched' = touched \cup {e}
      /\ UNCHANGED <<event, dlq, known, graph, old, sweep, young, swept>>
  BY DEF Overwrite
<1>4. PICK c \in Chat \cup {OutOfScope}, sourced \in BOOLEAN :
        vector' = [vector EXCEPT ![e] =
                     Row(c, sourced, IF @ = Nowhere THEN Cardinality(Arrived) ELSE @.at)]
  BY DEF Overwrite
<1> DEFINE place == IF vector[e] = Nowhere THEN Cardinality(Arrived) ELSE vector[e].at
<1>5. place \in Entry
  <2>1. vector[e] # Nowhere => vector[e].at \in Entry
    BY <1>1 DEF RowsFit, VectorRow
  <2>2. e \in 1..n
    BY <1>2 DEF Overwrite
  <2>3. n \in Entry
    BY <1>2, <2>2, MemoryAssumption DEF Entry
  <2>4. QED BY <1>2, <2>1, <2>3
<1>6. vector' = [vector EXCEPT ![e] = Row(c, sourced, place)]
  BY <1>4
<1> HIDE DEF place
<1>7. vector' \in [Entry -> VectorRow \cup {Nowhere}]
  <2>1. Row(c, sourced, place) \in VectorRow
    BY <1>5 DEF Row, VectorRow
  <2>2. QED BY <1>1, <1>6, <2>1 DEF RowsFit
<1>8. \A d \in Entry : d # e => vector'[d] = vector[d]
  BY <1>1, <1>6 DEF RowsFit
<1>9. \A d \in Entry : d # e => (Matches(d) <=> Matches(d)')
  BY <1>3, <1>8 DEF Matches
<1>10. RowsFit'
  <2>1. \A d \in Entry : event'[d].status # "none" /\ d \notin touched' =>
          /\ event'[d].retry = 0
          /\ event'[d].status = "deleted" => vector'[d] = Nowhere
          /\ event'[d].status # "deleted" => Matches(d)'
    BY <1>1, <1>3, <1>8, <1>9 DEF RowsFit
  <2>2. QED BY <1>1, <1>3, <1>7, <2>1 DEF RowsFit
<1>11. EventInv'
  BY <1>1, <1>3 DEF EventInv
<1>12. Bounded'
  <2>1. Arrived' = Arrived
    BY <1>3 DEF Arrived, In
  <2>2. overwrites' \in 0..MaxOverwrites
    BY <1>1, <1>3, MemoryAssumption DEF Bounded
  <2>3. QED BY <1>1, <1>3, <2>1, <2>2 DEF Bounded
<1>13. SweepInv'
  BY <1>1, <1>3 DEF SweepInv, OfChats, Stored, Arrived, In, RetentionSparesTheActive
<1>14. QED BY <1>10, <1>11, <1>12, <1>13, LineageFrom DEF MemoryInv

-----------------------------------------------------------------------------
(* Consolidation *)

(* What becomes of a pending turn of the batch. *)
LEMMA OneConsolidated ==
  ASSUME RowsFit, EventInv, NEW e \in Entry, event[e].status = "pending",
         NEW row, row = IF Matches(e) THEN [event[e] EXCEPT !.status = "consolidated"]
                        ELSE AfterMismatch(event[e])
  PROVE  /\ row \in [status : {"none", "deleted", "pending", "consolidated", "dlq"},
                     retry : 0..MaxRetries, chat : Chat \cup {Nowhere}]
         /\ row.chat = event[e].chat
         /\ Matches(e) => row.status = "consolidated" /\ row.retry = event[e].retry
         /\ ~Matches(e) => row.status \in {"pending", "dlq"}
         /\ row.retry = MaxRetries <=> row.status = "dlq"
         /\ row.status # "dlq" => row.retry < MaxRetries
<1>1. /\ event[e] \in [status : {"none", "deleted", "pending", "consolidated", "dlq"},
                       retry : 0..MaxRetries, chat : Chat \cup {Nowhere}]
      /\ event[e].retry < MaxRetries /\ event[e].retry \in 0..MaxRetries
  BY DEF RowsFit, EventInv
<1>2. MaxRetries \in Nat
  BY MemoryAssumption
<1>3. CASE Matches(e)
  BY <1>1, <1>2, <1>3
<1>4. CASE ~Matches(e)
  <2> DEFINE more == event[e].retry + 1
             next == IF more >= MaxRetries THEN "dlq" ELSE "pending"
  <2>1. row = [event[e] EXCEPT !.retry = more, !.status = next]
    BY <1>4 DEF AfterMismatch
  <2>2. more \in 0..MaxRetries /\ (more = MaxRetries <=> next = "dlq") /\ (next # "dlq" => more < MaxRetries)
    BY <1>1, <1>2
  <2>3. next \in {"pending", "dlq"}
    OBVIOUS
  <2> HIDE DEF more, next
  <2>4. row = [status |-> next, retry |-> more, chat |-> event[e].chat]
    BY <1>1, <2>1
  <2>5. QED BY <1>1, <1>4, <2>2, <2>3, <2>4
<1>5. QED BY <1>3, <1>4

LEMMA ConsolidateKeeps == ASSUME MemoryInv, Consolidate PROVE MemoryInv'
<1>1. RowsFit /\ Bounded /\ EventInv /\ SweepInv
  BY LineageIsRows DEF MemoryInv
<1> DEFINE Next1(e) == IF Matches(e) THEN [event[e] EXCEPT !.status = "consolidated"]
                       ELSE AfterMismatch(event[e])
<1>2. /\ event' = [e \in Entry |-> IF e \notin Batch THEN event[e] ELSE Next1(e)]
      /\ dlq' = dlq \cup {e \in Batch : event'[e].status = "dlq"}
      /\ UNCHANGED <<vector, old, sweep, overwrites, young, touched, swept>>
  BY DEF Consolidate
<1>3. \A e \in Batch : e \in Entry /\ event[e].status = "pending"
  BY DEF Batch, In
<1>4. /\ known' \subseteq known \cup {e \in Batch : Matches(e)}
      /\ graph' = graph \/ graph' = known'
  BY DEF Consolidate
<1>5. \A e \in Entry : e \notin Batch => event'[e] = event[e]
  BY <1>2
<1>6. \A e \in Batch :
        /\ event'[e] \in [status : {"none", "deleted", "pending", "consolidated", "dlq"},
                          retry : 0..MaxRetries, chat : Chat \cup {Nowhere}]
        /\ event'[e].chat = event[e].chat
        /\ Matches(e) => event'[e].status = "consolidated" /\ event'[e].retry = event[e].retry
        /\ ~Matches(e) => event'[e].status \in {"pending", "dlq"}
        /\ event'[e].retry = MaxRetries <=> event'[e].status = "dlq"
        /\ event'[e].status # "dlq" => event'[e].retry < MaxRetries
  <2> TAKE e \in Batch
  <2>1. event'[e] = Next1(e)
    BY <1>2, <1>3
  <2> HIDE DEF Next1
  <2>2. QED BY <1>1, <1>3, <2>1, OneConsolidated DEF Next1
<1> HIDE DEF Next1
<1>7. \A e \in Entry : event'[e].chat = event[e].chat /\ (Matches(e) <=> Matches(e)')
  BY <1>2, <1>5, <1>6 DEF Matches
<1>8. event' \in [Entry -> [status : {"none", "deleted", "pending", "consolidated", "dlq"},
                            retry : 0..MaxRetries, chat : Chat \cup {Nowhere}]]
  <2>1. \A e \in Entry : event'[e] \in [status : {"none", "deleted", "pending", "consolidated", "dlq"},
                                        retry : 0..MaxRetries, chat : Chat \cup {Nowhere}]
    BY <1>1, <1>5, <1>6 DEF RowsFit
  <2>2. QED BY <1>2, <2>1
<1>9. RowsFit'
  <2>1. dlq' \subseteq Entry /\ known' \subseteq Entry
    BY <1>1, <1>2, <1>3, <1>4 DEF RowsFit
  <2>2. \A e \in Entry : e \in Batch =>
       /\ e \in dlq' <=> event'[e].status = "dlq"
       /\ event'[e].retry = MaxRetries <=> e \in dlq'
       /\ e \in known' => event'[e].status \in {"consolidated", "deleted"}
       /\ event'[e].status # "none" /\ e \notin touched' =>
            /\ event'[e].retry = 0
            /\ event'[e].status # "deleted" /\ Matches(e)'
    <3> TAKE e \in Entry
    <3> HAVE e \in Batch
    <3>1. e \notin dlq /\ e \notin known
      BY <1>1, <1>3 DEF RowsFit
    <3>2. e \in dlq' <=> event'[e].status = "dlq"
      BY <1>2, <3>1
    <3>3. e \in known' => Matches(e)
      BY <1>4, <3>1
    <3>4. e \notin touched => event[e].retry = 0 /\ Matches(e)
      BY <1>1, <1>3 DEF RowsFit
    <3>5. QED BY <1>2, <1>6, <1>7, <3>2, <3>3, <3>4
  <2>3. \A e \in Entry : e \notin Batch =>
       /\ e \in dlq' <=> event'[e].status = "dlq"
       /\ event'[e].retry = MaxRetries <=> e \in dlq'
       /\ e \in known' => event'[e].status \in {"consolidated", "deleted"}
       /\ event'[e].status # "none" /\ e \notin touched' =>
            /\ event'[e].retry = 0
            /\ event'[e].status = "deleted" => vector'[e] = Nowhere
            /\ event'[e].status # "deleted" => Matches(e)'
    BY <1>1, <1>2, <1>4, <1>5, <1>7 DEF RowsFit
  <2>4. vector' \in [Entry -> VectorRow \cup {Nowhere}]
    BY <1>1, <1>2 DEF RowsFit
  <2>5. QED BY <1>8, <2>1, <2>2, <2>3, <2>4 DEF RowsFit
<1>10. \A e \in Entry : event'[e].status # "none" <=> event[e].status # "none"
  BY <1>3, <1>5, <1>6
<1>11. EventInv'
  <2>1. \A e \in Entry :
       /\ event'[e].status \in {"none", "deleted"} => event'[e].retry = 0
       /\ event'[e].status \in {"pending", "consolidated"} => event'[e].retry < MaxRetries
       /\ event'[e].status \in {"pending", "consolidated", "dlq"} => event'[e].chat \in Chat
    BY <1>1, <1>3, <1>5, <1>6 DEF EventInv
  <2>2. QED BY <1>1, <1>10, <2>1 DEF EventInv
<1>12. Arrived' = Arrived
  BY <1>10 DEF Arrived, In
<1>13. Bounded'
  BY <1>1, <1>2, <1>4, <1>9, <1>12 DEF Bounded, RowsFit
<1>14. SweepInv'
  <2>1. \A c : OfChats({c})' \subseteq OfChats({c})
    BY <1>3, <1>5, <1>6, <1>10 DEF OfChats, Stored, Arrived, In
  <2>2. QED BY <1>1, <1>2, <1>12, <2>1 DEF SweepInv, RetentionSparesTheActive
<1>15. QED BY <1>9, <1>11, <1>13, <1>14, LineageFrom DEF MemoryInv

-----------------------------------------------------------------------------
(* Deletion and retention *)

LEMMA EraseRows ==
  ASSUME MemoryInv, NEW C, C \subseteq Chat \cup {OutOfScope}, Erase(C),
         known' \subseteq known, UNCHANGED <<graph, old, overwrites, touched, young>>,
         sweep' \subseteq sweep
  PROVE  /\ EventInv' /\ LineageHolds'
         /\ RetentionSparesTheActive' => SweepInv'
<1>1. RowsFit /\ Bounded /\ EventInv /\ SweepInv
  BY LineageIsRows DEF MemoryInv
<1>2. /\ event' = [e \in Entry |-> IF e \in OfChats(C) THEN Deleted ELSE event[e]]
      /\ vector' = [e \in Entry |-> IF e \in RowsIn(C) THEN Nowhere ELSE vector[e]]
      /\ dlq' = dlq \ OfChats(C)
  BY DEF Erase, LettersOf
<1>3. /\ Deleted = [status |-> "deleted", retry |-> 0, chat |-> Nowhere]
      /\ MaxRetries \in Nat \ {0}
  BY MemoryAssumption DEF Deleted, NoEvent
<1>4. \A e \in Entry : e \in OfChats(C) => event'[e] = Deleted /\ event[e].status \notin {"none", "deleted"}
  BY <1>2 DEF OfChats, Stored, Arrived, In
<1>5. \A e \in Entry : e \notin OfChats(C) => event'[e] = event[e]
  BY <1>2
<1>6. \A e \in Entry : vector'[e] = vector[e] \/ vector'[e] = Nowhere
  BY <1>2
<1>7. \A e \in Entry : event[e].status \notin {"none", "deleted"} /\ Matches(e) =>
        IF e \in OfChats(C) THEN vector'[e] = Nowhere ELSE Matches(e)'
  <2> TAKE e \in Entry
  <2> HAVE event[e].status \notin {"none", "deleted"} /\ Matches(e)
  <2>1. vector[e].chat = event[e].chat /\ vector[e] # Nowhere
    BY DEF Matches
  <2>2. e \in OfChats(C) <=> e \in RowsIn(C)
    BY <2>1 DEF OfChats, Stored, Arrived, In, RowsIn
  <2>3. CASE e \in OfChats(C)
    BY <1>2, <2>2, <2>3
  <2>4. CASE e \notin OfChats(C)
    BY <1>2, <1>5, <2>2, <2>4 DEF Matches
  <2>5. QED BY <2>3, <2>4
<1>8. /\ event' \in [Entry -> [status : {"none", "deleted", "pending", "consolidated", "dlq"},
                               retry : 0..MaxRetries, chat : Chat \cup {Nowhere}]]
      /\ vector' \in [Entry -> VectorRow \cup {Nowhere}]
  <2>1. Deleted \in [status : {"none", "deleted", "pending", "consolidated", "dlq"},
                     retry : 0..MaxRetries, chat : Chat \cup {Nowhere}]
    BY <1>3
  <2>2. \A e \in Entry : event'[e] \in [status : {"none", "deleted", "pending", "consolidated", "dlq"},
                                        retry : 0..MaxRetries, chat : Chat \cup {Nowhere}]
    BY <1>1, <1>4, <1>5, <2>1 DEF RowsFit
  <2>3. \A e \in Entry : vector'[e] \in VectorRow \cup {Nowhere}
    BY <1>1, <1>6 DEF RowsFit
  <2>4. QED BY <1>2, <2>2, <2>3
<1>9. RowsFit'
  <2>1. \A e \in Entry : e \in OfChats(C) =>
       /\ e \notin dlq' /\ event'[e].status = "deleted" /\ event'[e].retry = 0
       /\ e \notin touched' => vector'[e] = Nowhere
    BY <1>1, <1>2, <1>3, <1>4, <1>7 DEF RowsFit
  <2>2. \A e \in Entry : e \notin OfChats(C) =>
       /\ e \in dlq' <=> event'[e].status = "dlq"
       /\ event'[e].retry = MaxRetries <=> e \in dlq'
       /\ e \in known' => event'[e].status \in {"consolidated", "deleted"}
       /\ event'[e].status # "none" /\ e \notin touched' =>
            /\ event'[e].retry = 0
            /\ event'[e].status = "deleted" => vector'[e] = Nowhere
            /\ event'[e].status # "deleted" => Matches(e)'
    BY <1>1, <1>2, <1>5, <1>6, <1>7 DEF RowsFit
  <2>3. dlq' \subseteq Entry /\ known' \subseteq Entry
    BY <1>1, <1>2 DEF RowsFit
  <2>4. QED BY <1>3, <1>8, <2>1, <2>2, <2>3 DEF RowsFit
<1>10. \A e \in Entry : event'[e].status # "none" <=> event[e].status # "none"
  BY <1>3, <1>4, <1>5
<1>11. EventInv'
  <2>1. \A e \in Entry :
       /\ event'[e].status \in {"none", "deleted"} => event'[e].retry = 0
       /\ event'[e].status \in {"pending", "consolidated"} => event'[e].retry < MaxRetries
       /\ event'[e].status \in {"pending", "consolidated", "dlq"} => event'[e].chat \in Chat
    BY <1>1, <1>3, <1>4, <1>5 DEF EventInv
  <2>2. QED BY <1>1, <1>10, <2>1 DEF EventInv
<1>12. Arrived' = Arrived
  BY <1>10 DEF Arrived, In
<1>13. Bounded'
  BY <1>1, <1>12 DEF Bounded
<1>14. LineageHolds'
  BY <1>9, <1>13, LineageFrom
<1>15. RetentionSparesTheActive' => SweepInv'
  <2>1. \A c : OfChats({c})' \subseteq OfChats({c})
    BY <1>3, <1>4, <1>5 DEF OfChats, Stored, Arrived, In
  <2>2. QED BY <1>1, <1>12, <2>1 DEF SweepInv
<1>16. QED BY <1>11, <1>14, <1>15

LEMMA EraseKeeps ==
  ASSUME MemoryInv, NEW C, C \subseteq Chat \cup {OutOfScope}, Erase(C),
         known' \subseteq known, UNCHANGED <<graph, old, overwrites, touched, young>>,
         sweep' \subseteq sweep, RetentionSparesTheActive'
  PROVE  MemoryInv'
BY EraseRows DEF MemoryInv

LEMMA DeletionKeeps ==
  ASSUME MemoryInv, DeleteSubject \/ \E c \in Chat : DeleteConversation(c) PROVE MemoryInv'
<1>1. ASSUME NEW c \in Chat, DeleteConversation(c) PROVE MemoryInv'
  <2>1. RetentionSparesTheActive'
    BY <1>1 DEF MemoryInv, SweepInv, RetentionSparesTheActive, DeleteConversation
  <2>2. Erase({c}) /\ UNCHANGED <<known, graph, old, sweep, overwrites, young, touched>>
    BY <1>1 DEF DeleteConversation
  <2>3. QED BY <2>1, <2>2, EraseKeeps
<1>2. CASE DeleteSubject
  <2>1. RetentionSparesTheActive'
    BY <1>2 DEF MemoryInv, SweepInv, RetentionSparesTheActive, DeleteSubject
  <2>2. PICK C \in {Chat, Chat \cup {OutOfScope}} : Erase(C)
    BY <1>2 DEF DeleteSubject
  <2>3. known' = {} /\ UNCHANGED <<graph, old, sweep, overwrites, young, touched>>
    BY <1>2 DEF DeleteSubject
  <2>4. QED BY <2>1, <2>2, <2>3, EraseKeeps
<1>3. QED BY <1>1, <1>2

(* What was eligible had nothing recent. *)
LEMMA EligibleIsOld ==
  ASSUME EventInv, Bounded, NEW C \in SUBSET Eligible PROVE OfChats(C) \cap Recent = {}
<1>1. ASSUME NEW e \in OfChats(C), e > old PROVE FALSE
  <2>1. PICK c \in C : event[e].chat = c /\ e \in OfChats({c})
    BY DEF OfChats
  <2>2. e <= old
    BY <2>1 DEF Eligible, NothingRecent, Activity
  <2>3. e \in Nat /\ old \in Nat
    <3>1. PICK n \in 0..Entries : Cardinality(Arrived) = n
      BY ArrivedSoFar DEF Counted
    <3>2. old \in Nat
      BY <3>1 DEF Bounded
    <3>3. e \in Entry
      BY DEF OfChats, Stored, Arrived
    <3>4. QED BY <3>2, <3>3 DEF Entry
  <2>4. QED BY <1>1, <2>2, <2>3
<1>2. QED BY <1>1 DEF Recent

LEMMA RetireKeeps ==
  ASSUME MemoryInv, NEW C, C \subseteq Chat, NEW seen, Retire(C, seen),
         OfChats(C) \cap Recent \cap seen = {},
         UNCHANGED <<known, graph, old, overwrites, touched, young>>, sweep' \subseteq sweep
  PROVE  MemoryInv'
<1>1. Erase(C) /\ swept' = swept \cup {[entry |-> e, seen |-> e \in seen] : e \in OfChats(C) \cap Recent}
  BY DEF Retire
<1>2. RetentionSparesTheActive'
  <2>1. \A s \in swept : ~s.seen
    BY DEF MemoryInv, SweepInv, RetentionSparesTheActive
  <2>2. \A e \in OfChats(C) \cap Recent : ~[entry |-> e, seen |-> e \in seen].seen
    OBVIOUS
  <2>3. QED BY <1>1, <2>1, <2>2 DEF RetentionSparesTheActive
<1>3. QED BY <1>1, <1>2, EraseKeeps

LEMMA RetentionKeeps ==
  ASSUME MemoryInv,
         SweepChooses \/ SweepFails \/ SweepCommand \/ TurnsAge \/ \E c \in Chat : SweepDeletes(c)
  PROVE  MemoryInv'
<1>1. RowsFit /\ Bounded /\ EventInv /\ SweepInv
  BY LineageIsRows DEF MemoryInv
<1>2. PICK n \in 0..Entries : Cardinality(Arrived) = n
  BY <1>1, ArrivedSoFar DEF Counted
<1>3. UNCHANGED rows => Arrived' = Arrived /\ \A c : OfChats({c})' = OfChats({c})
  BY DEF rows, Arrived, In, OfChats, Stored
<1>4. CASE SweepChooses
  <2>1. sweep' = Eligible /\ young' = Recent /\ UNCHANGED <<rows, graph, old, overwrites, touched, swept>>
    BY <1>4 DEF SweepChooses
  <2>2. Bounded'
    BY <1>1, <1>3, <2>1 DEF Bounded, Eligible
  <2>3. \A c \in Eligible : OfChats({c}) \cap Recent = {}
    BY <1>1, EligibleIsOld
  <2>4. SweepInv'
    BY <1>1, <1>3, <2>1, <2>3 DEF SweepInv, RetentionSparesTheActive, Recent, Stored
  <2>5. QED BY <2>1, <2>2, <2>4, SameRows
<1>5. CASE SweepFails
  <2>1. sweep' = {} /\ UNCHANGED <<rows, graph, old, overwrites, young, touched, swept>>
    BY <1>5 DEF SweepFails
  <2>2. Bounded' /\ SweepInv'
    BY <1>1, <1>3, <2>1 DEF Bounded, SweepInv, RetentionSparesTheActive
  <2>3. QED BY <2>1, <2>2, SameRows
<1>6. CASE TurnsAge
  <2>1. /\ old < Cardinality(Arrived) /\ old' = old + 1
        /\ UNCHANGED <<rows, graph, sweep, overwrites, young, touched, swept>>
    BY <1>6 DEF TurnsAge
  <2>2. Bounded' /\ SweepInv'
    <3>1. old' \in 0..n
      BY <1>1, <1>2, <2>1 DEF Bounded
    <3>2. QED BY <1>1, <1>2, <1>3, <2>1, <3>1 DEF Bounded, SweepInv, RetentionSparesTheActive
  <2>3. QED BY <2>1, <2>2, SameRows
<1>7. CASE SweepCommand
  <2>1. PICK C \in SUBSET Eligible : Retire(C, Recent)
    BY <1>7 DEF SweepCommand
  <2>2. OfChats(C) \cap Recent = {} /\ C \subseteq Chat
    BY <1>1, EligibleIsOld DEF Eligible
  <2>3. UNCHANGED <<known, graph, old, sweep, overwrites, young, touched>>
    BY <1>7 DEF SweepCommand
  <2>4. QED BY <2>1, <2>2, <2>3, RetireKeeps
<1>8. ASSUME NEW c \in Chat, SweepDeletes(c) PROVE MemoryInv'
  <2>1. /\ c \in sweep /\ Retire({c}, young) /\ sweep' = sweep \ {c}
        /\ UNCHANGED <<known, graph, old, overwrites, young, touched>>
    BY <1>8 DEF SweepDeletes
  <2>2. OfChats({c}) \cap Recent \cap young = {}
    BY <1>1, <2>1 DEF SweepInv
  <2>3. QED BY <2>1, <2>2, RetireKeeps
<1>9. QED BY <1>4, <1>5, <1>6, <1>7, <1>8

LEMMA MemoryCrashKeeps == ASSUME MemoryInv, MemoryCrash PROVE MemoryInv'
<1>1. RowsFit /\ Bounded /\ EventInv /\ SweepInv
  BY LineageIsRows DEF MemoryInv
<1>2. Arrived' = Arrived /\ sweep' = {} /\ graph' = known
      /\ UNCHANGED <<rows, old, overwrites, young, touched, swept>>
  BY DEF MemoryCrash, rows, Arrived, In
<1>3. Bounded' /\ SweepInv'
  BY <1>1, <1>2 DEF Bounded, RowsFit, SweepInv, RetentionSparesTheActive
<1>4. QED BY <1>2, <1>3, SameRows

LEMMA MemoryStutters == ASSUME MemoryInv, UNCHANGED memory PROVE MemoryInv'
<1>1. RowsFit /\ Bounded /\ EventInv /\ SweepInv
  BY LineageIsRows DEF MemoryInv
<1>2. /\ Arrived' = Arrived /\ \A c : OfChats({c})' = OfChats({c})
      /\ UNCHANGED <<rows, graph, old, sweep, overwrites, young, touched, swept>>
  BY DEF memory, rows, Arrived, In, OfChats, Stored
<1>3. Bounded' /\ SweepInv'
  BY <1>1, <1>2 DEF Bounded, SweepInv, RetentionSparesTheActive
<1>4. QED BY <1>2, <1>3, SameRows

LEMMA MemoryNextKeeps == ASSUME MemoryInv, MemoryNext PROVE MemoryInv'
BY PersistKeeps, OverwriteKeeps, ConsolidateKeeps, DeletionKeeps, RetentionKeeps DEF MemoryNext

LEMMA MemoryStarts == ASSUME MemoryInit PROVE MemoryInv
<1>1. MaxRetries \in Nat \ {0} /\ Entries \in Nat /\ MaxOverwrites \in Nat /\ Nowhere \notin Chat
  BY MemoryAssumption
<1>2. /\ \A e \in Entry : event[e] = NoEvent /\ vector[e] = Nowhere
      /\ NoEvent = [status |-> "none", retry |-> 0, chat |-> Nowhere]
  BY DEF MemoryInit, NoEvent
<1>3. EventInv
  <2>1. 0 \in 0..Entries /\ \A e \in Entry : ~(e <= 0)
    BY <1>1 DEF Entry
  <2>2. \A e \in Entry : event[e].status # "none" <=> e <= 0
    BY <1>2, <2>1
  <2>3. QED BY <1>2, <2>1, <2>2 DEF EventInv
<1>4. RowsFit
  <2>1. NoEvent \in [status : {"none", "deleted", "pending", "consolidated", "dlq"},
                     retry : 0..MaxRetries, chat : Chat \cup {Nowhere}]
    BY <1>1, <1>2
  <2>2. QED BY <1>1, <1>2, <2>1 DEF MemoryInit, RowsFit
<1>5. Bounded
  <2>1. PICK n \in 0..Entries : Cardinality(Arrived) = n
    BY <1>3, ArrivedSoFar DEF Counted
  <2>2. QED BY <1>1, <2>1 DEF MemoryInit, Bounded
<1>6. SweepInv
  BY DEF MemoryInit, SweepInv, RetentionSparesTheActive
<1>7. QED BY <1>3, <1>4, <1>5, <1>6, LineageIsRows DEF MemoryInv

-----------------------------------------------------------------------------
(* Active recall: turns, as records *)

LEMMA Changes ==
  /\ \A c : c \in Challenge => c # None
  /\ \A r \in Table : [kind |-> "set", rows |-> r] \in Change /\ [kind |-> "set", rows |-> r] # None
  /\ [kind |-> "deleted"] \in Change /\ [kind |-> "deleted"] # None
BY NoneIsNothing DEF Change

LEMMA PlainTurns ==
  /\ NoTurn \in TurnRecord /\ Over \in TurnRecord
  /\ NoTurn.pc = "new" /\ Over.pc = "over" /\ ~NoTurn.alone /\ ~Over.alone
  /\ NoTurn.ask = None /\ Over.ask = None
  /\ \A f \in Fact : NoTurn.rows[f] = None /\ Over.rows[f] = None
  /\ NoTurn.rows \in Table
BY DEF NoTurn, Over, TurnRecord, Points, Table

(* A record of which at most alone was cleared. *)
Faded(r, q) == q = r \/ q = [r EXCEPT !.alone = FALSE]

LEMMA FadedFields ==
  ASSUME NEW r \in TurnRecord, NEW q, Faded(r, q)
  PROVE  /\ q \in TurnRecord /\ q.pc = r.pc /\ q.fact = r.fact /\ q.rows = r.rows /\ q.ask = r.ask
         /\ q.alone => r.alone
BY DEF Faded, TurnRecord

LEMMA DisturbedTurns ==
  ASSUME TurnsInv, turn' = Disturbed
  PROVE  /\ turn' \in [Turn -> TurnRecord]
         /\ \A t \in Turn : /\ turn'[t].pc = turn[t].pc /\ turn'[t].fact = turn[t].fact
                            /\ turn'[t].rows = turn[t].rows /\ turn'[t].ask = turn[t].ask
                            /\ ~turn'[t].alone
<1>1. \A t \in Turn : turn[t] \in TurnRecord /\ turn'[t] = [turn[t] EXCEPT !.alone = FALSE]
  BY DEF TurnsInv, Disturbed
<1>2. \A t \in Turn : ~turn'[t].alone
  BY <1>1 DEF TurnRecord
<1>3. \A t \in Turn : Faded(turn[t], turn'[t])
  BY <1>1 DEF Faded
<1>4. \A t \in Turn : /\ turn'[t].pc = turn[t].pc /\ turn'[t].fact = turn[t].fact
                      /\ turn'[t].rows = turn[t].rows /\ turn'[t].ask = turn[t].ask
                      /\ turn'[t] \in TurnRecord
  BY <1>1, <1>3, FadedFields
<1>5. turn' \in [Turn -> TurnRecord]
  BY <1>4 DEF Disturbed
<1>6. QED BY <1>2, <1>4, <1>5

LEMMA SomeTurns ==
  ASSUME NEW A, NEW B, A \subseteq B, B \subseteq Turn
  PROVE  /\ IsFiniteSet(A) /\ Cardinality(A) \in Nat /\ Cardinality(B) \in Nat
         /\ Cardinality(A) <= Cardinality(B) /\ Cardinality(B) <= Turns
<1>1. IsFiniteSet(Turn) /\ Cardinality(Turn) = Turns /\ Turns \in Nat
  BY CountTo, RecallAssumption DEF Turn
<1>2. IsFiniteSet(B) /\ Cardinality(B) <= Turns
  BY <1>1, FS_Subset
<1>3. IsFiniteSet(A) /\ Cardinality(A) <= Cardinality(B)
  BY <1>2, FS_Subset
<1>4. QED BY <1>2, <1>3, FS_CardinalityType

LEMMA CountKeeps ==
  ASSUME CountInv, stats \in Nat, stats' \in Nat, stats' <= stats, Finished \subseteq Finished'
  PROVE  CountInv' /\ stats' \in 0..Turns
<1>1. Finished' \subseteq Turn
  BY DEF Finished
<1>2. /\ Cardinality(Finished) \in Nat /\ Cardinality(Finished') \in Nat
      /\ Cardinality(Finished) <= Cardinality(Finished') /\ Cardinality(Finished') <= Turns
  BY <1>1, SomeTurns
<1>3. stats <= Cardinality(Finished)
  BY DEF CountInv
<1>4. stats' <= Cardinality(Finished')
  BY <1>2, <1>3
<1>5. QED BY <1>2, <1>4, RecallAssumption DEF CountInv

LEMMA RecallTypes ==
  ASSUME RecallTypeOK
  PROVE  /\ db \in Table /\ facts \in Table /\ trie \in SUBSET Fact
         /\ change \in Change \cup {None} /\ (change # None <=> holder = "facts")
         /\ version \in Nat /\ cached \in Nat /\ cached <= version
         /\ changes \in Nat /\ changes <= MaxChanges /\ stats \in Nat
         /\ pending \in [Session -> Challenge \cup {None}] /\ held \in [Fact -> SUBSET Value]
         /\ ready \in BOOLEAN /\ exact \in BOOLEAN
<1>1. version \in Nat /\ cached \in 0..version /\ changes \in 0..MaxChanges /\ stats \in 0..Turns
  BY DEF RecallTypeOK
<1>2. cached \in Nat /\ cached <= version /\ changes \in Nat /\ changes <= MaxChanges /\ stats \in Nat
  BY <1>1, RecallAssumption
<1>3. change # None <=> holder = "facts"
  BY DEF RecallTypeOK
<1>4. QED BY <1>1, <1>2, <1>3 DEF RecallTypeOK

LEMMA TypesFrom ==
  ASSUME /\ db' \in Table /\ facts' \in Table /\ trie' \in SUBSET Fact
         /\ change' \in Change \cup {None} /\ (change' # None <=> holder' = "facts")
         /\ holder' \in {"free", "facts", "audit"}
         /\ version' \in Nat /\ cached' \in 0..version'
         /\ changes' \in 0..MaxChanges /\ stats' \in 0..Turns
         /\ pending' \in [Session -> Challenge \cup {None}] /\ held' \in [Fact -> SUBSET Value]
         /\ ready' \in BOOLEAN /\ exact' \in BOOLEAN
         /\ TurnsInv'
  PROVE  RecallTypeOK'
<1>1. \A t \in Turn : turn'[t].pc \in Points /\ turn'[t].rows \in Table
  BY DEF TurnsInv, TurnRecord
<1>2. (change' # None) = (holder' = "facts")
  OBVIOUS
<1>3. QED BY <1>1, <1>2 DEF RecallTypeOK, Points

-----------------------------------------------------------------------------
(* The writer changes the table: no turn does anything, and nobody is alone *)

LEMMA WriterTurns ==
  ASSUME RecallInv, turn' = Disturbed, UNCHANGED <<copy, pending, judged>>,
         stats' \in Nat, stats' <= stats,
         held' \in [Fact -> SUBSET Value], \A f \in Fact : held[f] \subseteq held'[f] /\ Had(f, db[f])'
  PROVE  /\ TurnsInv' /\ HadInv' /\ OnceInv' /\ CountInv' /\ stats' \in 0..Turns
         /\ Refreshing' = Refreshing
<1>1. /\ turn' \in [Turn -> TurnRecord]
      /\ \A t \in Turn : /\ turn'[t].pc = turn[t].pc /\ turn'[t].fact = turn[t].fact
                         /\ turn'[t].rows = turn[t].rows /\ turn'[t].ask = turn[t].ask
  BY DisturbedTurns DEF RecallInv
<1>2. TurnsInv'
  BY <1>1 DEF RecallInv, TurnsInv, At
<1>3. OnceInv'
  BY <1>1 DEF RecallInv, OnceInv, At, WithSession, WithJudge
<1>4. Finished' = Finished /\ Refreshing' = Refreshing
  BY <1>1 DEF Finished, At, Refreshing
<1>5. CountInv' /\ stats' \in 0..Turns
  <2>1. stats \in Nat
    BY RecallTypes DEF RecallInv
  <2>2. QED BY <1>4, <2>1, CountKeeps DEF RecallInv
<1>6. HadInv'
  <2>1. \A f \in Fact : Had(f, facts[f])' /\ \A t \in Turn : Had(f, turn[t].rows[f])'
    BY <1>1 DEF RecallInv, HadInv, Had, copy
  <2>2. \A s \in Session : pending'[s] # None => pending'[s].answer \in held'[pending'[s].fact]
    BY DEF RecallInv, HadInv, RecallTypeOK, Challenge
  <2>3. \A t \in Turn : turn'[t].ask # None => turn'[t].ask.answer \in held'[turn'[t].ask.fact]
    <3> TAKE t \in Turn
    <3>1. turn[t].ask # None => turn[t].ask.fact \in Fact
      BY DEF RecallInv, TurnsInv, TurnRecord, Challenge
    <3>2. QED BY <1>1, <3>1 DEF RecallInv, HadInv
  <2>4. QED BY <2>1, <2>2, <2>3 DEF HadInv, Had
<1>7. QED BY <1>2, <1>3, <1>4, <1>5, <1>6

LEMMA SetFactKeeps == ASSUME RecallInv, NEW f \in Fact, SetFact(f) PROVE RecallInv'
<1>1. RecallTypeOK /\ TurnsInv /\ HadInv /\ CopyInv
  BY DEF RecallInv
<1>2. /\ changes < MaxChanges /\ holder = "free" /\ holder' = "facts" /\ changes' = changes + 1
      /\ change' = [kind |-> "set", rows |-> [db EXCEPT ![f] = changes + 1]]
      /\ version' = version + 1 /\ turn' = Disturbed
      /\ UNCHANGED <<db, held, stats>> /\ UNCHANGED <<copy, pending, judged>>
  BY DEF SetFact, Takes, Elsewhere
<1>3. changes + 1 \in Value /\ changes' \in 0..MaxChanges
  BY <1>1, <1>2, RecallTypes, RecallAssumption DEF Value
<1>4. change' \in Change /\ change' # None /\ change'.kind = "set"
  <2>1. [db EXCEPT ![f] = changes + 1] \in Table
    BY <1>1, <1>3 DEF RecallTypeOK, Table
  <2>2. QED BY <1>2, <2>1, Changes
<1>5. /\ TurnsInv' /\ HadInv' /\ OnceInv' /\ CountInv' /\ stats' \in 0..Turns
      /\ Refreshing' = Refreshing
  <2>1. stats \in Nat /\ \A g \in Fact : Had(g, db[g])'
    BY <1>1, <1>2, RecallTypes DEF HadInv, Had
  <2>2. QED BY <1>1, <1>2, <2>1, RecallTypes, WriterTurns
<1>6. \A t \in Turn : ~turn'[t].alone /\ turn'[t].pc \in Points /\ turn'[t].rows \in Table
  BY <1>1, <1>2, DisturbedTurns DEF TurnRecord
<1>7. cached \in Nat /\ cached <= version /\ version \in Nat
  BY <1>1, RecallTypes
<1>8. CopyInv'
  <2>1. cached' # version'
    BY <1>2, <1>7 DEF copy
  <2>2. QED BY <1>4, <1>6, <2>1 DEF CopyInv
<1>9. RecallTypeOK'
  BY <1>1, <1>2, <1>3, <1>4, <1>5, <1>6, <1>7, RecallTypes, TypesFrom DEF copy
<1>10. QED BY <1>5, <1>8, <1>9 DEF RecallInv

LEMMA SetEndsKeeps == ASSUME RecallInv, SetCommits \/ SetFails PROVE RecallInv'
<1>1. RecallTypeOK /\ TurnsInv /\ HadInv /\ CopyInv
  BY DEF RecallInv
<1>2. /\ change # None /\ change.kind = "set" /\ holder = "facts" /\ holder' = "free" /\ change' = None
      /\ turn' = Disturbed /\ UNCHANGED <<version, changes, stats, copy, pending, judged>>
  BY DEF SetCommits, SetFails, Gives, Elsewhere
<1>3. change.rows \in Table
  BY <1>1, <1>2 DEF RecallTypeOK, Change
<1>4. /\ db' \in Table /\ held' \in [Fact -> SUBSET Value]
      /\ \A f \in Fact : held[f] \subseteq held'[f] /\ Had(f, db[f])'
  <2>1. CASE SetCommits
    <3>1. db' = change.rows /\ held' = [f \in Fact |-> held[f] \cup ({db'[f]} \ {None})]
      BY <2>1 DEF SetCommits
    <3>2. \A f \in Fact : db'[f] \in Value \cup {None} /\ held[f] \subseteq Value
      BY <1>1, <1>3, <3>1 DEF RecallTypeOK, Table
    <3>3. QED BY <1>3, <3>1, <3>2 DEF Had
  <2>2. CASE SetFails
    BY <1>1, <2>2 DEF SetFails, RecallTypeOK, HadInv, Had
  <2>3. QED BY <2>1, <2>2
<1>5. /\ TurnsInv' /\ HadInv' /\ OnceInv' /\ CountInv' /\ stats' \in 0..Turns
      /\ Refreshing' = Refreshing
  <2>1. stats \in Nat /\ stats <= stats
    BY <1>1, RecallTypes, RecallAssumption
  <2>2. QED BY <1>1, <1>2, <1>4, <2>1, WriterTurns
<1>6. \A t \in Turn : ~turn'[t].alone /\ turn'[t].pc \in Points /\ turn'[t].rows \in Table
  BY <1>1, <1>2, DisturbedTurns DEF TurnRecord
<1>7. CopyInv'
  BY <1>1, <1>2, <1>5, <1>6 DEF CopyInv, copy
<1>8. RecallTypeOK'
  BY <1>1, <1>2, <1>4, <1>5, <1>6, RecallTypes, TypesFrom DEF copy
<1>9. QED BY <1>5, <1>7, <1>8 DEF RecallInv

LEMMA DeletionOfFactsKeeps ==
  ASSUME RecallInv, DeletionMarked \/ \E F \in SUBSET Fact : DeleteFacts(F) PROVE RecallInv'
<1>1. RecallTypeOK /\ TurnsInv /\ HadInv /\ CopyInv
  BY DEF RecallInv
<1>2. /\ turn' = Disturbed /\ UNCHANGED <<held, stats, copy, pending, judged>>
  BY DEF DeletionMarked, DeleteFacts, Elsewhere
<1>3. CASE DeletionMarked
  <2>1. /\ change # None /\ holder = "facts" /\ holder' = "free" /\ change' = None
        /\ version' = version + 1 /\ UNCHANGED <<db, changes>>
    BY <1>3 DEF DeletionMarked, Gives, VersionAfterDelete
  <2>2. /\ TurnsInv' /\ HadInv' /\ OnceInv' /\ CountInv' /\ stats' \in 0..Turns
        /\ Refreshing' = Refreshing
    <3>1. stats \in Nat /\ stats <= stats /\ \A g \in Fact : Had(g, db[g])'
      BY <1>1, <1>2, <2>1, RecallTypes DEF HadInv, Had
    <3>2. QED BY <1>1, <1>2, <3>1, RecallTypes, WriterTurns
  <2>3. \A t \in Turn : ~turn'[t].alone /\ turn'[t].pc \in Points /\ turn'[t].rows \in Table
    BY <1>1, <1>2, DisturbedTurns DEF TurnRecord
  <2>4. cached \in Nat /\ cached <= version /\ version \in Nat
    BY <1>1, RecallTypes
  <2>5. CopyInv'
    <3>1. cached' # version'
      BY <1>2, <2>1, <2>4 DEF copy
    <3>2. QED BY <2>1, <2>3, <3>1 DEF CopyInv
  <2>6. RecallTypeOK'
    BY <1>1, <1>2, <2>1, <2>2, <2>3, <2>4, RecallTypes, TypesFrom DEF copy
  <2>7. QED BY <2>2, <2>5, <2>6 DEF RecallInv
<1>4. ASSUME NEW F \in SUBSET Fact, DeleteFacts(F) PROVE RecallInv'
  <2>1. /\ changes < MaxChanges /\ holder = "free" /\ holder' = "facts" /\ changes' = changes + 1
        /\ db' = [f \in Fact |-> IF f \in F THEN None ELSE db[f]]
        /\ change' = [kind |-> "deleted"] /\ UNCHANGED version
    BY <1>4 DEF DeleteFacts, Takes
  <2>2. change' \in Change /\ change' # None /\ change'.kind # "set"
    BY <2>1, Changes
  <2>3. db' \in Table /\ \A f \in Fact : Had(f, db[f])'
    BY <1>1, <1>2, <2>1 DEF RecallTypeOK, Table, HadInv, Had
  <2>4. /\ TurnsInv' /\ HadInv' /\ OnceInv' /\ CountInv' /\ stats' \in 0..Turns
        /\ Refreshing' = Refreshing
    <3>1. stats \in Nat /\ stats <= stats
      BY <1>1, RecallTypes, RecallAssumption
    <3>2. QED BY <1>1, <1>2, <2>3, <3>1, RecallTypes, WriterTurns
  <2>5. \A t \in Turn : ~turn'[t].alone /\ turn'[t].pc \in Points /\ turn'[t].rows \in Table
    BY <1>1, <1>2, DisturbedTurns DEF TurnRecord
  <2>6. CopyInv'
    BY <1>2, <2>2, <2>5 DEF CopyInv
  <2>7. changes' \in 0..MaxChanges
    BY <1>1, <2>1, RecallTypes, RecallAssumption
  <2>8. RecallTypeOK'
    BY <1>1, <1>2, <2>1, <2>2, <2>3, <2>4, <2>5, <2>7, RecallTypes, TypesFrom DEF copy
  <2>9. QED BY <2>4, <2>6, <2>8 DEF RecallInv
<1>5. QED BY <1>3, <1>4

LEMMA UpdateStatsKeeps == ASSUME RecallInv, UpdateStats PROVE RecallInv'
<1>1. RecallTypeOK /\ TurnsInv /\ HadInv /\ CopyInv
  BY DEF RecallInv
<1>2. /\ stats > 0 /\ holder = "free" /\ holder' = holder /\ stats' = stats - 1
      /\ version' \in {version, version + 1} /\ turn' = Disturbed
      /\ UNCHANGED <<db, change, changes, held, copy, pending, judged>>
  BY DEF UpdateStats, InPassing, Elsewhere
<1>3. stats \in Nat /\ stats' \in Nat /\ stats' <= stats
  BY <1>1, <1>2, RecallTypes, RecallAssumption
<1>4. /\ TurnsInv' /\ HadInv' /\ OnceInv' /\ CountInv' /\ stats' \in 0..Turns
      /\ Refreshing' = Refreshing
  <2>1. \A g \in Fact : Had(g, db[g])'
    BY <1>1, <1>2 DEF HadInv, Had
  <2>2. QED BY <1>1, <1>2, <1>3, <2>1, RecallTypes, WriterTurns
<1>5. \A t \in Turn : ~turn'[t].alone /\ turn'[t].pc \in Points /\ turn'[t].rows \in Table
  BY <1>1, <1>2, DisturbedTurns DEF TurnRecord
<1>6. cached \in Nat /\ cached <= version /\ version \in Nat /\ change = None
  BY <1>1, <1>2, RecallTypes
<1>7. CopyInv'
  <2>1. version' = version \/ cached' # version'
    BY <1>2, <1>6 DEF copy
  <2>2. UNCHANGED <<trie, facts, ready, cached, exact, db, change>> /\ Keys(db)' = Keys(db)
    BY <1>2 DEF copy, Keys
  <2>3. QED BY <1>1, <1>4, <1>5, <1>6, <2>1, <2>2 DEF CopyInv
<1>8. RecallTypeOK'
  BY <1>1, <1>2, <1>4, <1>5, <1>6, RecallTypes, TypesFrom DEF copy
<1>9. QED BY <1>4, <1>7, <1>8 DEF RecallInv

-----------------------------------------------------------------------------
(* A step of a turn *)

Others(t) == \A u \in Turn \ {t} : Faded(turn[u], turn'[u])
Honest(c) == c \in Challenge /\ c.answer \in held[c.fact]
Reading == {"stamp", "swap trie", "swap facts"}

LEMMA PutTurn ==
  ASSUME TurnsInv, NEW t \in Turn, NEW k \in TurnRecord, turn' = [turn EXCEPT ![t] = k]
  PROVE  turn' \in [Turn -> TurnRecord] /\ turn'[t] = k /\ \A u \in Turn \ {t} : turn'[u] = turn[u]
BY DEF TurnsInv

LEMMA GoesTo ==
  ASSUME TurnsInv, NEW t \in Turn, NEW pc \in Points, Goes(t, pc)
  PROVE  /\ turn' \in [Turn -> TurnRecord] /\ \A u \in Turn \ {t} : turn'[u] = turn[u]
         /\ turn'[t].pc = pc /\ turn'[t].fact = turn[t].fact /\ turn'[t].rows = turn[t].rows
         /\ turn'[t].ask = turn[t].ask /\ turn'[t].alone = turn[t].alone
<1> DEFINE k == [turn[t] EXCEPT !.pc = pc]
<1>1. turn' = [turn EXCEPT ![t] = k]
  BY DEF Goes
<1>2. /\ k \in TurnRecord /\ k.pc = pc /\ k.fact = turn[t].fact /\ k.rows = turn[t].rows
      /\ k.ask = turn[t].ask /\ k.alone = turn[t].alone
  BY DEF TurnsInv, TurnRecord
<1> HIDE DEF k
<1>3. QED BY <1>1, <1>2, PutTurn

LEMMA GoesAway ==
  ASSUME TurnsInv, NEW t \in Turn, GoesOver(t)
  PROVE  /\ turn' \in [Turn -> TurnRecord] /\ \A u \in Turn \ {t} : turn'[u] = turn[u]
         /\ turn'[t].pc = "over" /\ turn'[t].ask = None /\ ~turn'[t].alone
         /\ \A f \in Fact : turn'[t].rows[f] = None
BY PlainTurns, PutTurn DEF GoesOver

(* A step between the interception and the end that neither asks nor judges.  *)
LEMMA WalkKeeps ==
  ASSUME RecallInv, NEW t \in Turn, turn[t].pc \notin {"new", "over", "judge", "ask"},
         turn' \in [Turn -> TurnRecord], Others(t), turn'[t].pc \notin {"new", "judge"},
         turn'[t].pc # "over" => turn'[t].fact = turn[t].fact,
         \/ turn'[t].ask = turn[t].ask /\ turn'[t].pc # "ask"
         \/ turn'[t].ask = None /\ turn'[t].pc # "ask"
         \/ Honest(turn'[t].ask) /\ turn'[t].ask.fresh /\ turn'[t].ask.asker = t,
         \A f \in Fact : Had(f, turn'[t].rows[f]) /\ Had(f, facts'[f]),
         UNCHANGED <<pending, judged, stats, db, held>>
  PROVE  TurnsInv' /\ OnceInv' /\ CountInv' /\ HadInv' /\ stats' \in 0..Turns
<1>1. /\ RecallTypeOK /\ TurnsInv /\ HadInv /\ OnceInv /\ CountInv
      /\ turn[t] \in TurnRecord
  BY DEF RecallInv, TurnsInv
<1>2. \A u \in Turn \ {t} : /\ turn'[u].pc = turn[u].pc /\ turn'[u].fact = turn[u].fact
                            /\ turn'[u].rows = turn[u].rows /\ turn'[u].ask = turn[u].ask
  BY <1>1, FadedFields DEF Others, TurnsInv
<1>3. Honest(turn'[t].ask) => turn'[t].ask # None
  BY Changes DEF Honest
<1>4. TurnsInv'
  BY <1>1, <1>2, <1>3 DEF TurnsInv, At
<1>5. \A u \in Turn : At(u, "over") => At(u, "over")'
  BY <1>2 DEF At
<1>6. \A u \in Turn, v \in Turn : WithJudge(v, u)' => WithJudge(v, u)
  BY <1>2 DEF WithJudge, At
<1>7. \A u \in Turn, s \in Session : WithSession(u, s)' <=> WithSession(u, s)
  BY DEF WithSession
<1>8. OnceInv'
  BY <1>1, <1>5, <1>6, <1>7 DEF OnceInv
<1>9. CountInv' /\ stats' \in 0..Turns
  <2>1. stats' \in Nat /\ stats \in Nat /\ stats' <= stats
    BY <1>1, RecallTypes
  <2>2. Finished \subseteq Finished'
    BY <1>5 DEF Finished
  <2>3. QED BY <1>1, <2>1, <2>2, CountKeeps
<1>10. HadInv'
  <2>1. \A u \in Turn : turn'[u].ask # None => turn'[u].ask.answer \in held[turn'[u].ask.fact]
    BY <1>1, <1>2 DEF HadInv, Honest
  <2>2. \A f \in Fact, u \in Turn : Had(f, turn'[u].rows[f])
    BY <1>1, <1>2 DEF HadInv
  <2>3. QED BY <1>1, <2>1, <2>2 DEF HadInv, Had
<1>11. QED BY <1>4, <1>8, <1>9, <1>10

(* A step that has nothing to do with a refresh. *)
LEMMA CopyWalks ==
  ASSUME CopyInv, NEW t \in Turn, turn[t].pc \notin Reading, turn'[t].pc \notin Reading,
         \A u \in Turn \ {t} : turn'[u] = turn[u], turn'[t].alone => turn[t].alone,
         UNCHANGED <<change, db, version, trie, facts, ready, cached, exact>>
  PROVE  CopyInv' /\ ~turn[t].alone
<1>1. Refreshing' = Refreshing
  BY DEF Refreshing, Reading
<1>2. ~turn[t].alone
  BY DEF CopyInv, Refreshing, Reading
<1>3. \A u \in Turn : turn'[u].alone => turn'[u] = turn[u]
  BY <1>2
<1>4. Keys(db)' = Keys(db)
  BY DEF Keys
<1>5. QED BY <1>1, <1>2, <1>3, <1>4 DEF CopyInv, At

LEMMA SameTable ==
  ASSUME RecallTypeOK, UNCHANGED <<holder, db, change, version, changes, held>>,
         facts' \in Table, trie' \in SUBSET Fact, cached' \in 0..version,
         ready' \in BOOLEAN, exact' \in BOOLEAN,
         pending' \in [Session -> Challenge \cup {None}], stats' \in 0..Turns, TurnsInv'
  PROVE  RecallTypeOK'
BY RecallTypes, TypesFrom DEF RecallTypeOK

(* The steps that only look. *)
LEMMA LookKeeps ==
  ASSUME RecallInv, NEW t \in Turn, Looking, turn[t].pc \notin {"new", "over", "judge", "ask"} \cup Reading,
         turn' \in [Turn -> TurnRecord], \A u \in Turn \ {t} : turn'[u] = turn[u],
         turn'[t].pc \notin {"new", "judge"} \cup Reading,
         turn'[t].pc # "over" => turn'[t].fact = turn[t].fact,
         \/ turn'[t].ask = turn[t].ask /\ turn'[t].pc # "ask"
         \/ turn'[t].ask = None /\ turn'[t].pc # "ask"
         \/ Honest(turn'[t].ask) /\ turn'[t].ask.fresh /\ turn'[t].ask.asker = t,
         \A f \in Fact : Had(f, turn'[t].rows[f]), turn'[t].alone => turn[t].alone
  PROVE  RecallInv'
<1>1. UNCHANGED <<holder, db, change, version, changes, held, trie, facts, ready, cached, exact,
                  pending, stats, judged>>
  BY DEF Looking, Apart, table, copy
<1>2. Others(t)
  BY DEF Others, Faded
<1>3. \A f \in Fact : Had(f, facts'[f])
  BY <1>1 DEF RecallInv, HadInv
<1>4. TurnsInv' /\ OnceInv' /\ CountInv' /\ HadInv' /\ stats' \in 0..Turns
  BY <1>1, <1>2, <1>3, WalkKeeps
<1>5. CopyInv'
  BY <1>1, CopyWalks DEF RecallInv
<1>6. RecallTypeOK'
  BY <1>1, <1>4, SameTable DEF RecallInv, RecallTypeOK
<1>7. QED BY <1>4, <1>5, <1>6 DEF RecallInv

LEMMA LooksKeep ==
  ASSUME RecallInv, NEW t \in Turn, Check(t) \/ Search(t) \/ Compare(t) \/ SearchAgain(t) \/ Match(t)
  PROVE  RecallInv'
<1>1. TurnsInv /\ HadInv /\ RecallTypeOK /\ turn[t] \in TurnRecord
  BY DEF RecallInv, TurnsInv
<1>2. /\ turn[t].pc \in {"check", "search", "compare", "again", "match"} /\ Looking
      /\ turn[t].pc \notin {"new", "over", "judge", "ask"} \cup Reading
  BY DEF Check, Search, Compare, SearchAgain, Match, Reading
<1>3. \A f \in Fact : Had(f, turn[t].rows[f]) /\ Had(f, None)
  BY <1>1 DEF HadInv, Had
<1>4. ASSUME NEW pc \in {"search", "match", "compare"}, Goes(t, pc) PROVE RecallInv'
  <2>1. pc \in Points /\ pc \notin {"new", "judge", "ask"} \cup Reading
    BY DEF Points, Reading
  <2>2. QED BY <1>1, <1>2, <1>3, <1>4, <2>1, GoesTo, LookKeeps
<1>5. CASE GoesOver(t)
  <2>1. "over" \notin {"new", "judge", "ask"} \cup Reading
    BY DEF Reading
  <2>2. QED BY <1>1, <1>2, <1>3, <1>5, <2>1, GoesAway, LookKeeps DEF Had
<1>6. CASE Check(t) \/ (Compare(t) /\ cached # version)
  <2>1. PICK pc \in {"search", "read"}, back \in {"search", "again"} :
          turn' = [turn EXCEPT ![t].pc = pc, ![t].back = back]
    BY <1>6 DEF Check, Compare
  <2> DEFINE k == [turn[t] EXCEPT !.pc = pc, !.back = back]
  <2>2. turn' = [turn EXCEPT ![t] = k]
    BY <2>1
  <2>3. /\ k \in TurnRecord /\ k.pc = pc /\ k.fact = turn[t].fact /\ k.rows = turn[t].rows
        /\ k.ask = turn[t].ask /\ k.alone = turn[t].alone
    BY <1>1 DEF TurnRecord, Points
  <2> HIDE DEF k
  <2>4. pc \notin {"new", "judge", "ask"} \cup Reading
    BY DEF Reading
  <2>5. /\ turn' \in [Turn -> TurnRecord] /\ turn'[t] = k /\ \A u \in Turn \ {t} : turn'[u] = turn[u]
    BY <1>1, <2>2, <2>3, PutTurn
  <2>6. QED BY <1>2, <1>3, <2>3, <2>4, <2>5, LookKeeps
<1>7. CASE Match(t)
  <2> DEFINE f == turn[t].fact
             c == [asker |-> t, fact |-> f, answer |-> facts[f], fresh |-> TRUE]
  <2>1. GoesOver(t) \/ (facts[f] # None /\ turn' = [turn EXCEPT ![t].pc = "ask", ![t].ask = c])
    BY <1>7, Zenon DEF Match
  <2>2. CASE facts[f] # None /\ turn' = [turn EXCEPT ![t].pc = "ask", ![t].ask = c]
    <3>1. f \in Fact /\ facts[f] \in Value /\ facts[f] \in held[f]
      BY <1>1, <1>7, <2>2, RecallTypes DEF TurnsInv, HadInv, Had, Match, Table
    <3>2. Honest(c) /\ c.fresh /\ c.asker = t
      BY <3>1 DEF Honest, Challenge
    <3> HIDE DEF c
    <3> DEFINE k == [turn[t] EXCEPT !.pc = "ask", !.ask = c]
    <3>3. turn' = [turn EXCEPT ![t] = k]
      BY <2>2
    <3>4. /\ k \in TurnRecord /\ k.pc = "ask" /\ k.fact = turn[t].fact /\ k.rows = turn[t].rows
          /\ k.ask = c /\ k.alone = turn[t].alone
      BY <1>1, <3>2 DEF TurnRecord, Points, Honest
    <3> HIDE DEF k
    <3>5. "ask" \notin {"new", "judge"} \cup Reading
      BY DEF Reading
    <3>6. /\ turn' \in [Turn -> TurnRecord] /\ turn'[t] = k /\ \A u \in Turn \ {t} : turn'[u] = turn[u]
      BY <1>1, <3>3, <3>4, PutTurn
    <3>7. QED BY <1>2, <1>3, <3>2, <3>4, <3>5, <3>6, LookKeeps
  <2>3. QED BY <1>5, <2>1, <2>2
<1>8. CASE Search(t) \/ SearchAgain(t) \/ (Compare(t) /\ cached = version)
  BY <1>4, <1>5, <1>8 DEF Search, SearchAgain, Compare
<1>9. QED BY <1>6, <1>7, <1>8

-----------------------------------------------------------------------------
(* The steps of a refresh *)

(* Who is alone is the only one to refresh. *)
LEMMA OnlyOne ==
  ASSUME CopyInv, NEW t \in Turn, turn[t].alone
  PROVE  turn[t].pc \in Reading /\ \A u \in Turn \ {t} : turn[u].pc \notin Reading /\ ~turn[u].alone
BY DEF CopyInv, Refreshing, Reading

LEMMA RefreshFrom ==
  ASSUME RecallInv, NEW t \in Turn, Apart, turn[t].pc \in {"read"} \cup Reading,
         turn' \in [Turn -> TurnRecord], Others(t), turn'[t].pc \notin {"new", "judge", "ask", "over"},
         turn'[t].fact = turn[t].fact, turn'[t].ask = turn[t].ask,
         \A f \in Fact : Had(f, turn'[t].rows[f]) /\ Had(f, facts'[f]),
         facts' \in Table, trie' \in SUBSET Fact, cached' \in 0..version,
         ready' \in BOOLEAN, exact' \in BOOLEAN,
         UNCHANGED <<pending, judged, stats>>, CopyInv'
  PROVE  RecallInv'
<1>1. UNCHANGED <<holder, db, change, version, changes, held>>
  BY DEF Apart, table
<1>2. turn[t].pc \notin {"new", "over", "judge", "ask"}
  BY DEF Reading
<1>3. TurnsInv' /\ OnceInv' /\ CountInv' /\ HadInv' /\ stats' \in 0..Turns
  BY <1>1, <1>2, WalkKeeps
<1>4. RecallTypeOK'
  BY <1>1, <1>3, SameTable DEF RecallInv, RecallTypeOK
<1>5. QED BY <1>3, <1>4 DEF RecallInv

LEMMA ReadRowsKeeps == ASSUME RecallInv, NEW t \in Turn, ReadRows(t) PROVE RecallInv'
<1>1. TurnsInv /\ HadInv /\ CopyInv /\ RecallTypeOK /\ turn[t] \in TurnRecord /\ db \in Table
  BY RecallTypes DEF RecallInv, TurnsInv
<1>2. turn[t].pc = "read" /\ Looking
  BY DEF ReadRows
<1>3. /\ Apart
      /\ UNCHANGED <<holder, db, change, version, changes, held, trie, facts, ready, cached, exact,
                     pending, stats, judged>>
  BY <1>2 DEF Looking, Apart, table, copy
<1>4. CASE Goes(t, turn[t].back)
  <2>1. turn[t].back \in Points /\ turn[t].back \notin {"new", "judge", "ask", "over"} \cup Reading
    BY <1>1 DEF TurnRecord, Points, Reading
  <2>2. \A f \in Fact : Had(f, turn[t].rows[f])
    BY <1>1 DEF HadInv
  <2>3. turn[t].pc \notin {"new", "over", "judge", "ask"} \cup Reading
    BY <1>2 DEF Reading
  <2>4. QED BY <1>1, <1>2, <1>4, <2>1, <2>2, <2>3, GoesTo, LookKeeps
<1>5. CASE turn' = [u \in Turn |->
                      IF u = t THEN [turn[t] EXCEPT !.rows = CommittedRows, !.pc = "stamp",
                                       !.alone = (change = None /\ Refreshing = {})]
                      ELSE [turn[u] EXCEPT !.alone = FALSE]]
  <2> DEFINE only == change = None /\ Refreshing = {}
             k == [turn[t] EXCEPT !.rows = db, !.pc = "stamp", !.alone = only]
  <2>1. only \in BOOLEAN
    OBVIOUS
  <2>2. /\ k \in TurnRecord /\ k.pc = "stamp" /\ k.fact = turn[t].fact /\ k.rows = db
        /\ k.ask = turn[t].ask /\ (k.alone <=> only)
    <3> HIDE DEF only
    <3>1. QED BY <1>1, <2>1 DEF TurnRecord, Points
  <2>3. turn'[t] = k
    BY <1>5 DEF CommittedRows
  <2>4. \A u \in Turn \ {t} : turn'[u] = [turn[u] EXCEPT !.alone = FALSE]
    BY <1>5
  <2> HIDE DEF k
  <2>5. Others(t)
    BY <2>4 DEF Others, Faded
  <2>6. \A u \in Turn \ {t} : turn'[u] \in TurnRecord /\ ~turn'[u].alone /\ turn'[u].pc = turn[u].pc
    <3> TAKE u \in Turn \ {t}
    <3>1. turn[u] \in TurnRecord
      BY <1>1 DEF TurnsInv
    <3>2. ~turn'[u].alone
      BY <2>4, <3>1 DEF TurnRecord
    <3>3. QED BY <2>5, <3>1, <3>2, FadedFields DEF Others
  <2>7. turn' \in [Turn -> TurnRecord]
    <3>1. \A u \in Turn : turn'[u] \in TurnRecord
      BY <2>2, <2>3, <2>6
    <3>2. QED BY <1>5, <3>1
  <2>8. Refreshing' = Refreshing \cup {t}
    BY <1>2, <2>2, <2>3, <2>6 DEF Refreshing
  <2>9. CopyInv'
    BY <1>3, <2>2, <2>3, <2>6, <2>8 DEF CopyInv, At
  <2>10. \A f \in Fact : Had(f, turn'[t].rows[f]) /\ Had(f, facts'[f])
    BY <1>1, <1>3, <2>2, <2>3 DEF HadInv
  <2>11. facts' \in Table /\ trie' \in SUBSET Fact /\ cached' \in 0..version
         /\ ready' \in BOOLEAN /\ exact' \in BOOLEAN
    BY <1>1, <1>3, RecallTypes DEF RecallTypeOK
  <2>12. turn[t].pc \in {"read"} \cup Reading
    BY <1>2
  <2>13. turn'[t].pc \notin {"new", "judge", "ask", "over"} /\ turn'[t].fact = turn[t].fact /\ turn'[t].ask = turn[t].ask
    BY <2>2, <2>3
  <2>14. QED BY <1>3, <2>5, <2>7, <2>9, <2>10, <2>11, <2>12, <2>13, RefreshFrom
<1>6. QED BY <1>4, <1>5 DEF ReadRows

LEMMA UpTo == ASSUME NEW n \in Nat PROVE n \in 0..n
OBVIOUS

LEMMA SwapsKeep ==
  ASSUME RecallInv, NEW t \in Turn, StampVersion(t) \/ SwapTrie(t) PROVE RecallInv'
<1>1. TurnsInv /\ HadInv /\ CopyInv /\ RecallTypeOK /\ turn[t] \in TurnRecord
  BY DEF RecallInv, TurnsInv
<1>2. /\ version \in Nat /\ cached \in 0..version /\ facts \in Table /\ trie \in SUBSET Fact
      /\ ready \in BOOLEAN /\ exact \in BOOLEAN
  BY <1>1, RecallTypes DEF RecallTypeOK
<1>3. Apart /\ UNCHANGED <<holder, db, change, version, changes, held, facts, ready, exact, pending, stats, judged>>
  BY DEF StampVersion, SwapTrie, Apart, table
<1>4. PICK pc \in {"swap trie", "swap facts"} :
        /\ Goes(t, pc)
        /\ pc = "swap trie" => turn[t].pc = "stamp" /\ cached' = version /\ trie' = trie
        /\ pc = "swap facts" => turn[t].pc = "swap trie" /\ cached' = cached /\ trie' = Keys(turn[t].rows)
  BY DEF StampVersion, SwapTrie
<1>5. /\ turn' \in [Turn -> TurnRecord] /\ \A u \in Turn \ {t} : turn'[u] = turn[u]
      /\ turn'[t].pc = pc /\ turn'[t].fact = turn[t].fact /\ turn'[t].rows = turn[t].rows
      /\ turn'[t].ask = turn[t].ask /\ turn'[t].alone = turn[t].alone
  <2>1. pc \in Points
    BY DEF Points
  <2>2. QED BY <1>1, <1>4, <2>1, GoesTo
<1>6. turn[t].pc \in Reading /\ pc \in Reading
  BY <1>4 DEF Reading
<1>7. Refreshing' = Refreshing /\ t \in Refreshing
  BY <1>5, <1>6 DEF Refreshing, Reading
<1>8. CopyInv'
  <2>1. \A u \in Turn : u # t => ~(turn[u].alone)
    BY <1>1, <1>6, OnlyOne
  <2>2. ASSUME turn[t].alone
        PROVE  /\ Refreshing' = {t} /\ change' = None /\ turn'[t].rows = db' /\ cached' = version'
               /\ pc = "swap facts" => trie' = Keys(db)
    BY <1>1, <1>3, <1>4, <1>5, <1>7, <2>2 DEF CopyInv
  <2>3. Keys(db)' = Keys(db)
    BY <1>3 DEF Keys
  <2>4. QED BY <1>5, <1>7, <2>1, <2>2, <2>3 DEF CopyInv, At
<1>9. cached' \in 0..version /\ trie' \in SUBSET Fact /\ facts' \in Table /\ ready' \in BOOLEAN /\ exact' \in BOOLEAN
  <2>1. cached' \in 0..version
    <3>1. CASE pc = "swap trie"
      <4>1. cached' = version
        BY <1>4, <3>1
      <4>2. version \in Nat
        BY <1>2
      <4>3. QED BY <4>1, <4>2, UpTo, Zenon
    <3>2. CASE pc = "swap facts"
      BY <1>2, <1>4, <3>2
    <3>3. QED BY <3>1, <3>2
  <2>2. trie' \in SUBSET Fact
    BY <1>2, <1>4 DEF Keys
  <2>3. QED BY <1>2, <1>3, <2>1, <2>2
<1>10. \A f \in Fact : Had(f, turn'[t].rows[f]) /\ Had(f, facts'[f])
  BY <1>1, <1>3, <1>5 DEF HadInv
<1>11. Others(t) /\ turn'[t].pc \notin {"new", "judge", "ask", "over"} /\ turn[t].pc \in {"read"} \cup Reading
  BY <1>5, <1>6 DEF Others, Faded, Reading
<1>12. QED BY <1>3, <1>5, <1>8, <1>9, <1>10, <1>11, RefreshFrom

LEMMA SwapFactsKeeps == ASSUME RecallInv, NEW t \in Turn, SwapFacts(t) PROVE RecallInv'
<1>1. TurnsInv /\ HadInv /\ CopyInv /\ RecallTypeOK /\ turn[t] \in TurnRecord
  BY DEF RecallInv, TurnsInv
<1>2. /\ turn[t].pc = "swap facts" /\ facts' = turn[t].rows /\ ready' = TRUE /\ exact' = turn[t].alone
      /\ Apart
      /\ UNCHANGED <<holder, db, change, version, changes, held, trie, cached, pending, stats, judged>>
  BY DEF SwapFacts, Apart, table
<1> DEFINE k == [turn[t] EXCEPT !.pc = turn[t].back, !.rows = NoTurn.rows, !.alone = FALSE]
<1>3. turn' = [turn EXCEPT ![t] = k]
  BY DEF SwapFacts
<1>4. /\ k \in TurnRecord /\ k.pc \in {"search", "again"} /\ k.fact = turn[t].fact
      /\ k.rows = NoTurn.rows /\ k.ask = turn[t].ask /\ ~k.alone
  <2>1. NoTurn.rows \in Table
    BY PlainTurns
  <2>2. QED BY <1>1, <2>1 DEF TurnRecord, Points
<1> HIDE DEF k
<1>5. /\ turn' \in [Turn -> TurnRecord] /\ turn'[t] = k /\ \A u \in Turn \ {t} : turn'[u] = turn[u]
  BY <1>1, <1>3, <1>4, PutTurn
<1>6. turn[t].pc \in Reading /\ Others(t)
  BY <1>2, <1>5 DEF Reading, Others, Faded
<1>7. Refreshing' = Refreshing \ {t} /\ t \in Refreshing
  BY <1>2, <1>4, <1>5 DEF Refreshing
<1>8. \A u \in Turn : ~turn'[u].alone
  BY <1>1, <1>4, <1>5, <1>6, OnlyOne
<1>9. turn[t].alone => change = None /\ turn[t].rows = db /\ trie = Keys(db)
  BY <1>1, <1>2 DEF CopyInv, At
<1>10. CopyInv'
  <2>1. Keys(db)' = Keys(db)
    BY <1>2 DEF Keys
  <2>2. QED BY <1>2, <1>8, <1>9, <2>1 DEF CopyInv
<1>11. /\ facts' \in Table /\ trie' \in SUBSET Fact /\ cached' \in 0..version
       /\ ready' \in BOOLEAN /\ exact' \in BOOLEAN
  BY <1>1, <1>2, RecallTypes DEF RecallTypeOK, TurnRecord
<1>12. \A f \in Fact : Had(f, turn'[t].rows[f]) /\ Had(f, facts'[f])
  BY <1>1, <1>2, <1>4, <1>5, PlainTurns DEF HadInv, Had
<1>13. turn'[t].pc \notin {"new", "judge", "ask", "over"} /\ turn[t].pc \in {"read"} \cup Reading
       /\ turn'[t].fact = turn[t].fact /\ turn'[t].ask = turn[t].ask
  BY <1>4, <1>5, <1>6
<1>14. QED BY <1>2, <1>5, <1>6, <1>10, <1>11, <1>12, <1>13, RefreshFrom

-----------------------------------------------------------------------------
(* Challenges: asked, taken, judged, expired *)

LEMMA SweptChallenges ==
  ASSUME RecallTypeOK
  PROVE  /\ Swept \in [Session -> Challenge \cup {None}]
         /\ \A s \in Session : Swept[s] # None => Swept[s] = pending[s] /\ Swept[s].fresh
BY RecallTypes DEF Swept

(* What every step of a turn that leaves table and copy alone has to show. *)
LEMMA ApartKeeps ==
  ASSUME RecallInv, NEW t \in Turn, Apart, UNCHANGED copy, turn[t].pc \notin Reading,
         turn'[t].pc \notin Reading, \A u \in Turn \ {t} : turn'[u] = turn[u], turn'[t].alone => turn[t].alone,
         pending' \in [Session -> Challenge \cup {None}],
         TurnsInv', HadInv', OnceInv', CountInv', stats' \in 0..Turns
  PROVE  RecallInv'
<1>1. UNCHANGED <<holder, db, change, version, changes, held, trie, facts, ready, cached, exact>>
  BY DEF Apart, table, copy
<1>2. CopyInv'
  BY <1>1, CopyWalks DEF RecallInv
<1>3. RecallTypeOK'
  BY <1>1, RecallTypes, SameTable DEF RecallInv, RecallTypeOK
<1>4. QED BY <1>2, <1>3 DEF RecallInv

LEMMA InterceptKeeps == ASSUME RecallInv, NEW t \in Turn, Intercept(t) PROVE RecallInv'
<1>1. TurnsInv /\ HadInv /\ OnceInv /\ CountInv /\ RecallTypeOK /\ turn[t] \in TurnRecord
  BY DEF RecallInv, TurnsInv
<1>2. turn[t].pc = "new" /\ Apart /\ UNCHANGED <<copy, stats, judged>>
  BY DEF Intercept
<1>3. PICK s \in Session, f \in Fact :
        /\ pending' = TakenFrom(s)
        /\ turn' = [turn EXCEPT ![t].session = s, ![t].fact = f, ![t].ask = Swept[s],
                                ![t].pc = IF Swept[s] # None THEN "judge" ELSE "check"]
  BY DEF Intercept
<1>4. /\ Swept \in [Session -> Challenge \cup {None}]
      /\ \A r \in Session : Swept[r] # None => Swept[r] = pending[r] /\ Swept[r].fresh
  BY <1>1, SweptChallenges
<1> DEFINE pc == IF Swept[s] # None THEN "judge" ELSE "check"
           k == [turn[t] EXCEPT !.session = s, !.fact = f, !.ask = Swept[s], !.pc = pc]
<1>5. turn' = [turn EXCEPT ![t] = k]
  BY <1>3
<1>6. pc \in {"judge", "check"} /\ (pc = "judge" <=> Swept[s] # None)
  OBVIOUS
<1> HIDE DEF pc
<1>7. /\ k \in TurnRecord /\ k.pc = pc /\ k.fact = f /\ k.rows = turn[t].rows /\ k.ask = Swept[s]
      /\ k.alone = turn[t].alone
  BY <1>1, <1>4, <1>6 DEF TurnRecord, Points
<1> HIDE DEF k
<1>8. turn' \in [Turn -> TurnRecord] /\ turn'[t] = k /\ \A u \in Turn \ {t} : turn'[u] = turn[u]
  BY <1>1, <1>5, <1>7, PutTurn
<1>9. /\ pending' \in [Session -> Challenge \cup {None}] /\ pending'[s] = None
      /\ \A r \in Session \ {s} : pending'[r] # None => pending'[r] = pending[r]
  BY <1>3, <1>4 DEF TakenFrom
<1>10. TurnsInv'
  BY <1>1, <1>4, <1>6, <1>7, <1>8 DEF TurnsInv, At
<1>11. \A u \in Turn : At(u, "over") <=> At(u, "over")'
  BY <1>2, <1>6, <1>7, <1>8 DEF At
<1>12. CountInv' /\ stats' \in 0..Turns
  <2>1. stats \in Nat /\ stats' = stats /\ stats' <= stats
    BY <1>1, <1>2, RecallTypes
  <2>2. Finished \subseteq Finished'
    BY <1>11 DEF Finished
  <2>3. QED BY <1>1, <2>1, <2>2, CountKeeps
<1>13. HadInv'
  <2>1. UNCHANGED <<db, facts, held>>
    BY <1>2 DEF Apart, table, copy
  <2>2. \A r \in Session : pending'[r] # None => pending'[r].answer \in held[pending'[r].fact]
    BY <1>1, <1>9 DEF HadInv
  <2>3. \A u \in Turn : turn'[u].ask # None => turn'[u].ask.answer \in held[turn'[u].ask.fact]
    BY <1>1, <1>4, <1>7, <1>8 DEF HadInv
  <2>4. \A g \in Fact, u \in Turn : Had(g, turn'[u].rows[g])
    BY <1>1, <1>7, <1>8 DEF HadInv
  <2>5. QED BY <1>1, <2>1, <2>2, <2>3, <2>4 DEF HadInv, Had
<1>14. OnceInv'
  <2>1. \A v \in Turn, r \in Session : WithSession(v, r)' => WithSession(v, r) /\ r # s
    BY <1>9 DEF WithSession
  <2>2. \A v \in Turn, u \in Turn : WithJudge(v, u)' => (WithJudge(v, u) /\ u # t) \/ (WithSession(v, s) /\ u = t)
    BY <1>4, <1>6, <1>7, <1>8 DEF WithJudge, WithSession, At
  <2>3. QED BY <1>1, <1>2, <1>11, <2>1, <2>2 DEF OnceInv
<1>15. turn[t].pc \notin Reading /\ turn'[t].pc \notin Reading /\ turn'[t].alone = turn[t].alone
  BY <1>2, <1>6, <1>7, <1>8 DEF Reading
<1>16. QED BY <1>2, <1>8, <1>9, <1>10, <1>12, <1>13, <1>14, <1>15, ApartKeeps

LEMMA OverTurn ==
  ASSUME RecallInv, NEW t \in Turn, turn[t].pc \in {"ask", "judge"}, GoesOver(t), Apart, UNCHANGED copy
  PROVE  /\ TurnsInv' /\ \A u \in Turn \ {t} : turn'[u] = turn[u]
         /\ Finished' = Finished \cup {t} /\ t \notin Finished
         /\ turn[t].pc \notin Reading /\ turn'[t].pc \notin Reading /\ ~turn'[t].alone /\ turn'[t].ask = None
         /\ \A u \in Turn : At(u, "over")' <=> At(u, "over") \/ u = t
         /\ \A g \in Fact : Had(g, db[g])' /\ Had(g, facts[g])' /\ \A u \in Turn : Had(g, turn[u].rows[g])'
         /\ \A u \in Turn : turn'[u].ask # None => turn'[u].ask.answer \in held'[turn'[u].ask.fact]
<1>1. TurnsInv /\ HadInv
  BY DEF RecallInv
<1>2. /\ turn' \in [Turn -> TurnRecord] /\ \A u \in Turn \ {t} : turn'[u] = turn[u]
      /\ turn'[t].pc = "over" /\ turn'[t].ask = None /\ ~turn'[t].alone
      /\ \A f \in Fact : turn'[t].rows[f] = None
  BY <1>1, GoesAway
<1>3. \A u \in Turn : At(u, "over")' <=> At(u, "over") \/ u = t
  BY <1>2 DEF At
<1>4. TurnsInv'
  BY <1>1, <1>2 DEF TurnsInv, At
<1>5. Finished' = Finished \cup {t} /\ t \notin Finished
  BY <1>3 DEF Finished, At
<1>6. turn[t].pc \notin Reading /\ turn'[t].pc \notin Reading
  BY <1>2 DEF Reading
<1>7. UNCHANGED <<db, facts, held>>
  BY DEF Apart, table, copy
<1>8. \A g \in Fact : Had(g, db[g])' /\ Had(g, facts[g])' /\ \A u \in Turn : Had(g, turn[u].rows[g])'
  BY <1>1, <1>2, <1>7 DEF HadInv, Had
<1>9. \A u \in Turn : turn'[u].ask # None => turn'[u].ask.answer \in held'[turn'[u].ask.fact]
  BY <1>1, <1>2, <1>7 DEF HadInv
<1>10. QED BY <1>2, <1>3, <1>4, <1>5, <1>6, <1>8, <1>9

LEMMA AskKeeps == ASSUME RecallInv, NEW t \in Turn, Ask(t) PROVE RecallInv'
<1>1. TurnsInv /\ HadInv /\ OnceInv /\ CountInv /\ RecallTypeOK /\ turn[t] \in TurnRecord
  BY DEF RecallInv, TurnsInv
<1>2. /\ turn[t].pc = "ask" /\ Apart /\ UNCHANGED <<copy, stats, judged>> /\ GoesOver(t)
      /\ pending' = [Swept EXCEPT ![turn[t].session] = turn[t].ask]
  BY DEF Ask
<1>3. /\ turn[t].ask \in Challenge /\ turn[t].ask.asker = t /\ turn[t].ask.answer \in held[turn[t].ask.fact]
  BY <1>1, <1>2 DEF TurnsInv, TurnRecord, HadInv, At
<1>4. /\ Swept \in [Session -> Challenge \cup {None}]
      /\ \A r \in Session : Swept[r] # None => Swept[r] = pending[r]
  BY <1>1, SweptChallenges
<1>5. /\ pending' \in [Session -> Challenge \cup {None}]
      /\ \A r \in Session : \/ pending'[r] = turn[t].ask /\ r = turn[t].session
                            \/ pending'[r] # None => pending'[r] = pending[r]
  BY <1>2, <1>3, <1>4
<1>6. /\ TurnsInv' /\ \A u \in Turn \ {t} : turn'[u] = turn[u]
      /\ Finished' = Finished \cup {t} /\ t \notin Finished
      /\ turn[t].pc \notin Reading /\ turn'[t].pc \notin Reading /\ ~turn'[t].alone /\ turn'[t].ask = None
      /\ \A u \in Turn : At(u, "over")' <=> At(u, "over") \/ u = t
      /\ \A g \in Fact : Had(g, db[g])' /\ Had(g, facts[g])' /\ \A u \in Turn : Had(g, turn[u].rows[g])'
      /\ \A u \in Turn : turn'[u].ask # None => turn'[u].ask.answer \in held'[turn'[u].ask.fact]
  BY <1>2, OverTurn
<1>7. CountInv' /\ stats' \in 0..Turns
  <2>1. stats \in Nat /\ stats' = stats /\ stats' <= stats
    BY <1>1, <1>2, RecallTypes
  <2>2. QED BY <1>1, <1>6, <2>1, CountKeeps
<1>8. HadInv'
  <2>1. held' = held
    BY <1>2 DEF Apart, table
  <2>2. \A r \in Session : pending'[r] # None => pending'[r].answer \in held'[pending'[r].fact]
    BY <1>1, <1>3, <1>5, <2>1 DEF HadInv
  <2>3. QED BY <1>6, <2>2 DEF HadInv
<1>9. OnceInv'
  <2>1. \A v \in Turn, r \in Session :
          WithSession(v, r)' => \/ WithSession(v, r)
                                \/ v = t /\ r = turn[t].session
    BY <1>3, <1>5 DEF WithSession
  <2>2. \A v \in Turn, u \in Turn : WithJudge(v, u)' => WithJudge(v, u)
    <3>1. ~At(t, "judge")'
      BY <1>2, GoesAway, <1>1 DEF At
    <3>2. QED BY <1>6, <3>1 DEF WithJudge, At
  <2>3. ~At(t, "over")
    BY <1>2 DEF At
  <2>4. judged[t] = {} /\ \A r \in Session : ~WithSession(t, r)
    BY <1>1, <2>3 DEF OnceInv
  <2>5. \A u \in Turn : ~WithJudge(t, u)
    BY <1>1, <2>3 DEF OnceInv
  <2>6. judged' = judged
    BY <1>2
  <2>7. \A v \in Turn : v # t =>
          /\ judged[v] # {} => At(v, "over")' /\ \A s \in Session : ~WithSession(v, s)'
          /\ \A s \in Session : WithSession(v, s)' =>
               /\ At(v, "over")'
               /\ \A r \in Session : WithSession(v, r)' => r = s
               /\ \A u \in Turn : ~WithJudge(v, u)'
    BY <1>1, <1>6, <2>1, <2>2 DEF OnceInv
  <2>8. \A s \in Session : WithSession(t, s)' =>
               /\ At(t, "over")'
               /\ \A r \in Session : WithSession(t, r)' => r = s
               /\ \A u \in Turn : ~WithJudge(t, u)'
    BY <1>6, <2>1, <2>2, <2>4, <2>5
  <2>9. \A v, u \in Turn : WithJudge(v, u)' => At(v, "over")' /\ \A w \in Turn : WithJudge(v, w)' => w = u
    BY <1>1, <1>6, <2>2 DEF OnceInv
  <2>10. QED BY <1>1, <2>2, <2>4, <2>6, <2>7, <2>8, <2>9 DEF OnceInv
<1>10. QED BY <1>2, <1>5, <1>6, <1>7, <1>8, <1>9, ApartKeeps

LEMMA JudgeKeeps == ASSUME RecallInv, NEW t \in Turn, Judge(t) PROVE RecallInv'
<1>1. TurnsInv /\ HadInv /\ OnceInv /\ CountInv /\ RecallTypeOK /\ turn[t] \in TurnRecord
  BY DEF RecallInv, TurnsInv
<1> DEFINE c == turn[t].ask
           j == [by |-> t, fresh |-> c.fresh]
<1>2. /\ turn[t].pc = "judge" /\ Apart /\ UNCHANGED <<copy, pending>> /\ GoesOver(t)
      /\ judged' = [judged EXCEPT ![c.asker] = judged[c.asker] \cup {j}]
      /\ stats' \in {stats, stats + 1}
  BY DEF Judge
<1>3. c \in Challenge /\ c.fresh = TRUE /\ c.asker \in Turn
  BY <1>1, <1>2 DEF TurnsInv, TurnRecord, Challenge
<1>13. PICK a \in Turn : a = c.asker
  BY <1>3
<1>4. WithJudge(a, t)
  BY <1>2, <1>13 DEF WithJudge, At
<1>5. judged[a] = {} /\ judged'[a] = {[by |-> t, fresh |-> TRUE]} /\ \A v \in Turn : v # a => judged'[v] = judged[v]
  <2>1. judged[a] = {}
    BY <1>1, <1>3, <1>4 DEF OnceInv
  <2>2. j = [by |-> t, fresh |-> TRUE]
    BY <1>3
  <2>3. QED BY <1>1, <1>2, <1>13, <2>1, <2>2 DEF OnceInv
<1>6. judged' \in [Turn -> SUBSET [by : Turn, fresh : BOOLEAN]]
  <2>1. j \in [by : Turn, fresh : BOOLEAN]
    BY <1>3
  <2>2. QED BY <1>1, <1>2, <1>3, <2>1 DEF OnceInv
<1> HIDE DEF c, j
<1>7. /\ TurnsInv' /\ \A u \in Turn \ {t} : turn'[u] = turn[u]
      /\ Finished' = Finished \cup {t} /\ t \notin Finished
      /\ turn[t].pc \notin Reading /\ turn'[t].pc \notin Reading /\ ~turn'[t].alone /\ turn'[t].ask = None
      /\ \A u \in Turn : At(u, "over")' <=> At(u, "over") \/ u = t
      /\ \A g \in Fact : Had(g, db[g])' /\ Had(g, facts[g])' /\ \A u \in Turn : Had(g, turn[u].rows[g])'
      /\ \A u \in Turn : turn'[u].ask # None => turn'[u].ask.answer \in held'[turn'[u].ask.fact]
  BY <1>2, OverTurn
<1>8. CountInv' /\ stats' \in 0..Turns
  <2>1. stats \in Nat /\ stats' \in Nat /\ stats' <= stats + 1 /\ stats <= Cardinality(Finished)
    BY <1>1, <1>2, RecallTypes DEF CountInv
  <2>2. Finished \cup {t} \subseteq Turn
    BY DEF Finished
  <2>3. /\ IsFiniteSet(Finished) /\ Cardinality(Finished) \in Nat
        /\ Cardinality(Finished \cup {t}) <= Turns
    BY <2>2, SomeTurns
  <2>4. Cardinality(Finished \cup {t}) = Cardinality(Finished) + 1
    BY <1>7, <2>3, FS_AddElement
  <2>5. QED BY <1>7, <2>1, <2>3, <2>4, RecallAssumption DEF CountInv
<1>9. HadInv'
  <2>1. held' = held /\ pending' = pending
    BY <1>2 DEF Apart, table
  <2>2. QED BY <1>1, <1>7, <2>1 DEF HadInv
<1>10. OnceInv'
  <2>1. \A v \in Turn, r \in Session : WithSession(v, r)' <=> WithSession(v, r)
    BY <1>2 DEF WithSession
  <2>2. ~At(t, "judge")'
    BY <1>1, <1>2, GoesAway DEF At
  <2>3. \A v \in Turn, u \in Turn : WithJudge(v, u)' => WithJudge(v, u) /\ u # t
    BY <1>7, <2>2 DEF WithJudge, At
  <2>4. /\ At(a, "over")' /\ \A r \in Session : ~WithSession(a, r)
        /\ \A u \in Turn : ~WithJudge(a, u)'
    <3>1. At(a, "over") /\ \A w \in Turn : WithJudge(a, w) => w = t
      BY <1>1, <1>3, <1>4 DEF OnceInv
    <3>2. \A r \in Session : ~WithSession(a, r)
      BY <1>1, <1>3, <1>4 DEF OnceInv
    <3>3. At(a, "over")'
      BY <1>3, <1>7, <3>1
    <3>4. \A u \in Turn : ~WithJudge(a, u)'
      BY <1>3, <2>3, <3>1
    <3>5. QED BY <3>2, <3>3, <3>4
  <2>5. \A v \in Turn :
          /\ judged'[v] = {} \/ \E u \in Turn : judged'[v] = {[by |-> u, fresh |-> TRUE]}
          /\ judged'[v] # {} => judged[v] # {} \/ v = a
    BY <1>1, <1>5 DEF OnceInv
  <2>6. \A v \in Turn : judged'[v] # {} =>
          /\ At(v, "over")' /\ \A s \in Session : ~WithSession(v, s)'
          /\ \A u \in Turn : ~WithJudge(v, u)'
    <3> TAKE v \in Turn
    <3> HAVE judged'[v] # {}
    <3>1. CASE v = a
      BY <2>1, <2>4, <3>1
    <3>2. CASE v # a
      <4>1. judged[v] # {}
        BY <2>5, <3>2
      <4>2. /\ At(v, "over") /\ \A s \in Session : ~WithSession(v, s)
            /\ \A u \in Turn : ~WithJudge(v, u)
        BY <1>1, <4>1 DEF OnceInv
      <4>3. At(v, "over")' /\ \A u \in Turn : ~WithJudge(v, u)'
        BY <1>7, <2>3, <4>2
      <4>4. QED BY <2>1, <4>2, <4>3
    <3>3. QED BY <3>1, <3>2
  <2>7. \A v \in Turn, s \in Session : WithSession(v, s)' =>
            /\ At(v, "over")'
            /\ \A r \in Session : WithSession(v, r)' => r = s
            /\ \A u \in Turn : ~WithJudge(v, u)'
    BY <1>1, <1>7, <2>1, <2>3 DEF OnceInv
  <2>8. \A v, u \in Turn : WithJudge(v, u)' => At(v, "over")' /\ \A w \in Turn : WithJudge(v, w)' => w = u
    BY <1>1, <1>7, <2>3 DEF OnceInv
  <2>9. QED BY <1>6, <2>5, <2>6, <2>7, <2>8 DEF OnceInv
<1>11. pending' \in [Session -> Challenge \cup {None}]
  BY <1>1, <1>2, RecallTypes
<1>12. QED BY <1>2, <1>7, <1>8, <1>9, <1>10, <1>11, ApartKeeps

LEMMA TimeKeeps == ASSUME RecallInv, TimePasses PROVE RecallInv'
<1>1. TurnsInv /\ HadInv /\ OnceInv /\ CountInv /\ CopyInv /\ RecallTypeOK
  BY DEF RecallInv
<1>2. /\ pending' = [s \in Session |-> IF pending[s] = None THEN None
                                       ELSE [pending[s] EXCEPT !.fresh = FALSE]]
      /\ Apart /\ UNCHANGED <<copy, stats, turn, judged>>
  BY DEF TimePasses
<1>3. UNCHANGED <<holder, db, change, version, changes, held, trie, facts, ready, cached, exact>>
  BY <1>2 DEF Apart, table, copy
<1>4. \A s \in Session : pending[s] \in Challenge \cup {None}
  BY <1>1, RecallTypes
<1>5. \A s \in Session :
        /\ pending[s] = None => pending'[s] = None
        /\ pending[s] # None => /\ pending'[s] \in Challenge /\ pending'[s].asker = pending[s].asker
                                /\ pending'[s].fact = pending[s].fact
                                /\ pending'[s].answer = pending[s].answer
  BY <1>2, <1>4 DEF Challenge
<1>6. pending' \in [Session -> Challenge \cup {None}]
  <2>1. \A s \in Session : pending'[s] \in Challenge \cup {None}
    BY <1>5
  <2>2. QED BY <1>2, <2>1
<1>7. TurnsInv' /\ CountInv' /\ CopyInv'
  BY <1>1, <1>2, <1>3 DEF TurnsInv, CountInv, Finished, CopyInv, Refreshing, Keys, At
<1>8. HadInv'
  BY <1>1, <1>2, <1>3, <1>5 DEF HadInv, Had
<1>9. OnceInv'
  <2>1. \A t \in Turn, s \in Session : WithSession(t, s)' => WithSession(t, s)
    BY <1>5 DEF WithSession
  <2>2. \A t \in Turn : \A u \in Turn : (WithJudge(t, u)' <=> WithJudge(t, u)) /\ (At(t, "over")' <=> At(t, "over"))
    BY <1>2 DEF WithJudge, At
  <2>3. judged' = judged
    BY <1>2
  <2>4. QED BY <1>1, <2>1, <2>2, <2>3 DEF OnceInv
<1>10. RecallTypeOK'
  BY <1>1, <1>2, <1>3, <1>6, <1>7, RecallTypes, SameTable DEF RecallTypeOK
<1>11. QED BY <1>7, <1>8, <1>9, <1>10 DEF RecallInv

LEMMA RecallCrashKeeps == ASSUME RecallInv, RecallCrash, holder' = "free" PROVE RecallInv'
<1>1. TurnsInv /\ HadInv /\ OnceInv /\ CountInv /\ RecallTypeOK
  BY DEF RecallInv
<1>2. /\ change' = None /\ version' = 1
      /\ trie' = {} /\ facts' = [f \in Fact |-> None] /\ ready' = FALSE /\ cached' = 0
      /\ pending' = [s \in Session |-> None] /\ stats' = 0
      /\ turn' = [t \in Turn |-> IF turn[t].pc = "new" THEN NoTurn ELSE Over]
      /\ exact' = FALSE
      /\ UNCHANGED <<db, changes, held, judged>>
  BY DEF RecallCrash
<1>3. \A t \in Turn : /\ turn'[t] \in TurnRecord /\ turn'[t].pc \in {"new", "over"} /\ ~turn'[t].alone
                      /\ turn'[t].ask = None /\ \A f \in Fact : turn'[t].rows[f] = None
                      /\ At(t, "over") => At(t, "over")'
  BY <1>2, PlainTurns DEF At
<1>4. TurnsInv'
  BY <1>2, <1>3 DEF TurnsInv, At
<1>5. HadInv'
  BY <1>1, <1>2, <1>3 DEF HadInv, Had
<1>6. OnceInv'
  <2>1. \A t \in Turn : \A s \in Session : ~WithSession(t, s)'
    BY <1>2 DEF WithSession
  <2>2. \A t \in Turn : \A u \in Turn : ~WithJudge(t, u)'
    BY <1>3 DEF WithJudge, At
  <2>3. judged' = judged
    BY <1>2
  <2>4. QED BY <1>1, <1>3, <2>1, <2>2, <2>3 DEF OnceInv
<1>7. CopyInv'
  BY <1>2, <1>3 DEF CopyInv
<1>8. CountInv' /\ stats' \in 0..Turns
  <2>1. stats \in Nat /\ stats' \in Nat /\ stats' <= stats
    BY <1>1, <1>2, RecallTypes
  <2>2. Finished \subseteq Finished'
    BY <1>3 DEF Finished
  <2>3. QED BY <1>1, <2>1, <2>2, CountKeeps
<1>9. RecallTypeOK'
  <2>1. facts' \in Table /\ cached' \in 0..version' /\ version' \in Nat
    BY <1>2 DEF Table
  <2>5. changes' \in 0..MaxChanges
    BY <1>1, <1>2 DEF RecallTypeOK
  <2>2. pending' \in [Session -> Challenge \cup {None}]
    BY <1>2
  <2>3. db' \in Table /\ held' \in [Fact -> SUBSET Value]
    BY <1>1, <1>2, RecallTypes
  <2>4. QED BY <1>2, <1>4, <1>8, <2>1, <2>2, <2>3, <2>5, TypesFrom
<1>10. QED BY <1>4, <1>5, <1>6, <1>7, <1>8, <1>9 DEF RecallInv

(* A step of another client takes the connection, gives it back, or neither. *)
LEMMA RecallElsewhere ==
  ASSUME RecallInv, UNCHANGED recall, holder' \in {"free", "facts", "audit"},
         (holder' = "facts") = (holder = "facts")
  PROVE  RecallInv'
<1>1. TurnsInv /\ HadInv /\ OnceInv /\ CountInv /\ CopyInv /\ RecallTypeOK
  BY DEF RecallInv
<1>2. /\ UNCHANGED <<db, change, version, changes, held, trie, facts, ready, cached, exact>>
      /\ UNCHANGED <<pending, stats, turn, judged>>
  BY DEF recall, table, copy
<1>3. TurnsInv' /\ HadInv' /\ OnceInv' /\ CountInv' /\ CopyInv'
  <2>1. TurnsInv' /\ CountInv'
    BY <1>1, <1>2 DEF TurnsInv, At, CountInv, Finished
  <2>2. HadInv'
    BY <1>1, <1>2 DEF HadInv, Had
  <2>3. \A t \in Turn : \A u \in Turn : (WithJudge(t, u)' <=> WithJudge(t, u)) /\ (At(t, "over")' <=> At(t, "over"))
    BY <1>2 DEF WithJudge, At
  <2>4. \A t \in Turn : \A s \in Session : WithSession(t, s)' <=> WithSession(t, s)
    BY <1>2 DEF WithSession
  <2>5. OnceInv'
    BY <1>1, <1>2, <2>3, <2>4 DEF OnceInv
  <2>6. Refreshing' = Refreshing /\ Keys(db)' = Keys(db)
    BY <1>2 DEF Refreshing, Keys
  <2>7. CopyInv'
    BY <1>1, <1>2, <2>6 DEF CopyInv, At
  <2>8. QED BY <2>1, <2>2, <2>5, <2>7
<1>4. RecallTypeOK'
  BY <1>1, <1>2 DEF RecallTypeOK
<1>5. QED BY <1>3, <1>4 DEF RecallInv

LEMMA RecallNextKeeps == ASSUME RecallInv, RecallNext PROVE RecallInv'
<1>1. CASE ChangeTable
  BY <1>1, SetFactKeeps, SetEndsKeeps, DeletionOfFactsKeeps, UpdateStatsKeeps DEF ChangeTable, EndChange
<1>2. ASSUME NEW t \in Turn, TurnStep(t) PROVE RecallInv'
  BY <1>2, InterceptKeeps, JudgeKeeps, AskKeeps, LooksKeep, ReadRowsKeeps, SwapsKeep, SwapFactsKeeps DEF TurnStep
<1>3. QED BY <1>1, <1>2, TimeKeeps DEF RecallNext

LEMMA RecallStarts == ASSUME RecallInit, holder = "free" PROVE RecallInv
<1>1. /\ db = [f \in Fact |-> None] /\ change = None /\ version = 1 /\ changes = 0
      /\ trie = {} /\ facts = [f \in Fact |-> None] /\ ready = FALSE /\ cached = 0
      /\ pending = [s \in Session |-> None] /\ stats = 0
      /\ turn = [t \in Turn |-> NoTurn]
      /\ held = [f \in Fact |-> {}] /\ exact = FALSE
      /\ judged = [t \in Turn |-> {}]
  BY DEF RecallInit
<1>2. \A t \in Turn : /\ turn[t] \in TurnRecord /\ turn[t].pc = "new" /\ ~turn[t].alone
                      /\ turn[t].ask = None /\ \A f \in Fact : turn[t].rows[f] = None
                      /\ turn[t].rows \in Table
  BY <1>1, PlainTurns
<1>3. TurnsInv
  BY <1>1, <1>2 DEF TurnsInv, At
<1>4. HadInv
  BY <1>1, <1>2 DEF HadInv, Had
<1>5. OnceInv
  BY <1>1, <1>2 DEF OnceInv, WithSession, WithJudge, At
<1>6. CopyInv
  BY <1>1, <1>2 DEF CopyInv
<1>7. CountInv
  <2>1. Finished \subseteq Turn
    BY DEF Finished
  <2>2. Cardinality(Finished) \in Nat
    BY <2>1, SomeTurns
  <2>3. QED BY <1>1, <2>2 DEF CountInv
<1>8. RecallTypeOK
  <2>1. db \in Table /\ facts \in Table /\ trie \in SUBSET Fact /\ change \in Change \cup {None}
    BY <1>1 DEF Table
  <2>2. version \in Nat /\ cached \in 0..version /\ changes \in 0..MaxChanges /\ stats \in 0..Turns
    BY <1>1, RecallAssumption
  <2>3. pending \in [Session -> Challenge \cup {None}] /\ held \in [Fact -> SUBSET Value]
    BY <1>1
  <2>4. (change # None) = (holder = "facts")
    BY <1>1
  <2>5. \A t \in Turn : turn[t].pc \in Points /\ turn[t].rows \in Table
    BY <1>2 DEF Points
  <2>6. QED BY <1>1, <2>1, <2>2, <2>3, <2>4, <2>5 DEF RecallTypeOK, Points
<1>9. QED BY <1>3, <1>4, <1>5, <1>6, <1>7, <1>8 DEF RecallInv

-----------------------------------------------------------------------------
(* The audit trail: slots of the ring *)

(* Two numbers in one window of the ring do not share a slot. *)
LEMMA OneSlot ==
  ASSUME NEW m \in Nat, NEW n \in Nat, m < n, n - m < RingSize
  PROVE  Slot(m) # Slot(n)
<1>1. RingSize \in Nat \ {0}
  BY AuditAssumption
<1>2. PICK r : r = RingSize
  OBVIOUS
<1>3. PICK p \in Int, x \in 0..r - 1 : m = r * p + x /\ m % r = x
  <2>1. m = r * (m \div r) + (m % r) /\ m % r \in 0..r - 1 /\ m \div r \in Int
    BY <1>1, <1>2
  <2>2. QED BY <2>1
<1>4. PICK q \in Int, y \in 0..r - 1 : n = r * q + y /\ n % r = y
  <2>1. n = r * (n \div r) + (n % r) /\ n % r \in 0..r - 1 /\ n \div r \in Int
    BY <1>1, <1>2
  <2>2. QED BY <2>1
<1>5. SUFFICES ASSUME x = y PROVE FALSE
  BY <1>2, <1>3, <1>4 DEF Slot
<1>6. r * (q - p) = n - m
  BY <1>1, <1>2, <1>3, <1>4, <1>5
<1>7. q - p <= 0 \/ q - p >= 1
  BY <1>3, <1>4
<1>8. CASE q - p <= 0
  <2>1. r * (q - p) <= 0
    BY <1>1, <1>2, <1>3, <1>4, <1>8
  <2>2. QED BY <1>6, <2>1
<1>9. CASE q - p >= 1
  <2>1. r * (q - p) >= r
    BY <1>1, <1>2, <1>3, <1>4, <1>9
  <2>2. QED BY <1>6, <1>2, <2>1, <1>1
<1>10. QED BY <1>7, <1>8, <1>9

LEMMA SlotOf == ASSUME NEW n \in Nat PROVE Slot(n) \in 0..RingSize - 1
BY AuditAssumption DEF Slot

-----------------------------------------------------------------------------
(* Sequences of events *)

LEMMA Appended ==
  ASSUME NEW S, NEW s \in Seq(S), NEW c \in S
  PROVE  /\ Append(s, c) \in Seq(S) /\ Len(Append(s, c)) = Len(s) + 1
         /\ Elems(Append(s, c)) = Elems(s) \cup {c}
<1>1. PICK t : t = Append(s, c)
  OBVIOUS
<1>2. /\ t \in Seq(S) /\ Len(t) = Len(s) + 1 /\ Len(s) \in Nat
      /\ t[Len(s) + 1] = c /\ \A i \in 1..Len(s) : t[i] = s[i]
  BY <1>1, AppendProperties, LenProperties
<1>3. \A i \in 1..Len(t) : i = Len(s) + 1 \/ i \in 1..Len(s)
  BY <1>2
<1>4. Len(s) + 1 \in 1..Len(t) /\ \A i \in 1..Len(s) : i \in 1..Len(t)
  BY <1>2
<1>5. QED BY <1>1, <1>2, <1>3, <1>4 DEF Elems

LEMMA HeadAndTail ==
  ASSUME NEW S, NEW s \in Seq(S), s # <<>>
  PROVE  /\ Head(s) \in S /\ Tail(s) \in Seq(S) /\ Len(Tail(s)) = Len(s) - 1
         /\ Elems(s) = {Head(s)} \cup Elems(Tail(s))
<1>1. PICK t : t = Tail(s)
  OBVIOUS
<1>2. /\ Len(s) \in Nat \ {0} /\ Len(t) = Len(s) - 1 /\ Head(s) = s[1]
      /\ Head(s) \in S /\ t \in Seq(S)
      /\ \A i \in 1..Len(t) : t[i] = s[i + 1]
  BY <1>1, HeadTailProperties, EmptySeq
<1>3. ASSUME NEW x \in Elems(s) PROVE x = s[1] \/ x \in Elems(t)
  <2>1. PICK i \in 1..Len(s) : x = s[i]
    BY <1>3 DEF Elems
  <2>2. i = 1 \/ (i - 1 \in 1..Len(t) /\ t[i - 1] = s[i])
    BY <1>2, <2>1
  <2>3. QED BY <2>1, <2>2 DEF Elems
<1>4. ASSUME NEW x \in Elems(t) PROVE x \in Elems(s)
  <2>1. PICK i \in 1..Len(t) : x = t[i]
    BY <1>4 DEF Elems
  <2>2. i + 1 \in 1..Len(s) /\ x = s[i + 1]
    BY <1>2, <2>1
  <2>3. QED BY <2>2 DEF Elems
<1>5. s[1] \in Elems(s)
  BY <1>2 DEF Elems
<1>6. QED BY <1>1, <1>2, <1>3, <1>4, <1>5

LEMMA Joined ==
  ASSUME NEW S, NEW s \in Seq(S), NEW t \in Seq(S)
  PROVE  s \o t \in Seq(S) /\ Elems(s \o t) = Elems(s) \cup Elems(t)
<1>1. PICK u : u = s \o t
  OBVIOUS
<1>2. /\ u \in Seq(S) /\ Len(u) = Len(s) + Len(t) /\ Len(s) \in Nat /\ Len(t) \in Nat
      /\ \A i \in 1..Len(s) + Len(t) : u[i] = IF i <= Len(s) THEN s[i] ELSE t[i - Len(s)]
  BY <1>1, ConcatProperties, LenProperties
<1>3. ASSUME NEW x \in Elems(u) PROVE x \in Elems(s) \cup Elems(t)
  <2>1. PICK i \in 1..Len(u) : x = u[i]
    BY <1>3 DEF Elems
  <2>2. (i \in 1..Len(s) /\ x = s[i]) \/ (i - Len(s) \in 1..Len(t) /\ x = t[i - Len(s)])
    BY <1>2, <2>1
  <2>3. QED BY <2>2 DEF Elems
<1>4. ASSUME NEW x \in Elems(s) PROVE x \in Elems(u)
  <2>1. PICK i \in 1..Len(s) : x = s[i]
    BY <1>4 DEF Elems
  <2>2. i \in 1..Len(u) /\ x = u[i]
    BY <1>2, <2>1
  <2>3. QED BY <2>2 DEF Elems
<1>5. ASSUME NEW x \in Elems(t) PROVE x \in Elems(u)
  <2>1. PICK i \in 1..Len(t) : x = t[i]
    BY <1>5 DEF Elems
  <2>2. i + Len(s) \in 1..Len(u) /\ x = u[i + Len(s)]
    BY <1>2, <2>1
  <2>3. QED BY <2>2 DEF Elems
<1>6. QED BY <1>1, <1>2, <1>3, <1>4, <1>5

LEMMA Parts ==
  ASSUME NEW S, NEW s \in Seq(S), NEW i \in 0..Len(s), NEW j \in i..Len(s)
  PROVE  /\ SubSeq(s, i + 1, j) \in Seq(S) /\ Len(SubSeq(s, i + 1, j)) = j - i
         /\ \A k \in 1..j - i : SubSeq(s, i + 1, j)[k] = s[k + i]
         /\ Elems(SubSeq(s, i + 1, j)) \subseteq Elems(s)
<1>1. PICK t : t = SubSeq(s, i + 1, j)
  OBVIOUS
<1>2. Len(s) \in Nat /\ i \in Int /\ j \in Int /\ i + 1 \in Int
  BY LenProperties
<1>3. \A k \in i + 1..j : s[k] \in S
  <2>1. \A k \in i + 1..j : k \in 1..Len(s)
    BY <1>2
  <2>2. QED BY <2>1, ElementOfSeq
<1>4. /\ t \in Seq(S) /\ Len(t) = IF i + 1 <= j THEN j - (i + 1) + 1 ELSE 0
      /\ \A k \in 1..j - (i + 1) + 1 : t[k] = s[i + 1 + k - 1]
  BY <1>1, <1>2, <1>3, SubSeqProperties
<1>5. Len(t) = j - i /\ \A k \in 1..j - i : t[k] = s[k + i]
  <2>1. j - (i + 1) + 1 = j - i /\ \A k \in 1..j - i : i + 1 + k - 1 = k + i
    BY <1>2
  <2>2. Len(t) = j - i
    BY <1>2, <1>4
  <2>3. QED BY <1>4, <2>1, <2>2
<1>6. ASSUME NEW x \in Elems(t) PROVE x \in Elems(s)
  <2>1. PICK k \in 1..Len(t) : x = t[k]
    BY <1>6 DEF Elems
  <2>2. k + i \in 1..Len(s) /\ x = s[k + i]
    BY <1>2, <1>5, <2>1
  <2>3. QED BY <2>2 DEF Elems
<1>7. QED BY <1>1, <1>4, <1>5, <1>6

LEMMA NoElems == Elems(<<>>) = {} /\ Len(<<>>) = 0
BY DEF Elems

-----------------------------------------------------------------------------
(* The order in which a sequence of accepted events has them *)

Before(a, x, y) == \E k, l \in 1..Len(a) : k < l /\ a[k] = x /\ a[l] = y
Ordered(a, s) == \A i, j \in 1..Len(s) : i < j => Before(a, s[i], s[j])
Precede(a, A, B) == \A x \in A, y \in B : Before(a, x, y)

LEMMA OrderedJoin ==
  ASSUME NEW S, NEW s \in Seq(S), NEW t \in Seq(S), NEW a,
         Ordered(a, s), Ordered(a, t), Precede(a, Elems(s), Elems(t))
  PROVE  Ordered(a, s \o t)
<1>1. PICK u : u = s \o t
  OBVIOUS
<1>2. /\ Len(u) = Len(s) + Len(t) /\ Len(s) \in Nat /\ Len(t) \in Nat
      /\ \A i \in 1..Len(s) + Len(t) : u[i] = IF i <= Len(s) THEN s[i] ELSE t[i - Len(s)]
  BY <1>1, ConcatProperties, LenProperties
<1>3. ASSUME NEW i \in 1..Len(u), NEW j \in 1..Len(u), i < j PROVE Before(a, u[i], u[j])
  <2>1. CASE j <= Len(s)
    <3>1. i \in 1..Len(s) /\ j \in 1..Len(s) /\ u[i] = s[i] /\ u[j] = s[j]
      BY <1>2, <1>3, <2>1
    <3>2. QED BY <1>3, <3>1 DEF Ordered
  <2>2. CASE i <= Len(s) /\ ~(j <= Len(s))
    <3>1. i \in 1..Len(s) /\ j - Len(s) \in 1..Len(t) /\ u[i] = s[i] /\ u[j] = t[j - Len(s)]
      BY <1>2, <1>3, <2>2
    <3>2. QED BY <3>1 DEF Precede, Elems
  <2>3. CASE ~(i <= Len(s))
    <3>1. /\ i - Len(s) \in 1..Len(t) /\ j - Len(s) \in 1..Len(t) /\ i - Len(s) < j - Len(s)
          /\ u[i] = t[i - Len(s)] /\ u[j] = t[j - Len(s)]
      BY <1>2, <1>3, <2>3
    <3>2. QED BY <3>1 DEF Ordered
  <2>4. QED BY <1>2, <1>3, <2>1, <2>2, <2>3
<1>4. QED BY <1>1, <1>3 DEF Ordered

LEMMA OrderedParts ==
  ASSUME NEW S, NEW s \in Seq(S), NEW i \in 0..Len(s), NEW j \in i..Len(s), NEW a, Ordered(a, s)
  PROVE  /\ Ordered(a, SubSeq(s, 1, i)) /\ Ordered(a, SubSeq(s, i + 1, j))
         /\ Precede(a, Elems(SubSeq(s, 1, i)), Elems(SubSeq(s, i + 1, j)))
<1>1. PICK t, u : t = SubSeq(s, 1, i) /\ u = SubSeq(s, i + 1, j)
  OBVIOUS
<1>2. Len(s) \in Nat /\ i \in Nat /\ j \in Nat
  BY LenProperties
<1>3. 0 \in 0..Len(s) /\ i \in 0..Len(s) /\ 0 + 1 = 1 /\ i - 0 = i /\ \A k \in 1..i : k + 0 = k
  BY <1>2
<1>4. Len(t) = i /\ \A k \in 1..i : t[k] = s[k]
  BY <1>1, <1>3, Parts
<1>5. Len(u) = j - i /\ \A k \in 1..j - i : u[k] = s[k + i]
  BY <1>1, <1>3, Parts
<1>6. ASSUME NEW k \in 1..Len(t), NEW l \in 1..Len(t), k < l PROVE Before(a, t[k], t[l])
  <2>1. k \in 1..Len(s) /\ l \in 1..Len(s)
    BY <1>2, <1>4
  <2>2. QED BY <1>4, <1>6, <2>1 DEF Ordered
<1>7. ASSUME NEW k \in 1..Len(u), NEW l \in 1..Len(u), k < l PROVE Before(a, u[k], u[l])
  <2>1. k + i \in 1..Len(s) /\ l + i \in 1..Len(s) /\ k + i < l + i
    BY <1>2, <1>5, <1>7
  <2>2. QED BY <1>5, <2>1 DEF Ordered
<1>8. ASSUME NEW x \in Elems(t), NEW y \in Elems(u) PROVE Before(a, x, y)
  <2>1. PICK k \in 1..Len(t), l \in 1..Len(u) : x = t[k] /\ y = u[l]
    BY DEF Elems
  <2>2. k \in 1..Len(s) /\ l + i \in 1..Len(s) /\ k < l + i
    BY <1>2, <1>4, <1>5
  <2>3. QED BY <1>4, <1>5, <2>1, <2>2 DEF Ordered
<1>9. QED BY <1>1, <1>6, <1>7, <1>8 DEF Ordered, Precede

LEMMA OrderedTail ==
  ASSUME NEW S, NEW s \in Seq(S), s # <<>>, NEW a, Ordered(a, s)
  PROVE  Ordered(a, Tail(s)) /\ Precede(a, {Head(s)}, Elems(Tail(s)))
<1>1. PICK t : t = Tail(s)
  OBVIOUS
<1>2. /\ Len(s) \in Nat \ {0} /\ Head(s) = s[1]
      /\ Len(t) = Len(s) - 1 /\ \A i \in 1..Len(t) : t[i] = s[i + 1]
  BY <1>1, HeadTailProperties, EmptySeq
<1>3. ASSUME NEW i \in 1..Len(t), NEW j \in 1..Len(t), i < j PROVE Before(a, t[i], t[j])
  <2>1. i + 1 \in 1..Len(s) /\ j + 1 \in 1..Len(s) /\ i + 1 < j + 1
    BY <1>2, <1>3
  <2>2. QED BY <1>2, <2>1 DEF Ordered
<1>4. ASSUME NEW y \in Elems(t) PROVE Before(a, s[1], y)
  <2>1. PICK i \in 1..Len(t) : y = t[i]
    BY DEF Elems
  <2>2. 1 \in 1..Len(s) /\ i + 1 \in 1..Len(s) /\ 1 < i + 1
    BY <1>2
  <2>3. QED BY <1>2, <2>1, <2>2 DEF Ordered
<1>5. QED BY <1>1, <1>2, <1>3, <1>4 DEF Ordered, Precede

LEMMA OrderedLonger ==
  ASSUME NEW S, NEW s \in Seq(S), NEW c \in S, NEW a, Ordered(a, s), Precede(a, Elems(s), {c})
  PROVE  Ordered(a, Append(s, c))
<1>1. PICK t : t = Append(s, c)
  OBVIOUS
<1>2. /\ Len(t) = Len(s) + 1 /\ Len(s) \in Nat
      /\ t[Len(s) + 1] = c /\ \A i \in 1..Len(s) : t[i] = s[i]
  BY <1>1, AppendProperties, LenProperties
<1>3. ASSUME NEW i \in 1..Len(t), NEW j \in 1..Len(t), i < j PROVE Before(a, t[i], t[j])
  <2>1. i \in 1..Len(s) /\ (j \in 1..Len(s) \/ j = Len(s) + 1)
    BY <1>2, <1>3
  <2>2. CASE j \in 1..Len(s)
    BY <1>2, <1>3, <2>1, <2>2 DEF Ordered
  <2>3. CASE j = Len(s) + 1
    BY <1>2, <2>1, <2>3 DEF Precede, Elems
  <2>4. QED BY <2>1, <2>2, <2>3
<1>4. QED BY <1>1, <1>3 DEF Ordered

(* One more is accepted: it comes after all that were, and their order stays. *)
LEMMA Later ==
  ASSUME NEW S, NEW a \in Seq(S), NEW e \in S
  PROVE  /\ \A x, y : Before(a, x, y) => Before(Append(a, e), x, y)
         /\ \A x \in Elems(a) : Before(Append(a, e), x, e)
<1>1. PICK b : b = Append(a, e)
  OBVIOUS
<1>2. /\ Len(b) = Len(a) + 1 /\ Len(a) \in Nat
      /\ b[Len(a) + 1] = e /\ \A i \in 1..Len(a) : b[i] = a[i]
  BY <1>1, AppendProperties, LenProperties
<1>3. ASSUME NEW x, NEW y, Before(a, x, y) PROVE Before(b, x, y)
  <2>1. PICK k, l \in 1..Len(a) : k < l /\ a[k] = x /\ a[l] = y
    BY <1>3 DEF Before
  <2>2. k \in 1..Len(b) /\ l \in 1..Len(b)
    BY <1>2, <2>1
  <2>3. QED BY <1>2, <2>1, <2>2 DEF Before
<1>4. ASSUME NEW x \in Elems(a) PROVE Before(b, x, e)
  <2>1. PICK k \in 1..Len(a) : a[k] = x
    BY DEF Elems
  <2>2. k \in 1..Len(b) /\ Len(a) + 1 \in 1..Len(b) /\ k < Len(a) + 1
    BY <1>2, <2>1
  <2>3. QED BY <1>2, <2>1, <2>2 DEF Before
<1>5. QED BY <1>1, <1>3, <1>4

LEMMA Grown ==
  ASSUME NEW S, NEW a \in Seq(S), NEW e \in S
  PROVE  /\ \A u : Ordered(a, u) => Ordered(Append(a, e), u)
         /\ \A X, Y : Precede(a, X, Y) => Precede(Append(a, e), X, Y)
         /\ \A X, Y : Precede(a, X, Y) /\ X \subseteq Elems(a) => Precede(Append(a, e), X, Y \cup {e})
<1>1. PICK c : c = Append(a, e)
  OBVIOUS
<1>2. (\A x, y : Before(a, x, y) => Before(c, x, y)) /\ \A x \in Elems(a) : Before(c, x, e)
  BY <1>1, Later
<1>3. QED BY <1>1, <1>2 DEF Ordered, Precede

LEMMA NothingOrdered == ASSUME NEW a PROVE Ordered(a, <<>>)
BY NoElems DEF Ordered

-----------------------------------------------------------------------------
(* Sequences of batches, and of files *)

Rows(B) == UNION {Elems(B[i]) : i \in 1..Len(B)}
LinesOf(r) == UNION {Elems(r[i].lines) : i \in 1..Len(r)}
FileOf == [day : Days, lines : Seq(Event)]

LEMMA RowsAppended ==
  ASSUME NEW S, NEW B \in Seq(Seq(S)), NEW t \in Seq(S)
  PROVE  Rows(Append(B, t)) = Rows(B) \cup Elems(t)
<1>1. PICK C : C = Append(B, t)
  OBVIOUS
<1>2. /\ Len(C) = Len(B) + 1 /\ Len(B) \in Nat
      /\ C[Len(B) + 1] = t /\ \A i \in 1..Len(B) : C[i] = B[i]
  BY <1>1, AppendProperties, LenProperties
<1>3. \A i \in 1..Len(C) : i = Len(B) + 1 \/ i \in 1..Len(B)
  BY <1>2
<1>4. Len(B) + 1 \in 1..Len(C) /\ \A i \in 1..Len(B) : i \in 1..Len(C)
  BY <1>2
<1>5. QED BY <1>1, <1>2, <1>3, <1>4 DEF Rows

LEMMA RowsFirst ==
  ASSUME NEW S, NEW B \in Seq(Seq(S)), B # <<>>
  PROVE  Rows(B) = Elems(Head(B)) \cup Rows(Tail(B))
<1>1. PICK C : C = Tail(B)
  OBVIOUS
<1>2. /\ Len(B) \in Nat \ {0} /\ Len(C) = Len(B) - 1 /\ Head(B) = B[1]
      /\ \A i \in 1..Len(C) : C[i] = B[i + 1]
  BY <1>1, HeadTailProperties, EmptySeq
<1>3. \A i \in 1..Len(B) : i = 1 \/ (i - 1 \in 1..Len(C) /\ C[i - 1] = B[i])
  BY <1>2
<1>4. 1 \in 1..Len(B) /\ \A i \in 1..Len(C) : i + 1 \in 1..Len(B)
  BY <1>2
<1>5. ASSUME NEW x \in Rows(B) PROVE x \in Elems(B[1]) \cup Rows(C)
  <2>1. PICK i \in 1..Len(B) : x \in Elems(B[i])
    BY <1>5 DEF Rows
  <2>2. QED BY <1>3, <2>1 DEF Rows
<1>6. ASSUME NEW x \in Rows(C) PROVE x \in Rows(B)
  <2>1. PICK i \in 1..Len(C) : x \in Elems(C[i])
    BY <1>6 DEF Rows
  <2>2. QED BY <1>2, <1>4, <2>1 DEF Rows
<1>7. Elems(B[1]) \subseteq Rows(B)
  BY <1>4 DEF Rows
<1>8. QED BY <1>1, <1>2, <1>5, <1>6, <1>7

LEMMA LinesAppended ==
  ASSUME NEW r \in Seq(FileOf), NEW f \in FileOf
  PROVE  LinesOf(Append(r, f)) = LinesOf(r) \cup Elems(f.lines)
<1>1. PICK q : q = Append(r, f)
  OBVIOUS
<1>2. /\ Len(q) = Len(r) + 1 /\ Len(r) \in Nat
      /\ q[Len(r) + 1] = f /\ \A i \in 1..Len(r) : q[i] = r[i]
  BY <1>1, AppendProperties, LenProperties
<1>3. \A i \in 1..Len(q) : i = Len(r) + 1 \/ i \in 1..Len(r)
  BY <1>2
<1>4. Len(r) + 1 \in 1..Len(q) /\ \A i \in 1..Len(r) : i \in 1..Len(q)
  BY <1>2
<1>5. QED BY <1>1, <1>2, <1>3, <1>4 DEF LinesOf

-----------------------------------------------------------------------------
(* The order of the files: r rotated, s in the active file, b in the buffer,  *)
(* and W still on the way; and of the ledger: L in it, t being inserted, B in *)
(* the bridge, and W on the way.                                              *)

FileOrder(a, r, s, b, W) ==
  /\ \A i \in 1..Len(r) :
       /\ Ordered(a, r[i].lines) /\ r[i].lines # <<>>
       /\ Precede(a, Elems(r[i].lines), Elems(s) \cup Elems(b) \cup W)
       /\ \A j \in 1..Len(r) : i < j => Precede(a, Elems(r[i].lines), Elems(r[j].lines))
  /\ Ordered(a, s) /\ Precede(a, Elems(s), Elems(b) \cup W)
  /\ Ordered(a, b) /\ Precede(a, Elems(b), W)

StoreOrder(a, L, t, B, W) ==
  /\ Ordered(a, L) /\ Precede(a, Elems(L), Elems(t) \cup Rows(B) \cup W)
  /\ Ordered(a, t) /\ Precede(a, Elems(t), Rows(B) \cup W)
  /\ \A i \in 1..Len(B) :
       /\ Ordered(a, B[i]) /\ Precede(a, Elems(B[i]), W)
       /\ \A j \in 1..Len(B) : i < j => Precede(a, Elems(B[i]), Elems(B[j]))

LEMMA FileLess ==
  ASSUME NEW a, NEW r, NEW s, NEW b, NEW W, NEW V, FileOrder(a, r, s, b, W), V \subseteq W
  PROVE  FileOrder(a, r, s, b, V) /\ FileOrder(a, r, s, <<>>, V)
BY NoElems, NothingOrdered DEF FileOrder, Precede

LEMMA FileGrows ==
  ASSUME NEW S, NEW a \in Seq(S), NEW e \in S, NEW r, NEW s, NEW b, NEW W,
         FileOrder(a, r, s, b, W), LinesOf(r) \cup Elems(s) \cup Elems(b) \cup W \subseteq Elems(a)
  PROVE  FileOrder(Append(a, e), r, s, b, W \cup {e})
<1>1. PICK c : c = Append(a, e)
  OBVIOUS
<1>2. \A u : Ordered(a, u) => Ordered(c, u)
  BY <1>1, Grown
<1>3. \A X, Y : Precede(a, X, Y) => Precede(c, X, Y)
  BY <1>1, Grown
<1>4. \A X, Y : Precede(a, X, Y) /\ X \subseteq Elems(a) => Precede(c, X, Y \cup {e})
  BY <1>1, Grown
<1>5. ASSUME NEW i \in 1..Len(r)
      PROVE  /\ Ordered(c, r[i].lines) /\ r[i].lines # <<>>
             /\ Precede(c, Elems(r[i].lines), Elems(s) \cup Elems(b) \cup (W \cup {e}))
             /\ \A j \in 1..Len(r) : i < j => Precede(c, Elems(r[i].lines), Elems(r[j].lines))
  <2>1. Elems(r[i].lines) \subseteq Elems(a)
    BY DEF LinesOf
  <2>2. Precede(c, Elems(r[i].lines), (Elems(s) \cup Elems(b) \cup W) \cup {e})
    BY <1>4, <2>1 DEF FileOrder
  <2>3. (Elems(s) \cup Elems(b) \cup W) \cup {e} = Elems(s) \cup Elems(b) \cup (W \cup {e})
    OBVIOUS
  <2>4. QED BY <1>2, <1>3, <2>2, <2>3 DEF FileOrder
<1>6. Precede(c, Elems(s), Elems(b) \cup (W \cup {e}))
  <2>1. Precede(c, Elems(s), (Elems(b) \cup W) \cup {e})
    BY <1>4 DEF FileOrder
  <2>2. (Elems(b) \cup W) \cup {e} = Elems(b) \cup (W \cup {e})
    OBVIOUS
  <2>3. QED BY <2>1, <2>2
<1>7. Ordered(c, s) /\ Ordered(c, b) /\ Precede(c, Elems(b), W \cup {e})
  BY <1>2, <1>4 DEF FileOrder
<1>8. QED BY <1>1, <1>5, <1>6, <1>7 DEF FileOrder

(* More lines come to the buffer. *)
LEMMA FileJoined ==
  ASSUME NEW a, NEW r, NEW s, NEW b \in Seq(Event), NEW t \in Seq(Event), NEW W,
         FileOrder(a, r, s, b, Elems(t) \cup W), Ordered(a, t), Precede(a, Elems(t), W)
  PROVE  FileOrder(a, r, s, b \o t, W)
<1>1. PICK u : u = b \o t
  OBVIOUS
<1>2. Elems(u) = Elems(b) \cup Elems(t)
  BY <1>1, Joined
<1>3. Ordered(a, u)
  <2>1. Precede(a, Elems(b), Elems(t))
    BY DEF FileOrder, Precede
  <2>2. QED BY <1>1, <2>1, OrderedJoin DEF FileOrder
<1>4. Precede(a, Elems(s), Elems(u) \cup W) /\ Precede(a, Elems(u), W)
  BY <1>2 DEF FileOrder, Precede
<1>5. \A i \in 1..Len(r) : Precede(a, Elems(r[i].lines), Elems(s) \cup Elems(u) \cup W)
  BY <1>2 DEF FileOrder, Precede
<1>6. QED BY <1>1, <1>3, <1>4, <1>5 DEF FileOrder

(* Lines move on: up to the i-th into the file, and up to the j-th they stay. *)
LEMMA FileLines ==
  ASSUME NEW a, NEW r, NEW s \in Seq(Event), NEW u \in Seq(Event), NEW W,
         FileOrder(a, r, s, u, W), NEW i \in 0..Len(u), NEW j \in i..Len(u)
  PROVE  /\ FileOrder(a, r, s \o SubSeq(u, 1, i), SubSeq(u, i + 1, j), W)
         /\ s \o SubSeq(u, 1, i) \in Seq(Event) /\ SubSeq(u, i + 1, j) \in Seq(Event)
         /\ Elems(s \o SubSeq(u, 1, i)) \cup Elems(SubSeq(u, i + 1, j)) \subseteq Elems(s) \cup Elems(u)
<1>1. PICK v, w : v = SubSeq(u, 1, i) /\ w = SubSeq(u, i + 1, j)
  OBVIOUS
<1>2. Len(u) \in Nat /\ 0 \in 0..Len(u) /\ i \in 0..Len(u) /\ 0 + 1 = 1
  BY LenProperties
<1>3. v \in Seq(Event) /\ Elems(v) \subseteq Elems(u)
  BY <1>1, <1>2, Parts
<1>4. w \in Seq(Event) /\ Elems(w) \subseteq Elems(u)
  BY <1>1, <1>2, Parts
<1>5. Ordered(a, v) /\ Ordered(a, w) /\ Precede(a, Elems(v), Elems(w))
  BY <1>1, OrderedParts DEF FileOrder
<1>6. s \o v \in Seq(Event) /\ Elems(s \o v) = Elems(s) \cup Elems(v)
  BY <1>3, Joined
<1>7. Ordered(a, s \o v)
  <2>1. Precede(a, Elems(s), Elems(v))
    BY <1>3 DEF FileOrder, Precede
  <2>2. QED BY <1>3, <1>5, <2>1, OrderedJoin DEF FileOrder
<1>8. Precede(a, Elems(s \o v), Elems(w) \cup W) /\ Precede(a, Elems(w), W)
  BY <1>3, <1>4, <1>5, <1>6 DEF FileOrder, Precede
<1>9. \A k \in 1..Len(r) : Precede(a, Elems(r[k].lines), Elems(s \o v) \cup Elems(w) \cup W)
  BY <1>3, <1>4, <1>6 DEF FileOrder, Precede
<1>10. FileOrder(a, r, s \o v, w, W)
  BY <1>5, <1>7, <1>8, <1>9 DEF FileOrder
<1>11. Elems(s \o v) \cup Elems(w) \subseteq Elems(s) \cup Elems(u)
  BY <1>3, <1>4, <1>6
<1>12. QED BY <1>1, <1>4, <1>6, <1>10, <1>11

LEMMA FileRotates ==
  ASSUME NEW a, NEW r \in Seq(FileOf), NEW s \in Seq(Event), s # <<>>, NEW d \in Days, NEW W,
         FileOrder(a, r, s, <<>>, W)
  PROVE  FileOrder(a, Append(r, [day |-> d, lines |-> s]), <<>>, <<>>, W)
<1>1. PICK f, q : f = [day |-> d, lines |-> s] /\ q = Append(r, f)
  OBVIOUS
<1>2. f \in FileOf /\ f.lines = s
  BY <1>1 DEF FileOf
<1>3. /\ Len(q) = Len(r) + 1 /\ Len(r) \in Nat
      /\ q[Len(r) + 1] = f /\ \A i \in 1..Len(r) : q[i] = r[i]
  BY <1>1, <1>2, AppendProperties, LenProperties
<1>4. \A i \in 1..Len(q) : (i \in 1..Len(r) /\ q[i] = r[i]) \/ (i = Len(r) + 1 /\ q[i] = f)
  BY <1>3
<1>5. ASSUME NEW i \in 1..Len(q)
      PROVE  /\ Ordered(a, q[i].lines) /\ q[i].lines # <<>>
             /\ Precede(a, Elems(q[i].lines), W)
  BY <1>2, <1>4, NoElems DEF FileOrder, Precede
<1>6. ASSUME NEW i \in 1..Len(q), NEW j \in 1..Len(q), i < j
      PROVE  Precede(a, Elems(q[i].lines), Elems(q[j].lines))
  <2>1. i \in 1..Len(r) /\ q[i] = r[i]
    BY <1>3, <1>6
  <2>2. CASE j \in 1..Len(r) /\ q[j] = r[j]
    BY <1>6, <2>1, <2>2 DEF FileOrder
  <2>3. CASE q[j] = f
    BY <1>2, <2>1, <2>3 DEF FileOrder, Precede
  <2>4. QED BY <1>4, <2>2, <2>3
<1>7. Ordered(a, <<>>) /\ Precede(a, {}, W) /\ Elems(<<>>) = {}
  BY NoElems, NothingOrdered DEF Precede
<1>8. ASSUME NEW i \in 1..Len(q)
      PROVE  Precede(a, Elems(q[i].lines), Elems(<<>>) \cup Elems(<<>>) \cup W)
  <2>1. Elems(<<>>) \cup Elems(<<>>) \cup W = W /\ Elems(<<>>) \cup W = W
    BY <1>7
  <2>2. QED BY <1>5, <2>1
<1>9. Precede(a, Elems(<<>>), Elems(<<>>) \cup W) /\ Precede(a, Elems(<<>>), W)
  BY <1>7 DEF Precede
<1>10. QED BY <1>1, <1>5, <1>6, <1>7, <1>8, <1>9 DEF FileOrder

LEMMA StoreLess ==
  ASSUME NEW a, NEW L, NEW t, NEW B, NEW W, NEW V, StoreOrder(a, L, t, B, W), V \subseteq W
  PROVE  StoreOrder(a, L, t, B, V) /\ StoreOrder(a, L, <<>>, B, V)
BY NoElems, NothingOrdered DEF StoreOrder, Precede

LEMMA StoreGrows ==
  ASSUME NEW S, NEW a \in Seq(S), NEW e \in S, NEW L, NEW t, NEW B, NEW W,
         StoreOrder(a, L, t, B, W), Elems(L) \cup Elems(t) \cup Rows(B) \subseteq Elems(a)
  PROVE  StoreOrder(Append(a, e), L, t, B, W \cup {e})
<1>1. PICK c : c = Append(a, e)
  OBVIOUS
<1>2. \A u : Ordered(a, u) => Ordered(c, u)
  BY <1>1, Grown
<1>3. \A X, Y : Precede(a, X, Y) => Precede(c, X, Y)
  BY <1>1, Grown
<1>4. \A X, Y : Precede(a, X, Y) /\ X \subseteq Elems(a) => Precede(c, X, Y \cup {e})
  BY <1>1, Grown
<1>5. ASSUME NEW i \in 1..Len(B)
      PROVE  /\ Ordered(c, B[i]) /\ Precede(c, Elems(B[i]), W \cup {e})
             /\ \A j \in 1..Len(B) : i < j => Precede(c, Elems(B[i]), Elems(B[j]))
  <2>1. Elems(B[i]) \subseteq Elems(a)
    BY DEF Rows
  <2>2. QED BY <1>2, <1>3, <1>4, <2>1 DEF StoreOrder
<1>6. Precede(c, Elems(L), Elems(t) \cup Rows(B) \cup (W \cup {e}))
  <2>1. Precede(c, Elems(L), (Elems(t) \cup Rows(B) \cup W) \cup {e})
    BY <1>4 DEF StoreOrder
  <2>2. (Elems(t) \cup Rows(B) \cup W) \cup {e} = Elems(t) \cup Rows(B) \cup (W \cup {e})
    OBVIOUS
  <2>3. QED BY <2>1, <2>2
<1>7. Precede(c, Elems(t), Rows(B) \cup (W \cup {e}))
  <2>1. Precede(c, Elems(t), (Rows(B) \cup W) \cup {e})
    BY <1>4 DEF StoreOrder
  <2>2. (Rows(B) \cup W) \cup {e} = Rows(B) \cup (W \cup {e})
    OBVIOUS
  <2>3. QED BY <2>1, <2>2
<1>8. Ordered(c, L) /\ Ordered(c, t)
  BY <1>2 DEF StoreOrder
<1>9. QED BY <1>1, <1>5, <1>6, <1>7, <1>8 DEF StoreOrder

(* A batch comes to the bridge, *)
LEMMA StoreHanded ==
  ASSUME NEW S, NEW a, NEW L, NEW t, NEW B \in Seq(Seq(S)), NEW u \in Seq(S), NEW W,
         StoreOrder(a, L, t, B, Elems(u) \cup W), Ordered(a, u), Precede(a, Elems(u), W)
  PROVE  StoreOrder(a, L, t, Append(B, u), W)
<1>1. PICK C : C = Append(B, u)
  OBVIOUS
<1>2. /\ Len(C) = Len(B) + 1 /\ Len(B) \in Nat
      /\ C[Len(B) + 1] = u /\ \A i \in 1..Len(B) : C[i] = B[i]
  BY <1>1, AppendProperties, LenProperties
<1>3. \A i \in 1..Len(C) : (i \in 1..Len(B) /\ C[i] = B[i]) \/ (i = Len(B) + 1 /\ C[i] = u)
  BY <1>2
<1>4. Rows(C) = Rows(B) \cup Elems(u)
  BY <1>1, RowsAppended
<1>5. ASSUME NEW i \in 1..Len(C) PROVE Ordered(a, C[i]) /\ Precede(a, Elems(C[i]), W)
  BY <1>3 DEF StoreOrder, Precede
<1>6. ASSUME NEW i \in 1..Len(C), NEW j \in 1..Len(C), i < j
      PROVE  Precede(a, Elems(C[i]), Elems(C[j]))
  <2>1. i \in 1..Len(B) /\ C[i] = B[i]
    BY <1>2, <1>6
  <2>2. CASE j \in 1..Len(B) /\ C[j] = B[j]
    BY <1>6, <2>1, <2>2 DEF StoreOrder
  <2>3. CASE C[j] = u
    BY <2>1, <2>3 DEF StoreOrder, Precede
  <2>4. QED BY <1>3, <2>2, <2>3
<1>7. Precede(a, Elems(L), Elems(t) \cup Rows(C) \cup W) /\ Precede(a, Elems(t), Rows(C) \cup W)
  BY <1>4 DEF StoreOrder, Precede
<1>8. QED BY <1>1, <1>5, <1>6, <1>7 DEF StoreOrder

(* and leaves it, to be inserted. *)
LEMMA StoreBegins ==
  ASSUME NEW S, NEW a, NEW L, NEW B \in Seq(Seq(S)), B # <<>>, NEW W, StoreOrder(a, L, <<>>, B, W)
  PROVE  StoreOrder(a, L, Head(B), Tail(B), W) /\ StoreOrder(a, L, <<>>, Tail(B), W)
<1>1. PICK C, u : C = Tail(B) /\ u = Head(B)
  OBVIOUS
<1>2. /\ Len(B) \in Nat \ {0} /\ Len(C) = Len(B) - 1 /\ u = B[1]
      /\ \A i \in 1..Len(C) : C[i] = B[i + 1]
  BY <1>1, HeadTailProperties, EmptySeq
<1>3. 1 \in 1..Len(B) /\ \A i \in 1..Len(C) : i + 1 \in 1..Len(B) /\ 1 < i + 1
  BY <1>2
<1>4. Rows(B) = Elems(u) \cup Rows(C)
  BY <1>1, RowsFirst
<1>5. ASSUME NEW i \in 1..Len(C) PROVE Ordered(a, C[i]) /\ Precede(a, Elems(C[i]), W)
  BY <1>2, <1>3 DEF StoreOrder
<1>6. ASSUME NEW i \in 1..Len(C), NEW j \in 1..Len(C), i < j
      PROVE  Precede(a, Elems(C[i]), Elems(C[j]))
  <2>1. i + 1 < j + 1
    BY <1>2, <1>6
  <2>2. QED BY <1>2, <1>3, <2>1 DEF StoreOrder
<1>7. Ordered(a, u) /\ Precede(a, Elems(u), Rows(C) \cup W)
  <2>1. Ordered(a, u) /\ Precede(a, Elems(u), W)
    BY <1>2, <1>3 DEF StoreOrder
  <2>2. \A i \in 1..Len(C) : Precede(a, Elems(u), Elems(C[i]))
    BY <1>2, <1>3 DEF StoreOrder
  <2>3. QED BY <2>1, <2>2 DEF Rows, Precede
<1>8. Ordered(a, L) /\ Precede(a, Elems(L), Elems(u) \cup Rows(C) \cup W)
      /\ Precede(a, Elems(L), Elems(<<>>) \cup Rows(C) \cup W)
  BY <1>4, NoElems DEF StoreOrder, Precede
<1>9. Ordered(a, <<>>) /\ Precede(a, Elems(<<>>), Rows(C) \cup W)
  BY NoElems, NothingOrdered DEF Precede
<1>10. QED BY <1>1, <1>5, <1>6, <1>7, <1>8, <1>9 DEF StoreOrder

LEMMA StoreRow ==
  ASSUME NEW S, NEW a, NEW L \in Seq(S), NEW t \in Seq(S), t # <<>>, NEW B, NEW W, StoreOrder(a, L, t, B, W)
  PROVE  StoreOrder(a, Append(L, Head(t)), Tail(t), B, W)
<1>1. PICK x, u : x = Head(t) /\ u = Tail(t)
  OBVIOUS
<1>2. x \in S /\ u \in Seq(S) /\ Elems(t) = {x} \cup Elems(u)
  BY <1>1, HeadAndTail
<1>3. Ordered(a, u) /\ Precede(a, {x}, Elems(u))
  BY <1>1, OrderedTail DEF StoreOrder
<1>4. Elems(Append(L, x)) = Elems(L) \cup {x}
  BY <1>2, Appended
<1>5. Ordered(a, Append(L, x))
  <2>1. Precede(a, Elems(L), {x})
    BY <1>2 DEF StoreOrder, Precede
  <2>2. QED BY <1>2, <2>1, OrderedLonger DEF StoreOrder
<1>6. Precede(a, Elems(Append(L, x)), Elems(u) \cup Rows(B) \cup W) /\ Precede(a, Elems(u), Rows(B) \cup W)
  BY <1>2, <1>3, <1>4 DEF StoreOrder, Precede
<1>7. QED BY <1>1, <1>3, <1>5, <1>6 DEF StoreOrder

-----------------------------------------------------------------------------
(* The audit trail: the inductive invariant *)

(* Numbers since the last start are handed out once, from 0 on; who has none    *)
(* stands beyond them. Only who is done was accepted, and once.                 *)
Numbered == {e \in Event : at[e] < head}
NumberInv ==
  /\ head = Cardinality(Numbered)
  /\ \A e \in Event : at[e] < head \/ at[e] = Cardinality(Event)
  /\ \A e \in Event : /\ rec[e] = "new" => e \notin Numbered
                      /\ rec[e] \in {"numbered", "stored"} => e \in Numbered
  /\ \A e, f \in Numbered : at[e] = at[f] => e = f
RecordInv ==
  /\ NumberInv /\ RingIsRecent
  /\ \A e \in Elems(accepted) : rec[e] = "done"
  /\ \A i, j \in 1..Len(accepted) : accepted[i] = accepted[j] => i = j

(* What is on its way to the file, and to the ledger. *)
ToFile == (IF worker = "hand" THEN {} ELSE Elems(batch)) \cup Elems(queue)
ToStore == Elems(batch) \cup Elems(queue)

ChannelInv ==
  /\ Ordered(accepted, batch) /\ Ordered(accepted, queue) /\ Precede(accepted, Elems(batch), Elems(queue))
  /\ (batch = <<>>) = (worker \in {"init", "recv"})

FileInv == FileOrder(accepted, rotated, active, buffer, ToFile)
StoreInv == StoreOrder(accepted, ledger, inserting, bridge, ToStore)

(* Without a fault nothing is kept back, and everything accepted is on its way or there. *)
AllInv ==
  faults \subseteq {"lap"} =>
    /\ buffer = <<>>
    /\ Elems(accepted) \subseteq Filed \cup ToFile
    /\ Elems(accepted) \subseteq Elems(ledger) \cup Elems(inserting) \cup Bridged \cup ToStore

(* The lines s, and then b, begin with one of the day. *)
BeginsOn(s, b, day) ==
  /\ s # <<>> => Day[Head(s)] = day
  /\ s = <<>> /\ b # <<>> => Day[Head(b)] = day
NameInv ==
  /\ stamp = Unknown => buffer = <<>>
  /\ "rename" \notin faults =>
       /\ \A i \in 1..Len(rotated) : rotated[i].day = Day[Head(rotated[i].lines)]
       /\ stamp # Unknown => BeginsOn(active, buffer, stamp)

AuditInv == AuditTypeOK /\ RecordInv /\ ChannelInv /\ FileInv /\ StoreInv /\ AllInv /\ NameInv

LEMMA AuditTypes ==
  ASSUME AuditTypeOK
  PROVE  /\ queue \in Seq(Event) /\ batch \in Seq(Event) /\ active \in Seq(Event) /\ buffer \in Seq(Event)
         /\ inserting \in Seq(Event) /\ ledger \in Seq(Event) /\ accepted \in Seq(Event)
         /\ bridge \in Seq(Seq(Event)) /\ bridge \in Seq(Seq(Event) \ {<<>>}) /\ rotated \in Seq(FileOf)
         /\ Filed = LinesOf(rotated) \cup Elems(active) /\ Bridged = Rows(bridge)
         /\ Filed \cup Elems(buffer) \cup Elems(ledger) \cup InFlight \subseteq Elems(accepted)
         /\ InFlight = ToStore \cup Rows(bridge) \cup Elems(inserting)
<1>1. Seq(Event) \ {<<>>} \subseteq Seq(Event)
  OBVIOUS
<1>2. bridge \in Seq(Seq(Event) \ {<<>>})
  BY DEF AuditTypeOK
<1>3. bridge \in Seq(Seq(Event))
  BY <1>1, <1>2, SeqMonotonic
<1>4. Filed = LinesOf(rotated) \cup Elems(active) /\ Bridged = Rows(bridge)
      /\ InFlight = ToStore \cup Rows(bridge) \cup Elems(inserting)
  BY DEF Filed, LinesOf, Bridged, Rows, InFlight, ToStore
<1>5. QED BY <1>2, <1>3, <1>4 DEF AuditTypeOK, FileOf

(* Steps of the connection, or of others: the trail stays as it is. *)
LEMMA RecordSame ==
  ASSUME RecordInv, UNCHANGED <<ringVars, accepted>>, faults \subseteq faults' PROVE RecordInv'
<1>1. UNCHANGED <<rec, at, head, ring, accepted>>
  BY DEF ringVars
<1>2. NumberInv'
  BY <1>1 DEF RecordInv, NumberInv, Numbered
<1>3. RingIsRecent'
  BY <1>1 DEF RecordInv, RingIsRecent, Slot
<1>4. QED BY <1>1, <1>2, <1>3 DEF RecordInv

LEMMA AuditElsewhere ==
  ASSUME AuditInv, audit' = audit, (holder' = "audit") = (holder = "audit")
  PROVE  AuditInv'
<1>1. /\ UNCHANGED <<ringVars, rec, at, head, ring, queue, batch, worker, active, buffer, open, stamp, rotated>>
      /\ UNCHANGED <<bridge, inserting, tables, ledger, crashes, accepted, faults>>
  BY DEF audit, ringVars, fileVars, dbVars
<1>2. Filed' = Filed /\ InFlight' = InFlight /\ ToFile' = ToFile /\ ToStore' = ToStore /\ Bridged' = Bridged
  BY <1>1 DEF Filed, InFlight, ToFile, ToStore, Bridged
<1>3. AuditTypeOK'
  BY <1>1, <1>2 DEF AuditInv, AuditTypeOK
<1>4. RecordInv'
  BY <1>1, RecordSame DEF AuditInv
<1>5. FileInv' /\ StoreInv'
  BY <1>1, <1>2 DEF AuditInv, FileInv, StoreInv
<1>6. ChannelInv' /\ AllInv' /\ NameInv'
  BY <1>1, <1>2 DEF AuditInv, ChannelInv, AllInv, NameInv
<1>7. QED BY <1>3, <1>4, <1>5, <1>6 DEF AuditInv

-----------------------------------------------------------------------------
(* The recorders *)

(* The worker and the database are left alone. *)
LEMMA RecordingKeeps ==
  ASSUME AuditInv, Recording, UNCHANGED <<queue, accepted>>, RecordInv',
         faults \subseteq faults', faults' \subseteq faults \cup {"lap"},
         rec' \in [Event -> {"new", "numbered", "stored", "done"}],
         head' \in 0..Cardinality(Event), at' \in [Event -> 0..Cardinality(Event)],
         ring' \in [0..RingSize - 1 -> Event \cup {Unknown}]
  PROVE  AuditInv'
<1>1. /\ UNCHANGED <<holder, batch, worker, active, buffer, open, stamp, rotated>>
      /\ UNCHANGED <<bridge, inserting, tables, ledger, crashes, accepted>>
  BY DEF Recording, fileVars, dbVars
<1>2. Filed' = Filed /\ InFlight' = InFlight /\ ToFile' = ToFile /\ ToStore' = ToStore /\ Bridged' = Bridged
  BY <1>1 DEF Filed, InFlight, ToFile, ToStore, Bridged
<1>3. AuditTypeOK'
  BY <1>1, <1>2 DEF AuditInv, AuditTypeOK
<1>4. FileInv' /\ StoreInv'
  BY <1>1, <1>2 DEF AuditInv, FileInv, StoreInv
<1>5. ChannelInv' /\ AllInv' /\ NameInv'
  BY <1>1, <1>2 DEF AuditInv, ChannelInv, AllInv, NameInv
<1>6. QED BY <1>3, <1>4, <1>5 DEF AuditInv

LEMMA SomeEvents ==
  ASSUME NEW X \in SUBSET Event
  PROVE  /\ IsFiniteSet(X) /\ Cardinality(X) \in Nat /\ Cardinality(Event) \in Nat
         /\ Cardinality(X) <= Cardinality(Event)
         /\ X # Event => Cardinality(X) < Cardinality(Event)
BY AuditAssumption, FS_Subset, FS_CardinalityType

LEMMA TakeNumberKeeps == ASSUME AuditInv, NEW e \in Event, TakeNumber(e) PROVE AuditInv'
<1>1. /\ rec[e] = "new" /\ rec' = [rec EXCEPT ![e] = "numbered"]
      /\ at' = [at EXCEPT ![e] = head] /\ head' = head + 1
      /\ Recording /\ UNCHANGED <<ring, queue, accepted, faults>>
  BY DEF TakeNumber
<1>2. /\ rec \in [Event -> {"new", "numbered", "stored", "done"}]
      /\ head \in 0..Cardinality(Event) /\ at \in [Event -> 0..Cardinality(Event)]
      /\ ring \in [0..RingSize - 1 -> Event \cup {Unknown}]
  BY DEF AuditInv, AuditTypeOK
<1>3. RecordInv /\ NumberInv /\ RingIsRecent
  BY DEF AuditInv, RecordInv
<1>4. e \notin Numbered /\ Numbered \subseteq Event
  BY <1>1, <1>3 DEF NumberInv, Numbered
<1>5. /\ Cardinality(Numbered) < Cardinality(Event) /\ IsFiniteSet(Numbered)
      /\ head = Cardinality(Numbered) /\ head \in Nat /\ Cardinality(Event) \in Nat
  BY <1>3, <1>4, SomeEvents DEF NumberInv
<1>6. /\ at'[e] = head /\ rec'[e] = "numbered"
      /\ \A f \in Event : f # e => at'[f] = at[f] /\ rec'[f] = rec[f]
      /\ \A f \in Event : at[f] \in Nat
  BY <1>1, <1>2
<1>7. \A f \in Event : (f \in Numbered <=> at[f] < head) /\ (f \in Numbered' <=> at'[f] < head + 1)
  BY <1>1 DEF Numbered
<1>8. \A f \in Event : f # e => (f \in Numbered' <=> f \in Numbered) /\ at[f] # head
  BY <1>3, <1>5, <1>6, <1>7 DEF NumberInv
<1>9. Numbered' = Numbered \cup {e}
  <2>1. e \in Numbered'
    BY <1>5, <1>6, <1>7
  <2>2. Numbered' \subseteq Event
    BY DEF Numbered
  <2>3. QED BY <1>4, <1>8, <2>1, <2>2
<1>10. NumberInv'
  <2>1. Cardinality(Numbered') = head'
    BY <1>1, <1>4, <1>5, <1>9, FS_AddElement
  <2>2. \A f \in Event : at'[f] < head' \/ at'[f] = Cardinality(Event)
    BY <1>1, <1>3, <1>5, <1>6 DEF NumberInv
  <2>3. \A f \in Event : /\ rec'[f] = "new" => f \notin Numbered'
                         /\ rec'[f] \in {"numbered", "stored"} => f \in Numbered'
    BY <1>3, <1>6, <1>8, <1>9 DEF NumberInv
  <2>4. \A f, g \in Numbered' : at'[f] = at'[g] => f = g
    BY <1>3, <1>4, <1>6, <1>8, <1>9 DEF NumberInv
  <2>5. QED BY <2>1, <2>2, <2>3, <2>4 DEF NumberInv
<1>11. RingIsRecent'
  <2> SUFFICES ASSUME "lap" \notin faults', NEW f \in Event,
                      rec'[f] \in {"stored", "done"}, at'[f] < head', head' - at'[f] <= RingSize
               PROVE  ring'[Slot(at'[f])] = f
    BY DEF RingIsRecent, Slot
  <2>1. f # e /\ at'[f] = at[f] /\ rec'[f] = rec[f] /\ at[f] < head
    BY <1>1, <1>5, <1>6, <1>8
  <2>2. head - at[f] <= RingSize
    BY <1>1, <1>5, <1>6, <2>1, AuditAssumption
  <2>3. QED BY <1>1, <1>3, <2>1, <2>2 DEF RingIsRecent
<1>12. RecordInv'
  <2>1. \A f \in Elems(accepted)' : rec'[f] = "done"
    BY <1>1, <1>2, <1>3 DEF RecordInv
  <2>2. QED BY <1>1, <1>3, <1>10, <1>11, <2>1 DEF RecordInv
<1>13. /\ rec' \in [Event -> {"new", "numbered", "stored", "done"}]
       /\ head' \in 0..Cardinality(Event) /\ at' \in [Event -> 0..Cardinality(Event)]
       /\ ring' \in [0..RingSize - 1 -> Event \cup {Unknown}]
  BY <1>1, <1>2, <1>5
<1>14. QED BY <1>1, <1>12, <1>13, RecordingKeeps

LEMMA FillSlotKeeps == ASSUME AuditInv, NEW e \in Event, FillSlot(e) PROVE AuditInv'
<1>1. /\ rec[e] = "numbered" /\ rec' = [rec EXCEPT ![e] = "stored"]
      /\ ring' = [ring EXCEPT ![Slot(at[e])] = e]
      /\ faults' = IF head - at[e] > RingSize THEN faults \cup {"lap"} ELSE faults
      /\ Recording /\ UNCHANGED <<at, head, queue, accepted>>
  BY DEF FillSlot
<1>2. /\ rec \in [Event -> {"new", "numbered", "stored", "done"}]
      /\ head \in 0..Cardinality(Event) /\ at \in [Event -> 0..Cardinality(Event)]
      /\ ring \in [0..RingSize - 1 -> Event \cup {Unknown}]
  BY DEF AuditInv, AuditTypeOK
<1>3. RecordInv /\ NumberInv /\ RingIsRecent
  BY DEF AuditInv, RecordInv
<1>4. Cardinality(Event) \in Nat /\ head \in Nat /\ RingSize \in Nat \ {0}
  BY <1>2, SomeEvents, AuditAssumption
<1>5. \A f \in Event : at[f] \in Nat /\ Slot(at[f]) \in 0..RingSize - 1
  BY <1>2, <1>4, SlotOf
<1>6. e \in Numbered /\ at[e] < head
  BY <1>1, <1>3 DEF NumberInv, Numbered
<1>7. rec'[e] = "stored" /\ \A f \in Event : f # e => rec'[f] = rec[f]
  BY <1>1, <1>2
<1>8. NumberInv'
  <2>1. Numbered' = Numbered
    BY <1>1 DEF Numbered
  <2>2. QED BY <1>1, <1>3, <1>6, <1>7, <2>1 DEF NumberInv
<1>9. RingIsRecent'
  <2> SUFFICES ASSUME "lap" \notin faults', NEW f \in Event,
                      rec'[f] \in {"stored", "done"}, at'[f] < head', head' - at'[f] <= RingSize
               PROVE  ring'[Slot(at'[f])] = f
    BY DEF RingIsRecent, Slot
  <2>1. "lap" \notin faults /\ head - at[e] <= RingSize /\ at[f] < head /\ head - at[f] <= RingSize
    BY <1>1, <1>4, <1>5
  <2>2. CASE f = e
    BY <1>1, <1>2, <1>5, <2>2
  <2>3. CASE f # e
    <3>1. at[f] # at[e]
      BY <1>3, <1>6, <2>1, <2>3 DEF NumberInv, Numbered
    <3>2. Slot(at[f]) # Slot(at[e])
      <4>1. CASE at[f] < at[e]
        <5>1. at[e] - at[f] < RingSize
          BY <1>4, <1>5, <1>6, <2>1
        <5>2. QED BY <1>5, <4>1, <5>1, OneSlot
      <4>2. CASE at[e] < at[f]
        <5>1. at[f] - at[e] < RingSize
          BY <1>4, <1>5, <1>6, <2>1
        <5>2. QED BY <1>5, <4>2, <5>1, OneSlot
      <4>3. QED BY <1>5, <3>1, <4>1, <4>2
    <3>3. ring[Slot(at[f])] = f
      BY <1>3, <1>7, <2>1, <2>3 DEF RingIsRecent
    <3>4. QED BY <1>1, <1>2, <1>5, <3>2, <3>3
  <2>4. QED BY <2>2, <2>3
<1>10. RecordInv'
  <2>1. \A f \in Elems(accepted)' : rec'[f] = "done"
    BY <1>1, <1>2, <1>3 DEF RecordInv
  <2>2. QED BY <1>1, <1>3, <1>8, <1>9, <2>1 DEF RecordInv
<1>11. /\ rec' \in [Event -> {"new", "numbered", "stored", "done"}]
       /\ ring' \in [0..RingSize - 1 -> Event \cup {Unknown}]
  BY <1>1, <1>2
<1>12. faults \subseteq faults' /\ faults' \subseteq faults \cup {"lap"}
  BY <1>1
<1>13. QED BY <1>1, <1>2, <1>10, <1>11, <1>12, RecordingKeeps

LEMMA OfferKeeps == ASSUME AuditInv, NEW e \in Event, Offer(e) PROVE AuditInv'
<1>1. /\ rec[e] = "stored" /\ rec' = [rec EXCEPT ![e] = "done"]
      /\ IF Len(queue) < QueueCap
           THEN queue' = Append(queue, e) /\ accepted' = Append(accepted, e)
           ELSE UNCHANGED <<queue, accepted>>
      /\ Recording /\ UNCHANGED <<at, head, ring, faults>>
  BY DEF Offer
<1>2. /\ rec \in [Event -> {"new", "numbered", "stored", "done"}]
      /\ head \in 0..Cardinality(Event) /\ at \in [Event -> 0..Cardinality(Event)]
      /\ ring \in [0..RingSize - 1 -> Event \cup {Unknown}]
      /\ AuditTypeOK /\ ChannelInv /\ FileInv /\ StoreInv /\ AllInv /\ NameInv
  BY DEF AuditInv, AuditTypeOK
<1>3. RecordInv /\ NumberInv /\ RingIsRecent
  BY DEF AuditInv, RecordInv
<1>4. rec'[e] = "done" /\ \A f \in Event : f # e => rec'[f] = rec[f]
  BY <1>1, <1>2
<1>5. rec' \in [Event -> {"new", "numbered", "stored", "done"}]
  BY <1>1, <1>2
<1>6. NumberInv' /\ RingIsRecent'
  <2>1. Numbered' = Numbered
    BY <1>1 DEF Numbered
  <2>2. NumberInv'
    BY <1>1, <1>3, <1>4, <2>1 DEF NumberInv
  <2>3. \A f \in Event : rec'[f] \in {"stored", "done"} => rec[f] \in {"stored", "done"}
    BY <1>1, <1>4
  <2>4. RingIsRecent'
    BY <1>1, <1>3, <2>3 DEF RingIsRecent, Slot
  <2>5. QED BY <2>2, <2>4
<1>7. CASE ~(Len(queue) < QueueCap)
  <2>1. UNCHANGED <<queue, accepted>>
    BY <1>1, <1>7
  <2>2. RecordInv'
    <3>1. accepted \in Seq(Event)
      BY <1>2, AuditTypes
    <3>2. \A f \in Elems(accepted) : f \in Event /\ rec[f] = "done"
      BY <1>3, <3>1, ElementOfSeq DEF RecordInv, Elems
    <3>3. \A f \in Elems(accepted)' : rec'[f] = "done"
      BY <1>4, <2>1, <3>2
    <3>4. QED BY <1>3, <1>6, <2>1, <3>3 DEF RecordInv
  <2>3. QED BY <1>1, <1>2, <1>5, <2>1, <2>2, RecordingKeeps
<1>8. CASE Len(queue) < QueueCap
  <2>1. /\ queue' = Append(queue, e) /\ accepted' = Append(accepted, e)
        /\ UNCHANGED <<holder, batch, worker, active, buffer, open, stamp, rotated>>
        /\ UNCHANGED <<bridge, inserting, tables, ledger, crashes, at, head, ring, faults>>
    BY <1>1, <1>8 DEF Recording, fileVars, dbVars
  <2>2. queue \in Seq(Event) /\ accepted \in Seq(Event) /\ batch \in Seq(Event)
    BY <1>2, AuditTypes
  <2>3. /\ queue' \in Seq(Event) /\ accepted' \in Seq(Event)
        /\ Elems(queue') = Elems(queue) \cup {e} /\ Elems(accepted') = Elems(accepted) \cup {e}
        /\ Len(queue') = Len(queue) + 1
    BY <2>1, <2>2, Appended
  <2>4. /\ Filed = LinesOf(rotated) \cup Elems(active) /\ Bridged = Rows(bridge)
        /\ InFlight = ToStore \cup Rows(bridge) \cup Elems(inserting)
        /\ Filed \cup Elems(buffer) \cup Elems(ledger) \cup InFlight \subseteq Elems(accepted)
    BY <1>2, AuditTypes
  <2>5. /\ Filed' = Filed /\ Bridged' = Bridged /\ ToFile' = ToFile \cup {e} /\ ToStore' = ToStore \cup {e}
        /\ InFlight' = InFlight \cup {e} /\ ToFile \subseteq ToStore
    BY <2>1, <2>3 DEF Filed, Bridged, ToFile, ToStore, InFlight
  <2>6. AuditTypeOK'
    <3>1. (Filed \cup Elems(buffer) \cup Elems(ledger) \cup InFlight)' \subseteq Elems(accepted')
      BY <2>1, <2>3, <2>4, <2>5
    <3>2. Len(queue') <= QueueCap
      BY <1>8, <2>2, <2>3, LenProperties, AuditAssumption
    <3>3. QED BY <1>2, <1>5, <2>1, <2>3, <3>1, <3>2 DEF AuditTypeOK
  <2>7. RecordInv'
    <3>1. \A f \in Elems(accepted) : f \in Event /\ rec[f] = "done"
      BY <1>3, <2>2, ElementOfSeq DEF RecordInv, Elems
    <3>2. e \notin Elems(accepted)
      BY <1>1, <3>1
    <3>3. \A f \in Elems(accepted') : rec'[f] = "done"
      BY <1>4, <2>3, <3>1
    <3>4. /\ Len(accepted) \in Nat /\ Len(accepted') = Len(accepted) + 1
          /\ accepted'[Len(accepted) + 1] = e /\ \A i \in 1..Len(accepted) : accepted'[i] = accepted[i]
      BY <2>1, <2>2, AppendProperties, LenProperties
    <3>5. \A i \in 1..Len(accepted') : i = Len(accepted) + 1 \/ i \in 1..Len(accepted)
      BY <3>4
    <3>6. \A i \in 1..Len(accepted) : accepted[i] # e
      BY <3>2 DEF Elems
    <3>7. \A i, j \in 1..Len(accepted') : accepted'[i] = accepted'[j] => i = j
      BY <1>3, <3>4, <3>5, <3>6 DEF RecordInv
    <3>8. QED BY <1>6, <3>3, <3>7 DEF RecordInv
  <2>8. ChannelInv'
    <3>1. Ordered(accepted', batch) /\ Ordered(accepted', queue)
      BY <1>2, <2>1, <2>2, Grown DEF ChannelInv
    <3>2. Elems(queue) \subseteq Elems(accepted) /\ Elems(batch) \subseteq Elems(accepted)
      BY <2>4 DEF ToStore
    <3>3. Precede(accepted', Elems(batch), Elems(queue) \cup {e})
      BY <1>2, <2>1, <2>2, <3>2, Grown DEF ChannelInv
    <3>4. Precede(accepted', Elems(queue), {} \cup {e})
      <4>1. Precede(accepted, Elems(queue), {})
        BY DEF Precede
      <4>2. QED BY <2>1, <2>2, <3>2, <4>1, Grown
    <3>5. Ordered(accepted', queue')
      <4>1. Precede(accepted', Elems(queue), {e})
        BY <3>4
      <4>2. QED BY <2>1, <2>2, <3>1, <4>1, OrderedLonger
    <3>6. QED BY <1>2, <2>1, <2>3, <3>1, <3>3, <3>5 DEF ChannelInv
  <2>9. FileInv' /\ StoreInv'
    <3>1. FileOrder(accepted', rotated, active, buffer, ToFile \cup {e})
      <4>1. LinesOf(rotated) \cup Elems(active) \cup Elems(buffer) \cup ToFile \subseteq Elems(accepted)
        BY <2>4, <2>5
      <4>2. QED BY <1>2, <2>1, <2>2, <4>1, FileGrows DEF FileInv
    <3>2. StoreOrder(accepted', ledger, inserting, bridge, ToStore \cup {e})
      <4>1. Elems(ledger) \cup Elems(inserting) \cup Rows(bridge) \subseteq Elems(accepted)
        BY <2>4
      <4>2. QED BY <1>2, <2>1, <2>2, <4>1, StoreGrows DEF StoreInv
    <3>3. QED BY <2>1, <2>5, <3>1, <3>2 DEF FileInv, StoreInv
  <2>10. AllInv' /\ NameInv'
    BY <1>2, <2>1, <2>3, <2>5 DEF AllInv, NameInv
  <2>11. QED BY <2>6, <2>7, <2>8, <2>9, <2>10 DEF AuditInv
<1>9. QED BY <1>7, <1>8

-----------------------------------------------------------------------------
(* The worker collects *)

LEMMA CollectingKeeps ==
  ASSUME AuditInv, Collecting, ToStore' = ToStore, ToFile' = ToFile, ChannelInv',
         queue' \in Seq(Event), batch' \in Seq(Event), Len(queue') <= QueueCap, Len(batch') <= BatchMax,
         worker' \in {"init", "recv", "collect", "file", "hand"}
  PROVE  AuditInv'
<1>1. /\ UNCHANGED <<ringVars, rec, at, head, ring, holder, active, buffer, open, stamp, rotated>>
      /\ UNCHANGED <<bridge, inserting, tables, ledger, crashes, accepted, faults>>
  BY DEF Collecting, ringVars, fileVars, dbVars
<1>2. Filed' = Filed /\ Bridged' = Bridged
  BY <1>1 DEF Filed, Bridged
<1>3. InFlight' = InFlight
  BY <1>1, <1>2 DEF InFlight, ToStore
<1>4. AuditTypeOK'
  BY <1>1, <1>2, <1>3 DEF AuditInv, AuditTypeOK
<1>5. RecordInv'
  BY <1>1, RecordSame DEF AuditInv
<1>6. FileInv' /\ StoreInv'
  BY <1>1 DEF AuditInv, FileInv, StoreInv
<1>7. AllInv' /\ NameInv'
  BY <1>1, <1>2 DEF AuditInv, AllInv, NameInv
<1>8. QED BY <1>4, <1>5, <1>6, <1>7 DEF AuditInv

LEMMA TakesKeep == ASSUME AuditInv, TakeFirst \/ TakeNext PROVE AuditInv'
<1>1. AuditTypeOK /\ ChannelInv /\ queue \in Seq(Event) /\ batch \in Seq(Event) /\ queue # <<>>
  BY AuditTypes DEF AuditInv, TakeFirst, TakeNext
<1>2. PICK x, q : x = Head(queue) /\ q = Tail(queue)
  OBVIOUS
<1>3. /\ x \in Event /\ q \in Seq(Event) /\ Elems(queue) = {x} \cup Elems(q)
      /\ Len(q) = Len(queue) - 1 /\ Len(queue) \in Nat /\ Len(queue) <= QueueCap /\ QueueCap \in Nat
  BY <1>1, <1>2, HeadAndTail, LenProperties, AuditAssumption DEF AuditTypeOK
<1>4. Ordered(accepted, q) /\ Precede(accepted, {x}, Elems(q))
  BY <1>1, <1>2, OrderedTail DEF ChannelInv
<1>5. Len(q) <= QueueCap
  BY <1>3
<1>6. CASE TakeFirst
  <2>1. batch' = <<x>> /\ queue' = q /\ worker' = "collect" /\ Collecting /\ batch = <<>> /\ worker = "recv"
    BY <1>1, <1>2, <1>6 DEF TakeFirst, ChannelInv
  <2>2. batch' \in Seq(Event) /\ Len(batch') = 1 /\ Elems(batch') = {x} /\ batch' # <<>>
    <3>1. <<x>> \in Seq(Event) /\ Len(<<x>>) = 1 /\ <<x>>[1] = x
      BY <1>3
    <3>2. Elems(<<x>>) = {x}
      BY <3>1 DEF Elems
    <3>3. <<x>> # <<>>
      BY <3>1, NoElems
    <3>4. QED BY <2>1, <3>1, <3>2, <3>3
  <2>3. ToStore' = ToStore /\ ToFile' = ToFile
    BY <1>3, <2>1, <2>2, NoElems DEF ToStore, ToFile
  <2>4. accepted' = accepted
    BY <2>1 DEF Collecting
  <2>5. Ordered(accepted, batch')
    BY <2>2 DEF Ordered
  <2>6. ChannelInv'
    <3>1. Ordered(accepted', batch') /\ Ordered(accepted', queue') /\ Precede(accepted', Elems(batch'), Elems(queue'))
      BY <1>4, <2>1, <2>2, <2>4, <2>5
    <3>2. (batch' = <<>>) = (worker' \in {"init", "recv"})
      BY <2>1, <2>2
    <3>3. QED BY <3>1, <3>2 DEF ChannelInv
  <2>7. Len(batch') <= BatchMax
    BY <2>2, AuditAssumption
  <2>8. QED BY <1>3, <1>5, <2>1, <2>2, <2>3, <2>6, <2>7, CollectingKeeps
<1>7. CASE TakeNext
  <2>1. /\ batch' = Append(batch, x) /\ queue' = q /\ worker' = "collect" /\ Collecting
        /\ worker = "collect" /\ Len(batch) < BatchMax
    BY <1>2, <1>7 DEF TakeNext, AnotherFits
  <2>2. /\ batch' \in Seq(Event) /\ Len(batch') = Len(batch) + 1 /\ Elems(batch') = Elems(batch) \cup {x}
        /\ Len(batch) \in Nat
    BY <1>1, <1>3, <2>1, Appended, LenProperties
  <2>3. ToStore' = ToStore /\ ToFile' = ToFile
    BY <1>3, <2>1, <2>2 DEF ToStore, ToFile
  <2>4. accepted' = accepted
    BY <2>1 DEF Collecting
  <2>5. Ordered(accepted, batch')
    <3>1. Precede(accepted, Elems(batch), {x})
      BY <1>1, <1>3 DEF ChannelInv, Precede
    <3>2. QED BY <1>1, <1>3, <2>1, <3>1, OrderedLonger DEF ChannelInv
  <2>6. ChannelInv'
    <3>1. Precede(accepted, Elems(batch'), Elems(q))
      BY <1>1, <1>3, <1>4, <2>2 DEF ChannelInv, Precede
    <3>2. batch' # <<>>
      BY <2>2, NoElems
    <3>3. QED BY <1>4, <2>1, <2>4, <2>5, <3>1, <3>2 DEF ChannelInv
  <2>7. Len(batch') <= BatchMax
    BY <2>1, <2>2, AuditAssumption
  <2>8. QED BY <1>3, <1>5, <2>1, <2>2, <2>3, <2>6, <2>7, CollectingKeeps
<1>8. QED BY <1>6, <1>7

LEMMA BatchOverKeeps == ASSUME AuditInv, BatchOver PROVE AuditInv'
<1>1. AuditTypeOK /\ ChannelInv /\ queue \in Seq(Event) /\ batch \in Seq(Event)
  BY AuditTypes DEF AuditInv
<1>2. /\ worker = "collect" /\ worker' = "file" /\ queue' = queue /\ batch' = batch /\ Collecting
      /\ accepted' = accepted
  BY DEF BatchOver, QueueAfterWait, Collecting
<1>3. ToStore' = ToStore /\ ToFile' = ToFile /\ ChannelInv'
  BY <1>1, <1>2 DEF ToStore, ToFile, ChannelInv
<1>4. QED BY <1>1, <1>2, <1>3, CollectingKeeps DEF AuditTypeOK

-----------------------------------------------------------------------------
(* The worker writes *)

(* Some of the lines u came to the file s, and some of the rest into the buffer. *)
Moved(s, u, file, rest) ==
  \E i \in 0..Len(u) : \E j \in i..Len(u) : file = s \o SubSeq(u, 1, i) /\ rest = SubSeq(u, i + 1, j)

LEMMA MovedAll == ASSUME NEW S, NEW s, NEW u \in Seq(S) PROVE Moved(s, u, s \o u, <<>>)
<1>1. Len(u) \in 0..Len(u) /\ Len(u) \in Len(u)..Len(u) /\ Len(u) \in Int
  BY LenProperties
<1>2. SubSeq(u, 1, Len(u)) = u /\ SubSeq(u, Len(u) + 1, Len(u)) = <<>>
  BY <1>1, SubSeqFull, SubSeqEmpty
<1>3. QED BY <1>1, <1>2 DEF Moved

LEMMA MovedOrder ==
  ASSUME NEW a, NEW r, NEW s \in Seq(Event), NEW u \in Seq(Event), NEW W, NEW file, NEW rest,
         Moved(s, u, file, rest), FileOrder(a, r, s, u, W)
  PROVE  /\ FileOrder(a, r, file, rest, W) /\ file \in Seq(Event) /\ rest \in Seq(Event)
         /\ Elems(file) \cup Elems(rest) \subseteq Elems(s) \cup Elems(u)
<1>1. PICK i \in 0..Len(u) : \E j \in i..Len(u) : file = s \o SubSeq(u, 1, i) /\ rest = SubSeq(u, i + 1, j)
  BY DEF Moved
<1>2. PICK j \in i..Len(u) : file = s \o SubSeq(u, 1, i) /\ rest = SubSeq(u, i + 1, j)
  BY <1>1
<1>3. QED BY <1>2, FileLines

LEMMA HeadIsFirst == ASSUME NEW S, NEW s \in Seq(S) PROVE (s # <<>> <=> Len(s) > 0) /\ Head(s) = s[1]
BY EmptySeq, LenProperties

LEMMA BeginsJoined ==
  ASSUME NEW s, NEW b \in Seq(Event), NEW t \in Seq(Event), NEW day,
         BeginsOn(s, b, day), Day[Head(t)] = day
  PROVE  BeginsOn(s, b \o t, day)
<1>1. PICK u : u = b \o t
  OBVIOUS
<1>2. /\ u \in Seq(Event) /\ Len(u) = Len(b) + Len(t) /\ Len(b) \in Nat /\ Len(t) \in Nat
      /\ \A k \in 1..Len(b) + Len(t) : u[k] = IF k <= Len(b) THEN b[k] ELSE t[k - Len(b)]
  BY <1>1, ConcatProperties, LenProperties
<1>3. /\ (u # <<>> <=> Len(u) > 0) /\ (b # <<>> <=> Len(b) > 0)
      /\ Head(u) = u[1] /\ Head(b) = b[1] /\ Head(t) = t[1]
  BY <1>2, HeadIsFirst
<1>4. u # <<>> => u[1] = IF Len(b) > 0 THEN b[1] ELSE t[1]
  BY <1>2, <1>3
<1>5. s = <<>> /\ u # <<>> => Day[Head(u)] = day
  BY <1>3, <1>4 DEF BeginsOn
<1>6. QED BY <1>1, <1>5 DEF BeginsOn

(* The first line stays the first. *)
LEMMA MovedNames ==
  ASSUME NEW s \in Seq(Event), NEW u \in Seq(Event), NEW day, NEW file, NEW rest,
         Moved(s, u, file, rest), BeginsOn(s, u, day)
  PROVE  BeginsOn(file, rest, day)
<1>1. PICK i \in 0..Len(u) : \E j \in i..Len(u) : file = s \o SubSeq(u, 1, i) /\ rest = SubSeq(u, i + 1, j)
  BY DEF Moved
<1>2. PICK j \in i..Len(u) : file = s \o SubSeq(u, 1, i) /\ rest = SubSeq(u, i + 1, j)
  BY <1>1
<1>3. PICK v : v = SubSeq(u, 1, i)
  OBVIOUS
<1>4. Len(u) \in Nat /\ Len(s) \in Nat
  BY LenProperties
<1>5. 0 \in 0..Len(u) /\ i \in 0..Len(u) /\ 0 + 1 = 1 /\ i \in Nat /\ j \in Nat /\ i <= j /\ i - 0 = i
      /\ \A k \in 1..i : k + 0 = k
  BY <1>4
<1>6. v \in Seq(Event) /\ Len(v) = i /\ \A k \in 1..i : v[k] = u[k]
  BY <1>3, <1>5, Parts
<1>7. rest \in Seq(Event) /\ Len(rest) = j - i /\ \A k \in 1..j - i : rest[k] = u[k + i]
  BY <1>2, Parts
<1>8. /\ file \in Seq(Event) /\ Len(file) = Len(s) + i
      /\ \A k \in 1..Len(s) + i : file[k] = IF k <= Len(s) THEN s[k] ELSE v[k - Len(s)]
  BY <1>2, <1>3, <1>6, ConcatProperties
<1>9. /\ (s # <<>> <=> Len(s) > 0) /\ (u # <<>> <=> Len(u) > 0) /\ (file # <<>> <=> Len(file) > 0)
      /\ (rest # <<>> <=> Len(rest) > 0) /\ Head(rest) = rest[1] /\ Head(file) = file[1]
      /\ Head(u) = u[1] /\ Head(s) = s[1]
  BY <1>7, <1>8, HeadIsFirst
<1>10. CASE Len(s) > 0
  <2>1. file # <<>> /\ Head(file) = s[1] /\ s # <<>>
    BY <1>4, <1>5, <1>8, <1>9, <1>10
  <2>2. QED BY <1>9, <2>1 DEF BeginsOn
<1>11. CASE Len(s) = 0
  <2>1. s = <<>>
    BY <1>9, <1>11
  <2>2. file # <<>> => i > 0 /\ file[1] = v[1] /\ v[1] = u[1] /\ Len(u) > 0
    BY <1>4, <1>5, <1>6, <1>8, <1>9, <1>11
  <2>3. file = <<>> /\ rest # <<>> => i = 0 /\ rest[1] = u[1] /\ Len(u) > 0
    BY <1>4, <1>5, <1>7, <1>8, <1>9, <1>11
  <2>4. QED BY <1>9, <2>1, <2>2, <2>3 DEF BeginsOn
<1>12. QED BY <1>4, <1>10, <1>11

(* What a step of writing has to show. *)
LEMMA WrittenKeeps ==
  ASSUME AuditInv, worker = "file", Written,
         active' \in Seq(Event), buffer' \in Seq(Event), rotated' \in Seq(FileOf),
         open' \in BOOLEAN, stamp' \in Days \cup {Unknown},
         faults \subseteq faults', faults' \subseteq faults \cup {"file", "rename"},
         FileOrder(accepted, rotated', active', buffer', Elems(queue)),
         LinesOf(rotated') \cup Elems(active') \cup Elems(buffer')
           \subseteq LinesOf(rotated) \cup Elems(active) \cup Elems(buffer) \cup Elems(batch),
         faults' \subseteq {"lap"} =>
           buffer' = <<>> /\ Filed \cup Elems(batch) \subseteq LinesOf(rotated') \cup Elems(active'),
         NameInv'
  PROVE  AuditInv'
<1>1. /\ worker' = "hand"
      /\ UNCHANGED <<ringVars, rec, at, head, ring, holder, queue, batch, crashes, accepted>>
      /\ UNCHANGED <<bridge, inserting, tables, ledger>>
  BY DEF Written, ringVars, dbVars
<1>2. AuditTypeOK /\ ChannelInv /\ StoreInv /\ AllInv /\ RecordInv
  BY DEF AuditInv
<1>3. Filed = LinesOf(rotated) \cup Elems(active) /\ Filed' = LinesOf(rotated') \cup Elems(active')
  BY DEF Filed, LinesOf
<1>4. /\ Bridged' = Bridged /\ InFlight' = InFlight /\ ToStore' = ToStore
      /\ ToFile' = Elems(queue) /\ ToFile = Elems(batch) \cup Elems(queue)
  BY <1>1 DEF Bridged, InFlight, ToStore, ToFile
<1>5. AuditTypeOK'
  <2>1. (Filed \cup Elems(buffer) \cup Elems(ledger) \cup InFlight)' \subseteq Elems(accepted')
    <3>1. Filed \cup Elems(buffer) \cup Elems(ledger) \cup InFlight \subseteq Elems(accepted)
      BY <1>2, AuditTypes
    <3>2. Elems(batch) \subseteq InFlight
      BY DEF InFlight
    <3>3. QED BY <1>1, <1>3, <1>4, <3>1, <3>2
  <2>2. faults' \subseteq {"file", "rename", "db", "lap", "crash"}
    BY <1>2 DEF AuditTypeOK
  <2>3. {queue, batch, active, buffer, inserting, ledger, accepted}' \subseteq Seq(Event)
    BY <1>1, <1>2, AuditTypes
  <2>4. rotated' \in Seq([day : Days, lines : Seq(Event)])
    BY DEF FileOf
  <2>5. QED BY <1>1, <1>2, <2>1, <2>2, <2>3, <2>4 DEF AuditTypeOK
<1>6. RecordInv'
  BY <1>1, <1>2, RecordSame
<1>7. ChannelInv' /\ StoreInv' /\ FileInv'
  BY <1>1, <1>2, <1>4 DEF ChannelInv, StoreInv, FileInv
<1>8. AllInv'
  BY <1>1, <1>2, <1>3, <1>4 DEF AllInv
<1>9. QED BY <1>5, <1>6, <1>7, <1>8 DEF AuditInv

LEMMA FlushedMoves ==
  ASSUME AuditTypeOK, NEW file \in Flushed
  PROVE  Moved(active, buffer, file, <<>>)
<1>1. active \in Seq(Event) /\ buffer \in Seq(Event)
  BY AuditTypes
<1>2. Len(buffer) \in Nat
  BY <1>1, LenProperties
<1>3. CASE buffer = <<>>
  <2>1. file = active /\ active \o <<>> = active /\ <<>> \in Seq(Event)
    BY <1>1, <1>3, ConcatEmptySeq DEF Flushed
  <2>2. Moved(active, <<>>, active \o <<>>, <<>>)
    BY <2>1, MovedAll
  <2>3. QED BY <1>2, <1>3, <2>1, <2>2
<1>4. CASE buffer # <<>>
  <2>1. PICK i \in 0..Len(buffer) : file = active \o SubSeq(buffer, 1, i)
    BY <1>4 DEF Flushed
  <2>2. i \in i..Len(buffer) /\ i \in Int /\ i + 1 \in Int /\ i < i + 1
    BY <1>2
  <2>3. SubSeq(buffer, i + 1, i) = <<>>
    BY <2>2, SubSeqEmpty
  <2>4. QED BY <1>2, <2>1, <2>2, <2>3 DEF Moved
<1>5. QED BY <1>3, <1>4

(* The lines of the batch and of before, and their day. *)
LEMMA AboutToWrite ==
  ASSUME AuditInv, worker = "file"
  PROVE  /\ batch \in Seq(Event) /\ batch # <<>> /\ Head(batch) \in Event
         /\ BatchDay \in Days /\ BatchDay # Unknown
         /\ FileOrder(accepted, rotated, active, buffer, Elems(batch) \cup Elems(queue))
         /\ Ordered(accepted, batch) /\ Precede(accepted, Elems(batch), Elems(queue))
         /\ faults \subseteq {"lap"} => buffer = <<>>
<1>1. AuditTypeOK /\ ChannelInv /\ FileInv /\ AllInv
  BY DEF AuditInv
<1>2. batch \in Seq(Event) /\ batch # <<>> /\ Head(batch) \in Event
  BY <1>1, AuditTypes, HeadAndTail DEF ChannelInv
<1>3. BatchDay \in Days /\ BatchDay # Unknown
  BY <1>2, AuditAssumption DEF BatchDay, Days
<1>4. QED BY <1>1, <1>2, <1>3 DEF ChannelInv, FileInv, ToFile, AllInv

LEMMA LinesMove ==
  ASSUME NEW s \in Seq(Event), NEW u \in Seq(Event), Lines(s, u)
  PROVE  /\ Moved(s, u, active', buffer') /\ faults' \in {faults, faults \cup {"file"}}
         /\ "file" \notin faults' => active' = s \o u /\ buffer' = <<>>
<1>1. CASE active' = s \o u /\ buffer' = <<>> /\ UNCHANGED faults
  BY <1>1, MovedAll
<1>2. CASE /\ u # <<>> /\ faults' = faults \cup {"file"}
           /\ \E i \in 0..Len(u) - 1 : \E j \in i..Len(u) :
                /\ j >= Len(buffer) \/ i = j
                /\ active' = s \o SubSeq(u, 1, i)
                /\ buffer' = SubSeq(u, i + 1, j)
  <2>1. PICK i \in 0..Len(u) - 1 : \E j \in i..Len(u) :
                active' = s \o SubSeq(u, 1, i) /\ buffer' = SubSeq(u, i + 1, j)
    BY <1>2
  <2>2. i \in 0..Len(u)
    BY LenProperties
  <2>3. QED BY <1>2, <2>1, <2>2 DEF Moved
<1>3. QED BY <1>1, <1>2 DEF Lines

LEMMA WriteTodayKeeps == ASSUME AuditInv, WriteToday PROVE AuditInv'
<1>1. /\ worker = "file" /\ stamp = BatchDay /\ Written /\ UNCHANGED <<open, stamp, rotated>>
      /\ IF open THEN Lines(active, buffer \o batch)
                 ELSE UNCHANGED <<active, buffer>> /\ faults' = faults \cup {"file"}
  BY DEF WriteToday
<1>2. /\ batch \in Seq(Event) /\ BatchDay \in Days /\ BatchDay # Unknown
      /\ FileOrder(accepted, rotated, active, buffer, Elems(batch) \cup Elems(queue))
      /\ Ordered(accepted, batch) /\ Precede(accepted, Elems(batch), Elems(queue))
      /\ faults \subseteq {"lap"} => buffer = <<>>
  BY <1>1, AboutToWrite
<1>3. /\ AuditTypeOK /\ NameInv /\ active \in Seq(Event) /\ buffer \in Seq(Event) /\ rotated \in Seq(FileOf)
      /\ Filed = LinesOf(rotated) \cup Elems(active)
  BY AuditTypes DEF AuditInv
<1>4. /\ open' \in BOOLEAN /\ stamp' \in Days \cup {Unknown} /\ rotated' \in Seq(FileOf) /\ stamp' # Unknown
  BY <1>1, <1>2, <1>3 DEF AuditTypeOK
<1>5. CASE open
  <2>1. PICK u \in Seq(Event) :
          /\ Lines(active, u) /\ Elems(u) = Elems(buffer) \cup Elems(batch)
          /\ FileOrder(accepted, rotated, active, u, Elems(queue))
          /\ BeginsOn(active, buffer, BatchDay) => BeginsOn(active, u, BatchDay)
    <3>1. Lines(active, buffer \o batch) /\ Day[Head(batch)] = BatchDay
      BY <1>1, <1>5 DEF BatchDay
    <3>2. buffer \o batch \in Seq(Event) /\ Elems(buffer \o batch) = Elems(buffer) \cup Elems(batch)
      BY <1>2, <1>3, Joined
    <3>3. FileOrder(accepted, rotated, active, buffer \o batch, Elems(queue))
      BY <1>2, <1>3, FileJoined
    <3>4. BeginsOn(active, buffer, BatchDay) => BeginsOn(active, buffer \o batch, BatchDay)
      BY <1>2, <1>3, <3>1, BeginsJoined
    <3>5. QED BY <3>1, <3>2, <3>3, <3>4
  <2>2. /\ Moved(active, u, active', buffer') /\ faults' \in {faults, faults \cup {"file"}}
        /\ "file" \notin faults' => active' = active \o u /\ buffer' = <<>>
    BY <1>3, <2>1, LinesMove
  <2>3. /\ FileOrder(accepted, rotated, active', buffer', Elems(queue))
        /\ active' \in Seq(Event) /\ buffer' \in Seq(Event)
        /\ Elems(active') \cup Elems(buffer') \subseteq Elems(active) \cup Elems(u)
    <3>1. PICK f, g : f = active' /\ g = buffer'
      OBVIOUS
    <3>2. Moved(active, u, f, g) /\ FileOrder(accepted, rotated, active, u, Elems(queue))
      BY <2>1, <2>2, <3>1
    <3>3. active \in Seq(Event) /\ u \in Seq(Event)
      BY <1>3, <2>1
    <3>4. /\ FileOrder(accepted, rotated, f, g, Elems(queue)) /\ f \in Seq(Event) /\ g \in Seq(Event)
          /\ Elems(f) \cup Elems(g) \subseteq Elems(active) \cup Elems(u)
      BY <3>2, <3>3, MovedOrder
    <3>5. QED BY <3>1, <3>4
  <2>4. NameInv'
    <3>1. ASSUME "rename" \notin faults' PROVE BeginsOn(active', buffer', BatchDay)
      <4>1. BeginsOn(active, u, BatchDay)
        BY <1>1, <1>2, <1>3, <2>1, <2>2, <3>1 DEF NameInv
      <4>2. QED BY <1>3, <2>1, <2>2, <4>1, MovedNames
    <3>2. \A i \in 1..Len(rotated) : "rename" \notin faults' => rotated[i].day = Day[Head(rotated[i].lines)]
      BY <1>3, <2>2 DEF NameInv
    <3>3. stamp' = stamp /\ rotated' = rotated /\ stamp = BatchDay
      BY <1>1
    <3>4. "rename" \notin faults' /\ stamp' # Unknown => BeginsOn(active, buffer, stamp)'
      BY <3>1, <3>3 DEF BeginsOn
    <3>5. QED BY <1>4, <3>2, <3>3, <3>4 DEF NameInv
  <2>5. faults' \subseteq {"lap"} =>
           buffer' = <<>> /\ Filed \cup Elems(batch) \subseteq LinesOf(rotated) \cup Elems(active')
    <3>1. Elems(active \o u) = Elems(active) \cup Elems(u)
      BY <1>3, <2>1, Joined
    <3>2. QED BY <1>3, <2>1, <2>2, <3>1
  <2>6. faults \subseteq faults' /\ faults' \subseteq faults \cup {"file", "rename"}
    BY <2>2
  <2>7. LinesOf(rotated') \cup Elems(active') \cup Elems(buffer')
           \subseteq LinesOf(rotated) \cup Elems(active) \cup Elems(buffer) \cup Elems(batch)
    BY <1>1, <2>1, <2>3
  <2>8. QED BY <1>1, <1>4, <2>3, <2>4, <2>5, <2>6, <2>7, WrittenKeeps
<1>6. CASE ~open
  <2>1. active' = active /\ buffer' = buffer /\ faults' = faults \cup {"file"}
    BY <1>1, <1>6
  <2>2. FileOrder(accepted, rotated', active', buffer', Elems(queue))
    BY <1>1, <1>2, <2>1, FileLess
  <2>3. NameInv'
    <3>1. BeginsOn(active, buffer, stamp)' <=> BeginsOn(active, buffer, stamp)
      BY <1>1, <2>1 DEF BeginsOn
    <3>2. QED BY <1>1, <1>3, <2>1, <3>1 DEF NameInv
  <2>4. ~(faults' \subseteq {"lap"})
    BY <2>1
  <2>5. QED BY <1>1, <1>3, <1>4, <2>1, <2>2, <2>3, <2>4, WrittenKeeps
<1>7. QED BY <1>5, <1>6

(* The writer of before is flushed and dropped. *)
LEMMA FlushKeeps ==
  ASSUME AuditInv, worker = "file", NEW file \in Flushed
  PROVE  /\ FileOrder(accepted, rotated, file, <<>>, Elems(batch) \cup Elems(queue))
         /\ file \in Seq(Event) /\ Elems(file) \subseteq Elems(active) \cup Elems(buffer)
         /\ "rename" \notin faults /\ stamp # Unknown => BeginsOn(file, <<>>, stamp)
         /\ stamp = Unknown => file = active
<1>1. /\ FileOrder(accepted, rotated, active, buffer, Elems(batch) \cup Elems(queue))
      /\ AuditTypeOK /\ NameInv /\ active \in Seq(Event) /\ buffer \in Seq(Event) /\ <<>> \in Seq(Event)
  BY AboutToWrite, AuditTypes, EmptySeq DEF AuditInv
<1>2. Moved(active, buffer, file, <<>>)
  BY <1>1, FlushedMoves
<1>3. /\ FileOrder(accepted, rotated, file, <<>>, Elems(batch) \cup Elems(queue)) /\ file \in Seq(Event)
      /\ Elems(file) \subseteq Elems(active) \cup Elems(buffer)
  BY <1>1, <1>2, MovedOrder
<1>4. ASSUME "rename" \notin faults, stamp # Unknown PROVE BeginsOn(file, <<>>, stamp)
  <2>1. BeginsOn(active, buffer, stamp)
    BY <1>1, <1>4 DEF NameInv
  <2>2. QED BY <1>1, <1>2, <2>1, MovedNames
<1>5. stamp = Unknown => file = active
  BY <1>1 DEF NameInv, Flushed
<1>6. QED BY <1>3, <1>4, <1>5

LEMMA NoDirectoryKeeps == ASSUME AuditInv, NoDirectory PROVE AuditInv'
<1>1. PICK file \in Flushed : active' = file
  BY DEF NoDirectory
<1>2. /\ worker = "file" /\ buffer' = <<>> /\ open' = FALSE /\ faults' = faults \cup {"file"}
      /\ Written /\ UNCHANGED <<stamp, rotated>>
  BY DEF NoDirectory
<1>3. /\ FileOrder(accepted, rotated, file, <<>>, Elems(batch) \cup Elems(queue))
      /\ file \in Seq(Event) /\ Elems(file) \subseteq Elems(active) \cup Elems(buffer)
      /\ "rename" \notin faults /\ stamp # Unknown => BeginsOn(file, <<>>, stamp)
  BY <1>2, FlushKeeps
<1>4. AuditTypeOK /\ NameInv /\ rotated \in Seq(FileOf) /\ <<>> \in Seq(Event)
  BY AuditTypes, EmptySeq DEF AuditInv
<1>5. FileOrder(accepted, rotated', active', buffer', Elems(queue))
  BY <1>1, <1>2, <1>3, FileLess
<1>6. NameInv'
  <2>1. "rename" \notin faults' /\ stamp' # Unknown => BeginsOn(active, buffer, stamp)'
    BY <1>1, <1>2, <1>3 DEF BeginsOn
  <2>2. QED BY <1>2, <1>4, <2>1 DEF NameInv
<1>7. ~(faults' \subseteq {"lap"}) /\ open' \in BOOLEAN /\ stamp' \in Days \cup {Unknown}
      /\ faults \subseteq faults' /\ faults' \subseteq faults \cup {"file", "rename"}
  BY <1>2, <1>4 DEF AuditTypeOK
<1>8. Elems(active') \cup Elems(buffer') \subseteq Elems(active) \cup Elems(buffer) \cup Elems(batch)
  BY <1>1, <1>2, <1>3, NoElems
<1>9. /\ active' \in Seq(Event) /\ buffer' \in Seq(Event) /\ rotated' \in Seq(FileOf)
      /\ LinesOf(rotated') \cup Elems(active') \cup Elems(buffer')
           \subseteq LinesOf(rotated) \cup Elems(active) \cup Elems(buffer) \cup Elems(batch)
  BY <1>1, <1>2, <1>3, <1>4, <1>8
<1>10. QED BY <1>2, <1>5, <1>6, <1>7, <1>9, WrittenKeeps

(* The file of before is put aside, if it is due and can be renamed. *)
Due == PreviousDay \notin {Unknown, BatchDay}

LEMMA PreviousDayIsADay ==
  ASSUME AuditTypeOK PROVE PreviousDay \in Days \cup {Unknown}
<1>1. active \in Seq(Event) /\ stamp \in Days \cup {Unknown}
  BY AuditTypes DEF AuditTypeOK
<1>2. active # <<>> => Head(active) \in Event
  BY <1>1, HeadAndTail
<1>3. QED BY <1>1, <1>2 DEF PreviousDay, Days

LEMMA AsideKeeps ==
  ASSUME AuditInv, worker = "file", stamp # BatchDay, NEW file \in Flushed, NEW aside \in BOOLEAN,
         aside => Due,
         NEW kept, kept = (IF aside THEN <<>> ELSE file),
         rotated' = IF aside /\ file # <<>>
                      THEN Append(rotated, [day |-> PreviousDay, lines |-> file]) ELSE rotated
  PROVE  /\ FileOrder(accepted, rotated', kept, <<>>, Elems(batch) \cup Elems(queue))
         /\ kept \in Seq(Event) /\ rotated' \in Seq(FileOf)
         /\ LinesOf(rotated') \cup Elems(kept) = LinesOf(rotated) \cup Elems(file)
         /\ "rename" \notin faults =>
              /\ \A i \in 1..Len(rotated') : rotated'[i].day = Day[Head(rotated'[i].lines)]
              /\ aside \/ ~Due => BeginsOn(kept, <<>>, BatchDay)
<1>1. /\ FileOrder(accepted, rotated, file, <<>>, Elems(batch) \cup Elems(queue))
      /\ file \in Seq(Event)
      /\ "rename" \notin faults /\ stamp # Unknown => BeginsOn(file, <<>>, stamp)
      /\ stamp = Unknown => file = active
  BY FlushKeeps
<1>2. AuditTypeOK /\ NameInv /\ rotated \in Seq(FileOf) /\ <<>> \in Seq(Event)
  BY AuditTypes, EmptySeq DEF AuditInv
<1>3. aside => PreviousDay \in Days /\ PreviousDay # Unknown
  BY <1>2, PreviousDayIsADay DEF Due
<1>4. PICK r : r = rotated'
  OBVIOUS
<1>5. ASSUME "rename" \notin faults, file # <<>>, PreviousDay # Unknown PROVE Day[Head(file)] = PreviousDay
  BY <1>1, <1>5 DEF PreviousDay, BeginsOn
<1>6. ASSUME "rename" \notin faults, file # <<>>, PreviousDay = Unknown PROVE FALSE
  BY <1>1, <1>6, <1>2, HeadAndTail, AuditAssumption DEF PreviousDay
<1>7. CASE aside /\ file # <<>>
  <2>1. PICK f : f = [day |-> PreviousDay, lines |-> file]
    OBVIOUS
  <2>2. r = Append(rotated, f) /\ kept = <<>> /\ f \in FileOf /\ f.lines = file /\ f.day = PreviousDay
    BY <1>1, <1>3, <1>4, <1>7, <2>1 DEF FileOf
  <2>3. r \in Seq(FileOf) /\ LinesOf(r) = LinesOf(rotated) \cup Elems(file)
    BY <1>2, <2>2, LinesAppended, AppendProperties
  <2>4. FileOrder(accepted, r, kept, <<>>, Elems(batch) \cup Elems(queue))
    BY <1>1, <1>2, <1>3, <1>7, <2>1, <2>2, FileRotates
  <2>5. ASSUME "rename" \notin faults PROVE \A i \in 1..Len(r) : r[i].day = Day[Head(r[i].lines)]
    <3>1. /\ Len(r) = Len(rotated) + 1 /\ Len(rotated) \in Nat
          /\ r[Len(rotated) + 1] = f /\ \A i \in 1..Len(rotated) : r[i] = rotated[i]
      BY <1>2, <2>2, AppendProperties, LenProperties
    <3>2. \A i \in 1..Len(r) : (i \in 1..Len(rotated) /\ r[i] = rotated[i]) \/ r[i] = f
      BY <3>1
    <3>3. Day[Head(file)] = PreviousDay
      BY <1>3, <1>5, <1>7, <2>5
    <3>4. \A i \in 1..Len(rotated) : rotated[i].day = Day[Head(rotated[i].lines)]
      BY <1>2, <2>5 DEF NameInv
    <3>5. QED BY <2>2, <3>2, <3>3, <3>4
  <2>6. BeginsOn(kept, <<>>, BatchDay)
    BY <2>2 DEF BeginsOn
  <2>7. Elems(kept) = {}
    BY <2>2, NoElems
  <2>8. QED BY <1>2, <1>4, <2>2, <2>3, <2>4, <2>5, <2>6, <2>7
<1>8. CASE ~(aside /\ file # <<>>)
  <2>1. r = rotated /\ kept = file
    BY <1>4, <1>8
  <2>2. ASSUME "rename" \notin faults, aside \/ ~Due PROVE BeginsOn(kept, <<>>, BatchDay)
    <3>1. CASE file = <<>>
      BY <2>1, <3>1 DEF BeginsOn
    <3>2. CASE file # <<>>
      <4>1. PreviousDay = BatchDay /\ PreviousDay # Unknown
        BY <1>6, <1>8, <2>2, <3>2 DEF Due
      <4>2. Day[Head(file)] = BatchDay
        BY <1>5, <2>2, <3>2, <4>1
      <4>3. QED BY <2>1, <3>2, <4>2 DEF BeginsOn
    <3>3. QED BY <3>1, <3>2
  <2>3. "rename" \notin faults => \A i \in 1..Len(r) : r[i].day = Day[Head(r[i].lines)]
    BY <1>2, <2>1 DEF NameInv
  <2>4. QED BY <1>1, <1>2, <1>4, <2>1, <2>2, <2>3
<1>9. QED BY <1>7, <1>8

LEMMA RotateKeeps == ASSUME AuditInv, Rotate PROVE AuditInv'
<1>1. worker = "file" /\ stamp # BatchDay /\ Written
  BY DEF Rotate
<1>2. PICK file \in Flushed, renamed \in BOOLEAN, opened \in BOOLEAN :
     LET due == PreviousDay \notin {Unknown, BatchDay}
         kept == IF due /\ renamed THEN <<>> ELSE file
         wrong == LostIn(file) \cup (IF due /\ ~renamed THEN {"rename"} ELSE {})
     IN /\ renamed \/ due
        /\ rotated' = IF due /\ renamed /\ file # <<>>
                        THEN Append(rotated, [day |-> PreviousDay, lines |-> file]) ELSE rotated
        /\ open' = opened /\ stamp' = (IF opened THEN BatchDay ELSE Unknown)
        /\ IF opened
             THEN \/ active' = kept \o batch /\ buffer' = <<>> /\ faults' = faults \cup wrong
                  \/ /\ faults' = faults \cup wrong \cup {"file"}
                     /\ \E i \in 0..Len(batch) - 1 : \E j \in i..Len(batch) :
                          active' = kept \o SubSeq(batch, 1, i) /\ buffer' = SubSeq(batch, i + 1, j)
             ELSE active' = kept /\ buffer' = <<>> /\ faults' = faults \cup wrong \cup {"file"}
  BY Zenon DEF Rotate
<1>3. PICK aside \in BOOLEAN : aside = (Due /\ renamed)
  OBVIOUS
<1>4. PICK kept, wrong :
        /\ kept = IF Due /\ renamed THEN <<>> ELSE file
        /\ wrong = LostIn(file) \cup (IF Due /\ ~renamed THEN {"rename"} ELSE {})
  OBVIOUS
<1>5. /\ aside => Due
      /\ kept = IF aside THEN <<>> ELSE file
      /\ wrong = LostIn(file) \cup (IF Due /\ ~aside THEN {"rename"} ELSE {})
      /\ rotated' = IF aside /\ file # <<>>
                      THEN Append(rotated, [day |-> PreviousDay, lines |-> file]) ELSE rotated
      /\ open' = opened /\ stamp' = (IF opened THEN BatchDay ELSE Unknown)
      /\ IF opened
           THEN \/ active' = kept \o batch /\ buffer' = <<>> /\ faults' = faults \cup wrong
                \/ /\ faults' = faults \cup wrong \cup {"file"}
                   /\ \E i \in 0..Len(batch) - 1 : \E j \in i..Len(batch) :
                        active' = kept \o SubSeq(batch, 1, i) /\ buffer' = SubSeq(batch, i + 1, j)
           ELSE active' = kept /\ buffer' = <<>> /\ faults' = faults \cup wrong \cup {"file"}
  <2>1. aside => Due
    BY <1>3
  <2>2. kept = IF aside THEN <<>> ELSE file
    BY <1>3, <1>4
  <2>3. wrong = LostIn(file) \cup (IF Due /\ ~aside THEN {"rename"} ELSE {})
    BY <1>3, <1>4
  <2>4. rotated' = IF aside /\ file # <<>>
                     THEN Append(rotated, [day |-> PreviousDay, lines |-> file]) ELSE rotated
    BY <1>2, <1>3 DEF Due
  <2>5. IF opened
             THEN \/ active' = kept \o batch /\ buffer' = <<>> /\ faults' = faults \cup wrong
                  \/ /\ faults' = faults \cup wrong \cup {"file"}
                     /\ \E i \in 0..Len(batch) - 1 : \E j \in i..Len(batch) :
                          active' = kept \o SubSeq(batch, 1, i) /\ buffer' = SubSeq(batch, i + 1, j)
             ELSE active' = kept /\ buffer' = <<>> /\ faults' = faults \cup wrong \cup {"file"}
    BY <1>2, <1>4 DEF Due
  <2>6. QED BY <1>2, <2>1, <2>2, <2>3, <2>4, <2>5
<1>6. /\ FileOrder(accepted, rotated', kept, <<>>, Elems(batch) \cup Elems(queue))
      /\ kept \in Seq(Event) /\ rotated' \in Seq(FileOf)
      /\ LinesOf(rotated') \cup Elems(kept) = LinesOf(rotated) \cup Elems(file)
      /\ "rename" \notin faults =>
           /\ \A i \in 1..Len(rotated') : rotated'[i].day = Day[Head(rotated'[i].lines)]
           /\ aside \/ ~Due => BeginsOn(kept, <<>>, BatchDay)
  BY <1>1, <1>5, AsideKeeps
<1>7. /\ batch \in Seq(Event) /\ BatchDay \in Days /\ BatchDay # Unknown
      /\ Ordered(accepted, batch) /\ Precede(accepted, Elems(batch), Elems(queue))
      /\ faults \subseteq {"lap"} => buffer = <<>>
  BY <1>1, AboutToWrite
<1>8. Elems(file) \subseteq Elems(active) \cup Elems(buffer)
  BY <1>1, FlushKeeps
<1>9. /\ AuditTypeOK /\ active \in Seq(Event) /\ buffer \in Seq(Event) /\ <<>> \in Seq(Event)
      /\ Filed = LinesOf(rotated) \cup Elems(active)
  BY AuditTypes, EmptySeq DEF AuditInv
<1>10. /\ faults \subseteq faults' /\ faults' \subseteq faults \cup {"file", "rename"}
       /\ "file" \notin faults' => opened /\ LostIn(file) = {}
       /\ "rename" \notin faults' => (aside \/ ~Due) /\ "rename" \notin faults
  BY <1>5 DEF LostIn
<1>11. open' \in BOOLEAN /\ stamp' \in Days \cup {Unknown}
  BY <1>5, <1>7
<1>12. CASE opened
  <2>1. /\ Moved(kept, batch, active', buffer') /\ stamp' = BatchDay
        /\ "file" \notin faults' => active' = kept \o batch /\ buffer' = <<>>
    <3>1. CASE active' = kept \o batch /\ buffer' = <<>>
      BY <1>5, <1>7, <1>12, <3>1, MovedAll
    <3>2. CASE /\ faults' = faults \cup wrong \cup {"file"}
               /\ \E i \in 0..Len(batch) - 1 : \E j \in i..Len(batch) :
                    active' = kept \o SubSeq(batch, 1, i) /\ buffer' = SubSeq(batch, i + 1, j)
      <4>1. PICK i \in 0..Len(batch) - 1 : \E j \in i..Len(batch) :
                    active' = kept \o SubSeq(batch, 1, i) /\ buffer' = SubSeq(batch, i + 1, j)
        BY <3>2
      <4>2. i \in 0..Len(batch)
        BY <1>7, LenProperties
      <4>3. QED BY <1>5, <1>12, <3>2, <4>1, <4>2 DEF Moved
    <3>3. QED BY <1>5, <1>12, <3>1, <3>2
  <2>2. FileOrder(accepted, rotated', kept, batch, Elems(queue))
    <3>1. FileOrder(accepted, rotated', kept, <<>> \o batch, Elems(queue))
      BY <1>6, <1>7, <1>9, FileJoined
    <3>2. <<>> \o batch = batch
      BY <1>7, ConcatEmptySeq
    <3>3. QED BY <3>1, <3>2
  <2>3. PICK f, g : f = active' /\ g = buffer'
    OBVIOUS
  <2>4. /\ FileOrder(accepted, rotated', f, g, Elems(queue)) /\ f \in Seq(Event) /\ g \in Seq(Event)
        /\ Elems(f) \cup Elems(g) \subseteq Elems(kept) \cup Elems(batch)
    <3>1. PICK r : r = rotated'
      OBVIOUS
    <3>2. Moved(kept, batch, f, g) /\ FileOrder(accepted, r, kept, batch, Elems(queue))
      BY <2>1, <2>2, <2>3, <3>1
    <3>3. QED BY <1>6, <1>7, <3>1, <3>2, MovedOrder
  <2>5. NameInv'
    <3>1. ASSUME "rename" \notin faults' PROVE BeginsOn(f, g, BatchDay)
      <4>1. BeginsOn(kept, batch, BatchDay)
        <5>1. BeginsOn(kept, <<>>, BatchDay)
          BY <1>6, <1>10, <3>1
        <5>2. QED BY <5>1 DEF BeginsOn, BatchDay
      <4>2. Moved(kept, batch, f, g)
        BY <2>1, <2>3
      <4>3. QED BY <1>6, <1>7, <4>1, <4>2, MovedNames
    <3>2. "rename" \notin faults' => \A i \in 1..Len(rotated') : rotated'[i].day = Day[Head(rotated'[i].lines)]
      BY <1>6, <1>10
    <3>3. "rename" \notin faults' => BeginsOn(active, buffer, stamp)'
      BY <2>1, <2>3, <3>1 DEF BeginsOn
    <3>4. stamp' # Unknown
      BY <1>7, <2>1
    <3>5. QED BY <3>2, <3>3, <3>4 DEF NameInv
  <2>6. faults' \subseteq {"lap"} =>
           buffer' = <<>> /\ Filed \cup Elems(batch) \subseteq LinesOf(rotated') \cup Elems(active')
    <3>1. Elems(kept \o batch) = Elems(kept) \cup Elems(batch)
      BY <1>6, <1>7, Joined
    <3>2. faults' \subseteq {"lap"} => file = active
      BY <1>7, <1>9, <1>10, ConcatEmptySeq DEF LostIn
    <3>3. QED BY <1>6, <1>9, <2>1, <3>1, <3>2
  <2>7. LinesOf(rotated') \cup Elems(active') \cup Elems(buffer')
           \subseteq LinesOf(rotated) \cup Elems(active) \cup Elems(buffer) \cup Elems(batch)
    BY <1>6, <1>8, <2>3, <2>4
  <2>8. FileOrder(accepted, rotated', active', buffer', Elems(queue)) /\ active' \in Seq(Event) /\ buffer' \in Seq(Event)
    BY <2>3, <2>4
  <2>9. QED BY <1>1, <1>6, <1>10, <1>11, <2>5, <2>6, <2>7, <2>8, WrittenKeeps
<1>13. CASE ~opened
  <2>1. active' = kept /\ buffer' = <<>> /\ stamp' = Unknown /\ "file" \in faults'
    BY <1>5, <1>13
  <2>2. FileOrder(accepted, rotated', kept, <<>>, Elems(queue))
    BY <1>6, FileLess
  <2>3. NameInv'
    BY <1>6, <1>10, <2>1 DEF NameInv
  <2>4. LinesOf(rotated') \cup Elems(active') \cup Elems(buffer')
           \subseteq LinesOf(rotated) \cup Elems(active) \cup Elems(buffer) \cup Elems(batch)
    BY <1>6, <1>8, <2>1, NoElems
  <2>5. ~(faults' \subseteq {"lap"})
    BY <2>1
  <2>6. QED BY <1>1, <1>6, <1>9, <1>10, <1>11, <2>1, <2>2, <2>3, <2>4, <2>5, WrittenKeeps
<1>14. QED BY <1>12, <1>13

-----------------------------------------------------------------------------
(* The bridge and the writer *)

LEMMA HandOverKeeps == ASSUME AuditInv, HandOver PROVE AuditInv'
<1>1. /\ worker = "hand" /\ Len(bridge) < BridgeCap
      /\ bridge' = Append(bridge, batch) /\ batch' = <<>> /\ worker' = "recv"
      /\ UNCHANGED <<holder, queue, inserting, tables, ledger, crashes, accepted, faults>>
      /\ UNCHANGED <<ringVars, rec, at, head, ring, active, buffer, open, stamp, rotated>>
  BY DEF HandOver, ringVars, fileVars
<1>2. AuditTypeOK /\ ChannelInv /\ FileInv /\ StoreInv /\ AllInv /\ NameInv /\ RecordInv
  BY DEF AuditInv
<1>3. /\ batch \in Seq(Event) /\ batch # <<>> /\ <<>> \in Seq(Event)
      /\ bridge \in Seq(Seq(Event)) /\ bridge \in Seq(Seq(Event) \ {<<>>}) /\ Len(bridge) \in Nat
  BY <1>1, <1>2, AuditTypes, EmptySeq, LenProperties DEF ChannelInv
<1>4. Rows(bridge') = Rows(bridge) \cup Elems(batch)
  BY <1>1, <1>3, RowsAppended
<1>5. /\ Bridged = Rows(bridge) /\ Bridged' = Rows(bridge') /\ Filed' = Filed
      /\ ToStore' = Elems(queue) /\ ToStore = Elems(batch) \cup Elems(queue)
      /\ ToFile' = Elems(queue) /\ ToFile = Elems(queue)
  BY <1>1, NoElems DEF Bridged, Rows, Filed, ToStore, ToFile
<1>6. InFlight' = InFlight
  BY <1>1, <1>4, <1>5, NoElems DEF InFlight
<1>7. AuditTypeOK'
  <2>1. PICK b : b = bridge'
    OBVIOUS
  <2>2. batch \in Seq(Event) \ {<<>>}
    BY <1>3
  <2>3. b \in Seq(Seq(Event) \ {<<>>}) /\ Len(b) = Len(bridge) + 1
    BY <1>1, <1>3, <2>1, <2>2, AppendProperties
  <2>4. Len(bridge') <= BridgeCap /\ Len(batch') <= BatchMax
    BY <1>1, <1>3, <2>1, <2>3, NoElems, AuditAssumption
  <2>5. {queue, batch, active, buffer, inserting, ledger, accepted}' \subseteq Seq(Event)
    BY <1>1, <1>2, <1>3, AuditTypes
  <2>6. (Filed \cup Elems(buffer) \cup Elems(ledger) \cup InFlight)' \subseteq Elems(accepted')
    BY <1>1, <1>2, <1>5, <1>6, AuditTypes
  <2>7. QED BY <1>1, <1>2, <2>1, <2>3, <2>4, <2>5, <2>6 DEF AuditTypeOK
<1>8. ChannelInv'
  <2>1. Ordered(accepted, <<>>) /\ Precede(accepted, Elems(<<>>), Elems(queue))
    BY NoElems, NothingOrdered DEF Precede
  <2>2. QED BY <1>1, <1>2, <2>1 DEF ChannelInv
<1>9. FileInv'
  BY <1>1, <1>2, <1>5 DEF FileInv
<1>10. StoreInv'
  <2>1. StoreOrder(accepted, ledger, inserting, Append(bridge, batch), Elems(queue))
    BY <1>2, <1>3, <1>5, StoreHanded DEF StoreInv, ChannelInv
  <2>2. QED BY <1>1, <1>5, <2>1 DEF StoreInv
<1>11. AllInv' /\ NameInv'
  BY <1>1, <1>2, <1>4, <1>5 DEF AllInv, NameInv
<1>12. RecordInv'
  BY <1>1, <1>2, RecordSame
<1>13. QED BY <1>7, <1>8, <1>9, <1>10, <1>11, <1>12 DEF AuditInv

(* What a step of the store has to show. *)
LEMMA StoringKeeps ==
  ASSUME AuditInv, Storing, worker' = worker \/ (worker = "init" /\ worker' = "recv"),
         bridge' \in Seq(Seq(Event) \ {<<>>}), Len(bridge') <= BridgeCap,
         inserting' \in Seq(Event), ledger' \in Seq(Event), tables' \in BOOLEAN,
         (inserting' # <<>>) = (holder' = "audit"),
         faults \subseteq faults', faults' \subseteq faults \cup {"db"},
         StoreOrder(accepted, ledger', inserting', bridge', ToStore),
         Elems(ledger') \cup Elems(inserting') \cup Rows(bridge')
           \subseteq Elems(ledger) \cup Elems(inserting) \cup Rows(bridge),
         faults' \subseteq {"lap"} => Elems(ledger) \cup Elems(inserting) \cup Rows(bridge)
           \subseteq Elems(ledger') \cup Elems(inserting') \cup Rows(bridge')
  PROVE  AuditInv'
<1>1. /\ UNCHANGED <<queue, batch, crashes, accepted>>
      /\ UNCHANGED <<ringVars, rec, at, head, ring, active, buffer, open, stamp, rotated>>
  BY DEF Storing, ringVars, fileVars
<1>2. AuditTypeOK /\ ChannelInv /\ FileInv /\ AllInv /\ NameInv /\ RecordInv
  BY DEF AuditInv
<1>3. worker = worker' \/ (batch = <<>> /\ worker # "hand" /\ worker' # "hand")
  BY <1>2 DEF ChannelInv
<1>4. /\ Bridged = Rows(bridge) /\ Bridged' = Rows(bridge') /\ Filed' = Filed /\ ToStore' = ToStore
      /\ ToFile' = ToFile
  BY <1>1, <1>3 DEF Bridged, Rows, Filed, ToStore, ToFile
<1>5. /\ InFlight = ToStore \cup Rows(bridge) \cup Elems(inserting)
      /\ InFlight' = ToStore \cup Rows(bridge') \cup Elems(inserting')
  BY <1>1, <1>4 DEF InFlight, ToStore
<1>6. AuditTypeOK'
  <2>1. {queue, batch, active, buffer, inserting, ledger, accepted}' \subseteq Seq(Event)
    BY <1>1, <1>2, AuditTypes
  <2>2. (Filed \cup Elems(buffer) \cup Elems(ledger) \cup InFlight)' \subseteq Elems(accepted')
    <3>1. Filed \cup Elems(buffer) \cup Elems(ledger) \cup InFlight \subseteq Elems(accepted)
      BY <1>2, AuditTypes
    <3>2. QED BY <1>1, <1>4, <1>5, <3>1
  <2>3. worker' \in {"init", "recv", "collect", "file", "hand"}
        /\ faults' \subseteq {"file", "rename", "db", "lap", "crash"}
    BY <1>2 DEF AuditTypeOK
  <2>4. QED BY <1>1, <1>2, <2>1, <2>2, <2>3 DEF AuditTypeOK
<1>7. ChannelInv'
  BY <1>1, <1>2 DEF ChannelInv
<1>8. FileInv' /\ StoreInv'
  BY <1>1, <1>2, <1>4 DEF FileInv, StoreInv
<1>9. AllInv' /\ NameInv'
  BY <1>1, <1>2, <1>4 DEF AllInv, NameInv
<1>10. RecordInv'
  BY <1>1, <1>2, RecordSame
<1>11. QED BY <1>6, <1>7, <1>8, <1>9, <1>10 DEF AuditInv

LEMMA InitTablesKeeps == ASSUME AuditInv, InitTables PROVE AuditInv'
<1>1. /\ worker = "init" /\ worker' = "recv" /\ holder' = holder /\ Storing
      /\ \/ tables' = TRUE /\ faults' = faults
         \/ tables' = tables /\ faults' = faults \cup {"db"}
      /\ UNCHANGED <<bridge, inserting, ledger>>
  BY DEF InitTables, WorkerAfterInit, InPassing
<1>2. AuditTypeOK /\ StoreInv /\ inserting \in Seq(Event) /\ ledger \in Seq(Event)
  BY AuditTypes DEF AuditInv
<1>3. /\ bridge' \in Seq(Seq(Event) \ {<<>>}) /\ Len(bridge') <= BridgeCap /\ tables' \in BOOLEAN
      /\ (inserting' # <<>>) = (holder' = "audit")
      /\ StoreOrder(accepted, ledger', inserting', bridge', ToStore)
  BY <1>1, <1>2 DEF AuditTypeOK, StoreInv
<1>4. faults \subseteq faults' /\ faults' \subseteq faults \cup {"db"}
  BY <1>1
<1>5. QED BY <1>1, <1>2, <1>3, <1>4, StoringKeeps

LEMMA BeginBatchKeeps == ASSUME AuditInv, BeginBatch PROVE AuditInv'
<1>1. PICK b, t : b = Tail(bridge) /\ t = Head(bridge)
  OBVIOUS
<1>2. /\ bridge # <<>> /\ bridge' = b
      /\ \/ holder = "free" /\ holder' = "audit" /\ inserting' = t /\ faults' = faults
         \/ holder = "free" /\ holder' = holder /\ faults' = faults \cup {"db"} /\ inserting' = inserting
      /\ UNCHANGED <<worker, tables, ledger>> /\ Storing
  BY <1>1 DEF BeginBatch, Takes, InPassing
<1>3. AuditTypeOK /\ StoreInv /\ inserting \in Seq(Event) /\ ledger \in Seq(Event)
      /\ bridge \in Seq(Seq(Event)) /\ bridge \in Seq(Seq(Event) \ {<<>>})
  BY AuditTypes DEF AuditInv
<1>4. inserting = <<>>
  BY <1>2, <1>3 DEF AuditTypeOK
<1>5. /\ t \in Seq(Event) \ {<<>>} /\ b \in Seq(Seq(Event) \ {<<>>}) /\ Len(b) = Len(bridge) - 1
      /\ Len(bridge) \in Nat /\ Len(bridge) <= BridgeCap /\ BridgeCap \in Nat
  BY <1>1, <1>2, <1>3, HeadTailProperties, LenProperties, AuditAssumption DEF AuditTypeOK
<1>6. Rows(bridge) = Elems(t) \cup Rows(b)
  BY <1>1, <1>2, <1>3, RowsFirst
<1>7. StoreOrder(accepted, ledger, t, b, ToStore) /\ StoreOrder(accepted, ledger, <<>>, b, ToStore)
  BY <1>1, <1>2, <1>3, <1>4, StoreBegins DEF StoreInv
<1>8. Len(bridge') <= BridgeCap /\ tables' \in BOOLEAN /\ bridge' \in Seq(Seq(Event) \ {<<>>})
      /\ ledger' \in Seq(Event)
  BY <1>2, <1>3, <1>5 DEF AuditTypeOK
<1>9. Elems(inserting) = {}
  BY <1>4, NoElems
<1>10. CASE holder' = "audit" /\ inserting' = t /\ faults' = faults
  <2>1. /\ inserting' \in Seq(Event) /\ (inserting' # <<>>) = (holder' = "audit")
        /\ StoreOrder(accepted, ledger', inserting', bridge', ToStore)
    BY <1>2, <1>5, <1>7, <1>10
  <2>2. Elems(ledger') \cup Elems(inserting') \cup Rows(bridge')
           = Elems(ledger) \cup Elems(inserting) \cup Rows(bridge)
    BY <1>2, <1>6, <1>9, <1>10
  <2>3. QED BY <1>2, <1>8, <1>10, <2>1, <2>2, StoringKeeps
<1>11. CASE holder = "free" /\ holder' = holder /\ faults' = faults \cup {"db"} /\ inserting' = inserting
  <2>1. /\ inserting' \in Seq(Event) /\ (inserting' # <<>>) = (holder' = "audit")
        /\ StoreOrder(accepted, ledger', inserting', bridge', ToStore)
    BY <1>2, <1>3, <1>4, <1>7, <1>11
  <2>2. Elems(ledger') \cup Elems(inserting') \cup Rows(bridge')
           \subseteq Elems(ledger) \cup Elems(inserting) \cup Rows(bridge)
    BY <1>2, <1>6, <1>11
  <2>3. ~(faults' \subseteq {"lap"}) /\ faults \subseteq faults' /\ faults' \subseteq faults \cup {"db"}
    BY <1>11
  <2>4. QED BY <1>2, <1>8, <2>1, <2>2, <2>3, StoringKeeps
<1>12. QED BY <1>2, <1>10, <1>11

LEMMA InsertRowKeeps == ASSUME AuditInv, InsertRow PROVE AuditInv'
<1>1. PICK x, t, l : x = Head(inserting) /\ t = Tail(inserting) /\ l = Append(ledger, x)
  OBVIOUS
<1>2. /\ inserting # <<>> /\ ledger' = l /\ inserting' = t
      /\ IF inserting' = <<>> THEN holder = "audit" /\ holder' = "free" ELSE holder' = holder
      /\ UNCHANGED <<worker, bridge, tables, faults>> /\ Storing
  BY <1>1 DEF InsertRow, Gives
<1>3. AuditTypeOK /\ StoreInv /\ inserting \in Seq(Event) /\ ledger \in Seq(Event)
  BY AuditTypes DEF AuditInv
<1>4. /\ x \in Event /\ t \in Seq(Event) /\ Elems(inserting) = {x} \cup Elems(t)
      /\ l \in Seq(Event) /\ Elems(l) = Elems(ledger) \cup {x}
  BY <1>1, <1>2, <1>3, HeadAndTail, Appended
<1>5. StoreOrder(accepted, l, t, bridge, ToStore)
  BY <1>1, <1>2, <1>3, StoreRow DEF StoreInv
<1>6. /\ bridge' \in Seq(Seq(Event) \ {<<>>}) /\ Len(bridge') <= BridgeCap /\ tables' \in BOOLEAN
      /\ inserting' \in Seq(Event) /\ ledger' \in Seq(Event)
  BY <1>2, <1>3, <1>4 DEF AuditTypeOK
<1>7. (inserting' # <<>>) = (holder' = "audit")
  BY <1>2, <1>3 DEF AuditTypeOK
<1>8. Elems(ledger') \cup Elems(inserting') \cup Rows(bridge')
        = Elems(ledger) \cup Elems(inserting) \cup Rows(bridge)
  BY <1>2, <1>4
<1>9. StoreOrder(accepted, ledger', inserting', bridge', ToStore)
  BY <1>2, <1>5
<1>10. QED BY <1>2, <1>6, <1>7, <1>8, <1>9, StoringKeeps

LEMMA InsertFailsKeeps == ASSUME AuditInv, InsertFails PROVE AuditInv'
<1>1. /\ holder' = "free" /\ inserting' = <<>> /\ faults' = faults \cup {"db"}
      /\ UNCHANGED <<worker, bridge, tables, ledger>> /\ Storing
  BY DEF InsertFails, Gives
<1>2. AuditTypeOK /\ StoreInv /\ ledger \in Seq(Event) /\ <<>> \in Seq(Event)
  BY AuditTypes, EmptySeq DEF AuditInv
<1>3. StoreOrder(accepted, ledger, <<>>, bridge, ToStore)
  BY <1>2, StoreLess DEF StoreInv
<1>4. /\ bridge' \in Seq(Seq(Event) \ {<<>>}) /\ Len(bridge') <= BridgeCap /\ tables' \in BOOLEAN
      /\ inserting' \in Seq(Event) /\ ledger' \in Seq(Event) /\ (inserting' # <<>>) = (holder' = "audit")
  BY <1>1, <1>2 DEF AuditTypeOK
<1>5. Elems(ledger') \cup Elems(inserting') \cup Rows(bridge')
        \subseteq Elems(ledger) \cup Elems(inserting) \cup Rows(bridge)
  BY <1>1, NoElems
<1>6. ~(faults' \subseteq {"lap"}) /\ faults \subseteq faults' /\ faults' \subseteq faults \cup {"db"}
  BY <1>1
<1>7. StoreOrder(accepted, ledger', inserting', bridge', ToStore)
  BY <1>1, <1>3
<1>8. QED BY <1>1, <1>4, <1>5, <1>6, <1>7, StoringKeeps

-----------------------------------------------------------------------------
(* Begin and end of the process *)

LEMMA AuditCrashKeeps == ASSUME AuditInv, AuditCrash, holder' = "free" PROVE AuditInv'
<1>1. /\ crashes < MaxCrashes /\ crashes' = crashes + 1
      /\ rec' = [e \in Event |-> IF rec[e] = "new" THEN "new" ELSE "done"]
      /\ at' = [e \in Event |-> Cardinality(Event)]
      /\ head' = 0 /\ ring' = [i \in 0..RingSize - 1 |-> Unknown]
      /\ queue' = <<>> /\ batch' = <<>> /\ worker' = "init"
      /\ buffer' = <<>> /\ open' = FALSE /\ stamp' = Unknown
      /\ bridge' = <<>> /\ inserting' = <<>>
      /\ faults' = faults \cup {"crash"}
      /\ UNCHANGED <<active, rotated, tables, ledger, accepted>>
  BY DEF AuditCrash
<1>2. AuditTypeOK /\ FileInv /\ StoreInv /\ NameInv /\ RecordInv
  BY DEF AuditInv
<1>3. /\ active \in Seq(Event) /\ ledger \in Seq(Event) /\ accepted \in Seq(Event) /\ <<>> \in Seq(Event)
      /\ Filed \cup Elems(ledger) \subseteq Elems(accepted)
      /\ Filed = LinesOf(rotated) \cup Elems(active)
  BY <1>2, AuditTypes, EmptySeq
<1>4. Elems(<<>>) = {} /\ Len(<<>>) = 0 /\ Rows(<<>>) = {}
  BY NoElems DEF Rows
<1>5. /\ ToFile' = {} /\ ToStore' = {} /\ Filed' = Filed /\ Bridged' = {} /\ InFlight' = {}
  <2>1. Bridged' = Rows(bridge')
    BY DEF Bridged, Rows
  <2>2. QED BY <1>1, <1>4, <2>1 DEF ToFile, ToStore, Filed, InFlight
<1>6. AuditTypeOK'
  <2>1. {queue, batch, active, buffer, inserting, ledger, accepted}' \subseteq Seq(Event)
    BY <1>1, <1>3
  <2>2. (Filed \cup Elems(buffer) \cup Elems(ledger) \cup InFlight)' \subseteq Elems(accepted')
    BY <1>1, <1>3, <1>4, <1>5
  <2>3. /\ rec' \in [Event -> {"new", "numbered", "stored", "done"}]
        /\ ring' \in [0..RingSize - 1 -> Event \cup {Unknown}]
    BY <1>1
  <2>4. head' \in 0..Cardinality(Event) /\ at' \in [Event -> 0..Cardinality(Event)]
    <3>1. Cardinality(Event) \in Nat
      BY SomeEvents
    <3>2. QED BY <1>1, <3>1
  <2>5. bridge' \in Seq(Seq(Event) \ {<<>>}) /\ rotated' \in Seq([day : Days, lines : Seq(Event)])
    BY <1>1, <1>2, EmptySeq DEF AuditTypeOK
  <2>6. Len(queue') <= QueueCap /\ Len(batch') <= BatchMax /\ Len(bridge') <= BridgeCap
    BY <1>1, <1>4, AuditAssumption
  <2>7. /\ stamp' \in Days \cup {Unknown} /\ open' \in BOOLEAN /\ tables' \in BOOLEAN
        /\ (inserting' # <<>>) = (holder' = "audit")
        /\ faults' \subseteq {"file", "rename", "db", "lap", "crash"}
        /\ worker' \in {"init", "recv", "collect", "file", "hand"}
    BY <1>1, <1>2 DEF AuditTypeOK
  <2>8. crashes' \in 0..MaxCrashes
    BY <1>1, <1>2, AuditAssumption DEF AuditTypeOK
  <2>9. QED BY <2>1, <2>2, <2>3, <2>4, <2>5, <2>6, <2>7, <2>8 DEF AuditTypeOK
<1>7. RecordInv'
  <2>1. Cardinality(Event) \in Nat
    BY SomeEvents
  <2>2. Numbered' = {}
    BY <1>1, <2>1 DEF Numbered
  <2>3. NumberInv'
    BY <1>1, <2>1, <2>2, FS_EmptySet DEF NumberInv
  <2>4. RingIsRecent'
    BY <1>1, <2>1 DEF RingIsRecent
  <2>5. \A e \in Elems(accepted') : rec'[e] = "done"
    <3>1. \A e \in Elems(accepted) : e \in Event /\ rec[e] = "done"
      BY <1>2, <1>3, ElementOfSeq DEF RecordInv, Elems
    <3>2. QED BY <1>1, <3>1
  <2>6. QED BY <1>1, <1>2, <2>3, <2>4, <2>5 DEF RecordInv
<1>8. ChannelInv'
  <2>1. Ordered(accepted', <<>>) /\ Precede(accepted', {}, {})
    BY NothingOrdered DEF Precede
  <2>2. QED BY <1>1, <1>4, <2>1 DEF ChannelInv
<1>9. FileInv'
  <2>1. FileOrder(accepted, rotated, active, <<>>, {})
    BY <1>2, FileLess DEF FileInv
  <2>2. QED BY <1>1, <1>5, <2>1 DEF FileInv
<1>10. StoreInv'
  <2>1. Ordered(accepted, ledger) /\ Ordered(accepted, <<>>)
    BY <1>2, NothingOrdered DEF StoreInv, StoreOrder
  <2>2. StoreOrder(accepted, ledger, <<>>, <<>>, {})
    BY <1>4, <2>1 DEF StoreOrder, Precede
  <2>3. QED BY <1>1, <1>5, <2>2 DEF StoreInv
<1>11. AllInv' /\ NameInv'
  BY <1>1, <1>2 DEF AllInv, NameInv
<1>12. QED BY <1>6, <1>7, <1>8, <1>9, <1>10, <1>11 DEF AuditInv

LEMMA AuditStarts == ASSUME AuditInit, holder = "free" PROVE AuditInv
<1>1. /\ rec = [e \in Event |-> "new"] /\ at = [e \in Event |-> Cardinality(Event)]
      /\ head = 0 /\ ring = [i \in 0..RingSize - 1 |-> Unknown]
      /\ queue = <<>> /\ batch = <<>> /\ worker = "init"
      /\ active = <<>> /\ buffer = <<>> /\ open = FALSE /\ stamp = Unknown /\ rotated = <<>>
      /\ bridge = <<>> /\ inserting = <<>> /\ tables = FALSE /\ ledger = <<>>
      /\ crashes = 0 /\ accepted = <<>> /\ faults = {}
  BY DEF AuditInit
<1>2. /\ Elems(<<>>) = {} /\ Len(<<>>) = 0 /\ Rows(<<>>) = {} /\ LinesOf(<<>>) = {} /\ <<>> \in Seq(Event)
      /\ 1..Len(<<>>) = {}
  BY NoElems, EmptySeq DEF Rows, LinesOf
<1>3. ToFile = {} /\ ToStore = {} /\ Filed = {} /\ Bridged = {} /\ InFlight = {}
  <2>1. Bridged = Rows(bridge) /\ Filed = LinesOf(rotated) \cup Elems(active)
    BY DEF Bridged, Rows, Filed, LinesOf
  <2>2. QED BY <1>1, <1>2, <2>1 DEF ToFile, ToStore, InFlight
<1>4. Cardinality(Event) \in Nat
  BY SomeEvents
<1>5. AuditTypeOK
  <2>1. bridge \in Seq(Seq(Event) \ {<<>>}) /\ rotated \in Seq([day : Days, lines : Seq(Event)])
    BY <1>1, EmptySeq
  <2>2. Len(queue) <= QueueCap /\ Len(batch) <= BatchMax /\ Len(bridge) <= BridgeCap
    BY <1>1, <1>2, AuditAssumption
  <2>3. crashes \in 0..MaxCrashes
    BY <1>1, AuditAssumption
  <2>4. {queue, batch, active, buffer, inserting, ledger, accepted} \subseteq Seq(Event)
    BY <1>1, <1>2
  <2>5. /\ rec \in [Event -> {"new", "numbered", "stored", "done"}]
        /\ head \in 0..Cardinality(Event) /\ at \in [Event -> 0..Cardinality(Event)]
        /\ ring \in [0..RingSize - 1 -> Event \cup {Unknown}]
    BY <1>1, <1>4
  <2>6. Filed \cup Elems(buffer) \cup Elems(ledger) \cup InFlight \subseteq Elems(accepted)
    BY <1>1, <1>2, <1>3
  <2>7. (inserting # <<>>) = (holder = "audit")
    BY <1>1
  <2>8. QED BY <1>1, <2>1, <2>2, <2>3, <2>4, <2>5, <2>6, <2>7 DEF AuditTypeOK
<1>6. RecordInv
  <2>1. Numbered = {}
    BY <1>1, <1>4 DEF Numbered
  <2>2. NumberInv
    BY <1>1, <1>4, <2>1, FS_EmptySet DEF NumberInv
  <2>3. RingIsRecent
    BY <1>1 DEF RingIsRecent
  <2>4. QED BY <1>1, <1>2, <2>2, <2>3 DEF RecordInv
<1>7. ChannelInv /\ FileInv /\ StoreInv
  <2>1. \A a : Ordered(a, <<>>) /\ Precede(a, {}, {})
    BY NothingOrdered DEF Precede
  <2>2. ChannelInv
    BY <1>1, <1>2, <2>1 DEF ChannelInv
  <2>3. FileInv
    BY <1>1, <1>2, <1>3, <2>1 DEF FileInv, FileOrder
  <2>4. StoreInv
    BY <1>1, <1>2, <1>3, <2>1 DEF StoreInv, StoreOrder
  <2>5. QED BY <2>2, <2>3, <2>4
<1>8. AllInv /\ NameInv
  BY <1>1, <1>2, <1>3 DEF AllInv, NameInv
<1>9. QED BY <1>5, <1>6, <1>7, <1>8 DEF AuditInv

LEMMA AuditNextKeeps == ASSUME AuditInv, AuditNext PROVE AuditInv'
<1>1. CASE Recorder
  BY <1>1, TakeNumberKeeps, FillSlotKeeps, OfferKeeps DEF Recorder
<1>2. CASE Worker
  BY <1>2, TakesKeep, BatchOverKeeps, WriteTodayKeeps, NoDirectoryKeeps, RotateKeeps, HandOverKeeps DEF Worker
<1>3. CASE StoreStep
  BY <1>3, InitTablesKeeps, BeginBatchKeeps, InsertRowKeeps, InsertFailsKeeps DEF StoreStep
<1>4. QED BY <1>1, <1>2, <1>3 DEF AuditNext

LEMMA OrderIsOrder ==
  /\ \A x, y : Earlier(x, y) <=> Before(accepted, x, y)
  /\ \A s : InOrder(s) <=> Ordered(accepted, s)
BY DEF Earlier, Before, InOrder, Ordered

LEMMA FilesOrdered == ASSUME AuditInv PROVE FilesInOrder
<1>1. /\ rotated \in Seq(FileOf) /\ active \in Seq(Event) /\ buffer \in Seq(Event) /\ Len(rotated) \in Nat
      /\ FileOrder(accepted, rotated, active, buffer, ToFile)
  BY AuditTypes, LenProperties DEF AuditInv, FileInv
<1>2. PICK u : u = active \o buffer
  OBVIOUS
<1>3. u \in Seq(Event) /\ Elems(u) = Elems(active) \cup Elems(buffer)
  BY <1>1, <1>2, Joined
<1>4. Ordered(accepted, u)
  <2>1. Precede(accepted, Elems(active), Elems(buffer))
    BY <1>1 DEF FileOrder, Precede
  <2>2. QED BY <1>1, <1>2, <2>1, OrderedJoin DEF FileOrder
<1>5. \A i \in 1..Len(rotated) : rotated[i].lines \in Seq(Event)
  <2>1. \A i \in 1..Len(rotated) : rotated[i] \in FileOf
    BY <1>1, ElementOfSeq
  <2>2. QED BY <2>1 DEF FileOf
<1>6. PICK h : h = [i \in 1..Len(rotated) |-> rotated[i].lines]
  OBVIOUS
<1>7. h \in Seq(Seq(Event)) /\ Len(h) = Len(rotated) /\ \A i \in 1..Len(rotated) : h[i] = rotated[i].lines
  BY <1>1, <1>5, <1>6
<1>8. PICK g : g = Files
  OBVIOUS
<1>9. /\ Len(g) = Len(rotated) + 1 /\ g[Len(rotated) + 1] = u
      /\ \A i \in 1..Len(rotated) : g[i] = rotated[i].lines
  BY <1>2, <1>3, <1>6, <1>7, <1>8, AppendProperties DEF Files
<1>10. \A i \in 1..Len(g) : (i \in 1..Len(rotated) /\ g[i] = rotated[i].lines) \/ (i = Len(rotated) + 1 /\ g[i] = u)
  BY <1>1, <1>9
<1>11. \A i \in 1..Len(g) : InOrder(g[i])
  BY <1>1, <1>4, <1>10, OrderIsOrder DEF FileOrder
<1>12. ASSUME NEW i \in 1..Len(g), NEW j \in i + 1..Len(g) PROVE Precede(accepted, Elems(g[i]), Elems(g[j]))
  <2>1. i \in 1..Len(rotated) /\ g[i] = rotated[i].lines /\ j \in 1..Len(g) /\ i < j
    BY <1>1, <1>9
  <2>2. CASE j \in 1..Len(rotated) /\ g[j] = rotated[j].lines
    BY <1>1, <2>1, <2>2 DEF FileOrder
  <2>3. CASE g[j] = u
    BY <1>1, <1>3, <2>1, <2>3 DEF FileOrder, Precede
  <2>4. QED BY <1>10, <2>1, <2>2, <2>3
<1>13. \A i \in 1..Len(g) : \A j \in i + 1..Len(g) : \A x \in Elems(g[i]), y \in Elems(g[j]) : Earlier(x, y)
  BY <1>12, OrderIsOrder DEF Precede
<1>14. QED BY <1>8, <1>11, <1>13 DEF FilesInOrder

LEMMA AuditFaithful == ASSUME AuditInv PROVE TrailIsFaithful
<1>1. AuditTypeOK /\ RecordInv /\ StoreInv /\ AllInv /\ NameInv
  BY DEF AuditInv
<1>2. FilesInOrder /\ InOrder(ledger)
  BY <1>1, FilesOrdered, OrderIsOrder DEF StoreInv, StoreOrder
<1>3. ASSUME AtRest, faults \subseteq {"lap"} PROVE Filed = Elems(accepted) /\ Elems(ledger) = Elems(accepted)
  <2>1. Bridged = {} /\ Elems(inserting) = {} /\ ToStore = {} /\ ToFile = {}
    BY <1>3 DEF AtRest, InFlight, ToStore, ToFile
  <2>2. Filed \subseteq Elems(accepted) /\ Elems(ledger) \subseteq Elems(accepted)
    BY <1>1, AuditTypes
  <2>3. QED BY <1>1, <1>3, <2>1, <2>2 DEF AllInv
<1>4. QED BY <1>1, <1>2, <1>3 DEF TrailIsFaithful, RecordInv, NameInv

-----------------------------------------------------------------------------
(* The three clients together *)

IInv == RecallInv /\ AuditInv /\ MemoryInv

(* How the other clients move the connection. *)
LEMMA AuditConnection ==
  ASSUME AuditNext, holder \in {"free", "facts", "audit"}
  PROVE  holder' \in {"free", "facts", "audit"} /\ (holder' = "facts") = (holder = "facts")
<1>1. CASE Recorder
  BY <1>1 DEF Recorder, TakeNumber, FillSlot, Offer, Recording
<1>2. CASE Worker
  BY <1>2 DEF Worker, TakeFirst, TakeNext, BatchOver, Collecting, WriteToday, NoDirectory, Rotate, HandOver, Written
<1>3. CASE StoreStep
  BY <1>3 DEF StoreStep, InitTables, BeginBatch, InsertRow, InsertFails, InPassing, Takes, Gives
<1>4. QED BY <1>1, <1>2, <1>3 DEF AuditNext

LEMMA RecallConnection ==
  ASSUME RecallNext PROVE (holder' = "audit") = (holder = "audit")
<1>1. CASE ChangeTable
  BY <1>1 DEF ChangeTable, SetFact, DeleteFacts, EndChange, SetCommits, SetFails, DeletionMarked, UpdateStats,
       Takes, Gives, InPassing
<1>2. CASE TimePasses
  BY <1>2 DEF TimePasses, Apart
<1>3. ASSUME NEW t \in Turn, TurnStep(t) PROVE holder' = holder
  BY <1>3 DEF TurnStep, Intercept, Judge, Check, ReadRows, StampVersion, SwapTrie, SwapFacts, Search, Compare,
       SearchAgain, Match, Ask, Looking, Apart
<1>4. QED BY <1>1, <1>2, <1>3 DEF RecallNext

LEMMA MemoryConnection == ASSUME MemoryNext PROVE holder' = holder
BY DEF MemoryNext, Persist, Overwrite, Consolidate, DeleteConversation, DeleteSubject, TurnsAge, SweepChooses,
       SweepDeletes, SweepFails, SweepCommand, InPassing

LEMMA InvNext == ASSUME IInv, [Next]_vars PROVE IInv'
<1>1. RecallInv /\ AuditInv /\ MemoryInv /\ holder \in {"free", "facts", "audit"}
  BY DEF IInv, RecallInv, RecallTypeOK
<1>2. CASE RecallNext /\ UNCHANGED <<audit, memory>>
  <2>1. AuditInv'
    BY <1>1, <1>2, RecallConnection, AuditElsewhere
  <2>2. QED BY <1>1, <1>2, <2>1, RecallNextKeeps, MemoryStutters DEF IInv
<1>3. CASE AuditNext /\ UNCHANGED <<recall, memory>>
  <2>1. RecallInv'
    BY <1>1, <1>3, AuditConnection, RecallElsewhere
  <2>2. QED BY <1>1, <1>3, <2>1, AuditNextKeeps, MemoryStutters DEF IInv
<1>4. CASE MemoryNext /\ UNCHANGED <<recall, audit>>
  <2>1. holder' = holder
    BY <1>4, MemoryConnection
  <2>2. RecallInv' /\ AuditInv'
    BY <1>1, <1>4, <2>1, RecallElsewhere, AuditElsewhere
  <2>3. QED BY <1>1, <1>4, <2>2, MemoryNextKeeps DEF IInv
<1>5. CASE Crash
  <2>1. RecallInv' /\ AuditInv' /\ MemoryInv'
    BY <1>1, <1>5, RecallCrashKeeps, AuditCrashKeeps, MemoryCrashKeeps DEF Crash
  <2>2. QED BY <2>1 DEF IInv
<1>6. CASE UNCHANGED vars
  <2>1. UNCHANGED <<holder, recall, audit, memory>>
    BY <1>6 DEF vars
  <2>2. RecallInv' /\ AuditInv'
    BY <1>1, <2>1, RecallElsewhere, AuditElsewhere
  <2>3. QED BY <1>1, <2>1, <2>2, MemoryStutters DEF IInv
<1>7. QED BY <1>2, <1>3, <1>4, <1>5, <1>6 DEF Next

LEMMA Inductive == Spec => []IInv
<1>1. Init => IInv
  BY RecallStarts, AuditStarts, MemoryStarts DEF Init, IInv
<1>2. IInv /\ [Next]_vars => IInv'
  BY InvNext
<1>3. QED BY <1>1, <1>2, PTL DEF Spec

-----------------------------------------------------------------------------
(* What the run checks, for every value of the constants *)

(* The types of the clients' state; in particular the writer is in a change of   *)
(* the facts, or in a batch of the trail, exactly while it is held for one, the  *)
(* copy never claims a version that is yet to come, nothing is in a file or in   *)
(* the ledger that the channel did not accept, and the sweeper's cutoff does not *)
(* pass the turns.                                                               *)
THEOREM TypeCorrect == Spec => [](RecallTypeOK /\ AuditTypeOK /\ MemoryTypeOK)
<1>1. IInv => RecallTypeOK /\ AuditTypeOK /\ MemoryTypeOK
  BY DEF IInv, RecallInv, AuditInv, MemoryInv, LineageHolds
<1>2. QED BY <1>1, Inductive, PTL

(* A copy made in peace that carries the current version is the table, however   *)
(* many turns refresh beside each other and whatever the writer does between.    *)
THEOREM CopyIsTheTable == Spec => []FreshMeansFresh
<1>1. IInv => FreshMeansFresh
  BY DEF IInv, RecallInv, CopyInv, FreshMeansFresh
<1>2. QED BY <1>1, Inductive, PTL

(* The user is asked only for what the table did say, and a challenge is judged  *)
(* at most once and in time, for any number of sessions and turns.               *)
THEOREM JudgedOnce == Spec => []ChallengesAreHonest
<1>1. ASSUME IInv PROVE ChallengesAreHonest
  <2>1. HadInv /\ OnceInv
    BY <1>1 DEF IInv, RecallInv
  <2>2. \A f \in Fact : facts[f] # None => facts[f] \in held[f]
    BY <2>1 DEF HadInv, Had
  <2>3. \A t \in Turn : Cardinality(judged[t]) <= 1 /\ \A j \in judged[t] : j.fresh
    <3> TAKE t \in Turn
    <3>1. CASE judged[t] = {}
      BY <3>1, FS_EmptySet
    <3>2. ASSUME NEW u \in Turn, judged[t] = {[by |-> u, fresh |-> TRUE]}
          PROVE  Cardinality(judged[t]) <= 1 /\ \A j \in judged[t] : j.fresh
      <4>1. Cardinality(judged[t]) = 1
        BY <3>2, FS_Singleton
      <4>2. QED BY <3>2, <4>1
    <3>3. QED BY <2>1, <3>1, <3>2 DEF OnceInv
  <2>4. QED BY <2>1, <2>2, <2>3 DEF ChallengesAreHonest, HadInv
<1>2. QED BY <1>1, Inductive, PTL

(* The files and the ledger list what the channel accepted, in its order and     *)
(* once, over rotations, restarts and failures of file and database, and all of  *)
(* it when nothing failed; a file is named for its first line; and the ring      *)
(* shows the newest events unless a recorder was lapped: for every size of ring, *)
(* channel and batch.                                                            *)
THEOREM Faithful == Spec => []TrailIsFaithful
<1>1. IInv => TrailIsFaithful
  BY AuditFaithful DEF IInv
<1>2. QED BY <1>1, Inductive, PTL

(* Event, projection and dead letter of a turn agree through consolidation,      *)
(* deletions, overwritten rows and crashes, for every batch size and number of   *)
(* retries.                                                                      *)
THEOREM Lineage == Spec => []LineageHolds
<1>1. IInv => LineageHolds
  BY DEF IInv, MemoryInv
<1>2. QED BY <1>1, Inductive, PTL

(* Retention removes no turn that was there and recent when it chose.            *)
THEOREM Spared == Spec => []RetentionSparesTheActive
<1>1. IInv => RetentionSparesTheActive
  BY DEF IInv, MemoryInv, SweepInv
<1>2. QED BY <1>1, Inductive, PTL
=====
