------------------------------ MODULE RecallCache ------------------------------
(***************************************************************************)
(* Active recall (active_recall.rs): before a turn reaches the model, the   *)
(* manager may ask the user for a fact it stores and judge the next answer. *)
(* It looks facts up in a copy of the table (a trie of keys and a map of    *)
(* records, two locks) that is refreshed when a lookup misses and the       *)
(* version of the facts has moved. The turns of several sessions run beside *)
(* each other and beside the writer that changes the table. A value is the  *)
(* number of the change that wrote it; a turn mentions one fact. How well   *)
(* the user knows a fact, and the text, are left out.                       *)
(***************************************************************************)
EXTENDS Naturals, FiniteSets, WriterThread

CONSTANTS
  Fact, Session,
  Turns,        \* bound on the user messages, numbered as they arrive
  MaxChanges,   \* bound on the changes of the table
  None          \* no value, no challenge

ASSUME RecallAssumption ==
  /\ MaxChanges \in Nat /\ Turns \in Nat /\ None \notin Nat

Turn == 1..Turns
Value == 1..MaxChanges
Table == [Fact -> Value \cup {None}]

VARIABLES
  db,        \* the committed rows of the table
  change,    \* the transaction or closure the writer is in, None outside
  version,   \* FACTS_VERSION
  changes,   \* changes begun so far
  trie, facts, ready, cached,   \* the copy, and the version it is stamped with
  pending,   \* the challenge each session was asked
  stats,     \* updates of the statistics in the writer's queue
  turn,      \* what each turn is at
  \* history variables
  held,      \* values each fact has had
  exact,     \* nothing moved while the installed copy was made
  judged     \* how often each challenge was judged, and in time

table == <<db, change, version, changes, held>>
copy == <<trie, facts, ready, cached, exact>>
recall == <<table, copy, pending, stats, turn, judged>>

Challenge == [asker : Turn, fact : Fact, answer : Value, fresh : BOOLEAN]
Change == [kind : {"set"}, rows : Table] \cup [kind : {"deleted"}]

ASSUME NoneIsNothing == None \notin Challenge \cup Change

NoTurn == [pc |-> "new", session |-> None, fact |-> None, rows |-> [f \in Fact |-> None],
           alone |-> FALSE, back |-> "search", ask |-> None]

Refreshing == {t \in Turn : turn[t].pc \in {"stamp", "swap trie", "swap facts"}}
Keys(rows) == {f \in Fact : rows[f] # None}

RecallTypeOK ==
  /\ holder \in {"free", "facts", "audit"}
  /\ db \in Table /\ facts \in Table /\ trie \in SUBSET Fact
  /\ change \in Change \cup {None}
  /\ (change # None) = (holder = "facts")
  /\ version \in Nat /\ cached \in 0..version /\ changes \in 0..MaxChanges
  /\ ready \in BOOLEAN /\ exact \in BOOLEAN
  /\ pending \in [Session -> Challenge \cup {None}]
  /\ stats \in 0..Turns
  /\ held \in [Fact -> SUBSET Value]
  /\ \A t \in Turn :
       /\ turn[t].pc \in {"new", "check", "read", "stamp", "swap trie", "swap facts", "search",
                          "compare", "again", "match", "ask", "judge", "over"}
       /\ turn[t].rows \in Table

RecallInit ==
  /\ db = [f \in Fact |-> None] /\ change = None /\ version = 1 /\ changes = 0
  /\ trie = {} /\ facts = [f \in Fact |-> None] /\ ready = FALSE /\ cached = 0
  /\ pending = [s \in Session |-> None] /\ stats = 0
  /\ turn = [t \in Turn |-> NoTurn]
  /\ held = [f \in Fact |-> {}] /\ exact = FALSE
  /\ judged = [t \in Turn |-> {}]

-----------------------------------------------------------------------------
(* The writer changes the table *)

(* Whoever is making a copy is no longer alone. *)
Disturbed == [t \in Turn |-> [turn[t] EXCEPT !.alone = FALSE]]

Elsewhere == UNCHANGED <<copy, pending, judged>>

(* set_fact executes its upsert and raises the version, inside the transaction. *)
SetFact(f) ==
  /\ changes < MaxChanges
  /\ Takes("facts")
  /\ changes' = changes + 1
  /\ change' = [kind |-> "set", rows |-> [db EXCEPT ![f] = changes + 1]]
  /\ version' = version + 1
  /\ turn' = Disturbed
  /\ UNCHANGED <<db, held, stats>> /\ Elsewhere

SetCommits ==
  /\ change # None /\ change.kind = "set"
  /\ Gives("facts")
  /\ db' = change.rows /\ change' = None
  /\ held' = [f \in Fact |-> held[f] \cup ({db'[f]} \ {None})]
  /\ turn' = Disturbed
  /\ UNCHANGED <<version, changes, stats>> /\ Elsewhere

SetFails ==
  /\ change # None /\ change.kind = "set"
  /\ Gives("facts")
  /\ change' = None
  /\ turn' = Disturbed
  /\ UNCHANGED <<db, version, changes, held, stats>> /\ Elsewhere

(* A deletion, of one fact or of all facts of a scope, raises the version after *)
(* it has committed.                                                            *)
DeleteFacts(F) ==
  /\ changes < MaxChanges /\ F # {} /\ F \subseteq Keys(db)
  /\ Takes("facts")
  /\ changes' = changes + 1
  /\ db' = [f \in Fact |-> IF f \in F THEN None ELSE db[f]]
  /\ change' = [kind |-> "deleted"]
  /\ turn' = Disturbed
  /\ UNCHANGED <<version, held, stats>> /\ Elsewhere

(* Mutant: a deletion does not raise the version. *)
VersionAsBefore == version
VersionAfterDelete == version + 1

DeletionMarked ==
  /\ change # None /\ change.kind = "deleted"
  /\ Gives("facts")
  /\ change' = None /\ version' = VersionAfterDelete
  /\ turn' = Disturbed
  /\ UNCHANGED <<db, changes, held, stats>> /\ Elsewhere

(* UpdateFactRecallStats raises the version too; a failed one does not. *)
UpdateStats ==
  /\ stats > 0 /\ InPassing
  /\ stats' = stats - 1
  /\ version' \in {version, version + 1}
  /\ turn' = Disturbed
  /\ UNCHANGED <<db, change, changes, held>> /\ Elsewhere

-----------------------------------------------------------------------------
(* A turn *)

Goes(t, pc) == turn' = [turn EXCEPT ![t].pc = pc]
Over == [NoTurn EXCEPT !.pc = "over"]
GoesOver(t) == turn' = [turn EXCEPT ![t] = Over]
Apart == UNCHANGED <<holder, table>>

(* Challenges do not outlive CHALLENGE_TTL_SECS. *)
TimePasses ==
  /\ \E s \in Session : pending[s] # None /\ pending[s].fresh
  /\ pending' = [s \in Session |-> IF pending[s] = None THEN None
                                   ELSE [pending[s] EXCEPT !.fresh = FALSE]]
  /\ Apart /\ UNCHANGED <<copy, stats, turn, judged>>

Swept == [s \in Session |-> IF pending[s] = None THEN None
                            ELSE IF pending[s].fresh THEN pending[s] ELSE None]

(* Mutant: the challenge stays where it was. *)
LeftPending(s) == Swept
TakenFrom(s) == [Swept EXCEPT ![s] = None]

(* try_intercept_turn: sweep, and take this session's challenge, under one lock. *)
Intercept(t) ==
  /\ turn[t].pc = "new" /\ \A u \in 1..t - 1 : turn[u].pc # "new"
  /\ \E s \in Session, f \in Fact :
       /\ pending' = TakenFrom(s)
       /\ turn' = [turn EXCEPT ![t].session = s, ![t].fact = f, ![t].ask = Swept[s],
                               ![t].pc = IF Swept[s] # None THEN "judge" ELSE "check"]
  /\ Apart /\ UNCHANGED <<copy, stats, judged>>

(* evaluate_user_answer; the update of the statistics may find the queue full. *)
Judge(t) ==
  /\ turn[t].pc = "judge"
  /\ LET c == turn[t].ask IN
       judged' = [judged EXCEPT ![c.asker] = @ \cup {[by |-> t, fresh |-> c.fresh]}]
  /\ stats' \in {stats, stats + 1}
  /\ GoesOver(t)
  /\ Apart /\ UNCHANGED <<copy, pending>>

Looking == Apart /\ UNCHANGED <<copy, pending, stats, judged>>

Check(t) ==
  /\ turn[t].pc = "check"
  /\ turn' = [turn EXCEPT ![t].pc = IF ready THEN "search" ELSE "read", ![t].back = "search"]
  /\ Looking

(* Mutant: the rows are read on the writer's own connection. *)
UncommittedRows == IF change # None /\ change.kind = "set" THEN change.rows ELSE db
CommittedRows == db

(* refresh_from_db reads the rows, or fails and nobody minds. *)
ReadRows(t) ==
  /\ turn[t].pc = "read"
  /\ \/ turn' = [u \in Turn |->
                   IF u = t THEN [turn[t] EXCEPT !.rows = CommittedRows, !.pc = "stamp",
                                    !.alone = (change = None /\ Refreshing = {})]
                   ELSE [turn[u] EXCEPT !.alone = FALSE]]
     \/ Goes(t, turn[t].back)
  /\ Looking

StampVersion(t) ==
  /\ turn[t].pc = "stamp"
  /\ cached' = version
  /\ Goes(t, "swap trie")
  /\ Apart /\ UNCHANGED <<trie, facts, ready, exact, pending, stats, judged>>

SwapTrie(t) ==
  /\ turn[t].pc = "swap trie"
  /\ trie' = Keys(turn[t].rows)
  /\ Goes(t, "swap facts")
  /\ Apart /\ UNCHANGED <<facts, ready, cached, exact, pending, stats, judged>>

SwapFacts(t) ==
  /\ turn[t].pc = "swap facts"
  /\ facts' = turn[t].rows /\ ready' = TRUE /\ exact' = turn[t].alone
  /\ turn' = [turn EXCEPT ![t].pc = turn[t].back, ![t].rows = NoTurn.rows, ![t].alone = FALSE]
  /\ Apart /\ UNCHANGED <<trie, cached, pending, stats, judged>>

Search(t) ==
  /\ turn[t].pc = "search"
  /\ Goes(t, IF turn[t].fact \in trie THEN "match" ELSE "compare")
  /\ Looking

Compare(t) ==
  /\ turn[t].pc = "compare"
  /\ IF cached # version
       THEN turn' = [turn EXCEPT ![t].pc = "read", ![t].back = "again"]
       ELSE GoesOver(t)
  /\ Looking

SearchAgain(t) ==
  /\ turn[t].pc = "again"
  /\ IF turn[t].fact \in trie THEN Goes(t, "match") ELSE GoesOver(t)
  /\ Looking

(* The record may be gone from the map, not yet due, or locked. *)
Match(t) ==
  /\ turn[t].pc = "match"
  /\ LET f == turn[t].fact IN
       \/ /\ facts[f] # None
          /\ turn' = [turn EXCEPT ![t].pc = "ask",
                        ![t].ask = [asker |-> t, fact |-> f, answer |-> facts[f], fresh |-> TRUE]]
       \/ GoesOver(t)
  /\ Looking

Ask(t) ==
  /\ turn[t].pc = "ask"
  /\ pending' = [Swept EXCEPT ![turn[t].session] = turn[t].ask]
  /\ GoesOver(t)
  /\ Apart /\ UNCHANGED <<copy, stats, judged>>

-----------------------------------------------------------------------------
(* The process ends: the copy, the challenges and an open transaction are gone. *)
RecallCrash ==
  /\ change' = None /\ version' = 1
  /\ trie' = {} /\ facts' = [f \in Fact |-> None] /\ ready' = FALSE /\ cached' = 0
  /\ pending' = [s \in Session |-> None] /\ stats' = 0
  /\ turn' = [t \in Turn |-> IF turn[t].pc = "new" THEN NoTurn ELSE Over]
  /\ exact' = FALSE
  /\ UNCHANGED <<db, changes, held, judged>>

EndChange == SetCommits \/ SetFails \/ DeletionMarked

ChangeTable ==
  \/ \E f \in Fact : SetFact(f)
  \/ \E F \in SUBSET Fact : DeleteFacts(F)
  \/ EndChange \/ UpdateStats

TurnStep(t) ==
  \/ Intercept(t) \/ Judge(t) \/ Check(t) \/ ReadRows(t) \/ StampVersion(t) \/ SwapTrie(t)
  \/ SwapFacts(t) \/ Search(t) \/ Compare(t) \/ SearchAgain(t) \/ Match(t) \/ Ask(t)

RecallNext == ChangeTable \/ TimePasses \/ \E t \in Turn : TurnStep(t)

-----------------------------------------------------------------------------
(* A copy that carries the current version is the table, key by key and value  *)
(* by value, once the writer and every refresh are done: no way to change the  *)
(* table forgets to raise the version. Only a copy that was made while the     *)
(* writer or another refresh moved is excepted.                                *)
FreshMeansFresh ==
  /\ RecallTypeOK
  /\ ready /\ exact /\ cached = version /\ change = None /\ Refreshing = {} =>
       trie = Keys(db) /\ facts = db

(* The user is only asked for what the table did say at some time, never for    *)
(* what a transaction that was rolled back would have said; each challenge is   *)
(* judged at most once, and in time, however many messages of the session race. *)
ChallengesAreHonest ==
  /\ \A f \in Fact : facts[f] # None => facts[f] \in held[f]
  /\ \A s \in Session : pending[s] # None => pending[s].answer \in held[pending[s].fact]
  /\ \A t \in Turn : Cardinality(judged[t]) <= 1 /\ \A j \in judged[t] : j.fresh
=============================================================================
