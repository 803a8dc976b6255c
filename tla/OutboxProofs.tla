------------------------------ MODULE OutboxProofs ------------------------------
(***************************************************************************)
(* Proofs about Outbox for every set of requests and drafts, every limit,   *)
(* every clock, every set of keys and any number of crashes.                *)
(***************************************************************************)
EXTENDS Outbox, FiniteSetTheorems, TLAPS

-----------------------------------------------------------------------------
(* The inductive invariant *)

(* A confirmation between the consumption of its draft and its answer. *)
Busy(r) == step[r] \in Sending

(* A draft in the table was inserted and not sent, nor is it in the box of the *)
(* page; nor is one that was never inserted.                                  *)
RowInv ==
  /\ \A d \in box : seq[d] > 0 /\ sent[d] = 0 /\ d \notin compose
  /\ \A d \in Draft : seq[d] = 0 => sent[d] = 0 /\ d \notin compose
  /\ \A r \in Req : "draft" \in Op[r] /\ step[r] = "new" => seq[On[r]] = 0

(* A consumed draft belongs to the one confirmation that consumed it, and     *)
(* nothing of it is on its way before that types it or hands it to Telegram.  *)
SendInv ==
  /\ \A r \in Req : Busy(r) => On[r] \notin box /\ seq[On[r]] > 0
  /\ \A r, s \in Req : Busy(r) /\ Busy(s) /\ On[r] = On[s] => r = s
  /\ \A r \in Req : step[r] \in {"sending", "open", "clear"} =>
                     sent[On[r]] = 0 /\ On[r] \notin compose
  /\ \A r \in Req : step[r] = "delivered" => sent[On[r]] = 1 /\ On[r] \notin astray
  /\ \A r \in Req : step[r] # "over" => reply[r] = "none"

(* A text in the box has not left yet, and only what has left can be astray.  *)
BoxInv ==
  /\ \A d \in compose : sent[d] = 0
  /\ \A d \in Draft : sent[d] = 0 => d \notin astray

(* A request that nothing has disturbed is alone at the tab, in the right     *)
(* conversation, with nothing but its own text in the box.                    *)
Filled(r) == \/ compose = {On[r]} /\ sent[On[r]] = 0
             \/ compose = {} /\ sent[On[r]] = 1 /\ On[r] \notin astray

Alone(r) ==
  /\ \A s \in Req : step[s] \in OnTab => s = r
  /\ chat = to[On[r]]
  /\ step[r] = "clear" => compose = {}
  /\ step[r] \in {"typed", "pressed", "clicked"} => Filled(r)

TabInv == \A r \in Req : step[r] \in OnTab /\ r \notin disturbed => Alone(r)

(* A cancelled draft existed, is gone, and nobody holds it. *)
CancelInv ==
  \A r \in Req : reply[r] = "cancelled" =>
    /\ seq[On[r]] > 0 /\ On[r] \notin box /\ sent[On[r]] = 0 /\ On[r] \notin compose
    /\ \A s \in Req : Busy(s) => On[s] # On[r]

IInv == /\ TypeOK /\ RowInv /\ SendInv /\ BoxInv /\ TabInv /\ CancelInv
        /\ NeverSentTwice /\ SentMeansItLeft /\ NeverOverfull
-----------------------------------------------------------------------------
(* The table stays within its limit when rows are evicted for a new one. *)

LEMMA RoomForOne ==
  ASSUME NEW rows, IsFiniteSet(rows), NEW gone \in SUBSET rows, NEW d,
         Cardinality(gone) = Excess(rows)
  PROVE  Cardinality((rows \ gone) \cup {d}) <= MaxPending
<1>1. IsFiniteSet(rows \ gone) /\ Cardinality(rows \ gone) = Cardinality(rows) - Cardinality(gone)
  <2>1. rows \cap gone = gone
    OBVIOUS
  <2>2. /\ IsFiniteSet(rows \ gone)
        /\ Cardinality(rows \ gone) = Cardinality(rows) - Cardinality(rows \cap gone)
    BY FS_Difference
  <2>3. QED BY <2>1, <2>2
<1>2. Cardinality(rows) \in Nat /\ Cardinality(gone) \in Nat
  BY FS_CardinalityType, FS_Subset
<1>3. Cardinality(rows \ gone) <= MaxPending - 1
  BY <1>1, <1>2, OutboxAssumption DEF Excess
<1>4. Cardinality((rows \ gone) \cup {d}) \in {Cardinality(rows \ gone), Cardinality(rows \ gone) + 1}
  <2>1. Cardinality((rows \ gone) \cup {d}) =
          IF d \in rows \ gone THEN Cardinality(rows \ gone) ELSE Cardinality(rows \ gone) + 1
    BY <1>1, FS_AddElement
  <2>2. QED BY <2>1
<1>5. Cardinality(rows \ gone) \in Nat
  BY <1>1, FS_CardinalityType
<1>6. QED BY <1>3, <1>4, <1>5, OutboxAssumption

LEMMA FewerRowsFit ==
  ASSUME IInv, box' \subseteq box
  PROVE  NeverOverfull'
<1>1. IsFiniteSet(box)
  BY OutboxAssumption, FS_Subset DEF IInv, TypeOK
<1>2. Cardinality(box') <= Cardinality(box) /\ Cardinality(box) \in Nat /\ Cardinality(box') \in Nat
  BY <1>1, FS_Subset, FS_CardinalityType
<1>3. QED BY <1>2, OutboxAssumption DEF IInv, NeverOverfull

-----------------------------------------------------------------------------
LEMMA InitInv == Init => IInv
<1> SUFFICES ASSUME Init PROVE IInv
  OBVIOUS
<1>1. TypeOK
  BY OutboxAssumption, MessagingAssumption
  DEF Init, MessagingInit, TypeOK, MessagingTypeOK, Steps, Replies
<1>2. RowInv /\ SendInv /\ BoxInv /\ TabInv /\ CancelInv /\ NeverSentTwice /\ SentMeansItLeft
  BY OutboxAssumption, MessagingAssumption
  DEF Init, MessagingInit, RowInv, SendInv, BoxInv, TabInv, Busy, Sending, OnTab, CancelInv,
      NeverSentTwice, SentMeansItLeft
<1>3. NeverOverfull
  BY FS_EmptySet, OutboxAssumption DEF Init, NeverOverfull
<1>4. QED BY <1>1, <1>2, <1>3 DEF IInv

(* What a request does to the table leaves the platforms alone, and the request *)
(* has been answered afterwards or holds its draft.                            *)
Closure(r) == Stage(r) \/ Take(r) \/ Cancel(r) \/ Pending(r) \/ StorageFails(r)

LEMMA AnswerTypes ==
  ASSUME MessagingTypeOK, NEW r \in Req, NEW what \in Replies, Answer(r, what)
  PROVE  step' \in [Req -> Steps] /\ reply' \in [Req -> Replies]
BY DEF MessagingTypeOK, Answer, Steps

LEMMA GoesTypes ==
  ASSUME MessagingTypeOK, NEW r \in Req, NEW from, NEW next \in Steps, GoesTo(r, from, next)
  PROVE  /\ step' \in [Req -> Steps] /\ reply' \in [Req -> Replies]
         /\ to' \in [Draft -> Chat \cup {Telegram}]
BY DEF MessagingTypeOK, GoesTo

LEMMA ClosureIsLocal ==
  ASSUME MessagingTypeOK, NEW r \in Req, Closure(r)
  PROVE  /\ UNCHANGED <<to, sent, chat, compose, astray, disturbed, now, key, crashes>>
         /\ step[r] = "new"
         /\ step' = [step EXCEPT ![r] = "over"] \/ step' = [step EXCEPT ![r] = "sending"]
         /\ step' \in [Req -> Steps] /\ reply' \in [Req -> Replies]
<1>1. /\ UNCHANGED <<to, sent, chat, compose, astray, disturbed, now, key, crashes>>
      /\ step[r] = "new"
  BY DEF Closure, Stage, Take, Cancel, Pending, StorageFails, Turn, Platforms, tabVars, Environment
<1>2. CASE \E what \in {"drafted", "error", "cancelled", "nothing", "listed"} : Answer(r, what)
  <2>1. PICK what \in {"drafted", "error", "cancelled", "nothing", "listed"} : Answer(r, what)
    BY <1>2
  <2>2. what \in Replies
    BY DEF Replies
  <2>3. QED BY <1>1, <2>1, <2>2, AnswerTypes DEF Answer
<1>3. CASE step' = [step EXCEPT ![r] = "sending"] /\ UNCHANGED reply
  BY <1>1, <1>3 DEF MessagingTypeOK, Steps, Sending
<1>4. QED BY <1>2, <1>3 DEF Closure, Stage, Take, Cancel, Pending, StorageFails

LEMMA KeepTypes ==
  ASSUME TypeOK, NEW rows \in SUBSET Draft, Keep(rows)
  PROVE  /\ box' \in SUBSET Draft /\ born' \in [Draft -> Int] /\ cipher' \in [Draft -> SUBSET Keys]
         /\ seq' \in [Draft -> Nat] /\ last' \in Nat
BY DEF TypeOK, Keep

LEMMA TypeStep == ASSUME TypeOK, [Next]_vars PROVE TypeOK'
<1> USE OutboxAssumption, MessagingAssumption
<1>0. MessagingTypeOK
  BY DEF TypeOK
<1>1. ASSUME NEW r \in Req, Closure(r) PROVE TypeOK'
  <2>1. MessagingTypeOK' /\ now' \in Times /\ key' \in Keys /\ crashes' \in Nat
    BY <1>0, <1>1, ClosureIsLocal DEF TypeOK, MessagingTypeOK
  <2>2. CASE Stage(r)
    <3>1. On[r] \in Draft /\ now \in Int /\ key \in Keys /\ Live \subseteq Draft
      BY DEF TypeOK, Live
    <3>2. box' \in SUBSET Draft /\ born' \in [Draft -> Int] /\ cipher' \in [Draft -> SUBSET Keys]
      BY <2>2, <3>1 DEF TypeOK, Stage
    <3>3. last' \in Nat
      BY <2>2 DEF TypeOK, Stage
    <3>4. \A n \in Nat : [seq EXCEPT ![On[r]] = n] \in [Draft -> Nat]
      BY DEF TypeOK
    <3>5. QED BY <2>1, <2>2, <3>2, <3>3, <3>4 DEF TypeOK, Stage
  <2>3. CASE \E rows \in SUBSET Draft : Keep(rows)
    BY <2>1, <2>3, KeepTypes DEF TypeOK
  <2>4. CASE UNCHANGED Table
    BY <2>1, <2>4 DEF TypeOK, Table
  <2>5. QED BY <1>1, <2>2, <2>3, <2>4
            DEF Closure, Take, Cancel, Pending, StorageFails, AfterConfirmation, AfterCancel, Live, TypeOK
<1>2. ASSUME NEW r \in Req, Dispatch(r) PROVE TypeOK'
  <2>1. On[r] \in Draft /\ to[On[r]] \in Chat \cup {Telegram}
    BY <1>0 DEF MessagingTypeOK
  <2>2. CASE Deliver(r)
    <3>1. \A n \in Nat : [sent EXCEPT ![On[r]] = n] \in [Draft -> Nat]
      BY <1>0 DEF MessagingTypeOK
    <3>2. sent' \in [Draft -> Nat]
      BY <1>0, <2>1, <2>2, <3>1 DEF Deliver, MessagingTypeOK
    <3>3. "delivered" \in Steps
      BY DEF Steps, Sending
    <3>4. MessagingTypeOK'
      BY <1>0, <2>2, <3>2, <3>3, GoesTypes DEF MessagingTypeOK, Deliver, tabVars
    <3>5. QED BY <1>2, <3>4 DEF Dispatch, TypeOK, Table, Environment
  <2>3. CASE Delivered(r) \/ Look(r)
    <3>1. "sent" \in Replies /\ "error" \in Replies
      BY DEF Replies
    <3>2. step' \in [Req -> Steps] /\ reply' \in [Req -> Replies]
      BY <1>0, <2>3, <3>1, AnswerTypes DEF Delivered, Look
    <3>3. disturbed' \subseteq Req /\ UNCHANGED <<to, sent, chat, compose, astray>>
      BY <1>0, <2>3 DEF MessagingTypeOK, Delivered, Look, tabVars
    <3>4. MessagingTypeOK'
      BY <1>0, <3>2, <3>3 DEF MessagingTypeOK
    <3>5. QED BY <1>2, <3>4 DEF Dispatch, TypeOK, Table, Environment
  <2>4. CASE Open(r) \/ Clear(r) \/ Insert(r) \/ PressEnter(r) \/ ClickSend(r)
    <3>1. OnTab \subseteq Steps
      BY DEF Steps, Sending
    <3>2. \E from \in Steps, next \in OnTab : GoesTo(r, from, next)
      BY <2>4 DEF Open, Clear, Insert, PressEnter, ClickSend, OnTab, Steps, Sending
    <3>3. step' \in [Req -> Steps] /\ reply' \in [Req -> Replies] /\ to' \in [Draft -> Chat \cup {Telegram}]
      BY <1>0, <3>1, <3>2, GoesTypes
    <3>4. chat' \in Chat \cup {Elsewhere} /\ compose' \subseteq Draft /\ disturbed' \subseteq Req
      BY <1>0, <2>1, <2>4 DEF MessagingTypeOK, Open, Clear, Insert, PressEnter, ClickSend, Leaves, Stays, Others
    <3>5. sent' \in [Draft -> Nat] /\ astray' \subseteq Draft
      BY <1>0, <2>4 DEF MessagingTypeOK, Open, Clear, Insert, PressEnter, ClickSend, Leaves, Stays
    <3>6. QED BY <1>2, <3>3, <3>4, <3>5 DEF Dispatch, TypeOK, MessagingTypeOK, Table, Environment
  <2>5. QED BY <1>2, <2>2, <2>3, <2>4 DEF Dispatch, MessengerStep
<1>3. ASSUME NEW r \in Req, SendFails(r) PROVE TypeOK'
  <2>1. "error" \in Replies
    BY DEF Replies
  <2>2. MessagingTypeOK'
    BY <1>0, <1>3, <2>1, AnswerTypes DEF SendFails, MessagingTypeOK
  <2>3. Keep(box) /\ box \in SUBSET Draft
    BY <1>3 DEF SendFails, AfterFailure, TypeOK
  <2>4. QED BY <1>3, <2>2, <2>3, KeepTypes DEF SendFails, TypeOK, Environment
<1>4. CASE Page
  BY <1>0, <1>4 DEF Page, PageChanges, TypeOK, MessagingTypeOK, Table, Environment
<1>5. CASE Tick
  BY <1>0, <1>5 DEF Tick, TypeOK, MessagingTypeOK, Table, messaging, tabVars
<1>6. CASE Crash
  BY <1>0, <1>6 DEF Crash, TypeOK, MessagingTypeOK, Table, Steps
<1>7. CASE UNCHANGED vars
  BY <1>0, <1>7 DEF vars, TypeOK, MessagingTypeOK, Table, messaging, tabVars, Environment
<1>8. QED BY <1>1, <1>2, <1>3, <1>4, <1>5, <1>6, <1>7 DEF Next, Handle, Closure

(* The rest of the invariant, without the limit *)
Core == /\ RowInv /\ SendInv /\ BoxInv /\ TabInv /\ CancelInv
        /\ NeverSentTwice /\ SentMeansItLeft

(* A step of r that leaves the others where they are. *)
Mine(r) == \A s \in Req \ {r} : step'[s] = step[s] /\ reply'[s] = reply[s]

LEMMA AnswerIsMine ==
  ASSUME MessagingTypeOK, NEW r \in Req, NEW what, Answer(r, what)
  PROVE  Mine(r) /\ step'[r] = "over" /\ reply'[r] = what
BY DEF MessagingTypeOK, Answer, Mine

LEMMA GoesIsMine ==
  ASSUME MessagingTypeOK, NEW r \in Req, NEW from, NEW next, GoesTo(r, from, next)
  PROVE  Mine(r) /\ step[r] = from /\ step'[r] = next /\ reply' = reply /\ to' = to
BY DEF MessagingTypeOK, GoesTo, Mine

LEMMA ClosureIsMine ==
  ASSUME MessagingTypeOK, NEW r \in Req, Closure(r)
  PROVE  /\ Mine(r) /\ step'[r] \in {"over", "sending"}
         /\ reply'[r] \in {reply[r], "drafted", "error", "cancelled", "nothing", "listed"}
         /\ step'[r] = "sending" => reply'[r] = reply[r]
<1>1. CASE \E what \in {"drafted", "error", "cancelled", "nothing", "listed"} : Answer(r, what)
  BY <1>1, AnswerIsMine
<1>2. CASE step' = [step EXCEPT ![r] = "sending"] /\ UNCHANGED reply
  BY <1>2 DEF MessagingTypeOK, Mine
<1>3. QED BY <1>1, <1>2 DEF Closure, Stage, Take, Cancel, Pending, StorageFails

(* Nothing on the platforms moves while a closure runs. *)
LEMMA ClosureCore ==
  ASSUME IInv, NEW r \in Req, Closure(r)
  PROVE  /\ BoxInv' /\ TabInv' /\ NeverSentTwice' /\ SentMeansItLeft'
         /\ \A s \in Req : step'[s] # "over" => reply'[s] = "none"
<1>1. /\ UNCHANGED <<to, sent, chat, compose, astray, disturbed>> /\ step[r] = "new"
      /\ Mine(r) /\ step'[r] \in {"over", "sending"}
      /\ reply'[r] \in {reply[r], "drafted", "error", "cancelled", "nothing", "listed"}
      /\ step'[r] = "sending" => reply'[r] = reply[r]
  BY ClosureIsLocal, ClosureIsMine DEF IInv, TypeOK
<1>2. \A s \in Req : (step'[s] \in OnTab => step'[s] = step[s]) /\ (step[s] \in OnTab => step'[s] = step[s])
  BY <1>1 DEF Mine, OnTab
<1>3. BoxInv' /\ NeverSentTwice'
  BY <1>1 DEF IInv, BoxInv, NeverSentTwice
<1>4. TabInv'
  BY <1>1, <1>2 DEF IInv, TabInv, Alone, Filled
<1>5. reply[r] = "none"
  BY <1>1 DEF IInv, SendInv
<1>6. \A s \in Req : step'[s] # "over" => reply'[s] = "none"
  BY <1>1, <1>5 DEF IInv, SendInv, Mine
<1>7. SentMeansItLeft'
  BY <1>1, <1>5 DEF IInv, SentMeansItLeft, Mine
<1>8. QED BY <1>3, <1>4, <1>6, <1>7

LEMMA ClosureStep == ASSUME IInv, NEW r \in Req, Closure(r) PROVE Core'
<1> USE OutboxAssumption, MessagingAssumption DEF IInv
<1>1. /\ UNCHANGED <<sent, compose>> /\ step[r] = "new" /\ ~Busy(r) /\ On[r] \in Draft
      /\ Mine(r) /\ step'[r] \in {"over", "sending"}
      /\ step'[r] = "sending" => reply'[r] = reply[r]
      /\ reply[r] = "none"
  BY ClosureIsLocal, ClosureIsMine DEF TypeOK, MessagingTypeOK, SendInv, Busy, Sending, OnTab
<1>2. \A s \in Req \ {r} : Busy(s)' <=> Busy(s)
  BY <1>1 DEF Busy, Mine
<1>3. \A s \in Req : step'[s] \in {"open", "clear", "delivered", "new"} => s # r /\ step'[s] = step[s]
  BY <1>1 DEF Mine
<1>4. CASE Stage(r)
  <2>1. seq[On[r]] = 0 /\ seq'[On[r]] > 0 /\ \A d \in Draft \ {On[r]} : seq'[d] = seq[d]
    BY <1>1, <1>4 DEF RowInv, Stage, Turn, TypeOK
  <2>2. box' \subseteq box \cup {On[r]} /\ step'[r] = "over" /\ reply'[r] = "drafted"
    BY <1>4, AnswerIsMine DEF Stage, Live, TypeOK
  <2>3. ~Busy(r)'
    BY <2>2 DEF Busy, Sending, OnTab
  <2>4. \A s \in Req : Busy(s)' => Busy(s) /\ On[s] # On[r] /\ On[s] \in Draft
    BY <1>2, <2>1, <2>3 DEF SendInv, TypeOK
  <2>5. RowInv'
    <3>1. \A s \in Req : "draft" \in Op[s] /\ step'[s] = "new" => seq'[On[s]] = 0
      BY <1>1, <1>3, <1>4, <2>1 DEF RowInv, Stage, Turn
    <3>2. \A d \in box' : seq'[d] > 0 /\ sent'[d] = 0 /\ d \notin compose'
      BY <1>1, <2>1, <2>2 DEF RowInv, TypeOK
    <3>3. QED BY <1>1, <2>1, <3>1, <3>2 DEF RowInv
  <2>6. SendInv'
    <3>1. \A s \in Req : Busy(s)' => On[s] \notin box' /\ seq'[On[s]] > 0
      BY <2>1, <2>2, <2>4 DEF SendInv
    <3>2. UNCHANGED astray
      BY ClosureIsLocal DEF TypeOK
    <3>3. QED BY <1>1, <1>3, <2>2, <2>4, <3>1, <3>2, ClosureCore DEF SendInv, Mine
  <2>7. CancelInv'
    <3>1. \A c \in Req : reply'[c] = "cancelled" => c # r /\ reply[c] = "cancelled" /\ On[c] # On[r]
      BY <1>1, <2>1, <2>2 DEF CancelInv, Mine
    <3>2. QED BY <1>1, <2>1, <2>2, <2>4, <3>1 DEF CancelInv, TypeOK, MessagingTypeOK
  <2>8. QED BY <2>5, <2>6, <2>7, ClosureCore DEF Core
<1>5. CASE Take(r) \/ Cancel(r) \/ Pending(r) \/ StorageFails(r)
  <2>1. box' \subseteq box /\ UNCHANGED seq
    BY <1>5 DEF Take, Cancel, Pending, StorageFails, Keep, AfterConfirmation, AfterCancel, Live, Table
  <2>2. RowInv'
    BY <1>1, <1>3, <2>1 DEF RowInv
  <2>3. step'[r] = "sending" => On[r] \in box /\ On[r] \notin box'
    <3>1. CASE \E what : Answer(r, what)
      BY <3>1, AnswerIsMine DEF TypeOK
    <3>2. CASE On[r] \in box /\ Keep(AfterConfirmation(On[r]))
      BY <3>2 DEF Keep, AfterConfirmation
    <3>3. QED BY <1>5, <3>1, <3>2 DEF Take, Cancel, Pending, StorageFails
  <2>4. \A s \in Req : Busy(s)' => On[s] \notin box' /\ seq'[On[s]] > 0 /\ (s = r \/ Busy(s))
    BY <1>1, <1>2, <2>1, <2>3 DEF SendInv, RowInv, Busy, Sending, OnTab
  <2>5. \A s \in Req : Busy(s) => ~Busy(r)' \/ On[s] # On[r]
    BY <1>1, <2>3 DEF SendInv, Busy, Sending, OnTab
  <2>6. SendInv'
    <3>1. \A s, u \in Req : Busy(s)' /\ Busy(u)' /\ On[s] = On[u] => s = u
      BY <1>2, <2>4, <2>5 DEF SendInv
    <3>2. \A s \in Req : step'[s] \in {"sending", "open", "clear"} => sent'[On[s]] = 0 /\ On[s] \notin compose'
      BY <1>1, <1>3, <2>3 DEF SendInv, RowInv, Mine
    <3>3. UNCHANGED astray
      BY ClosureIsLocal DEF TypeOK
    <3>4. QED BY <1>1, <1>3, <2>4, <3>1, <3>2, <3>3, ClosureCore DEF SendInv
  <2>7. CancelInv'
    <3>1. ASSUME NEW c \in Req, c # r, reply'[c] = "cancelled"
          PROVE  /\ seq'[On[c]] > 0 /\ On[c] \notin box' /\ sent'[On[c]] = 0 /\ On[c] \notin compose'
                 /\ \A s \in Req : Busy(s)' => On[s] # On[c]
      <4>1. /\ seq[On[c]] > 0 /\ On[c] \notin box /\ sent[On[c]] = 0 /\ On[c] \notin compose
            /\ \A s \in Req : Busy(s) => On[s] # On[c]
        BY <1>1, <3>1 DEF CancelInv, Mine
      <4>2. Busy(r)' => On[r] # On[c]
        BY <1>1, <2>3, <4>1 DEF Busy, Sending, OnTab
      <4>3. QED BY <1>1, <1>2, <2>1, <4>1, <4>2
    <3>2. ASSUME reply'[r] = "cancelled"
          PROVE  /\ seq'[On[r]] > 0 /\ On[r] \notin box' /\ sent'[On[r]] = 0 /\ On[r] \notin compose'
                 /\ \A s \in Req : Busy(s)' => On[s] # On[r]
      <4>1. Cancel(r)
        BY <1>1, <1>5, <3>2, AnswerIsMine DEF Take, Pending, StorageFails, TypeOK
      <4>2. On[r] \in box /\ On[r] \notin box' /\ step'[r] = "over"
        BY <3>2, <4>1, AnswerIsMine DEF Cancel, Keep, AfterCancel, Live, TypeOK
      <4>3. \A s \in Req : Busy(s)' => Busy(s)
        BY <1>2, <4>2 DEF Busy, Sending, OnTab
      <4>4. QED BY <1>1, <2>1, <4>2, <4>3 DEF RowInv, SendInv
    <3>3. QED BY <3>1, <3>2 DEF CancelInv
  <2>8. QED BY <2>2, <2>6, <2>7, ClosureCore DEF Core
<1>6. QED BY <1>4, <1>5 DEF Closure

(* A request that is on its way to the platforms leaves the table alone, and   *)
(* nobody begins to hold a draft.                                             *)
LEMMA NobodyNew ==
  ASSUME IInv, NEW r \in Req, Busy(r), Mine(r), step'[r] # "new", UNCHANGED <<box, seq>>,
         step'[r] # "over" => reply' = reply,
         reply'[r] # "cancelled",
         \A d \in Draft : d # On[r] => (sent[d] = 0 /\ d \notin compose => sent'[d] = 0 /\ d \notin compose')
  PROVE  /\ RowInv' /\ CancelInv'
         /\ \A s \in Req : Busy(s)' => On[s] \notin box' /\ seq'[On[s]] > 0
         /\ \A s, u \in Req : Busy(s)' /\ Busy(u)' /\ On[s] = On[u] => s = u
         /\ \A s \in Req : step'[s] # "over" => reply'[s] = "none"
         /\ On[r] \in Draft /\ On[r] \notin box /\ seq[On[r]] > 0
         /\ \A s \in Req \ {r} : Busy(s) => On[s] # On[r]
<1> USE MessagingAssumption DEF IInv
<1>1. \A s \in Req : On[s] \in Draft /\ (Busy(s)' => Busy(s))
  BY DEF Busy, Mine
<1>2. On[r] \in Draft /\ On[r] \notin box /\ seq[On[r]] > 0 /\ \A s \in Req \ {r} : Busy(s) => On[s] # On[r]
  BY <1>1 DEF SendInv
<1>3. seq[On[r]] # 0
  BY <1>2 DEF TypeOK
<1>4. RowInv'
  <2>1. \A d \in box' : seq'[d] > 0 /\ sent'[d] = 0 /\ d \notin compose'
    BY <1>2 DEF RowInv, TypeOK
  <2>2. \A d \in Draft : seq'[d] = 0 => sent'[d] = 0 /\ d \notin compose'
    BY <1>3 DEF RowInv
  <2>3. \A s \in Req : "draft" \in Op[s] /\ step'[s] = "new" => seq'[On[s]] = 0
    BY DEF RowInv, Mine
  <2>4. QED BY <2>1, <2>2, <2>3 DEF RowInv
<1>5. CancelInv'
  <2>1. \A c \in Req : reply'[c] = "cancelled" => reply[c] = "cancelled" /\ On[c] # On[r]
    BY DEF CancelInv, Mine
  <2>2. QED BY <1>1, <2>1 DEF CancelInv
<1>6. \A s \in Req : step'[s] # "over" => reply'[s] = "none"
  BY DEF SendInv, Mine, Busy, Sending, OnTab
<1>7. QED BY <1>1, <1>2, <1>4, <1>5, <1>6 DEF SendInv

LEMMA TelegramStep ==
  ASSUME IInv, NEW r \in Req, Deliver(r) \/ Delivered(r), UNCHANGED Table PROVE Core'
<1> USE MessagingAssumption DEF IInv
<1>1. /\ Mine(r) /\ Busy(r) /\ step[r] \notin OnTab /\ step'[r] \notin OnTab \cup {"new"}
      /\ UNCHANGED <<box, seq, to, chat, compose, astray, disturbed>>
      /\ step'[r] # "over" => reply' = reply
      /\ reply'[r] # "cancelled" /\ On[r] \notin astray
  <2>1. CASE Deliver(r)
    <3>1. Mine(r) /\ step[r] = "sending" /\ step'[r] = "delivered" /\ reply' = reply
      BY <2>1, GoesIsMine DEF Deliver, TypeOK
    <3>2. reply[r] = "none" /\ sent[On[r]] = 0 /\ On[r] \in Draft
      BY <3>1 DEF SendInv
    <3>3. On[r] \notin astray
      BY <3>2 DEF BoxInv
    <3>4. QED BY <2>1, <3>1, <3>2, <3>3 DEF Deliver, GoesTo, tabVars, Table, Busy, Sending, OnTab
  <2>2. CASE Delivered(r)
    BY <2>2, AnswerIsMine DEF Delivered, tabVars, Table, Busy, Sending, OnTab, SendInv, TypeOK
  <2>3. QED BY <2>1, <2>2
<1>2. On[r] \in Draft /\ \A d \in Draft : d # On[r] => sent'[d] = sent[d]
  BY DEF Deliver, Delivered, TypeOK, MessagingTypeOK
<1>3. /\ RowInv' /\ CancelInv'
      /\ \A s \in Req : Busy(s)' => On[s] \notin box' /\ seq'[On[s]] > 0
      /\ \A s, u \in Req : Busy(s)' /\ Busy(u)' /\ On[s] = On[u] => s = u
      /\ \A s \in Req : step'[s] # "over" => reply'[s] = "none"
      /\ \A s \in Req \ {r} : Busy(s) => On[s] # On[r]
  BY <1>1, <1>2, NobodyNew
<1>4. sent'[On[r]] = 1 /\ On[r] \notin compose
  <2>1. CASE Deliver(r)
    <3>1. step[r] = "sending" /\ sent[On[r]] \in Nat /\ sent'[On[r]] = sent[On[r]] + 1
      BY <2>1, <1>2 DEF Deliver, GoesTo, TypeOK, MessagingTypeOK
    <3>2. QED BY <3>1 DEF SendInv
  <2>2. CASE Delivered(r)
    BY <2>2, <1>2 DEF Delivered, SendInv, BoxInv
  <2>3. QED BY <2>1, <2>2
<1>5. SendInv'
  <2>1. ASSUME NEW s \in Req \ {r}
        PROVE  /\ step'[s] \in {"sending", "open", "clear"} => sent'[On[s]] = 0 /\ On[s] \notin compose'
               /\ step'[s] = "delivered" => sent'[On[s]] = 1 /\ On[s] \notin astray'
    <3>1. CASE Busy(s)
      BY <1>1, <1>2, <1>3, <3>1 DEF SendInv, Mine
    <3>2. CASE ~Busy(s)
      BY <1>1, <3>2 DEF Mine, Busy, Sending, OnTab
    <3>3. QED BY <3>1, <3>2
  <2>2. step'[r] \notin {"sending", "open", "clear"}
    BY GoesIsMine, AnswerIsMine DEF Deliver, Delivered, TypeOK
  <2>3. QED BY <1>1, <1>3, <1>4, <2>1, <2>2 DEF SendInv
<1>6. BoxInv' /\ NeverSentTwice'
  BY <1>1, <1>2, <1>4 DEF BoxInv, NeverSentTwice, TypeOK, MessagingTypeOK
<1>7. TabInv'
  <2>1. ASSUME NEW s \in Req, step'[s] \in OnTab, s \notin disturbed' PROVE Alone(s)'
    <3>1. s # r /\ step'[s] = step[s] /\ Alone(s) /\ On[s] # On[r]
      BY <1>1, <1>3, <2>1 DEF Mine, TabInv, Busy, Sending
    <3>2. sent'[On[s]] = sent[On[s]]
      BY <1>2, <3>1
    <3>3. \A u \in Req : step'[u] \in OnTab => step[u] \in OnTab
      BY <1>1 DEF Mine
    <3>4. QED BY <1>1, <3>1, <3>2, <3>3 DEF Alone, Filled
  <2>2. QED BY <2>1 DEF TabInv
<1>8. SentMeansItLeft'
  <2>1. ASSUME NEW s \in Req, reply'[s] = "sent", s \notin disturbed'
        PROVE  sent'[On[s]] = 1 /\ On[s] \notin astray'
    <3>1. CASE On[s] = On[r]
      BY <1>1, <1>4, <3>1
    <3>2. CASE On[s] # On[r]
      BY <1>1, <1>2, <2>1, <3>2 DEF SentMeansItLeft, Mine
    <3>3. QED BY <3>1, <3>2
  <2>2. QED BY <2>1 DEF SentMeansItLeft
<1>9. QED BY <1>3, <1>5, <1>6, <1>7, <1>8 DEF Core

(* Before anything leaves: the conversation, the box and the text. *)
LEMMA TypingStep ==
  ASSUME IInv, NEW r \in Req, Open(r) \/ Clear(r) \/ Insert(r), UNCHANGED Table PROVE Core'
<1> USE MessagingAssumption DEF IInv
<1>1. /\ Mine(r) /\ Busy(r) /\ step[r] \in {"sending", "open", "clear"} /\ step'[r] \in {"open", "clear", "typed"}
      /\ UNCHANGED <<box, seq, to, reply, sent, astray>>
  <2>1. UNCHANGED <<box, seq, sent, astray>>
    BY DEF Open, Clear, Insert, Table
  <2>2. /\ Mine(r) /\ reply' = reply /\ to' = to
        /\ step[r] \in {"sending", "open", "clear"} /\ step'[r] \in {"open", "clear", "typed"}
    BY GoesIsMine DEF Open, Clear, Insert, TypeOK
  <2>3. QED BY <2>1, <2>2 DEF Busy, Sending, OnTab
<1>2. /\ On[r] \in Draft /\ sent[On[r]] = 0 /\ On[r] \notin compose /\ reply[r] = "none"
  BY <1>1 DEF SendInv
<1>3. compose' \subseteq compose \cup {On[r]} /\ (step'[r] # "typed" => compose' \subseteq compose)
  <2>1. step'[r] # "typed" => ~Insert(r)
    BY GoesIsMine DEF Insert, TypeOK
  <2>2. QED BY <2>1 DEF Open, Clear, Insert
<1>4. /\ RowInv' /\ CancelInv'
      /\ \A s \in Req : Busy(s)' => On[s] \notin box' /\ seq'[On[s]] > 0
      /\ \A s, u \in Req : Busy(s)' /\ Busy(u)' /\ On[s] = On[u] => s = u
      /\ \A s \in Req : step'[s] # "over" => reply'[s] = "none"
      /\ \A s \in Req \ {r} : Busy(s) => On[s] # On[r]
  BY <1>1, <1>2, <1>3, NobodyNew
<1>5. BoxInv' /\ NeverSentTwice'
  BY <1>1, <1>2, <1>3 DEF BoxInv, NeverSentTwice
<1>6. SendInv'
  <2>1. ASSUME NEW s \in Req
        PROVE  /\ step'[s] \in {"sending", "open", "clear"} => sent'[On[s]] = 0 /\ On[s] \notin compose'
               /\ step'[s] = "delivered" => sent'[On[s]] = 1 /\ On[s] \notin astray'
    <3>1. CASE s = r
      BY <1>1, <1>2, <1>3, <3>1
    <3>2. CASE s # r /\ Busy(s)
      BY <1>1, <1>3, <1>4, <3>2 DEF SendInv, Mine
    <3>3. CASE s # r /\ ~Busy(s)
      BY <1>1, <3>3 DEF Mine, Busy, Sending, OnTab
    <3>4. QED BY <3>1, <3>2, <3>3
  <2>2. QED BY <1>4, <2>1 DEF SendInv
<1>7. disturbed \subseteq disturbed'
  BY DEF Open, Clear, Insert
<1>8. SentMeansItLeft'
  BY <1>1, <1>7 DEF SentMeansItLeft
<1>9. ASSUME NEW s \in Req, step'[s] \in OnTab, s \notin disturbed' PROVE Alone(s)'
  <2>1. s \notin disturbed
    BY <1>7, <1>9
  <2>2. CASE Open(r)
    <3>1. Others(r) = {}
      <4>1. SUFFICES ASSUME Others(r) # {} PROVE FALSE
        OBVIOUS
      <4>2. s \in {r} \cup Others(r)
        BY <1>1, <1>9 DEF Others, Mine
      <4>3. QED BY <1>9, <2>2, <4>1, <4>2 DEF Open
    <3>2. \A u \in Req \ {r} : step'[u] \notin OnTab
      BY <1>1, <3>1 DEF Others, Mine
    <3>3. s = r /\ step'[r] = "open"
      BY <1>9, <2>2, <3>2, GoesIsMine DEF Open, TypeOK
    <3>4. chat' = to'[On[r]]
      BY <1>1, <2>2 DEF Open
    <3>5. QED BY <3>2, <3>3, <3>4 DEF Alone
  <2>3. CASE Clear(r) \/ Insert(r)
    <3>1. step[r] \in OnTab /\ \A u \in Req : step'[u] \in OnTab => step[u] \in OnTab
      <4>1. step[r] \in OnTab
        BY <2>3 DEF Clear, Insert, GoesTo, OnTab
      <4>2. QED BY <1>1, <4>1 DEF Mine
    <3>2. s = r /\ Alone(r) /\ chat' = chat
      BY <1>9, <2>1, <2>3, <3>1 DEF TabInv, Alone, Clear, Insert
    <3>3. CASE Clear(r)
      <4>1. step'[r] = "clear"
        BY <3>3, GoesIsMine DEF Clear, TypeOK
      <4>2. compose' = {}
        BY <1>9, <3>2, <3>3 DEF Clear
      <4>3. QED BY <1>1, <3>1, <3>2, <4>1, <4>2 DEF Alone
    <3>4. CASE Insert(r)
      <4>1. step[r] = "clear" /\ step'[r] = "typed"
        BY <3>4, GoesIsMine DEF Insert, TypeOK
      <4>2. compose = {}
        BY <3>2, <4>1 DEF Alone
      <4>3. compose' = {On[r]}
        BY <1>9, <3>2, <3>4, <4>2 DEF Insert
      <4>4. QED BY <1>1, <1>2, <3>1, <3>2, <4>1, <4>3 DEF Alone, Filled
    <3>5. QED BY <2>3, <3>3, <3>4
  <2>4. QED BY <2>2, <2>3
<1>10. TabInv'
  BY <1>9 DEF TabInv
<1>11. QED BY <1>4, <1>5, <1>6, <1>8, <1>10 DEF Core

(* What leaves the box leaves for the first time, and an undisturbed request's *)
(* text leaves alone and in its own conversation.                             *)
LEMMA LeavingStep ==
  ASSUME IInv, NEW r \in Req, PressEnter(r) \/ ClickSend(r), UNCHANGED Table PROVE Core'
<1> USE MessagingAssumption DEF IInv
<1>1. /\ Mine(r) /\ Busy(r) /\ step[r] \in {"typed", "pressed"} /\ step'[r] \in {"pressed", "clicked"}
      /\ UNCHANGED <<box, seq, to, reply, chat, disturbed>>
  <2>1. UNCHANGED <<box, seq, chat, disturbed>>
    BY DEF PressEnter, ClickSend, Table
  <2>2. /\ Mine(r) /\ reply' = reply /\ to' = to
        /\ step[r] \in {"typed", "pressed"} /\ step'[r] \in {"pressed", "clicked"}
    BY GoesIsMine DEF PressEnter, ClickSend, TypeOK
  <2>3. QED BY <2>1, <2>2 DEF Busy, Sending, OnTab
<1>2. On[r] \in Draft /\ reply[r] = "none"
  BY <1>1 DEF SendInv
<1>3. \/ /\ \A d \in Draft : sent'[d] = IF d \in compose THEN 1 ELSE sent[d]
         /\ astray' = astray \cup {d \in compose : to[d] # chat \/ compose # {d}}
         /\ compose' = {}
      \/ UNCHANGED <<sent, astray, compose>>
  <2>1. CASE Leaves
    <3>1. \A d \in Draft : sent'[d] = IF d \in compose THEN sent[d] + 1 ELSE sent[d]
      BY <2>1 DEF Leaves
    <3>2. \A d \in compose : sent[d] + 1 = 1
      BY DEF BoxInv
    <3>3. \A d \in Draft : sent'[d] = IF d \in compose THEN 1 ELSE sent[d]
      BY <3>1, <3>2
    <3>4. QED BY <2>1, <3>3 DEF Leaves
  <2>2. CASE Stays
    BY <2>2 DEF Stays
  <2>3. QED BY <2>1, <2>2 DEF PressEnter, ClickSend
<1>4. /\ RowInv' /\ CancelInv'
      /\ \A s \in Req : Busy(s)' => On[s] \notin box' /\ seq'[On[s]] > 0
      /\ \A s, u \in Req : Busy(s)' /\ Busy(u)' /\ On[s] = On[u] => s = u
      /\ \A s \in Req : step'[s] # "over" => reply'[s] = "none"
      /\ \A s \in Req \ {r} : Busy(s) => On[s] # On[r]
  BY <1>1, <1>2, <1>3, NobodyNew
<1>5. BoxInv' /\ NeverSentTwice'
  <2>1. \A d \in compose' : sent'[d] = 0
    BY <1>3 DEF BoxInv
  <2>2. \A d \in Draft : sent'[d] = 0 => d \notin astray'
    BY <1>3 DEF BoxInv
  <2>3. \A d \in Draft : sent'[d] <= 1
    BY <1>3 DEF NeverSentTwice
  <2>4. QED BY <2>1, <2>2, <2>3 DEF BoxInv, NeverSentTwice
<1>6. \A d \in Draft : sent[d] = 1 => sent'[d] = 1 /\ (d \notin astray => d \notin astray')
  BY <1>3 DEF BoxInv
<1>7. SendInv'
  <2>1. ASSUME NEW s \in Req
        PROVE  /\ step'[s] \in {"sending", "open", "clear"} => sent'[On[s]] = 0 /\ On[s] \notin compose'
               /\ step'[s] = "delivered" => sent'[On[s]] = 1 /\ On[s] \notin astray'
    <3>1. CASE s = r
      BY <1>1, <3>1
    <3>2. CASE s # r
      <4>1. step'[s] = step[s] /\ On[s] \in Draft
        BY <1>1, <3>2 DEF Mine
      <4>2. QED BY <1>3, <1>6, <4>1 DEF SendInv
    <3>3. QED BY <3>1, <3>2
  <2>2. QED BY <1>4, <2>1 DEF SendInv
<1>8. SentMeansItLeft'
  BY <1>1, <1>6 DEF SentMeansItLeft
<1>9. TabInv'
  <2>1. step[r] \in OnTab /\ \A u \in Req : step'[u] \in OnTab => step[u] \in OnTab
    <3>1. step[r] \in OnTab
      BY <1>1 DEF OnTab
    <3>2. QED BY <1>1, <3>1 DEF Mine
  <2>2. ASSUME NEW s \in Req, step'[s] \in OnTab, s \notin disturbed' PROVE Alone(s)'
    <3>1. s = r /\ Alone(r)
      BY <1>1, <2>1, <2>2 DEF TabInv, Alone
    <3>2. Filled(r) /\ chat = to[On[r]]
      BY <1>1, <3>1 DEF Alone
    <3>3. Filled(r)'
      <4>1. CASE compose = {On[r]} /\ sent[On[r]] = 0
        <5>1. On[r] \notin astray
          BY <1>2, <4>1 DEF BoxInv
        <5>2. {d \in compose : to[d] # chat \/ compose # {d}} = {}
          BY <3>2, <4>1
        <5>3. QED BY <1>2, <1>3, <4>1, <5>1, <5>2 DEF Filled
      <4>2. CASE compose = {} /\ sent[On[r]] = 1 /\ On[r] \notin astray
        BY <1>2, <1>3, <4>2 DEF Filled
      <4>3. QED BY <3>2, <4>1, <4>2 DEF Filled
    <3>4. QED BY <1>1, <2>1, <3>1, <3>2, <3>3 DEF Alone
  <2>3. QED BY <2>2 DEF TabInv
<1>10. QED BY <1>4, <1>5, <1>7, <1>8, <1>9 DEF Core

(* The answers: of the last look, and of a failure. *)
LEMMA EndingStep ==
  ASSUME IInv, NEW r \in Req, (Look(r) /\ UNCHANGED Table) \/ SendFails(r) PROVE Core'
<1> USE MessagingAssumption DEF IInv
<1>1. /\ Mine(r) /\ Busy(r) /\ step'[r] = "over" /\ reply'[r] \in {"sent", "error"}
      /\ UNCHANGED <<box, seq, to, chat, compose, sent, astray>>
  <2>1. UNCHANGED <<box, seq, to, chat, compose, sent, astray>>
    BY DEF Look, SendFails, AfterFailure, Keep, Table
  <2>2. Busy(r)
    BY DEF Look, SendFails, Busy, Sending, OnTab
  <2>3. QED BY <2>1, <2>2, AnswerIsMine DEF Look, SendFails, TypeOK
<1>2. /\ RowInv' /\ CancelInv'
      /\ \A s \in Req : Busy(s)' => On[s] \notin box' /\ seq'[On[s]] > 0
      /\ \A s, u \in Req : Busy(s)' /\ Busy(u)' /\ On[s] = On[u] => s = u
      /\ \A s \in Req : step'[s] # "over" => reply'[s] = "none"
  BY <1>1, NobodyNew
<1>3. BoxInv' /\ NeverSentTwice'
  BY <1>1 DEF BoxInv, NeverSentTwice
<1>4. SendInv'
  BY <1>1, <1>2 DEF SendInv, Mine
<1>5. \A s \in Req \ {r} : s \in disturbed' <=> s \in disturbed
  BY DEF Look, SendFails
<1>6. TabInv'
  <2>1. \A s \in Req : step'[s] \in OnTab => s # r /\ step'[s] = step[s]
    BY <1>1 DEF Mine, OnTab
  <2>2. QED BY <1>1, <1>5, <2>1 DEF TabInv, Alone, Filled
<1>7. SentMeansItLeft'
  <2>1. ASSUME reply'[r] = "sent", r \notin disturbed' PROVE sent[On[r]] = 1 /\ On[r] \notin astray
    <3>1. Look(r)
      BY <2>1, AnswerIsMine DEF SendFails, TypeOK
    <3>2. compose = {} /\ r \notin disturbed /\ step[r] = "clicked"
      BY <2>1, <3>1 DEF Look
    <3>3. Filled(r)
      BY <3>2 DEF TabInv, Alone, OnTab
    <3>4. QED BY <3>2, <3>3 DEF Filled
  <2>2. QED BY <1>1, <1>5, <2>1 DEF SentMeansItLeft, Mine
<1>8. QED BY <1>2, <1>3, <1>4, <1>6, <1>7 DEF Core

LEMMA CoreStep == ASSUME IInv, [Next]_vars PROVE Core'
<1> USE OutboxAssumption, MessagingAssumption DEF IInv
<1>1. ASSUME NEW r \in Req, Closure(r) PROVE Core'
  BY <1>1, ClosureStep
<1>2. ASSUME NEW r \in Req, Dispatch(r) PROVE Core'
  <2>1. UNCHANGED Table
    BY <1>2 DEF Dispatch
  <2>2. CASE Deliver(r) \/ Delivered(r)
    BY <2>1, <2>2, TelegramStep
  <2>3. CASE Open(r) \/ Clear(r) \/ Insert(r)
    BY <2>1, <2>3, TypingStep
  <2>4. CASE PressEnter(r) \/ ClickSend(r)
    BY <2>1, <2>4, LeavingStep
  <2>5. CASE Look(r)
    BY <2>1, <2>5, EndingStep
  <2>6. QED BY <1>2, <2>2, <2>3, <2>4, <2>5 DEF Dispatch, MessengerStep
<1>3. ASSUME NEW r \in Req, SendFails(r) PROVE Core'
  BY <1>3, EndingStep
<1>4. CASE Page
  <2>1. /\ UNCHANGED <<box, seq, step, reply, sent, astray>> /\ compose' = {}
        /\ disturbed' = disturbed \cup {r \in Req : step[r] \in OnTab}
    BY <1>4 DEF Page, PageChanges, Table
  <2>2. RowInv' /\ SendInv' /\ BoxInv' /\ CancelInv'
    BY <2>1 DEF RowInv, SendInv, BoxInv, CancelInv, Busy
  <2>3. TabInv' /\ NeverSentTwice' /\ SentMeansItLeft'
    BY <2>1 DEF TabInv, NeverSentTwice, SentMeansItLeft
  <2>4. QED BY <2>2, <2>3 DEF Core
<1>5. CASE Crash
  <2>1. /\ UNCHANGED <<box, seq, reply, sent, compose, astray>>
        /\ disturbed' = {r \in disturbed : step[r] = "over"}
        /\ \A r \in Req : step'[r] = IF step[r] = "new" THEN "new" ELSE "over"
    BY <1>5 DEF Crash, Table
  <2>2. \A r \in Req : ~Busy(r)' /\ step'[r] \notin OnTab
    BY <2>1 DEF Busy, Sending, OnTab
  <2>3. RowInv' /\ BoxInv' /\ CancelInv' /\ NeverSentTwice'
    BY <2>1, <2>2 DEF RowInv, BoxInv, CancelInv, NeverSentTwice
  <2>4. SendInv' /\ TabInv'
    BY <2>1, <2>2 DEF SendInv, TabInv
  <2>5. SentMeansItLeft'
    BY <2>1 DEF SentMeansItLeft, SendInv
  <2>6. QED BY <2>3, <2>4, <2>5 DEF Core
<1>6. CASE Tick \/ UNCHANGED vars
  BY <1>6 DEF Core, RowInv, SendInv, BoxInv, TabInv, Alone, Filled, CancelInv, NeverSentTwice,
              SentMeansItLeft, Busy, Tick, vars, Table, messaging, tabVars
<1>7. QED BY <1>1, <1>2, <1>3, <1>4, <1>5, <1>6 DEF Next, Handle, Closure

LEMMA LimitStep == ASSUME IInv, [Next]_vars PROVE NeverOverfull'
<1>1. ASSUME NEW r \in Req, Stage(r) PROVE NeverOverfull'
  <2>1. PICK gone \in SUBSET Live :
          Cardinality(gone) = Excess(Live) /\ box' = (Live \ gone) \cup {On[r]}
    BY <1>1 DEF Stage
  <2>2. IsFiniteSet(Live)
    BY OutboxAssumption, FS_Subset DEF IInv, TypeOK, Live
  <2>3. QED BY <2>1, <2>2, RoomForOne DEF NeverOverfull
<1>2. CASE ~(\E r \in Req : Stage(r))
  <2>1. box' \subseteq box
    BY <1>2 DEF Next, Handle, Take, Cancel, Pending, StorageFails, Dispatch, SendFails, Page, Tick, Crash,
                Keep, AfterConfirmation, AfterCancel, AfterFailure, Live, vars, Table
  <2>2. QED BY <2>1, FewerRowsFit
<1>3. QED BY <1>1, <1>2

LEMMA Invariance == Spec => []IInv
<1>1. IInv /\ [Next]_vars => IInv'
  BY TypeStep, CoreStep, LimitStep DEF IInv, Core
<1>2. QED BY InitInv, <1>1, PTL DEF Spec

-----------------------------------------------------------------------------
(* The variables of the outbox keep their types. *)
THEOREM TypeCorrect == Spec => []TypeOK
BY Invariance, PTL DEF IInv

(* A draft leaves the machine at most once, however many confirmations race,  *)
(* fail, are repeated or are cut off (the row is consumed before the send).   *)
THEOREM AtMostOnce == Spec => []NeverSentTwice
BY Invariance, PTL DEF IInv

(* A cancellation that was answered "cancelled" is final. *)
THEOREM CancellationIsFinal == Spec => []CancelledIsNeverSent
<1>1. IInv => CancelledIsNeverSent
  BY DEF IInv, CancelInv, CancelledIsNeverSent
<1>2. QED BY Invariance, <1>1, PTL

(* A confirmation answered Ok has been accepted by Telegram; or its text has   *)
(* left the compose box of Messenger, once, alone and in its own conversation, *)
(* unless something else was at the tab or the page could not be read.        *)
THEOREM OkMeansItLeft == Spec => []SentMeansItLeft
BY Invariance, PTL DEF IInv

(* What callers are told about a draft agrees with what left the machine. *)
THEOREM AnswersMatch == Spec => []AnswersMatchTheWire
BY TypeCorrect, AtMostOnce, CancellationIsFinal, OkMeansItLeft, PTL DEF AnswersMatchTheWire

(* The table holds at most MaxPending drafts, whatever the clock does. *)
THEOREM LimitKept == Spec => []NeverOverfull
BY Invariance, PTL DEF IInv

-----------------------------------------------------------------------------
(* The outbox implements DraftLife. *)

(* Somebody holds the draft, or its text is in the box of the page. *)
Held(d) == Holders(d) # {} \/ d \in compose

(* A step that changes nothing a draft's fate depends on. *)
Still(d) == /\ seq'[d] = seq[d] /\ sent'[d] = sent[d] /\ (d \in box' <=> d \in box)
            /\ (Held(d)' <=> Held(d))

Moved(d) == Fate(d)' = Fate(d) \/ <<Fate(d), Fate(d)'>> \in Life!Moves

LEMMA StillFate == ASSUME NEW d \in Draft, Still(d) PROVE Moved(d)
BY DEF Still, Moved, Fate, Held

(* A waiting draft that is deleted, unsent and held by nobody, is gone. *)
LEMMA WaitingGoes ==
  ASSUME IInv, NEW d \in Draft, d \in box, d \notin box', UNCHANGED <<seq, sent>>,
         ~Held(d)'
  PROVE  Moved(d)
<1>1. seq[d] > 0 /\ sent[d] = 0 /\ seq[d] \in Nat
  BY DEF IInv, RowInv, TypeOK
<1>2. QED BY <1>1 DEF Moved, Fate, Held, Life!Moves

(* A draft that is held stays so, leaves or is gone; one that is not cannot be *)
(* taken up again, and nothing of it leaves.                                  *)
LEMMA LeavingGoesOn ==
  ASSUME IInv, NEW d \in Draft, UNCHANGED <<box, seq>>, sent'[d] \in Nat,
         Held(d) => d \notin box /\ seq[d] > 0,
         Held(d)' => Held(d),
         sent'[d] # sent[d] => Held(d) /\ sent[d] = 0
  PROVE  Moved(d)
<1>1. CASE Held(d)
  <2>1. seq[d] # 0 /\ sent[d] \in Nat
    BY <1>1 DEF IInv, TypeOK, MessagingTypeOK
  <2>2. QED BY <1>1, <2>1 DEF Moved, Fate, Held, Life!Moves
<1>2. CASE ~Held(d)
  BY <1>2, StillFate DEF Still
<1>3. QED BY <1>1, <1>2

LEMMA StepMoves == ASSUME IInv, [Next]_vars, NEW d \in Draft PROVE Moved(d)
<1> USE OutboxAssumption, MessagingAssumption DEF IInv
<1>0. /\ \A r \in Holders(d) : r \in Req /\ Busy(r) /\ On[r] = d
      /\ Held(d) => d \notin box /\ seq[d] > 0
      /\ MessagingTypeOK /\ seq[d] \in Nat
  <2>1. \A r \in Holders(d) : r \in Req /\ Busy(r) /\ On[r] = d
    BY DEF Holders, Busy
  <2>2. d \in compose => d \notin box /\ seq[d] # 0
    BY DEF RowInv
  <2>3. seq[d] \in Nat /\ MessagingTypeOK
    BY DEF TypeOK
  <2>4. QED BY <2>1, <2>2, <2>3 DEF SendInv, Held
<1>1. ASSUME NEW r \in Req, Closure(r) PROVE Moved(d)
  <2>1. UNCHANGED <<sent, compose>> /\ step[r] = "new" /\ Mine(r) /\ step'[r] \in {"over", "sending"}
    BY <1>0, <1>1, ClosureIsLocal, ClosureIsMine
  <2>2. Holders(d)' = IF d = On[r] /\ step'[r] = "sending" THEN Holders(d) \cup {r} ELSE Holders(d)
    BY <2>1 DEF Holders, Mine, Sending, OnTab
  <2>3. CASE Stage(r)
    <3>1. step'[r] = "over"
      BY <1>0, <2>3, AnswerIsMine DEF Stage
    <3>2. Held(d)' <=> Held(d)
      BY <2>1, <2>2, <3>1 DEF Held
    <3>3. CASE d = On[r]
      <4>1. seq[d] = 0 /\ seq'[d] > 0 /\ d \in box' /\ seq'[d] \in Nat
        BY <2>3, <3>3 DEF RowInv, Stage, Turn, TypeOK
      <4>2. QED BY <4>1 DEF Moved, Fate, Life!Moves
    <3>4. CASE d # On[r]
      <4>1. seq'[d] = seq[d] /\ (d \in box' => d \in box)
        BY <2>3, <3>4 DEF Stage, Live, TypeOK
      <4>2. CASE d \in box <=> d \in box'
        BY <2>1, <3>2, <4>1, <4>2, StillFate DEF Still
      <4>3. CASE d \in box /\ d \notin box'
        BY <1>0, <2>1, <3>2, <4>1, <4>3 DEF RowInv, Moved, Fate, Held, Life!Moves
      <4>4. QED BY <4>1, <4>2, <4>3
    <3>5. QED BY <3>3, <3>4
  <2>4. CASE Take(r) \/ Cancel(r) \/ Pending(r) \/ StorageFails(r)
    <3>1. box' \subseteq box /\ UNCHANGED seq
      BY <2>4 DEF Take, Cancel, Pending, StorageFails, Keep, AfterConfirmation, AfterCancel, Live, Table
    <3>2. step'[r] = "sending" => On[r] \in box /\ On[r] \notin box'
      <4>1. CASE \E what : Answer(r, what)
        BY <1>0, <4>1, AnswerIsMine
      <4>2. CASE On[r] \in box /\ Keep(AfterConfirmation(On[r]))
        BY <4>2 DEF Keep, AfterConfirmation
      <4>3. QED BY <2>4, <4>1, <4>2 DEF Take, Cancel, Pending, StorageFails
    <3>3. CASE d = On[r] /\ step'[r] = "sending"
      <4>1. Held(d)' /\ d \in box /\ d \notin box'
        BY <2>2, <3>2, <3>3 DEF Held
      <4>2. QED BY <1>0, <2>1, <3>1, <4>1 DEF RowInv, Moved, Fate, Held, Life!Moves
    <3>4. CASE ~(d = On[r] /\ step'[r] = "sending")
      <4>1. Held(d)' <=> Held(d)
        BY <2>1, <2>2, <3>4 DEF Held
      <4>2. CASE d \in box /\ d \notin box'
        BY <1>0, <2>1, <3>1, <4>1, <4>2, WaitingGoes
      <4>3. CASE d \in box <=> d \in box'
        BY <2>1, <3>1, <4>1, <4>3, StillFate DEF Still
      <4>4. QED BY <3>1, <4>2, <4>3
    <3>5. QED BY <3>3, <3>4
  <2>5. QED BY <1>1, <2>3, <2>4 DEF Closure
<1>2. ASSUME NEW r \in Req, Dispatch(r) \/ SendFails(r) PROVE Moved(d)
  <2>1. UNCHANGED <<box, seq>> /\ Busy(r) /\ Mine(r)
    <3>1. CASE Dispatch(r)
      <4>1. UNCHANGED <<box, seq>>
        BY <3>1 DEF Dispatch, Table
      <4>2. Mine(r) /\ Busy(r)
        <5>1. CASE Delivered(r) \/ Look(r)
          BY <1>0, <5>1, AnswerIsMine DEF Delivered, Look, Busy, Sending, OnTab
        <5>2. CASE Deliver(r) \/ Open(r) \/ Clear(r) \/ Insert(r) \/ PressEnter(r) \/ ClickSend(r)
          BY <1>0, <5>2, GoesIsMine
          DEF Deliver, Open, Clear, Insert, PressEnter, ClickSend, Busy, Sending, OnTab
        <5>3. QED BY <3>1, <5>1, <5>2 DEF Dispatch, MessengerStep
      <4>3. QED BY <4>1, <4>2
    <3>2. CASE SendFails(r)
      BY <1>0, <3>2, AnswerIsMine DEF SendFails, AfterFailure, Keep, Busy
    <3>3. QED BY <1>2, <3>1, <3>2
  <2>2. Holders(d)' \subseteq Holders(d)
    BY <2>1 DEF Holders, Mine, Busy
  <2>3. compose' \subseteq compose \cup {On[r]}
    BY <1>2 DEF Dispatch, MessengerStep, SendFails, Deliver, Delivered, Open, Clear, Insert, PressEnter,
                ClickSend, Look, Leaves, Stays, tabVars
  <2>4. Held(d)' => Held(d)
    BY <2>1, <2>2, <2>3 DEF Held, Holders, Busy
  <2>5. sent'[d] # sent[d] => Held(d) /\ sent[d] = 0
    <3>1. CASE Deliver(r)
      <4>1. d # On[r] => sent'[d] = sent[d]
        BY <1>0, <3>1 DEF Deliver, MessagingTypeOK
      <4>2. d = On[r] => sent[d] = 0 /\ r \in Holders(d)
        BY <2>1, <3>1 DEF Deliver, GoesTo, SendInv, Holders, Busy
      <4>3. QED BY <4>1, <4>2 DEF Held
    <3>2. CASE Leaves
      BY <3>2 DEF Leaves, BoxInv, Held
    <3>3. CASE UNCHANGED sent
      BY <3>3
    <3>4. QED BY <1>2, <3>1, <3>2, <3>3 DEF Dispatch, MessengerStep, SendFails, Delivered, Open, Clear, Insert,
                                            PressEnter, ClickSend, Look, Stays
  <2>6. sent'[d] \in Nat
    BY TypeStep DEF TypeOK, MessagingTypeOK
  <2>7. QED BY <1>0, <2>1, <2>4, <2>5, <2>6, LeavingGoesOn
<1>3. CASE Page \/ Crash
  <2>1. UNCHANGED <<box, seq, sent>> /\ compose' \subseteq compose
    BY <1>3 DEF Page, PageChanges, Crash, Table
  <2>2. Holders(d)' \subseteq Holders(d)
    BY <1>3 DEF Page, PageChanges, Crash, Holders, Sending, OnTab
  <2>3. Held(d)' => Held(d)
    BY <2>1, <2>2 DEF Held
  <2>4. sent'[d] \in Nat
    BY <1>0, <2>1 DEF MessagingTypeOK
  <2>5. QED BY <1>0, <2>1, <2>3, <2>4, LeavingGoesOn
<1>4. CASE Tick \/ UNCHANGED vars
  <2>1. UNCHANGED <<box, seq, sent, step, compose>>
    BY <1>4 DEF Tick, vars, Table, messaging, tabVars
  <2>2. Held(d)' <=> Held(d)
    BY <2>1 DEF Held, Holders
  <2>3. QED BY <2>1, <2>2, StillFate DEF Still
<1>5. QED BY <1>1, <1>2, <1>3, <1>4 DEF Next, Handle, Closure

(* Every draft of the outbox lives the life DraftLife describes: nothing      *)
(* brings a consumed, evicted, expired or cancelled draft back.               *)
THEOREM OutboxImplementsLife == Spec => ImplementsLife
<1>1. Init => Life!Init
  <2>1. ASSUME Init, NEW d \in Draft PROVE Fate(d) = "unborn"
    BY <2>1 DEF Init, Fate
  <2>2. QED BY <2>1 DEF Life!Init
<1>2. ASSUME IInv, [Next]_vars
      PROVE  [Life!Next]_([d \in Draft |-> Fate(d)])
  <2>1. \A d \in Draft : Moved(d)
    BY <1>2, StepMoves
  <2>2. \A d \in Draft : Fate(d)' \in {"unborn", "waiting", "leaving", "sent", "gone"}
    BY DEF Fate
  <2>3. Life!Next
    BY <2>1, <2>2 DEF Life!Next, Moved
  <2>4. QED BY <2>3
<1>3. QED BY <1>1, <1>2, Invariance, PTL DEF Spec, ImplementsLife, Life!Spec
=============================================================================
