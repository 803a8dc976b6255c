---------------------------- MODULE DbActorProofs ----------------------------
(***************************************************************************)
(* Proofs about DbActor for every set of commands, every assignment of      *)
(* kinds, every capacity, batch length and number of crashes.               *)
(***************************************************************************)
EXTENDS DbActor, TLAPS

-----------------------------------------------------------------------------
(* The inductive invariant *)

Ascending(s, t) == \A i, j \in 1..Len(s) : i < j => t[s[i]] < t[s[j]]

(* A command has a ticket from its acceptance on, and is called only once. *)
TicketInv ==
  /\ \A c \in Cmd : ticket[c] <= accepted
  /\ \A c \in Cmd : ticket[c] > 0 \/ reply[c] # "none" => c \in called
  /\ \A c \in InFlight \cup durable : ticket[c] > 0

(* Everything moves from the channel to the database in ticket order. *)
OrderInv ==
  /\ Ascending(queue, ticket) /\ Ascending(batch, ticket)
  /\ \A c \in Elems(batch), d \in Elems(queue) : ticket[c] < ticket[d]
  /\ \A c \in done \cup durable, d \in Elems(batch) \cup Elems(queue) : ticket[c] < ticket[d]
  /\ phase = "tx" => \A d \in durable, c \in done : ticket[d] < ticket[c]

(* What the thread holds at each point of its loop. *)
PhaseInv ==
  /\ phase \notin {"tx", "publish", "refresh", "ack"} => done = {}
  /\ phase \in {"publish", "refresh", "ack"} => done \cap Writes \subseteq durable
  /\ phase \in {"idle", "reject", "stopped", "down"} => batch = <<>>

(* A command that is still waited for was not answered, and one that was *)
(* accepted and not answered is still waited for.                        *)
ReplyInv ==
  /\ \A c \in InFlight : reply[c] = "none" \/ (reply[c] = "ok" /\ Kind[c] = "event")
  /\ \A c \in Replying : ticket[c] > 0 /\ reply[c] = "none" => c \in InFlight

(* The builder, the snapshot and the tables. *)
GraphInv ==
  /\ rows \cup builder \cup shared \subseteq durable
  /\ mine => builder = shared
  /\ phase # "down" =>
       \A c \in Of({"graph"}) \cap rows : c \in shared \/ (phase = "publish" /\ c \in done)

IInv == /\ TypeOK /\ TicketInv /\ OrderInv /\ PhaseInv /\ ReplyInv
        /\ AckedIsDurable /\ FailedLeavesNoTrace /\ FlushIsABarrier
        /\ GraphInv
-----------------------------------------------------------------------------
(* Sequences as the queue and the batch use them *)

LEMMA NonEmptySeq ==
  ASSUME NEW S, NEW s \in Seq(S), s # <<>>
  PROVE  /\ Len(s) \in Nat /\ Len(s) > 0
         /\ Head(s) = s[1] /\ Head(s) \in S
         /\ Tail(s) \in Seq(S) /\ Len(Tail(s)) = Len(s) - 1
         /\ \A i \in 1..Len(Tail(s)) : Tail(s)[i] = s[i + 1]
  OBVIOUS

LEMMA TakeHead ==
  ASSUME NEW S, NEW s \in Seq(S), s # <<>>
  PROVE  /\ Head(s) \in S /\ Tail(s) \in Seq(S) /\ Len(Tail(s)) = Len(s) - 1
         /\ Elems(s) = {Head(s)} \cup Elems(Tail(s))
<1>1. Elems(s) \subseteq {Head(s)} \cup Elems(Tail(s))
  <2>1. SUFFICES ASSUME NEW i \in 1..Len(s), i # 1
                 PROVE  s[i] \in Elems(Tail(s))
    BY NonEmptySeq DEF Elems
  <2>2. i - 1 \in 1..Len(Tail(s)) /\ Tail(s)[i - 1] = s[i]
    BY NonEmptySeq, <2>1
  <2>3. QED BY <2>2 DEF Elems
<1>2. Elems(Tail(s)) \subseteq Elems(s)
  <2>1. SUFFICES ASSUME NEW i \in 1..Len(Tail(s))
                 PROVE  Tail(s)[i] \in Elems(s)
    BY DEF Elems
  <2>2. i + 1 \in 1..Len(s) /\ Tail(s)[i] = s[i + 1]
    BY NonEmptySeq
  <2>3. QED BY <2>2 DEF Elems
<1>3. Head(s) \in Elems(s)
  <2>1. 1 \in 1..Len(s) /\ Head(s) = s[1]
    BY NonEmptySeq
  <2>2. QED BY <2>1 DEF Elems
<1>4. QED BY <1>1, <1>2, <1>3, NonEmptySeq

LEMMA PutLast ==
  ASSUME NEW S, NEW s \in Seq(S), NEW e \in S
  PROVE  /\ Append(s, e) \in Seq(S) /\ Len(Append(s, e)) = Len(s) + 1
         /\ Elems(Append(s, e)) = Elems(s) \cup {e}
<1>1. /\ Len(s) \in Nat /\ Append(s, e) \in Seq(S) /\ Len(Append(s, e)) = Len(s) + 1
      /\ \A i \in 1..Len(s) : Append(s, e)[i] = s[i]
      /\ Append(s, e)[Len(s) + 1] = e
  OBVIOUS
<1>2. 1..(Len(s) + 1) = 1..Len(s) \cup {Len(s) + 1}
  BY <1>1
<1>3. QED BY <1>1, <1>2 DEF Elems

LEMMA AscendingTail ==
  ASSUME NEW S, NEW s \in Seq(S), s # <<>>, NEW t \in [S -> Nat], Ascending(s, t)
  PROVE  /\ Ascending(Tail(s), t)
         /\ \A e \in Elems(Tail(s)) : t[Head(s)] < t[e]
<1>1. \A i \in 1..Len(Tail(s)) : i + 1 \in 1..Len(s) /\ Tail(s)[i] = s[i + 1]
  BY NonEmptySeq
<1>2. 1 \in 1..Len(s) /\ Head(s) = s[1]
  BY NonEmptySeq
<1>3. Ascending(Tail(s), t)
  BY <1>1 DEF Ascending
<1>4. ASSUME NEW i \in 1..Len(Tail(s)) PROVE t[Head(s)] < t[Tail(s)[i]]
  BY <1>1, <1>2 DEF Ascending
<1>5. QED BY <1>3, <1>4 DEF Elems

LEMMA AscendingAppend ==
  ASSUME NEW S, NEW s \in Seq(S), NEW e \in S, NEW t \in [S -> Nat], Ascending(s, t),
         \A a \in Elems(s) : t[a] < t[e]
  PROVE  Ascending(Append(s, e), t)
<1>1. /\ Len(s) \in Nat /\ Len(Append(s, e)) = Len(s) + 1
      /\ \A i \in 1..Len(s) : Append(s, e)[i] = s[i]
      /\ Append(s, e)[Len(s) + 1] = e
  OBVIOUS
<1>2. \A i \in 1..Len(s) : t[s[i]] < t[e]
  BY DEF Elems
<1>3. QED BY <1>1, <1>2 DEF Ascending

LEMMA EmptySeq ==
  /\ Elems(<<>>) = {}
  /\ \A t : Ascending(<<>>, t)
  BY DEF Elems, Ascending

LEMMA ElemsType ==
  ASSUME NEW S, NEW s \in Seq(S)
  PROVE  Elems(s) \subseteq S
  BY DEF Elems

-----------------------------------------------------------------------------
(* Small facts the steps share *)

(* What Answer leaves of the replies. *)
LEMMA AnswerEffect ==
  ASSUME reply \in [Cmd -> Replies], NEW cs, NEW r \in Replies, Answer(cs, r)
  PROVE  /\ reply' \in [Cmd -> Replies]
         /\ \A c \in Cmd : reply'[c] = IF c \in cs /\ c \in Replying /\ reply[c] = "none"
                                      THEN r ELSE reply[c]
  BY DEF Answer

(* The queue and the batch hold commands. *)
LEMMA Contents ==
  ASSUME TypeOK
  PROVE  /\ Elems(queue) \subseteq Cmd /\ Elems(batch) \subseteq Cmd
         /\ InFlight \subseteq Cmd
  BY ElemsType DEF TypeOK, InFlight

(* Taking the next command out of the channel. *)
LEMMA NextQueued ==
  ASSUME IInv, queue # <<>>, queue' = Tail(queue)
  PROVE  /\ Head(queue) \in Cmd /\ queue' \in Seq(Cmd) /\ Len(queue') <= QueueCap
         /\ Elems(queue) = {Head(queue)} \cup Elems(queue')
         /\ Ascending(queue', ticket)
         /\ \A d \in Elems(queue') : ticket[Head(queue)] < ticket[d]
<1>1. queue \in Seq(Cmd) /\ ticket \in [Cmd -> Nat] /\ Len(queue) <= QueueCap
  BY DEF IInv, TypeOK
<1>2. Ascending(queue, ticket)
  BY DEF IInv, OrderInv
<1>3. Len(queue') = Len(queue) - 1 /\ Len(queue) \in Nat /\ QueueCap \in Nat
  BY <1>1, TakeHead, DbActorAssumption
<1>4. QED BY <1>1, <1>2, <1>3, TakeHead, AscendingTail

(* Taking the next command out of the batch. *)
LEMMA NextInBatch ==
  ASSUME IInv, batch # <<>>, batch' = Tail(batch)
  PROVE  /\ Head(batch) \in Cmd /\ batch' \in Seq(Cmd) /\ Len(batch') <= BatchMax
         /\ Elems(batch) = {Head(batch)} \cup Elems(batch')
         /\ Ascending(batch', ticket)
         /\ \A d \in Elems(batch') : ticket[Head(batch)] < ticket[d]
<1>1. batch \in Seq(Cmd) /\ ticket \in [Cmd -> Nat] /\ Len(batch) <= BatchMax
  BY DEF IInv, TypeOK
<1>2. Ascending(batch, ticket)
  BY DEF IInv, OrderInv
<1>3. Len(batch') = Len(batch) - 1 /\ Len(batch) \in Nat /\ BatchMax \in Nat
  BY <1>1, TakeHead, DbActorAssumption
<1>4. QED BY <1>1, <1>2, <1>3, TakeHead, AscendingTail

-----------------------------------------------------------------------------
(* The initial states satisfy the invariant. *)
LEMMA InitIInv ==
  ASSUME Init
  PROVE  IInv
<1>2. InFlight = {} /\ Ascending(queue, ticket) /\ Ascending(batch, ticket)
  BY EmptySeq DEF Init, InFlight
<1>3. TypeOK
  <2>1. queue \in Seq(Cmd) /\ batch \in Seq(Cmd) /\ Len(queue) = 0 /\ Len(batch) = 0
    BY DEF Init
  <2>2. ticket \in [Cmd -> Nat] /\ reply \in [Cmd -> Replies]
    BY DEF Init, Replies
  <2>3. open \in BOOLEAN /\ conn \in BOOLEAN /\ mine \in BOOLEAN
    BY Zenon DEF Init
  <2>4. accepted \in Nat /\ crashes \in Nat /\ phase \in Phases
    BY DEF Init, Phases
  <2>5. Len(queue) <= QueueCap /\ Len(batch) <= BatchMax
    BY <2>1, DbActorAssumption
  <2>6. QED BY <2>1, <2>2, <2>3, <2>4, <2>5 DEF Init, TypeOK
<1>4. TicketInv
  BY <1>2 DEF Init, TicketInv
<1>5. OrderInv
  BY <1>2, EmptySeq DEF Init, OrderInv
<1>6. PhaseInv
  BY DEF Init, PhaseInv
<1>7. ReplyInv /\ GraphInv
  BY <1>2 DEF Init, ReplyInv, GraphInv, Replying, Of
<1>8. AckedIsDurable /\ FailedLeavesNoTrace /\ FlushIsABarrier
  BY DEF Init, AckedIsDurable, FailedLeavesNoTrace, FlushIsABarrier, Promised, Writes, Of
<1>9. QED BY <1>3, <1>4, <1>5, <1>6, <1>7, <1>8 DEF IInv

-----------------------------------------------------------------------------
(* Every step preserves it: the callers. *)

LEMMA SubmitIInv ==
  ASSUME IInv, NEW c \in Cmd, Submit(c)
  PROVE  IInv'
<1>1. /\ queue' = Append(queue, c) /\ queue' \in Seq(Cmd) /\ Len(queue') <= QueueCap
      /\ Elems(queue') = Elems(queue) \cup {c}
  <2>1. queue \in Seq(Cmd) /\ Len(queue) \in Nat /\ QueueCap \in Nat /\ Len(queue) < QueueCap
    BY DbActorAssumption DEF IInv, TypeOK, Submit
  <2>2. QED BY <2>1, PutLast DEF Submit, Enqueue
<1>2. /\ accepted' = accepted + 1 /\ accepted \in Nat
      /\ ticket' = [ticket EXCEPT ![c] = accepted + 1] /\ ticket' \in [Cmd -> Nat]
      /\ ticket'[c] = accepted + 1
      /\ \A d \in Cmd \ {c} : ticket'[d] = ticket[d]
      /\ \A d \in Cmd : ticket[d] <= accepted /\ ticket[d] \in Nat
  BY DEF IInv, TypeOK, TicketInv, Submit, Enqueue
<1>3. /\ c \notin called /\ reply[c] = "none" /\ ticket[c] = 0
      /\ c \notin InFlight /\ c \notin durable
  BY <1>2, Contents DEF IInv, TypeOK, TicketInv, Submit, Callable
<1>4. InFlight' = InFlight \cup {c}
  BY <1>1 DEF InFlight, Submit, Callable
<1>5. TypeOK'
  BY <1>1, <1>2 DEF IInv, TypeOK, Submit, Callable, graphVars
<1>6. TicketInv'
  BY <1>2, <1>3, <1>4, Contents DEF IInv, TypeOK, TicketInv, Submit, Callable
<1>7. OrderInv'
  <2>1. \A d \in Elems(queue) \cup Elems(batch) \cup done \cup durable :
          d \in Cmd /\ d # c /\ ticket'[d] = ticket[d] /\ ticket'[d] < ticket'[c]
    BY <1>2, <1>3, Contents DEF IInv, TypeOK, InFlight
  <2>2. Ascending(queue, ticket') /\ Ascending(batch, ticket')
    <3>1. \A i \in 1..Len(queue) : ticket'[queue[i]] = ticket[queue[i]]
      BY <2>1 DEF Elems
    <3>2. \A i \in 1..Len(batch) : ticket'[batch[i]] = ticket[batch[i]]
      BY <2>1 DEF Elems
    <3>3. QED BY <3>1, <3>2 DEF IInv, OrderInv, Ascending
  <2>3. Ascending(queue', ticket') /\ Ascending(batch', ticket')
    BY <1>1, <1>2, <2>1, <2>2, AscendingAppend DEF IInv, TypeOK, Submit, Callable
  <2>4. QED BY <1>1, <2>1, <2>3 DEF IInv, OrderInv, Submit, Callable
<1>8. PhaseInv' /\ AckedIsDurable' /\ FailedLeavesNoTrace'
  BY DEF IInv, PhaseInv, AckedIsDurable, FailedLeavesNoTrace, Submit, Callable
<1>9. ReplyInv'
  BY <1>2, <1>3, <1>4 DEF IInv, TypeOK, ReplyInv, Submit, Callable, Replying, Of
<1>10. FlushIsABarrier'
  BY <1>2, <1>3, <1>4, Contents DEF IInv, TypeOK, FlushIsABarrier, Submit, Callable, Of
<1>11. GraphInv'
  BY DEF IInv, GraphInv, Submit, Callable, graphVars
<1>12. QED BY <1>5, <1>6, <1>7, <1>8, <1>9, <1>10, <1>11 DEF IInv

LEMMA NotAcceptedIInv ==
  ASSUME IInv, NEW c \in Cmd, NotAccepted(c)
  PROVE  IInv'
<1>1. /\ reply' \in [Cmd -> Replies]
      /\ \A d \in Cmd : reply'[d] = IF d = c /\ d \in Replying /\ reply[d] = "none"
                                    THEN "err" ELSE reply[d]
  BY AnswerEffect DEF IInv, TypeOK, NotAccepted, Replies
<1>2. c \notin called /\ c \notin InFlight /\ c \notin durable /\ ticket[c] = 0
  BY DEF IInv, TypeOK, TicketInv, NotAccepted, Callable
<1>3. InFlight' = InFlight
  BY DEF InFlight, NotAccepted, Callable
<1>4. TypeOK'
  BY <1>1 DEF IInv, TypeOK, NotAccepted, Callable, graphVars
<1>5. TicketInv'
  BY <1>1, <1>3, Contents DEF IInv, TypeOK, TicketInv, NotAccepted, Callable
<1>6. OrderInv' /\ PhaseInv' /\ GraphInv'
  BY DEF IInv, OrderInv, PhaseInv, GraphInv, NotAccepted, Callable, graphVars
<1>7. ReplyInv'
  BY <1>1, <1>2, <1>3, Contents DEF IInv, TypeOK, ReplyInv, NotAccepted, Callable, Replying, Of
<1>8. AckedIsDurable' /\ FailedLeavesNoTrace'
  BY <1>1, <1>2 DEF IInv, AckedIsDurable, FailedLeavesNoTrace, NotAccepted, Callable,
                    Promised, Writes, Of
<1>9. FlushIsABarrier'
  BY <1>1, <1>3 DEF IInv, FlushIsABarrier, NotAccepted, Callable, Of
<1>10. QED BY <1>4, <1>5, <1>6, <1>7, <1>8, <1>9 DEF IInv

LEMMA CloseHandlesIInv ==
  ASSUME IInv, CloseHandles
  PROVE  IInv'
<1>1. InFlight' = InFlight
  BY DEF InFlight, CloseHandles
<1>2. TypeOK'
  BY DEF IInv, TypeOK, CloseHandles, graphVars
<1>3. TicketInv' /\ OrderInv' /\ PhaseInv' /\ GraphInv'
  BY <1>1 DEF IInv, TicketInv, OrderInv, PhaseInv, GraphInv, CloseHandles, graphVars
<1>4. ReplyInv' /\ AckedIsDurable' /\ FailedLeavesNoTrace' /\ FlushIsABarrier'
  BY <1>1 DEF IInv, ReplyInv, AckedIsDurable, FailedLeavesNoTrace, FlushIsABarrier, CloseHandles
<1>5. QED BY <1>2, <1>3, <1>4 DEF IInv

-----------------------------------------------------------------------------
(* The thread forms a batch. *)

LEMMA ReceiveIInv ==
  ASSUME IInv, Receive
  PROVE  IInv'
<1>1. /\ phase = "idle" /\ batch = <<>> /\ done = {}
      /\ phase' \in {"split", "drain"}
      /\ batch' = <<Head(queue)>> /\ queue' = Tail(queue) /\ queue # <<>>
      /\ UNCHANGED <<called, open, accepted, ticket, done, reply, crashes, durable, rows,
                     builder, shared, mine>>
  BY DEF IInv, PhaseInv, Receive, dbVars, graphVars
<1>2. /\ Head(queue) \in Cmd /\ queue' \in Seq(Cmd) /\ Len(queue') <= QueueCap
      /\ Elems(queue) = {Head(queue)} \cup Elems(queue')
      /\ Ascending(queue', ticket)
      /\ \A d \in Elems(queue') : ticket[Head(queue)] < ticket[d]
  BY <1>1, NextQueued
<1>3. /\ batch' \in Seq(Cmd) /\ Len(batch') <= BatchMax
      /\ Elems(batch') = {Head(queue)} /\ Ascending(batch', ticket) /\ Elems(batch) = {}
  BY <1>1, <1>2, EmptySeq, DbActorAssumption DEF Elems, Ascending
<1>4. InFlight' = InFlight
  BY <1>1, <1>2, <1>3 DEF InFlight
<1>5. TypeOK'
  BY <1>1, <1>2, <1>3 DEF IInv, TypeOK, Receive, Phases
<1>6. TicketInv' /\ GraphInv' /\ PhaseInv'
  BY <1>1, <1>4 DEF IInv, TicketInv, GraphInv, PhaseInv
<1>7. OrderInv'
  BY <1>1, <1>2, <1>3 DEF IInv, OrderInv
<1>8. ReplyInv' /\ AckedIsDurable' /\ FailedLeavesNoTrace' /\ FlushIsABarrier'
  BY <1>1, <1>4 DEF IInv, ReplyInv, AckedIsDurable, FailedLeavesNoTrace, FlushIsABarrier
<1>9. QED BY <1>5, <1>6, <1>7, <1>8 DEF IInv

(* A command taken from the channel and rejected. *)
LEMMA RejectHeadIInv ==
  ASSUME IInv, queue # <<>>, phase \in {"idle", "reject"}, phase' = "reject",
         RejectCommand(Head(queue)), queue' = Tail(queue),
         UNCHANGED <<called, open, accepted, ticket, conn, batch, done, crashes,
                     durable, rows, builder, shared, mine>>
  PROVE  IInv'
<1>1. /\ Head(queue) \in Cmd /\ queue' \in Seq(Cmd) /\ Len(queue') <= QueueCap
      /\ Elems(queue) = {Head(queue)} \cup Elems(queue')
      /\ Ascending(queue', ticket)
      /\ \A d \in Elems(queue') : ticket[Head(queue)] < ticket[d]
  BY NextQueued
<1> DEFINE h == Head(queue)
<1>2. /\ reply' \in [Cmd -> Replies]
      /\ \A d \in Cmd : reply'[d] = IF d = h /\ d \in Replying /\ reply[d] = "none"
                                    THEN "err" ELSE reply[d]
  BY AnswerEffect DEF IInv, TypeOK, RejectCommand, Replies
<1>3. /\ InFlight' \subseteq InFlight /\ InFlight \subseteq InFlight' \cup {h}
      /\ h \in InFlight /\ h \notin durable /\ InFlight \subseteq Cmd
  BY <1>1, Contents DEF IInv, OrderInv, TypeOK, InFlight
<1> HIDE DEF h
<1>4. TypeOK'
  BY <1>1, <1>2 DEF IInv, TypeOK, Phases
<1>5. TicketInv'
  BY <1>2, <1>3 DEF IInv, TicketInv, TypeOK
<1>6. OrderInv'
  BY <1>1 DEF IInv, OrderInv
<1>7. PhaseInv' /\ GraphInv'
  BY DEF IInv, PhaseInv, GraphInv
<1>8. ReplyInv'
  <2>1. \A c \in InFlight' : c # h
    BY <1>1, Contents DEF IInv, PhaseInv, OrderInv, TypeOK, InFlight, h
  <2>2. QED BY <1>2, <1>3, <2>1 DEF IInv, ReplyInv, Replying, Of, Replies
<1>9. AckedIsDurable' /\ FailedLeavesNoTrace'
  BY <1>2, <1>3 DEF IInv, AckedIsDurable, FailedLeavesNoTrace, Promised, Writes, Of
<1>10. FlushIsABarrier'
  BY <1>2, <1>3 DEF IInv, FlushIsABarrier, Of
<1>11. QED BY <1>4, <1>5, <1>6, <1>7, <1>8, <1>9, <1>10 DEF IInv

(* The thread goes to another point of its loop with nothing executed. *)
LEMMA MoveIInv ==
  ASSUME IInv, done = {}, phase # "down",
         phase' \in {"idle", "stopped", "split", "tx", "abort"},
         phase' \in {"idle", "stopped"} => batch = <<>>,
         UNCHANGED <<called, open, queue, accepted, ticket, conn, batch, done, durable,
                     rows, reply, builder, shared, mine, crashes>>
  PROVE  IInv'
<1>1. InFlight' = InFlight
  BY DEF InFlight
<1>2. TypeOK'
  BY DEF IInv, TypeOK, Phases
<1>3. TicketInv' /\ OrderInv' /\ PhaseInv' /\ GraphInv'
  BY <1>1 DEF IInv, TicketInv, OrderInv, PhaseInv, GraphInv
<1>4. ReplyInv' /\ AckedIsDurable' /\ FailedLeavesNoTrace' /\ FlushIsABarrier'
  BY <1>1 DEF IInv, ReplyInv, AckedIsDurable, FailedLeavesNoTrace, FlushIsABarrier
<1>5. QED BY <1>2, <1>3, <1>4 DEF IInv

LEMMA DrainIInv ==
  ASSUME IInv, Drain
  PROVE  IInv'
<1>1. CASE phase' = "split" /\ UNCHANGED <<batch, queue>>
  BY <1>1, MoveIInv DEF IInv, PhaseInv, Drain, dbVars, graphVars
<1>2. CASE RoomInBatch /\ queue # <<>> /\ batch' = Extended(batch, Head(queue))
           /\ queue' = Tail(queue) /\ phase' \in {"split", "drain"}
  <2>1. /\ phase = "drain" /\ done = {}
        /\ UNCHANGED <<called, open, accepted, ticket, conn, done, reply, crashes, durable,
                       rows, builder, shared, mine>>
    BY DEF IInv, PhaseInv, Drain, dbVars, graphVars
  <2>2. /\ Head(queue) \in Cmd /\ queue' \in Seq(Cmd) /\ Len(queue') <= QueueCap
        /\ Elems(queue) = {Head(queue)} \cup Elems(queue')
        /\ Ascending(queue', ticket)
        /\ \A d \in Elems(queue') : ticket[Head(queue)] < ticket[d]
    BY <1>2, NextQueued
  <2>3. \A a \in Elems(batch) : ticket[a] < ticket[Head(queue)]
    BY <2>2 DEF IInv, OrderInv
  <2>4. /\ batch' \in Seq(Cmd) /\ Len(batch') <= BatchMax
        /\ Elems(batch') = Elems(batch) \cup {Head(queue)}
        /\ Ascending(batch', ticket)
    <3>1. /\ batch \in Seq(Cmd) /\ Len(batch) \in Nat /\ Len(batch) < BatchMax
          /\ BatchMax \in Nat /\ batch' = Append(batch, Head(queue))
          /\ ticket \in [Cmd -> Nat] /\ Ascending(batch, ticket)
      BY <1>2, DbActorAssumption DEF IInv, TypeOK, OrderInv, RoomInBatch, Extended
    <3>2. /\ batch' \in Seq(Cmd) /\ Len(batch') = Len(batch) + 1
          /\ Elems(batch') = Elems(batch) \cup {Head(queue)}
      BY <3>1, <2>2, PutLast
    <3>3. Ascending(batch', ticket)
      BY <3>1, <2>2, <2>3, AscendingAppend
    <3>4. QED BY <3>1, <3>2, <3>3
  <2>5. InFlight' = InFlight
    BY <2>1, <2>2, <2>4 DEF InFlight
  <2>6. TypeOK'
    BY <1>2, <2>1, <2>2, <2>4 DEF IInv, TypeOK, Phases
  <2>7. TicketInv' /\ GraphInv' /\ PhaseInv'
    BY <1>2, <2>1, <2>5 DEF IInv, TicketInv, GraphInv, PhaseInv
  <2>8. OrderInv'
    BY <1>2, <2>1, <2>2, <2>3, <2>4 DEF IInv, OrderInv
  <2>9. ReplyInv' /\ AckedIsDurable' /\ FailedLeavesNoTrace' /\ FlushIsABarrier'
    BY <2>1, <2>5 DEF IInv, ReplyInv, AckedIsDurable, FailedLeavesNoTrace, FlushIsABarrier
  <2>10. QED BY <2>6, <2>7, <2>8, <2>9 DEF IInv
<1>3. QED BY <1>1, <1>2 DEF Drain

-----------------------------------------------------------------------------
(* The thread executes a transaction. *)

LEMMA ExecuteOkIInv ==
  ASSUME IInv, ExecuteOk
  PROVE  IInv'
<1> DEFINE h == Head(batch)
<1>1. /\ phase = "tx" /\ batch # <<>> /\ done' = done \cup {h} /\ batch' = Tail(batch)
      /\ UNCHANGED <<called, open, queue, accepted, ticket, phase, conn, durable, rows,
                     builder, shared, mine, crashes>>
  BY DEF ExecuteOk, HeadInTx, chanVars, dbVars, graphVars
<1>2. /\ h \in Cmd /\ batch' \in Seq(Cmd) /\ Len(batch') <= BatchMax
      /\ Elems(batch) = {h} \cup Elems(batch')
      /\ Ascending(batch', ticket)
      /\ \A d \in Elems(batch') : ticket[h] < ticket[d]
  BY <1>1, NextInBatch
<1>3. /\ reply' \in [Cmd -> Replies]
      /\ \A d \in Cmd : reply'[d] = IF d = h /\ Kind[d] = "event" /\ d \in Replying
                                       /\ reply[d] = "none" THEN "ok" ELSE reply[d]
  BY AnswerEffect DEF IInv, TypeOK, ExecuteOk, AnsweredAtExecution, Of, Replies
<1>4. InFlight' = InFlight /\ h \in InFlight /\ InFlight \subseteq Cmd
  BY <1>1, <1>2, Contents DEF InFlight, IInv
<1> HIDE DEF h
<1>5. TypeOK'
  BY <1>1, <1>2, <1>3 DEF IInv, TypeOK
<1>6. TicketInv'
  BY <1>1, <1>3, <1>4 DEF IInv, TicketInv, TypeOK
<1>7. OrderInv'
  BY <1>1, <1>2 DEF IInv, OrderInv
<1>8. PhaseInv' /\ GraphInv'
  BY <1>1 DEF IInv, PhaseInv, GraphInv
<1>9. ReplyInv'
  BY <1>1, <1>3, <1>4 DEF IInv, ReplyInv, Replying, Of
<1>10. AckedIsDurable' /\ FailedLeavesNoTrace'
  BY <1>1, <1>3 DEF IInv, AckedIsDurable, FailedLeavesNoTrace, Promised, Writes, Of
<1>11. FlushIsABarrier'
  BY <1>1, <1>3, <1>4 DEF IInv, FlushIsABarrier, Of
<1>12. QED BY <1>5, <1>6, <1>7, <1>8, <1>9, <1>10, <1>11 DEF IInv

(* The head of the batch fails, and with it whatever its transaction had *)
(* executed.                                                             *)
LEMMA FailHeadIInv ==
  ASSUME IInv, batch # <<>>, batch' = Tail(batch),
         phase \in {"tx", "abort", "split"}, phase' \in {"abort", "split"},
         Answer(done \cup {Head(batch)}, "err"), done' = {},
         UNCHANGED <<called, open, queue, accepted, ticket, conn, durable, rows,
                     builder, shared, mine, crashes>>
  PROVE  IInv'
<1> DEFINE h == Head(batch)
<1>1. /\ h \in Cmd /\ batch' \in Seq(Cmd) /\ Len(batch') <= BatchMax
      /\ Elems(batch) = {h} \cup Elems(batch')
      /\ Ascending(batch', ticket)
      /\ \A d \in Elems(batch') : ticket[h] < ticket[d]
  BY NextInBatch
<1>2. /\ reply' \in [Cmd -> Replies]
      /\ \A d \in Cmd : reply'[d] = IF d \in done \cup {h} /\ d \in Replying
                                       /\ reply[d] = "none" THEN "err" ELSE reply[d]
  BY AnswerEffect DEF IInv, TypeOK, Replies
<1>3. /\ InFlight' \subseteq InFlight /\ InFlight \subseteq InFlight' \cup done \cup {h}
      /\ done \cup {h} \subseteq InFlight /\ InFlight \subseteq Cmd
  BY <1>1, Contents DEF InFlight, IInv
<1>4. \A c \in done \cup {h} : c \notin durable
  BY <1>1, <1>3 DEF IInv, TypeOK, OrderInv, PhaseInv
<1> HIDE DEF h
<1>5. TypeOK'
  BY <1>1, <1>2 DEF IInv, TypeOK, Phases
<1>6. TicketInv'
  BY <1>2, <1>3 DEF IInv, TicketInv, TypeOK
<1>7. OrderInv'
  BY <1>1 DEF IInv, OrderInv
<1>8. PhaseInv' /\ GraphInv'
  BY DEF IInv, PhaseInv, GraphInv
<1>9. ReplyInv'
  <2>1. \A c \in InFlight' : c \notin done \cup {h}
    BY <1>1, <1>3 DEF IInv, OrderInv, TypeOK, InFlight, h
  <2>2. QED BY <1>2, <1>3, <2>1 DEF IInv, ReplyInv, Replying, Of, Replies
<1>10. AckedIsDurable' /\ FailedLeavesNoTrace'
  BY <1>2, <1>4 DEF IInv, AckedIsDurable, FailedLeavesNoTrace, Promised, Writes, Of
<1>11. FlushIsABarrier'
  BY <1>2, <1>3 DEF IInv, FlushIsABarrier, Of
<1>12. QED BY <1>5, <1>6, <1>7, <1>8, <1>9, <1>10, <1>11 DEF IInv

LEMMA CommitOkIInv ==
  ASSUME IInv, CommitOk
  PROVE  IInv'
<1>1. /\ phase = "tx" /\ done \subseteq InFlight /\ InFlight \subseteq Cmd
      /\ durable' = durable \cup (done \cap Writes)
      /\ rows' = rows \cup (done \cap GraphRow)
      /\ phase' \in {"publish", "ack"} /\ (phase' = "ack" => done \cap GraphRow = {})
      /\ UNCHANGED <<called, open, queue, accepted, ticket, conn, batch, done, reply,
                     builder, shared, mine, crashes>>
  BY Contents DEF IInv, InFlight, CommitOk, AfterCommit, chanVars, graphVars
<1>2. InFlight' = InFlight /\ GraphRow \subseteq Writes /\ Of({"graph"}) \subseteq GraphRow
  BY <1>1 DEF InFlight, GraphRow, Writes, Of
<1>3. TypeOK'
  BY <1>1, <1>2 DEF IInv, TypeOK, Phases, Writes, Of
<1>4. TicketInv'
  BY <1>1, <1>2 DEF IInv, TicketInv
<1>5. OrderInv' /\ PhaseInv'
  BY <1>1 DEF IInv, OrderInv, PhaseInv
<1>6. GraphInv'
  BY <1>1, <1>2 DEF IInv, GraphInv
<1>7. ReplyInv' /\ FlushIsABarrier' /\ AckedIsDurable'
  BY <1>1, <1>2 DEF IInv, ReplyInv, FlushIsABarrier, AckedIsDurable
<1>8. FailedLeavesNoTrace'
  BY <1>1 DEF IInv, ReplyInv, FailedLeavesNoTrace
<1>9. QED BY <1>3, <1>4, <1>5, <1>6, <1>7, <1>8 DEF IInv

LEMMA CommitFailsIInv ==
  ASSUME IInv, CommitFails
  PROVE  IInv'
<1>1. /\ phase = "tx" /\ phase' = "split" /\ done' = {} /\ done \subseteq InFlight
      /\ InFlight \subseteq Cmd
      /\ UNCHANGED <<called, open, queue, accepted, ticket, conn, batch, durable, rows,
                     builder, shared, mine, crashes>>
  BY Contents DEF IInv, InFlight, CommitFails, KeptByRollback, chanVars, dbVars, graphVars
<1>2. /\ reply' \in [Cmd -> Replies]
      /\ \A d \in Cmd : reply'[d] = IF d \in done /\ d \in Replying /\ reply[d] = "none"
                                    THEN "err" ELSE reply[d]
  BY AnswerEffect DEF IInv, TypeOK, CommitFails, Replies
<1>3. InFlight' \subseteq InFlight /\ InFlight \subseteq InFlight' \cup done
  BY <1>1 DEF InFlight
<1>4. /\ \A c \in done : c \notin durable
      /\ \A c \in InFlight' : c \notin done
  BY <1>1 DEF IInv, TypeOK, OrderInv, InFlight
<1>5. TypeOK'
  BY <1>1, <1>2 DEF IInv, TypeOK, Phases
<1>6. TicketInv'
  BY <1>1, <1>2, <1>3 DEF IInv, TicketInv, TypeOK
<1>7. OrderInv' /\ PhaseInv' /\ GraphInv'
  BY <1>1 DEF IInv, OrderInv, PhaseInv, GraphInv
<1>8. ReplyInv'
  BY <1>1, <1>2, <1>3, <1>4 DEF IInv, ReplyInv, Replying, Of
<1>9. AckedIsDurable' /\ FailedLeavesNoTrace'
  BY <1>1, <1>2, <1>4 DEF IInv, AckedIsDurable, FailedLeavesNoTrace, Promised, Writes, Of
<1>10. FlushIsABarrier'
  BY <1>1, <1>2, <1>3 DEF IInv, FlushIsABarrier, Of
<1>11. QED BY <1>5, <1>6, <1>7, <1>8, <1>9, <1>10 DEF IInv

LEMMA PublishIInv ==
  ASSUME IInv, Publish
  PROVE  IInv'
<1>1. /\ phase = "publish" /\ phase' = "ack"
      /\ builder' = Resynced \cup (done \cap GraphRow) /\ shared' = builder' /\ mine' = TRUE
      /\ UNCHANGED <<called, open, queue, accepted, ticket, conn, batch, done, durable,
                     rows, reply, crashes>>
  BY DEF Publish, chanVars, dbVars
<1>2. InFlight' = InFlight /\ GraphRow \subseteq Writes /\ Of({"graph"}) \subseteq GraphRow
  BY <1>1 DEF InFlight, GraphRow, Writes, Of
<1>3. builder' \subseteq durable /\ shared \subseteq shared' /\ done \cap GraphRow \subseteq shared'
  BY <1>1, <1>2 DEF IInv, GraphInv, PhaseInv, Resynced
<1>4. TypeOK'
  BY <1>1, <1>3 DEF IInv, TypeOK, Phases
<1>5. TicketInv' /\ OrderInv' /\ PhaseInv'
  BY <1>1, <1>2 DEF IInv, TicketInv, OrderInv, PhaseInv
<1>6. GraphInv'
  BY <1>1, <1>2, <1>3 DEF IInv, GraphInv
<1>7. ReplyInv' /\ AckedIsDurable' /\ FailedLeavesNoTrace' /\ FlushIsABarrier'
  BY <1>1, <1>2 DEF IInv, ReplyInv, AckedIsDurable, FailedLeavesNoTrace, FlushIsABarrier
<1>8. QED BY <1>4, <1>5, <1>6, <1>7 DEF IInv

LEMMA AcknowledgeIInv ==
  ASSUME IInv, Acknowledge
  PROVE  IInv'
<1>1. /\ phase = "ack" /\ phase' = "split" /\ done' = {} /\ done \subseteq InFlight
      /\ InFlight \subseteq Cmd /\ done \cap Writes \subseteq durable
      /\ UNCHANGED <<called, open, queue, accepted, ticket, conn, batch, durable, rows,
                     builder, shared, mine, crashes>>
  BY Contents DEF IInv, PhaseInv, InFlight, Acknowledge, chanVars, dbVars, graphVars
<1>2. /\ reply' \in [Cmd -> Replies]
      /\ \A d \in Cmd : reply'[d] = IF d \in done /\ d \in Replying /\ reply[d] = "none"
                                    THEN "ok" ELSE reply[d]
  BY AnswerEffect DEF IInv, TypeOK, Acknowledge, Replies
<1>3. InFlight' \subseteq InFlight /\ InFlight \subseteq InFlight' \cup done
  BY <1>1 DEF InFlight
<1>4. \A c \in InFlight', d \in done : c # d /\ ticket[d] < ticket[c]
  BY <1>1, Contents DEF IInv, TypeOK, OrderInv, InFlight
<1>5. TypeOK'
  BY <1>1, <1>2 DEF IInv, TypeOK, Phases
<1>6. TicketInv'
  BY <1>1, <1>2, <1>3 DEF IInv, TicketInv, TypeOK
<1>7. OrderInv' /\ PhaseInv' /\ GraphInv'
  BY <1>1 DEF IInv, OrderInv, PhaseInv, GraphInv
<1>8. ReplyInv'
  BY <1>1, <1>2, <1>3, <1>4 DEF IInv, ReplyInv, Replying, Of
<1>9. AckedIsDurable' /\ FailedLeavesNoTrace'
  BY <1>1, <1>2 DEF IInv, AckedIsDurable, FailedLeavesNoTrace, Promised, Writes, Of
<1>10. FlushIsABarrier'
  BY <1>1, <1>2, <1>3, <1>4 DEF IInv, TypeOK, FlushIsABarrier, Of
<1>11. QED BY <1>5, <1>6, <1>7, <1>8, <1>9, <1>10 DEF IInv

-----------------------------------------------------------------------------
(* The thread executes a standalone command. *)

LEMMA StandaloneOkIInv ==
  ASSUME IInv, StandaloneOk
  PROVE  IInv'
<1> DEFINE h == Head(batch)
<1>1. /\ phase = "split" /\ batch # <<>> /\ batch' = Tail(batch) /\ done = {}
      /\ done' = {h} /\ durable' = durable \cup ({h} \cap Writes)
      /\ rows' \in {{}, rows \cup ({h} \cap GraphRow)}
      /\ phase' \in {"refresh", "ack"} /\ h \in Standalone
      /\ UNCHANGED <<called, open, queue, accepted, ticket, conn, reply,
                     builder, shared, mine, crashes>>
  BY DEF IInv, PhaseInv, StandaloneOk, HeadStandalone, chanVars, graphVars
<1>2. /\ h \in Cmd /\ batch' \in Seq(Cmd) /\ Len(batch') <= BatchMax
      /\ Elems(batch) = {h} \cup Elems(batch')
      /\ Ascending(batch', ticket)
      /\ \A d \in Elems(batch') : ticket[h] < ticket[d]
  BY <1>1, NextInBatch
<1>3. InFlight' = InFlight /\ h \in InFlight
  BY <1>1, <1>2 DEF InFlight
<1>4. GraphRow \subseteq Writes /\ h \notin Of({"graph"}) /\ Of({"graph"}) \subseteq Cmd
  BY <1>1 DEF GraphRow, Writes, Standalone, Execute, Of
<1> HIDE DEF h
<1>5. TypeOK'
  BY <1>1, <1>2, <1>4 DEF IInv, TypeOK, Phases
<1>6. TicketInv'
  BY <1>1, <1>3 DEF IInv, TicketInv
<1>7. OrderInv' /\ PhaseInv'
  BY <1>1, <1>2, <1>3 DEF IInv, OrderInv, PhaseInv, TypeOK
<1>8. GraphInv'
  BY <1>1, <1>4 DEF IInv, GraphInv
<1>9. ReplyInv' /\ FlushIsABarrier' /\ AckedIsDurable'
  BY <1>1, <1>3 DEF IInv, ReplyInv, FlushIsABarrier, AckedIsDurable
<1>10. FailedLeavesNoTrace'
  BY <1>1, <1>3 DEF IInv, ReplyInv, FailedLeavesNoTrace
<1>11. QED BY <1>5, <1>6, <1>7, <1>8, <1>9, <1>10 DEF IInv

LEMMA RefreshIInv ==
  ASSUME IInv, Refresh
  PROVE  IInv'
<1>1. /\ phase = "refresh" /\ phase' = "ack"
      /\ \/ shared' = rows /\ mine' = FALSE
         \/ UNCHANGED <<shared, mine>>
      /\ UNCHANGED <<called, open, queue, accepted, ticket, conn, batch, done, durable,
                     rows, reply, builder, crashes>>
  BY DEF Refresh, chanVars, dbVars
<1>2. InFlight' = InFlight
  BY <1>1 DEF InFlight
<1>3. TypeOK'
  BY <1>1 DEF IInv, TypeOK, Phases
<1>4. TicketInv' /\ OrderInv' /\ PhaseInv'
  BY <1>1, <1>2 DEF IInv, TicketInv, OrderInv, PhaseInv
<1>5. GraphInv'
  BY <1>1 DEF IInv, GraphInv
<1>6. ReplyInv' /\ AckedIsDurable' /\ FailedLeavesNoTrace' /\ FlushIsABarrier'
  BY <1>1, <1>2 DEF IInv, ReplyInv, AckedIsDurable, FailedLeavesNoTrace, FlushIsABarrier
<1>7. QED BY <1>3, <1>4, <1>5, <1>6 DEF IInv

-----------------------------------------------------------------------------
(* The process crashes and restarts. *)

LEMMA CrashIInv ==
  ASSUME IInv, Crash
  PROVE  IInv'
<1>1. /\ phase' = "down" /\ queue' = <<>> /\ batch' = <<>> /\ done' = {}
      /\ crashes' = crashes + 1 /\ InFlight \subseteq Cmd
      /\ UNCHANGED <<called, open, accepted, ticket, conn, durable, rows, builder, shared, mine>>
  BY Contents DEF IInv, Crash, graphVars
<1>2. /\ reply' \in [Cmd -> Replies]
      /\ \A d \in Cmd : reply'[d] = IF d \in InFlight /\ d \in Replying /\ reply[d] = "none"
                                    THEN "lost" ELSE reply[d]
  BY AnswerEffect DEF IInv, TypeOK, Crash, Replies
<1>3. InFlight' = {} /\ Elems(queue') = {} /\ Elems(batch') = {}
      /\ Ascending(queue', ticket) /\ Ascending(batch', ticket)
  BY <1>1, EmptySeq DEF InFlight
<1>4. queue' \in Seq(Cmd) /\ batch' \in Seq(Cmd) /\ Len(queue') <= QueueCap /\ Len(batch') <= BatchMax
  BY <1>1, DbActorAssumption
<1>5. TypeOK'
  BY <1>1, <1>2, <1>4 DEF IInv, TypeOK, Phases
<1>6. TicketInv'
  BY <1>1, <1>2, <1>3 DEF IInv, TicketInv, TypeOK
<1>7. OrderInv' /\ PhaseInv'
  BY <1>1, <1>3 DEF OrderInv, PhaseInv
<1>8. GraphInv'
  BY <1>1 DEF IInv, GraphInv
<1>9. ReplyInv'
  BY <1>1, <1>2, <1>3 DEF IInv, ReplyInv, Replying, Of
<1>10. AckedIsDurable' /\ FailedLeavesNoTrace'
  BY <1>1, <1>2 DEF IInv, AckedIsDurable, FailedLeavesNoTrace, Promised, Writes, Of
<1>11. FlushIsABarrier'
  BY <1>3 DEF FlushIsABarrier
<1>12. QED BY <1>5, <1>6, <1>7, <1>8, <1>9, <1>10, <1>11 DEF IInv

LEMMA RestartIInv ==
  ASSUME IInv, Restart
  PROVE  IInv'
<1>1. /\ phase = "down" /\ phase' = "idle" /\ conn' \in BOOLEAN /\ open' = TRUE
      /\ builder' = rows /\ shared' = rows /\ mine' = FALSE
      /\ UNCHANGED <<called, queue, accepted, ticket, batch, done, durable, rows, reply, crashes>>
  BY DEF Restart
<1>2. InFlight' = InFlight
  BY <1>1 DEF InFlight
<1>3. TypeOK'
  BY <1>1 DEF IInv, TypeOK, Phases
<1>4. TicketInv' /\ OrderInv' /\ PhaseInv'
  BY <1>1, <1>2 DEF IInv, TicketInv, OrderInv, PhaseInv
<1>5. GraphInv'
  BY <1>1 DEF IInv, GraphInv
<1>6. ReplyInv' /\ AckedIsDurable' /\ FailedLeavesNoTrace' /\ FlushIsABarrier'
  BY <1>1, <1>2 DEF IInv, ReplyInv, AckedIsDurable, FailedLeavesNoTrace, FlushIsABarrier
<1>7. QED BY <1>3, <1>4, <1>5, <1>6 DEF IInv

-----------------------------------------------------------------------------
LEMMA NextIInv ==
  ASSUME IInv, [Next]_vars
  PROVE  IInv'
<1>1. ASSUME NEW c \in Cmd, Submit(c) \/ NotAccepted(c)  PROVE IInv'
  BY <1>1, SubmitIInv, NotAcceptedIInv
<1>2. CASE Receive
  BY <1>2, ReceiveIInv
<1>3. CASE CheckoutFails
  BY <1>3, RejectHeadIInv DEF CheckoutFails, dbVars, graphVars
<1>4. CASE RejectQueued
  BY <1>4, RejectHeadIInv, MoveIInv DEF RejectQueued, dbVars, graphVars, IInv, PhaseInv
<1>5. CASE Drain
  BY <1>5, DrainIInv
<1>6. CASE BatchOver
  BY <1>6, MoveIInv DEF BatchOver, chanVars, dbVars, graphVars, IInv, PhaseInv
<1>7. CASE Terminate
  BY <1>7, MoveIInv DEF Terminate, chanVars, dbVars, graphVars, IInv, PhaseInv
<1>8. CASE Begin
  BY <1>8, MoveIInv DEF Begin, chanVars, dbVars, graphVars, IInv, PhaseInv
<1>9. CASE ExecuteOk
  BY <1>9, ExecuteOkIInv
<1>10. CASE ExecuteFails
  BY <1>10, FailHeadIInv DEF ExecuteFails, HeadInTx, KeptByRollback, chanVars, dbVars, graphVars
<1>11. CASE RejectRest
  <2>1. phase = "abort" /\ done = {} /\ done' = {}
    BY <1>11 DEF RejectRest, IInv, PhaseInv
  <2>2. CASE UNCHANGED phase /\ HeadInTx /\ RejectCommand(Head(batch)) /\ batch' = Tail(batch)
    BY <1>11, <2>1, <2>2, FailHeadIInv
       DEF RejectRest, HeadInTx, RejectCommand, chanVars, dbVars, graphVars
  <2>3. CASE phase' = "split" /\ UNCHANGED <<batch, reply>>
    BY <1>11, <2>1, <2>3, MoveIInv DEF RejectRest, chanVars, dbVars, graphVars
  <2>4. QED BY <1>11, <2>2, <2>3 DEF RejectRest
<1>12. CASE CommitOk
  BY <1>12, CommitOkIInv
<1>13. CASE CommitFails
  BY <1>13, CommitFailsIInv
<1>14. CASE Publish
  BY <1>14, PublishIInv
<1>15. CASE Acknowledge
  BY <1>15, AcknowledgeIInv
<1>16. CASE StandaloneOk
  BY <1>16, StandaloneOkIInv
<1>17. CASE StandaloneFails
  <2>1. phase = "split" /\ done = {} /\ done' = {} /\ batch # <<>>
    BY <1>17 DEF StandaloneFails, HeadStandalone, IInv, PhaseInv
  <2>2. QED BY <1>17, <2>1, FailHeadIInv DEF StandaloneFails, chanVars, dbVars, graphVars
<1>18. CASE Refresh
  BY <1>18, RefreshIInv
<1>19. CASE CloseHandles \/ Crash \/ Restart
  BY <1>19, CloseHandlesIInv, CrashIInv, RestartIInv
<1>20. CASE UNCHANGED vars
  <2>1. InFlight' = InFlight
    BY <1>20 DEF InFlight, vars
  <2>2. TypeOK' /\ TicketInv' /\ OrderInv' /\ PhaseInv' /\ GraphInv'
    BY <1>20, <2>1 DEF vars, IInv, TypeOK, TicketInv, OrderInv, PhaseInv, GraphInv
  <2>3. ReplyInv' /\ AckedIsDurable' /\ FailedLeavesNoTrace' /\ FlushIsABarrier'
    BY <1>20, <2>1 DEF vars, IInv, ReplyInv, AckedIsDurable, FailedLeavesNoTrace, FlushIsABarrier
  <2>4. QED BY <2>2, <2>3 DEF IInv
<1>21. QED
  BY <1>1, <1>2, <1>3, <1>4, <1>5, <1>6, <1>7, <1>8, <1>9, <1>10, <1>11, <1>12, <1>13,
     <1>14, <1>15, <1>16, <1>17, <1>18, <1>19, <1>20 DEF Next, Worker

-----------------------------------------------------------------------------
(* The theorems *)

(* The inductive invariant holds in every reachable state of the writer. *)
THEOREM Invariance == Spec => []IInv
  BY InitIInv, NextIInv, PTL DEF Spec

(* Every variable of the writer keeps its type, the channel its capacity and *)
(* the batch its length.                                                     *)
THEOREM TypeCorrect == Spec => []TypeOK
<1>1. IInv => TypeOK
  BY DEF IInv
<1>2. QED BY <1>1, Invariance, PTL

(* An Ok answer means that the write is in the database, for ever. *)
THEOREM AckedStaysDurable == Spec => []AckedIsDurable
<1>1. IInv => AckedIsDurable
  BY DEF IInv
<1>2. QED BY <1>1, Invariance, PTL

(* An error answer means that nothing of the command ever gets committed. *)
THEOREM FailedNeverCommits == Spec => []FailedLeavesNoTrace
<1>1. IInv => FailedLeavesNoTrace
  BY DEF IInv
<1>2. QED BY <1>1, Invariance, PTL

(* No exit of the batch code drops a responder. *)
THEOREM NobodyIsForgotten == Spec => []NobodyForgotten
<1>1. ASSUME IInv PROVE NobodyForgotten
  <2>1. phase \in {"idle", "stopped"} => InFlight = Elems(queue)
    BY <1>1, EmptySeq DEF IInv, PhaseInv, InFlight
  <2>2. QED BY <1>1, <2>1 DEF IInv, ReplyInv, NobodyForgotten
<1>2. QED BY <1>1, Invariance, PTL

(* An answered Flush has nothing older in flight. *)
THEOREM FlushBarrier == Spec => []FlushIsABarrier
<1>1. IInv => FlushIsABarrier
  BY DEF IInv
<1>2. QED BY <1>1, Invariance, PTL

(* What callers are told is true: the four theorems above together. *)
THEOREM AnswersStayTrue == Spec => []AnswersAreTrue
BY TypeCorrect, AckedStaysDurable, FailedNeverCommits, FlushBarrier, PTL DEF AnswersAreTrue

(* The published graph shows committed rows only. *)
THEOREM GraphCommitted == Spec => []GraphShowsOnlyCommitted
<1>1. IInv => GraphShowsOnlyCommitted
  BY DEF IInv, GraphInv, GraphShowsOnlyCommitted
<1>2. QED BY <1>1, Invariance, PTL

(* A graph insert that was answered Ok is in the published graph. *)
THEOREM GraphReadYourWrites == Spec => []GraphReadsItsWrites
<1>1. ASSUME IInv PROVE GraphReadsItsWrites
  <2>1. SUFFICES ASSUME phase # "down", NEW c \in Of({"graph"}) \cap rows, reply[c] = "ok",
                        phase = "publish", c \in done
                 PROVE  FALSE
    BY <1>1 DEF IInv, GraphInv, GraphReadsItsWrites
  <2>2. c \in InFlight /\ Kind[c] = "graph"
    BY <2>1 DEF InFlight, Of
  <2>3. QED BY <1>1, <2>1, <2>2 DEF IInv, ReplyInv
<1>2. QED BY <1>1, Invariance, PTL

(* The published graph never lies to a reader nor hides from a writer. *)
THEOREM GraphStaysHonest == Spec => []GraphIsHonest
BY GraphCommitted, GraphReadYourWrites, PTL DEF GraphIsHonest

(* Writes reach the database in the order of the channel. *)
THEOREM CommitOrder == Spec => CommitsFollowTheQueue
<1>1. ASSUME IInv, [Next]_vars
      PROVE  [\A c \in durable' \ durable, d \in durable : ticket[d] < ticket[c]]_vars
  <2>1. CASE CommitOk
    <3>1. phase = "tx" /\ durable' \ durable \subseteq done
      BY <2>1 DEF CommitOk
    <3>2. QED BY <1>1, <3>1 DEF IInv, OrderInv
  <2>2. CASE StandaloneOk
    <3>1. durable' \ durable \subseteq {Head(batch)} /\ batch # <<>>
      BY <2>2 DEF StandaloneOk, HeadStandalone
    <3>2. Head(batch) \in Elems(batch)
      BY <1>1, <3>1, TakeHead DEF IInv, TypeOK
    <3>3. QED BY <1>1, <3>1, <3>2 DEF IInv, OrderInv
  <2>3. CASE UNCHANGED durable
    BY <2>3
  <2>4. CASE ~CommitOk /\ ~StandaloneOk /\ Next
    <3>1. UNCHANGED durable
      BY <2>4 DEF Next, Worker, Submit, NotAccepted, Callable, CloseHandles, Receive,
                  CheckoutFails, RejectQueued, Drain, BatchOver, Terminate, Begin, ExecuteOk,
                  ExecuteFails, RejectRest, CommitFails, Publish, Acknowledge,
                  StandaloneFails, Refresh, Crash, Restart, dbVars
    <3>2. QED BY <3>1
  <2>5. QED BY <1>1, <2>1, <2>2, <2>3, <2>4 DEF vars
<1>2. QED BY <1>1, Invariance, PTL DEF Spec, CommitsFollowTheQueue

(* No publication of the graph hides a row that readers saw and that exists. *)
THEOREM GraphNeverRegresses == Spec => NoLostGraphUpdate
<1>1. ASSUME IInv, [Next]_vars
      PROVE  [shared \cap rows' \subseteq shared']_vars
  <2>1. CASE Publish
    BY <1>1, <2>1 DEF IInv, GraphInv, Publish, Resynced
  <2>2. CASE Refresh \/ Restart
    BY <2>2 DEF Refresh, Restart, dbVars
  <2>3. CASE UNCHANGED shared
    BY <2>3
  <2>4. CASE ~Publish /\ ~Refresh /\ ~Restart /\ Next
    <3>1. UNCHANGED shared
      BY <2>4 DEF Next, Worker, Submit, NotAccepted, Callable, CloseHandles, Receive,
                  CheckoutFails, RejectQueued, Drain, BatchOver, Terminate, Begin, ExecuteOk,
                  ExecuteFails, RejectRest, CommitOk, CommitFails, Acknowledge,
                  StandaloneOk, StandaloneFails, Crash, graphVars
    <3>2. QED BY <3>1
  <2>5. QED BY <1>1, <2>1, <2>2, <2>3, <2>4 DEF vars
<1>2. QED BY <1>1, Invariance, PTL DEF Spec, NoLostGraphUpdate

-----------------------------------------------------------------------------
(* The writer implements AckStore. *)

(* Answering is telling, as long as the answer is honest. *)
LEMMA AnswerIsTell ==
  ASSUME IInv, NEW cs, NEW r \in {"ok", "err", "lost"}, Answer(cs, r), UNCHANGED durable,
         r = "ok" => cs \cap Promised \subseteq durable,
         r = "err" => cs \cap Promised \cap durable = {}
  PROVE  Store!Next
<1> DEFINE S == {c \in Promised \cap cs : reply[c] = "none"}
           before == [c \in Promised |-> reply[c]]
           after == [c \in Promised |-> reply'[c]]
<1>1. Promised \subseteq Cmd /\ Promised \subseteq Replying
  BY DEF Promised, Replying, Of
<1>2. \A c \in Promised : reply'[c] = IF c \in S THEN r ELSE reply[c]
  BY <1>1, AnswerEffect DEF IInv, TypeOK, Replies
<1>3. S \in SUBSET Promised /\ \A c \in S : before[c] = "none"
  OBVIOUS
<1>4. after = [c \in Promised |-> IF c \in S THEN r ELSE before[c]]
  BY <1>2
<1>5. Store!Tell(S, r)
  BY <1>3, <1>4 DEF Store!Tell, Store!Undecided
<1>6. QED BY <1>3, <1>5 DEF Store!Next

(* Commands that were not answered and become durable together persist. *)
LEMMA CommitIsPersist ==
  ASSUME IInv, NEW cs \in SUBSET InFlight, UNCHANGED reply,
         durable' = durable \cup (cs \cap Writes), cs \cap durable = {}
  PROVE  Store!Next
<1> DEFINE S == cs \cap Promised
<1>1. Promised \subseteq Writes /\ Promised \subseteq Cmd
  BY DEF Promised, Writes, Of
<1>2. \A c \in S : reply[c] = "none"
  BY DEF IInv, ReplyInv, Promised, Of
<1>3. S \in SUBSET Promised /\ (durable \cap Promised)' = (durable \cap Promised) \cup S
  BY <1>1 DEF Promised, Of
<1>4. Store!Persist(S)
  BY <1>2, <1>3 DEF Store!Persist, Store!Undecided, Promised, Of
<1>5. QED BY <1>3, <1>4 DEF Store!Next

(* Whatever its queue, batches, rollbacks and crashes do, the writer is an    *)
(* honest store: every step persists undecided commands, tells honestly, or   *)
(* does neither.                                                              *)
THEOREM WriterImplementsStore == Spec => ImplementsStore
<1>1. Init => Store!Init
  BY DEF Init, Store!Init, Promised, Of
<1>2. ASSUME IInv, [Next]_vars
      PROVE  [Store!Next]_Store!storeVars
  <2>1. CASE UNCHANGED <<durable, reply>>
    BY <2>1 DEF Store!storeVars
  <2>2. CASE CommitOk
    <3>1. done \in SUBSET InFlight /\ done \cap durable = {}
      BY <1>2, <2>2 DEF CommitOk, InFlight, IInv, OrderInv, TypeOK
    <3>2. QED BY <1>2, <2>2, <3>1, CommitIsPersist DEF CommitOk
  <2>3. CASE StandaloneOk
    <3>1. batch # <<>> /\ Head(batch) \in Elems(batch)
      BY <1>2, <2>3, TakeHead DEF StandaloneOk, HeadStandalone, IInv, TypeOK
    <3>2. {Head(batch)} \in SUBSET InFlight /\ {Head(batch)} \cap durable = {}
      BY <1>2, <3>1 DEF InFlight, IInv, OrderInv, TypeOK
    <3>3. QED BY <1>2, <2>3, <3>2, CommitIsPersist DEF StandaloneOk
  <2>4. CASE \E c \in Cmd : NotAccepted(c)
    <3>1. PICK c \in Cmd : NotAccepted(c)
      BY <2>4
    <3>2. c \notin durable /\ Answer({c}, "err") /\ UNCHANGED durable
      BY <1>2, <3>1 DEF NotAccepted, Callable, IInv, TypeOK, TicketInv
    <3>3. QED BY <1>2, <3>2, AnswerIsTell
  <2>5. CASE CheckoutFails \/ (RejectQueued /\ ~UNCHANGED reply)
    <3>1. queue # <<>> /\ Answer({Head(queue)}, "err") /\ UNCHANGED durable
      BY <2>5 DEF CheckoutFails, RejectQueued, RejectCommand, dbVars
    <3>2. Head(queue) \in Elems(queue)
      BY <1>2, <3>1, TakeHead DEF IInv, TypeOK
    <3>3. Head(queue) \notin durable
      BY <1>2, <3>2 DEF IInv, OrderInv, TypeOK
    <3>4. QED BY <1>2, <3>1, <3>3, AnswerIsTell
  <2>6. CASE ExecuteOk
    <3>1. Answer({Head(batch)} \cap Of({"event"}), "ok") /\ UNCHANGED durable
      BY <2>6 DEF ExecuteOk, AnsweredAtExecution, dbVars
    <3>2. Of({"event"}) \cap Promised = {}
      BY DEF Of, Promised
    <3>3. QED BY <1>2, <3>1, <3>2, AnswerIsTell
  <2>7. CASE ExecuteFails \/ StandaloneFails \/ (RejectRest /\ ~UNCHANGED reply)
    <3>1. batch # <<>> /\ UNCHANGED durable /\ Answer(done \cup {Head(batch)}, "err")
      BY <1>2, <2>7 DEF ExecuteFails, HeadInTx, StandaloneFails, HeadStandalone, RejectRest,
                        RejectCommand, dbVars, IInv, PhaseInv
    <3>2. Head(batch) \in Elems(batch)
      BY <1>2, <3>1, TakeHead DEF IInv, TypeOK
    <3>3. (done \cup {Head(batch)}) \cap durable = {}
      BY <1>2, <2>7, <3>2 DEF ExecuteFails, StandaloneFails, HeadStandalone, RejectRest,
                              IInv, OrderInv, PhaseInv, TypeOK
    <3>4. QED BY <1>2, <3>1, <3>3, AnswerIsTell
  <2>8. CASE CommitFails
    <3>1. Answer(done, "err") /\ UNCHANGED durable /\ done \cap durable = {}
      BY <1>2, <2>8 DEF CommitFails, dbVars, IInv, OrderInv, TypeOK
    <3>2. QED BY <1>2, <3>1, AnswerIsTell
  <2>9. CASE Acknowledge
    <3>1. Answer(done, "ok") /\ UNCHANGED durable /\ done \cap Writes \subseteq durable
      BY <1>2, <2>9 DEF Acknowledge, dbVars, IInv, PhaseInv
    <3>2. Promised \subseteq Writes
      BY DEF Promised, Writes, Of
    <3>3. QED BY <1>2, <3>1, <3>2, AnswerIsTell
  <2>10. CASE Crash
    <3>1. Answer(InFlight, "lost") /\ UNCHANGED durable
      BY <2>10 DEF Crash
    <3>2. QED BY <1>2, <3>1, AnswerIsTell
  <2>11. CASE Next /\ ~UNCHANGED <<durable, reply>>
    <3>1. \/ CommitOk \/ StandaloneOk \/ (\E c \in Cmd : NotAccepted(c))
          \/ CheckoutFails \/ (RejectQueued /\ ~UNCHANGED reply)
          \/ ExecuteOk \/ ExecuteFails \/ StandaloneFails \/ (RejectRest /\ ~UNCHANGED reply)
          \/ CommitFails \/ Acknowledge \/ Crash
      BY <2>11 DEF Next, Worker, Submit, Callable, CloseHandles, Receive, RejectQueued, Drain,
                   BatchOver, Terminate, Begin, RejectRest, Publish, Refresh, Restart, dbVars
    <3>2. QED BY <3>1, <2>2, <2>3, <2>4, <2>5, <2>6, <2>7, <2>8, <2>9, <2>10
  <2>12. QED BY <1>2, <2>1, <2>11 DEF vars
<1>3. QED
  BY <1>1, <1>2, Invariance, PTL DEF Spec, ImplementsStore, Store!Spec
=============================================================================
