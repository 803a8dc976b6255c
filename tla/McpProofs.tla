------------------------------ MODULE McpProofs ------------------------------
(***************************************************************************)
(* Proofs about McpClient for every set of calls, every number of children, *)
(* of pages and of answers nobody has read.                                 *)
(***************************************************************************)
EXTENDS McpClient, FiniteSetTheorems, SequenceTheorems, TLAPS

-----------------------------------------------------------------------------
(* The inductive invariant, in parts *)

Clients == [proc : {"none", "up", "exited", "killed"}, deaf : BOOLEAN, torn : BOOLEAN, inbox : SUBSET Line,
            out : Seq(Reply), reader : {"none", "reading", "closed", "ended", "aborted"},
            pending : SUBSET Nat, nextId : Nat \ {0}]
Calls == [pc : {"new", "begin", "insert", "write", "wait", "giveup", "announce", "over"},
          life : Life \cup {None}, id : Nat, page : 0..MaxPages, got : Reply \cup {None},
          aborted : BOOLEAN]

Types ==
  /\ servers \in Life \cup {None} /\ lock \in Call \cup {None}
  /\ client \in [Life -> Clients] /\ call \in [Call -> Calls]

(* A call that is under way holds a client that is alive; one that was aborted *)
(* leaves its numbers behind.                                                  *)
Busy(c) == call[c].pc \notin {"new", "over"}
Alive(l) == client[l].proc \in {"up", "exited"}

HoldInv ==
  /\ servers # None => Alive(servers)
  /\ \A c \in Call :
       /\ Busy(c) => call[c].life \in Life /\ Alive(call[c].life)
       /\ ~Busy(c) /\ ~call[c].aborted => call[c].life = None /\ call[c].id = NoId
       /\ call[c].aborted => At(c, "over") /\ call[c].life \in Life /\ client[call[c].life].proc # "none"

(* What the child has answered and nobody has read. *)
Unread(l) == {client[l].out[i] : i \in 1..Len(client[l].out)}

(* Numbers of a child were given out once; what waits in the map or travels    *)
(* has one that was given out.                                                 *)
Asks(c) == call[c].pc \in {"insert", "write", "wait"}

NumberInv ==
  /\ \A l \in Life :
       /\ client[l].pending \subseteq 1..(client[l].nextId - 1)
       /\ \A line \in client[l].inbox : line.id < client[l].nextId
       /\ \A reply \in Unread(l) : reply.id < client[l].nextId
  /\ \A c \in Call : \A l \in Life :
       call[c].life = l => call[c].id < client[l].nextId \/ client[l].proc = "killed"
  /\ \A c \in Call : Asks(c) \/ At(c, "giveup") => call[c].id > NoId
  /\ \A c, d \in Call : Busy(c) /\ call[c].life = call[d].life /\ call[c].id = call[d].id /\ call[c].id > NoId
                          => c = d

(* A request that waits in the map has a call that is on its way to take it    *)
(* out, or that was aborted; one that was answered has left it.                *)
PendingInv ==
  /\ \A l \in Life : \A id \in client[l].pending :
       \E c \in Call : call[c].life = l /\ call[c].id = id /\ (InFlight(c) \/ call[c].aborted)
  /\ \A c \in Call :
       /\ call[c].pc \in {"write", "wait"} => (call[c].got = None <=> call[c].id \in Mine(c).pending)
       /\ At(c, "insert") => call[c].got = None

(* What bears the number of a call that asks was asked by it, for this page.   *)
Question(c) == <<c, call[c].page>>
Fits(c, number, asks) == call[c].id = number => asks = Question(c)

AnswerInv ==
  /\ \A c \in Call : \A l \in Life : Asks(c) /\ call[c].life = l =>
       /\ \A line \in client[l].inbox : Fits(c, line.id, line.asks)
       /\ \A reply \in Unread(l) : Fits(c, reply.id, reply.to)
  /\ \A c \in Call : Asks(c) /\ call[c].got # None /\ call[c].got.id # NoId =>
       call[c].got.to = Question(c)

(* The registry's lock goes with the handshake, and while it is held the       *)
(* registry has no client. A client that is open is the registry's or that of  *)
(* the handshake; one that runs has a user.                                    *)
LockInv ==
  /\ lock # None => servers = None /\ Busy(lock)
  /\ \A c \in Call : Busy(c) /\ (call[c].page = 0 \/ At(c, "announce")) => lock = c
  /\ \A c \in Call : Busy(c) /\ lock # c => servers = call[c].life \/ is_closed(call[c].life)
  /\ \A l \in Life : client[l].proc = "up" => servers = l \/ \E c \in Call : Busy(c) /\ call[c].life = l

IInv == Types /\ HoldInv /\ NumberInv /\ PendingInv /\ AnswerInv /\ LockInv

-----------------------------------------------------------------------------
(* One call goes on, with one client *)

(* A step of a call under way that keeps its client: what must hold of its new *)
(* state k and of the client's new state cl.                                   *)
GoesOn(c, k, cl) ==
  LET l == call[c].life IN
  /\ call' = [call EXCEPT ![c] = k] /\ client' = [client EXCEPT ![l] = cl]
  /\ k \in Calls /\ cl \in Clients
  /\ Busy(c) /\ k.life = l /\ ~k.aborted /\ k.pc \notin {"new", "over"}
  /\ cl.proc = client[l].proc /\ cl.reader = client[l].reader /\ cl.out = client[l].out

(* The number of a call changes only to a new one. *)
Numbered(c, k, cl) ==
  LET l == call[c].life IN
  \/ k.id = call[c].id /\ cl.nextId = client[l].nextId
  \/ k.id = client[l].nextId /\ cl.nextId = client[l].nextId + 1

LEMMA GoesOnTypes ==
  ASSUME Types, HoldInv, UNCHANGED <<servers, lock>>, NEW c \in Call, NEW k, NEW cl, GoesOn(c, k, cl)
  PROVE  /\ Types' /\ HoldInv'
         /\ call[c].life \in Life /\ k = call'[c] /\ cl = client'[call[c].life]
         /\ \A d \in Call \ {c} : call'[d] = call[d]
         /\ \A l \in Life \ {call[c].life} : client'[l] = client[l]
         /\ \A l \in Life : Unread(l)' = Unread(l)
<1>1. call[c].life \in Life
  BY DEF GoesOn, HoldInv
<1>2. Types'
  BY <1>1 DEF Types, GoesOn
<1>3. /\ k = call'[c] /\ cl = client'[call[c].life]
      /\ \A d \in Call \ {c} : call'[d] = call[d]
      /\ \A l \in Life \ {call[c].life} : client'[l] = client[l]
  BY <1>1 DEF Types, GoesOn
<1>4. HoldInv'
  BY <1>1, <1>3 DEF HoldInv, GoesOn, Types, Busy, Alive, At
<1>5. \A l \in Life : client'[l].out = client[l].out
  BY <1>3 DEF GoesOn
<1>6. \A l \in Life : Unread(l)' = Unread(l)
  BY <1>5, Zenon DEF Unread
<1>7. QED BY <1>1, <1>2, <1>3, <1>4, <1>6

(* Numbers are numbers. *)
Nums ==
  /\ \A c \in Call : call[c].id \in Nat
  /\ \A l \in Life :
       /\ client[l].nextId \in Nat \ {0} /\ client[l].pending \subseteq Nat
       /\ \A line \in client[l].inbox : line.id \in Nat
       /\ \A reply \in Unread(l) : reply.id \in Nat

LEMMA Numbers == Types => Nums
<1>1. ASSUME Types, NEW l \in Life, NEW reply \in Unread(l) PROVE reply.id \in Nat
  <2>1. PICK i \in 1..Len(client[l].out) : reply = client[l].out[i]
    BY Zenon DEF Unread
  <2>2. client[l].out \in Seq(Reply)
    BY <1>1 DEF Types, Clients
  <2>3. reply \in Reply
    BY <2>1, <2>2, ElementOfSeq
  <2>4. QED BY <2>3 DEF Reply
<1>2. QED BY <1>1 DEF Types, Nums, Clients, Calls, Line

LEMMA NumbersNext == Types' => Nums'
BY Numbers, PTL

LEMMA Begun == ASSUME IInv, NEW c \in Call, Begin(c), ~is_closed(call[c].life) PROVE IInv'
<1> DEFINE l == call[c].life
           k == [call[c] EXCEPT !.pc = "insert", !.id = NextId(call[c].life), !.got = None]
           cl == [client[call[c].life] EXCEPT !.nextId = @ + 1]
<1>1. Types /\ HoldInv /\ NumberInv /\ PendingInv /\ AnswerInv /\ LockInv /\ Nums
  BY Numbers DEF IInv
<1>2. l \in Life /\ Busy(c) /\ ~call[c].aborted /\ call[c] \in Calls /\ client[l] \in Clients
  BY <1>1 DEF Begin, HoldInv, Busy, At, Types, Unanswered
<1>3. /\ call' = [call EXCEPT ![c] = k] /\ client' = [client EXCEPT ![l] = cl]
      /\ UNCHANGED <<servers, lock>>
  BY <1>1, <1>2 DEF Begin, Finish, Leave, NextId, Types, Calls, Clients, At
<1>4. k \in Calls /\ cl \in Clients
  <2>1. k \in Calls
    BY <1>1, <1>2 DEF Begin, Finish, Leave, NextId, Types, Calls, Clients, At
  <2>2. cl \in Clients
    BY <1>1, <1>2 DEF NextId, Clients
  <2>3. QED BY <2>1, <2>2
<1>5. /\ k.life = l /\ ~k.aborted /\ cl.proc = client[l].proc /\ cl.reader = client[l].reader /\ cl.out = client[l].out
      /\ k.pc \notin {"new", "over"}
  BY <1>2 DEF Calls, Clients, Sent
<1>6. /\ call'[c].pc = "insert"
      /\ call'[c].id = client[l].nextId
      /\ call'[c].got = None
      /\ call'[c].page = call[c].page
      /\ client'[l].nextId = client[l].nextId + 1
      /\ client'[l].pending = client[l].pending
      /\ client'[l].inbox = client[l].inbox
      /\ call[c].pc = "begin"
  BY <1>1, <1>2, <1>3 DEF Begin, Finish, Leave, NextId, Types, Calls, Clients, At, Garbage, Sent
<1> HIDE DEF k, cl
<1>7. GoesOn(c, k, cl)
  BY <1>2, <1>3, <1>4, <1>5 DEF GoesOn
<1>8. /\ Types' /\ HoldInv' /\ Nums'
      /\ \A d \in Call \ {c} : call'[d] = call[d]
      /\ \A m \in Life \ {l} : client'[m] = client[m]
      /\ \A m \in Life : Unread(m)' = Unread(m)
      /\ k = call'[c] /\ cl = client'[l]
  BY <1>1, <1>3, <1>7, GoesOnTypes, NumbersNext
<1>9. /\ call'[c].life = l /\ ~call'[c].aborted
      /\ client'[l].proc = client[l].proc /\ client'[l].reader = client[l].reader /\ client'[l].out = client[l].out
  BY <1>5, <1>8
<1>10. NumberInv'
  <2>1. ASSUME NEW m \in Life
        PROVE  /\ client'[m].pending \subseteq 1..(client'[m].nextId - 1)
               /\ \A line \in client'[m].inbox : line.id < client'[m].nextId
               /\ \A reply \in Unread(m)' : reply.id < client'[m].nextId
    <3>1. client'[m].nextId >= client[m].nextId
      BY <1>1, <1>2, <1>3, <1>6, <1>8, <1>9 DEF Nums
    <3>2. client'[m].pending \subseteq 1..(client'[m].nextId - 1)
      <4>1. client[m].nextId \in Nat /\ client'[m].nextId \in Nat /\ client[m].pending \subseteq 1..(client[m].nextId - 1)
        BY <1>1, <1>8 DEF Nums, NumberInv
      <4>2. client'[m].pending = client[m].pending \/ (m = l /\ client'[m].pending = client[m].pending \cup {call[c].id}
                                                         /\ call[c].id \in Nat /\ call[c].id > 0 /\ call[c].id < client[m].nextId)
        BY <1>1, <1>2, <1>3, <1>6, <1>8, <1>9 DEF Nums, NumberInv, HoldInv, Alive, Asks, At, NoId
      <4>3. QED BY <3>1, <4>1, <4>2
    <3>3. \A line \in client'[m].inbox : line.id < client'[m].nextId
      BY <1>1, <1>2, <1>3, <1>6, <1>8, <1>9, <3>1 DEF NumberInv, Nums, HoldInv, Alive, Asks, At, NoId
    <3>4. ASSUME NEW reply \in Unread(m) PROVE reply.id < client'[m].nextId
      <4>1. reply.id \in Nat /\ reply.id < client[m].nextId
        BY <1>1 DEF NumberInv, Nums
      <4>2. client[m].nextId \in Nat /\ client'[m].nextId \in Nat
        BY <1>1, <1>8 DEF Nums
      <4>3. QED BY <3>1, <4>1, <4>2
    <3>5. QED BY <1>8, <3>2, <3>3, <3>4
  <2>2. \A d \in Call : \A m \in Life :
          call'[d].life = m => call'[d].id < client'[m].nextId \/ client'[m].proc = "killed"
    BY <1>1, <1>2, <1>3, <1>6, <1>8, <1>9 DEF NumberInv, Nums
  <2>3. \A d \in Call : Asks(d)' \/ At(d, "giveup")' => call'[d].id > NoId
    BY <1>1, <1>2, <1>3, <1>6, <1>8, <1>9 DEF NumberInv, Asks, At, NoId, Nums
  <2>4. \A d, e \in Call : Busy(d)' /\ call'[d].life = call'[e].life /\ call'[d].id = call'[e].id
                              /\ call'[d].id > NoId => d = e
    BY <1>1, <1>2, <1>3, <1>6, <1>8, <1>9 DEF NumberInv, HoldInv, Busy, Alive, NoId, Nums
  <2>5. QED BY <2>1, <2>2, <2>3, <2>4 DEF NumberInv
<1>11. PendingInv'
  <2>1. ASSUME NEW m \in Life, NEW n \in client'[m].pending
        PROVE  \E d \in Call : call'[d].life = m /\ call'[d].id = n /\ (InFlight(d)' \/ call'[d].aborted)
    BY <1>1, <1>2, <1>3, <1>6, <1>8, <1>9 DEF PendingInv, NumberInv, HoldInv, Busy, Asks, InFlight, At, Mine, NoId
  <2>2. ASSUME NEW d \in Call
        PROVE  /\ call'[d].pc \in {"write", "wait"} => (call'[d].got = None <=> call'[d].id \in Mine(d)'.pending)
               /\ At(d, "insert")' => call'[d].got = None
    <3>1. CASE d # c
      BY <1>1, <1>2, <1>3, <1>6, <1>8, <1>9, <3>1 DEF PendingInv, NumberInv, HoldInv, Busy, Asks, InFlight, At, Mine, NoId
    <3>2. CASE d = c
      BY <1>1, <1>2, <1>3, <1>6, <1>8, <1>9, <3>2 DEF PendingInv, NumberInv, HoldInv, Busy, Asks, InFlight, At, Mine, NoId
    <3>3. QED BY <3>1, <3>2
  <2>3. QED BY <2>1, <2>2 DEF PendingInv
<1>12. AnswerInv'
  <2>1. \A d \in Call : Question(d)' = Question(d) \/ (d = c /\ ~Asks(c)')
    BY <1>1, <1>2, <1>3, <1>6, <1>8, <1>9 DEF Question, Asks
  <2>2. ASSUME NEW d \in Call, NEW m \in Life, Asks(d)', call'[d].life = m
        PROVE  /\ \A line \in client'[m].inbox : Fits(d, line.id, line.asks)'
               /\ \A reply \in Unread(m) : Fits(d, reply.id, reply.to)'
    <3>2. \A line \in client'[m].inbox : Fits(d, line.id, line.asks)'
      BY <1>1, <1>2, <1>3, <1>6, <1>8, <1>9, <2>1, <2>2 DEF AnswerInv, NumberInv, HoldInv, Nums, Alive, Asks, At, Fits, NoId
    <3>3. \A reply \in Unread(m) : Fits(d, reply.id, reply.to)'
      BY <1>1, <1>2, <1>3, <1>6, <1>8, <1>9, <2>1, <2>2 DEF AnswerInv, NumberInv, HoldInv, Nums, Alive, Asks, At, Fits, NoId
    <3>4. QED BY <3>2, <3>3
  <2>3. \A d \in Call : Asks(d)' /\ call'[d].got # None /\ call'[d].got.id # NoId => call'[d].got.to = Question(d)'
    BY <1>1, <1>2, <1>3, <1>6, <1>8, <1>9, <2>1 DEF AnswerInv, PendingInv, Asks, At
  <2>4. QED BY <1>1, <1>2, <1>3, <1>6, <1>8, <1>9, <2>2, <2>3 DEF AnswerInv, Fits
<1>13. LockInv'
  BY <1>1, <1>2, <1>3, <1>6, <1>8, <1>9 DEF LockInv, Busy, At, is_closed
<1>14. QED BY <1>8, <1>10, <1>11, <1>12, <1>13 DEF IInv

LEMMA Inserted == ASSUME IInv, NEW c \in Call, Insert(c) PROVE IInv'
<1> DEFINE l == call[c].life
           k == [call[c] EXCEPT !.pc = "write"]
           cl == [client[call[c].life] EXCEPT !.pending = @ \cup {call[c].id}]
<1>1. Types /\ HoldInv /\ NumberInv /\ PendingInv /\ AnswerInv /\ LockInv /\ Nums
  BY Numbers DEF IInv
<1>2. l \in Life /\ Busy(c) /\ ~call[c].aborted /\ call[c] \in Calls /\ client[l] \in Clients
  BY <1>1 DEF Insert, HoldInv, Busy, At, Types, Unanswered
<1>3. /\ call' = [call EXCEPT ![c] = k] /\ client' = [client EXCEPT ![l] = cl]
      /\ UNCHANGED <<servers, lock>>
  BY <1>1, <1>2 DEF Insert, Types, Calls, Clients, At
<1>4. k \in Calls /\ cl \in Clients
  <2>1. k \in Calls
    BY <1>1, <1>2 DEF Insert, Types, Calls, Clients, At
  <2>2. cl \in Clients
    BY <1>1, <1>2 DEF Calls, Clients
  <2>3. QED BY <2>1, <2>2
<1>5. /\ k.life = l /\ ~k.aborted /\ cl.proc = client[l].proc /\ cl.reader = client[l].reader /\ cl.out = client[l].out
      /\ k.pc \notin {"new", "over"}
  BY <1>2 DEF Calls, Clients, Sent
<1>6. /\ call'[c].pc = "write"
      /\ call'[c].id = call[c].id
      /\ call'[c].got = call[c].got
      /\ call'[c].page = call[c].page
      /\ client'[l].nextId = client[l].nextId
      /\ client'[l].pending = client[l].pending \cup {call[c].id}
      /\ client'[l].inbox = client[l].inbox
      /\ call[c].pc = "insert"
  BY <1>1, <1>2, <1>3 DEF Insert, Types, Calls, Clients, At, Garbage, Sent
<1> HIDE DEF k, cl
<1>7. GoesOn(c, k, cl)
  BY <1>2, <1>3, <1>4, <1>5 DEF GoesOn
<1>8. /\ Types' /\ HoldInv' /\ Nums'
      /\ \A d \in Call \ {c} : call'[d] = call[d]
      /\ \A m \in Life \ {l} : client'[m] = client[m]
      /\ \A m \in Life : Unread(m)' = Unread(m)
      /\ k = call'[c] /\ cl = client'[l]
  BY <1>1, <1>3, <1>7, GoesOnTypes, NumbersNext
<1>9. /\ call'[c].life = l /\ ~call'[c].aborted
      /\ client'[l].proc = client[l].proc /\ client'[l].reader = client[l].reader /\ client'[l].out = client[l].out
  BY <1>5, <1>8
<1>10. NumberInv'
  <2>1. ASSUME NEW m \in Life
        PROVE  /\ client'[m].pending \subseteq 1..(client'[m].nextId - 1)
               /\ \A line \in client'[m].inbox : line.id < client'[m].nextId
               /\ \A reply \in Unread(m)' : reply.id < client'[m].nextId
    <3>1. client'[m].nextId >= client[m].nextId
      BY <1>1, <1>2, <1>3, <1>6, <1>8, <1>9 DEF Nums
    <3>2. client'[m].pending \subseteq 1..(client'[m].nextId - 1)
      <4>1. client[m].nextId \in Nat /\ client'[m].nextId \in Nat /\ client[m].pending \subseteq 1..(client[m].nextId - 1)
        BY <1>1, <1>8 DEF Nums, NumberInv
      <4>2. client'[m].pending = client[m].pending \/ (m = l /\ client'[m].pending = client[m].pending \cup {call[c].id}
                                                         /\ call[c].id \in Nat /\ call[c].id > 0 /\ call[c].id < client[m].nextId)
        BY <1>1, <1>2, <1>3, <1>6, <1>8, <1>9 DEF Nums, NumberInv, HoldInv, Alive, Asks, At, NoId
      <4>3. QED BY <3>1, <4>1, <4>2
    <3>3. \A line \in client'[m].inbox : line.id < client'[m].nextId
      BY <1>1, <1>2, <1>3, <1>6, <1>8, <1>9, <3>1 DEF NumberInv, Nums, HoldInv, Alive, Asks, At, NoId
    <3>4. ASSUME NEW reply \in Unread(m) PROVE reply.id < client'[m].nextId
      <4>1. reply.id \in Nat /\ reply.id < client[m].nextId
        BY <1>1 DEF NumberInv, Nums
      <4>2. client[m].nextId \in Nat /\ client'[m].nextId \in Nat
        BY <1>1, <1>8 DEF Nums
      <4>3. QED BY <3>1, <4>1, <4>2
    <3>5. QED BY <1>8, <3>2, <3>3, <3>4
  <2>2. \A d \in Call : \A m \in Life :
          call'[d].life = m => call'[d].id < client'[m].nextId \/ client'[m].proc = "killed"
    BY <1>1, <1>2, <1>3, <1>6, <1>8, <1>9 DEF NumberInv, Nums
  <2>3. \A d \in Call : Asks(d)' \/ At(d, "giveup")' => call'[d].id > NoId
    BY <1>1, <1>2, <1>3, <1>6, <1>8, <1>9 DEF NumberInv, Asks, At, NoId, Nums
  <2>4. \A d, e \in Call : Busy(d)' /\ call'[d].life = call'[e].life /\ call'[d].id = call'[e].id
                              /\ call'[d].id > NoId => d = e
    BY <1>1, <1>2, <1>3, <1>6, <1>8, <1>9 DEF NumberInv, HoldInv, Busy, Alive, NoId, Nums
  <2>5. QED BY <2>1, <2>2, <2>3, <2>4 DEF NumberInv
<1>11. PendingInv'
  <2>1. ASSUME NEW m \in Life, NEW n \in client'[m].pending
        PROVE  \E d \in Call : call'[d].life = m /\ call'[d].id = n /\ (InFlight(d)' \/ call'[d].aborted)
    BY <1>1, <1>2, <1>3, <1>6, <1>8, <1>9 DEF PendingInv, NumberInv, HoldInv, Busy, Asks, InFlight, At, Mine, NoId
  <2>2. ASSUME NEW d \in Call
        PROVE  /\ call'[d].pc \in {"write", "wait"} => (call'[d].got = None <=> call'[d].id \in Mine(d)'.pending)
               /\ At(d, "insert")' => call'[d].got = None
    <3>1. CASE d # c
      BY <1>1, <1>2, <1>3, <1>6, <1>8, <1>9, <3>1 DEF PendingInv, NumberInv, HoldInv, Busy, Asks, InFlight, At, Mine, NoId
    <3>2. CASE d = c
      BY <1>1, <1>2, <1>3, <1>6, <1>8, <1>9, <3>2 DEF PendingInv, NumberInv, HoldInv, Busy, Asks, InFlight, At, Mine, NoId
    <3>3. QED BY <3>1, <3>2
  <2>3. QED BY <2>1, <2>2 DEF PendingInv
<1>12. AnswerInv'
  <2>1. \A d \in Call : Question(d)' = Question(d) \/ (d = c /\ ~Asks(c)')
    BY <1>1, <1>2, <1>3, <1>6, <1>8, <1>9 DEF Question, Asks
  <2>2. ASSUME NEW d \in Call, NEW m \in Life, Asks(d)', call'[d].life = m
        PROVE  /\ \A line \in client'[m].inbox : Fits(d, line.id, line.asks)'
               /\ \A reply \in Unread(m) : Fits(d, reply.id, reply.to)'
    <3>2. \A line \in client'[m].inbox : Fits(d, line.id, line.asks)'
      BY <1>1, <1>2, <1>3, <1>6, <1>8, <1>9, <2>1, <2>2 DEF AnswerInv, NumberInv, HoldInv, Nums, Alive, Asks, At, Fits, NoId
    <3>3. \A reply \in Unread(m) : Fits(d, reply.id, reply.to)'
      BY <1>1, <1>2, <1>3, <1>6, <1>8, <1>9, <2>1, <2>2 DEF AnswerInv, NumberInv, HoldInv, Nums, Alive, Asks, At, Fits, NoId
    <3>4. QED BY <3>2, <3>3
  <2>3. \A d \in Call : Asks(d)' /\ call'[d].got # None /\ call'[d].got.id # NoId => call'[d].got.to = Question(d)'
    BY <1>1, <1>2, <1>3, <1>6, <1>8, <1>9, <2>1 DEF AnswerInv, PendingInv, Asks, At
  <2>4. QED BY <1>1, <1>2, <1>3, <1>6, <1>8, <1>9, <2>2, <2>3 DEF AnswerInv, Fits
<1>13. LockInv'
  BY <1>1, <1>2, <1>3, <1>6, <1>8, <1>9 DEF LockInv, Busy, At, is_closed
<1>14. QED BY <1>8, <1>10, <1>11, <1>12, <1>13 DEF IInv

LEMMA Written == ASSUME IInv, NEW c \in Call, Write(c), call'[c].pc = "wait" PROVE IInv'
<1> DEFINE l == call[c].life
           k == [call[c] EXCEPT !.pc = "wait"]
           cl == Sent(client[call[c].life], [id |-> call[c].id, asks |-> <<c, call[c].page>>])
<1>1. Types /\ HoldInv /\ NumberInv /\ PendingInv /\ AnswerInv /\ LockInv /\ Nums
  BY Numbers DEF IInv
<1>2. l \in Life /\ Busy(c) /\ ~call[c].aborted /\ call[c] \in Calls /\ client[l] \in Clients
  BY <1>1 DEF Write, HoldInv, Busy, At, Types, Unanswered
<1>3. /\ call' = [call EXCEPT ![c] = k] /\ client' = [client EXCEPT ![l] = cl]
      /\ UNCHANGED <<servers, lock>>
  BY <1>1, <1>2 DEF Write, Types, Calls, Clients, At
<1>4. k \in Calls /\ cl \in Clients
  <2>1. k \in Calls
    BY <1>1, <1>2 DEF Write, Types, Calls, Clients, At
  <2>2. cl \in Clients
    <3>1. [id |-> call[c].id, asks |-> <<c, call[c].page>>] \in Line
      BY <1>2 DEF Line, Request, Calls
    <3>2. Garbage \in Line
      BY DEF Garbage, Line, NoId
    <3>3. QED BY <1>2, <3>1, <3>2 DEF Clients, Sent
  <2>3. QED BY <2>1, <2>2
<1>5. /\ k.life = l /\ ~k.aborted /\ cl.proc = client[l].proc /\ cl.reader = client[l].reader /\ cl.out = client[l].out
      /\ k.pc \notin {"new", "over"}
  BY <1>2 DEF Calls, Clients, Sent
<1>6. /\ call'[c].pc = "wait"
      /\ call'[c].id = call[c].id
      /\ call'[c].got = call[c].got
      /\ call'[c].page = call[c].page
      /\ client'[l].nextId = client[l].nextId
      /\ client'[l].pending = client[l].pending
      /\ \A line \in client'[l].inbox : line \in client[l].inbox \/ line.id = NoId \/ (line.id = call[c].id /\ line.asks = <<c, call[c].page>>)
      /\ call[c].pc = "write"
  BY <1>1, <1>2, <1>3 DEF Write, Types, Calls, Clients, At, Garbage, Sent
<1> HIDE DEF k, cl
<1>7. GoesOn(c, k, cl)
  BY <1>2, <1>3, <1>4, <1>5 DEF GoesOn
<1>8. /\ Types' /\ HoldInv' /\ Nums'
      /\ \A d \in Call \ {c} : call'[d] = call[d]
      /\ \A m \in Life \ {l} : client'[m] = client[m]
      /\ \A m \in Life : Unread(m)' = Unread(m)
      /\ k = call'[c] /\ cl = client'[l]
  BY <1>1, <1>3, <1>7, GoesOnTypes, NumbersNext
<1>9. /\ call'[c].life = l /\ ~call'[c].aborted
      /\ client'[l].proc = client[l].proc /\ client'[l].reader = client[l].reader /\ client'[l].out = client[l].out
  BY <1>5, <1>8
<1>10. NumberInv'
  <2>1. ASSUME NEW m \in Life
        PROVE  /\ client'[m].pending \subseteq 1..(client'[m].nextId - 1)
               /\ \A line \in client'[m].inbox : line.id < client'[m].nextId
               /\ \A reply \in Unread(m)' : reply.id < client'[m].nextId
    <3>1. client'[m].nextId >= client[m].nextId
      BY <1>1, <1>2, <1>3, <1>6, <1>8, <1>9 DEF Nums
    <3>2. client'[m].pending \subseteq 1..(client'[m].nextId - 1)
      <4>1. client[m].nextId \in Nat /\ client'[m].nextId \in Nat /\ client[m].pending \subseteq 1..(client[m].nextId - 1)
        BY <1>1, <1>8 DEF Nums, NumberInv
      <4>2. client'[m].pending = client[m].pending \/ (m = l /\ client'[m].pending = client[m].pending \cup {call[c].id}
                                                         /\ call[c].id \in Nat /\ call[c].id > 0 /\ call[c].id < client[m].nextId)
        BY <1>1, <1>2, <1>3, <1>6, <1>8, <1>9 DEF Nums, NumberInv, HoldInv, Alive, Asks, At, NoId
      <4>3. QED BY <3>1, <4>1, <4>2
    <3>3. \A line \in client'[m].inbox : line.id < client'[m].nextId
      BY <1>1, <1>2, <1>3, <1>6, <1>8, <1>9, <3>1 DEF NumberInv, Nums, HoldInv, Alive, Asks, At, NoId
    <3>4. ASSUME NEW reply \in Unread(m) PROVE reply.id < client'[m].nextId
      <4>1. reply.id \in Nat /\ reply.id < client[m].nextId
        BY <1>1 DEF NumberInv, Nums
      <4>2. client[m].nextId \in Nat /\ client'[m].nextId \in Nat
        BY <1>1, <1>8 DEF Nums
      <4>3. QED BY <3>1, <4>1, <4>2
    <3>5. QED BY <1>8, <3>2, <3>3, <3>4
  <2>2. \A d \in Call : \A m \in Life :
          call'[d].life = m => call'[d].id < client'[m].nextId \/ client'[m].proc = "killed"
    BY <1>1, <1>2, <1>3, <1>6, <1>8, <1>9 DEF NumberInv, Nums
  <2>3. \A d \in Call : Asks(d)' \/ At(d, "giveup")' => call'[d].id > NoId
    BY <1>1, <1>2, <1>3, <1>6, <1>8, <1>9 DEF NumberInv, Asks, At, NoId, Nums
  <2>4. \A d, e \in Call : Busy(d)' /\ call'[d].life = call'[e].life /\ call'[d].id = call'[e].id
                              /\ call'[d].id > NoId => d = e
    BY <1>1, <1>2, <1>3, <1>6, <1>8, <1>9 DEF NumberInv, HoldInv, Busy, Alive, NoId, Nums
  <2>5. QED BY <2>1, <2>2, <2>3, <2>4 DEF NumberInv
<1>11. PendingInv'
  <2>1. ASSUME NEW m \in Life, NEW n \in client'[m].pending
        PROVE  \E d \in Call : call'[d].life = m /\ call'[d].id = n /\ (InFlight(d)' \/ call'[d].aborted)
    BY <1>1, <1>2, <1>3, <1>6, <1>8, <1>9 DEF PendingInv, NumberInv, HoldInv, Busy, Asks, InFlight, At, Mine, NoId
  <2>2. ASSUME NEW d \in Call
        PROVE  /\ call'[d].pc \in {"write", "wait"} => (call'[d].got = None <=> call'[d].id \in Mine(d)'.pending)
               /\ At(d, "insert")' => call'[d].got = None
    <3>1. CASE d # c
      BY <1>1, <1>2, <1>3, <1>6, <1>8, <1>9, <3>1 DEF PendingInv, NumberInv, HoldInv, Busy, Asks, InFlight, At, Mine, NoId
    <3>2. CASE d = c
      BY <1>1, <1>2, <1>3, <1>6, <1>8, <1>9, <3>2 DEF PendingInv, NumberInv, HoldInv, Busy, Asks, InFlight, At, Mine, NoId
    <3>3. QED BY <3>1, <3>2
  <2>3. QED BY <2>1, <2>2 DEF PendingInv
<1>12. AnswerInv'
  <2>1. \A d \in Call : Question(d)' = Question(d) \/ (d = c /\ ~Asks(c)')
    BY <1>1, <1>2, <1>3, <1>6, <1>8, <1>9 DEF Question, Asks
  <2>2. ASSUME NEW d \in Call, NEW m \in Life, Asks(d)', call'[d].life = m
        PROVE  /\ \A line \in client'[m].inbox : Fits(d, line.id, line.asks)'
               /\ \A reply \in Unread(m) : Fits(d, reply.id, reply.to)'
    <3>2. \A line \in client'[m].inbox : Fits(d, line.id, line.asks)'
      BY <1>1, <1>2, <1>3, <1>6, <1>8, <1>9, <2>1, <2>2 DEF AnswerInv, NumberInv, HoldInv, Nums, Alive, Asks, At, Fits, NoId, Question
    <3>3. \A reply \in Unread(m) : Fits(d, reply.id, reply.to)'
      BY <1>1, <1>2, <1>3, <1>6, <1>8, <1>9, <2>1, <2>2 DEF AnswerInv, NumberInv, HoldInv, Nums, Alive, Asks, At, Fits, NoId
    <3>4. QED BY <3>2, <3>3
  <2>3. \A d \in Call : Asks(d)' /\ call'[d].got # None /\ call'[d].got.id # NoId => call'[d].got.to = Question(d)'
    BY <1>1, <1>2, <1>3, <1>6, <1>8, <1>9, <2>1 DEF AnswerInv, PendingInv, Asks, At
  <2>4. QED BY <1>1, <1>2, <1>3, <1>6, <1>8, <1>9, <2>2, <2>3 DEF AnswerInv, Fits
<1>13. LockInv'
  BY <1>1, <1>2, <1>3, <1>6, <1>8, <1>9 DEF LockInv, Busy, At, is_closed
<1>14. QED BY <1>8, <1>10, <1>11, <1>12, <1>13 DEF IInv

LEMMA NotWritten == ASSUME IInv, NEW c \in Call, Write(c), call'[c].pc = "giveup" PROVE IInv'
<1> DEFINE l == call[c].life
           k == [call[c] EXCEPT !.pc = "giveup"]
           cl == client[call[c].life]
<1>1. Types /\ HoldInv /\ NumberInv /\ PendingInv /\ AnswerInv /\ LockInv /\ Nums
  BY Numbers DEF IInv
<1>2. l \in Life /\ Busy(c) /\ ~call[c].aborted /\ call[c] \in Calls /\ client[l] \in Clients
  BY <1>1 DEF Write, HoldInv, Busy, At, Types, Unanswered
<1>3. /\ call' = [call EXCEPT ![c] = k] /\ client' = [client EXCEPT ![l] = cl]
      /\ UNCHANGED <<servers, lock>>
  BY <1>1, <1>2 DEF Write, Types, Calls, Clients, At
<1>4. k \in Calls /\ cl \in Clients
  <2>1. k \in Calls
    BY <1>1, <1>2 DEF Write, Types, Calls, Clients, At
  <2>2. cl \in Clients
    BY <1>1, <1>2 DEF NextId, Clients
  <2>3. QED BY <2>1, <2>2
<1>5. /\ k.life = l /\ ~k.aborted /\ cl.proc = client[l].proc /\ cl.reader = client[l].reader /\ cl.out = client[l].out
      /\ k.pc \notin {"new", "over"}
  BY <1>2 DEF Calls, Clients, Sent
<1>6. /\ call'[c].pc = "giveup"
      /\ call'[c].id = call[c].id
      /\ call'[c].got = call[c].got
      /\ call'[c].page = call[c].page
      /\ client' = client
      /\ call[c].pc = "write"
  BY <1>1, <1>2, <1>3 DEF Write, Types, Calls, Clients, At, Garbage, Sent
<1> HIDE DEF k, cl
<1>7. GoesOn(c, k, cl)
  BY <1>2, <1>3, <1>4, <1>5 DEF GoesOn
<1>8. /\ Types' /\ HoldInv' /\ Nums'
      /\ \A d \in Call \ {c} : call'[d] = call[d]
      /\ \A m \in Life \ {l} : client'[m] = client[m]
      /\ \A m \in Life : Unread(m)' = Unread(m)
      /\ k = call'[c] /\ cl = client'[l]
  BY <1>1, <1>3, <1>7, GoesOnTypes, NumbersNext
<1>9. /\ call'[c].life = l /\ ~call'[c].aborted
      /\ client'[l].proc = client[l].proc /\ client'[l].reader = client[l].reader /\ client'[l].out = client[l].out
  BY <1>5, <1>8
<1>10. NumberInv'
  <2>1. ASSUME NEW m \in Life
        PROVE  /\ client'[m].pending \subseteq 1..(client'[m].nextId - 1)
               /\ \A line \in client'[m].inbox : line.id < client'[m].nextId
               /\ \A reply \in Unread(m)' : reply.id < client'[m].nextId
    <3>1. client'[m].nextId >= client[m].nextId
      BY <1>1, <1>2, <1>3, <1>6, <1>8, <1>9 DEF Nums
    <3>2. client'[m].pending \subseteq 1..(client'[m].nextId - 1)
      <4>1. client[m].nextId \in Nat /\ client'[m].nextId \in Nat /\ client[m].pending \subseteq 1..(client[m].nextId - 1)
        BY <1>1, <1>8 DEF Nums, NumberInv
      <4>2. client'[m].pending = client[m].pending \/ (m = l /\ client'[m].pending = client[m].pending \cup {call[c].id}
                                                         /\ call[c].id \in Nat /\ call[c].id > 0 /\ call[c].id < client[m].nextId)
        BY <1>1, <1>2, <1>3, <1>6, <1>8, <1>9 DEF Nums, NumberInv, HoldInv, Alive, Asks, At, NoId
      <4>3. QED BY <3>1, <4>1, <4>2
    <3>3. \A line \in client'[m].inbox : line.id < client'[m].nextId
      BY <1>1, <1>2, <1>3, <1>6, <1>8, <1>9, <3>1 DEF NumberInv, Nums, HoldInv, Alive, Asks, At, NoId
    <3>4. ASSUME NEW reply \in Unread(m) PROVE reply.id < client'[m].nextId
      <4>1. reply.id \in Nat /\ reply.id < client[m].nextId
        BY <1>1 DEF NumberInv, Nums
      <4>2. client[m].nextId \in Nat /\ client'[m].nextId \in Nat
        BY <1>1, <1>8 DEF Nums
      <4>3. QED BY <3>1, <4>1, <4>2
    <3>5. QED BY <1>8, <3>2, <3>3, <3>4
  <2>2. \A d \in Call : \A m \in Life :
          call'[d].life = m => call'[d].id < client'[m].nextId \/ client'[m].proc = "killed"
    BY <1>1, <1>2, <1>3, <1>6, <1>8, <1>9 DEF NumberInv, Nums
  <2>3. \A d \in Call : Asks(d)' \/ At(d, "giveup")' => call'[d].id > NoId
    BY <1>1, <1>2, <1>3, <1>6, <1>8, <1>9 DEF NumberInv, Asks, At, NoId, Nums
  <2>4. \A d, e \in Call : Busy(d)' /\ call'[d].life = call'[e].life /\ call'[d].id = call'[e].id
                              /\ call'[d].id > NoId => d = e
    BY <1>1, <1>2, <1>3, <1>6, <1>8, <1>9 DEF NumberInv, HoldInv, Busy, Alive, NoId, Nums
  <2>5. QED BY <2>1, <2>2, <2>3, <2>4 DEF NumberInv
<1>11. PendingInv'
  <2>1. ASSUME NEW m \in Life, NEW n \in client'[m].pending
        PROVE  \E d \in Call : call'[d].life = m /\ call'[d].id = n /\ (InFlight(d)' \/ call'[d].aborted)
    BY <1>1, <1>2, <1>3, <1>6, <1>8, <1>9 DEF PendingInv, NumberInv, HoldInv, Busy, Asks, InFlight, At, Mine, NoId
  <2>2. ASSUME NEW d \in Call
        PROVE  /\ call'[d].pc \in {"write", "wait"} => (call'[d].got = None <=> call'[d].id \in Mine(d)'.pending)
               /\ At(d, "insert")' => call'[d].got = None
    <3>1. CASE d # c
      BY <1>1, <1>2, <1>3, <1>6, <1>8, <1>9, <3>1 DEF PendingInv, NumberInv, HoldInv, Busy, Asks, InFlight, At, Mine, NoId
    <3>2. CASE d = c
      BY <1>1, <1>2, <1>3, <1>6, <1>8, <1>9, <3>2 DEF PendingInv, NumberInv, HoldInv, Busy, Asks, InFlight, At, Mine, NoId
    <3>3. QED BY <3>1, <3>2
  <2>3. QED BY <2>1, <2>2 DEF PendingInv
<1>12. AnswerInv'
  <2>1. \A d \in Call : Question(d)' = Question(d) \/ (d = c /\ ~Asks(c)')
    BY <1>1, <1>2, <1>3, <1>6, <1>8, <1>9 DEF Question, Asks
  <2>2. ASSUME NEW d \in Call, NEW m \in Life, Asks(d)', call'[d].life = m
        PROVE  /\ \A line \in client'[m].inbox : Fits(d, line.id, line.asks)'
               /\ \A reply \in Unread(m) : Fits(d, reply.id, reply.to)'
    <3>2. \A line \in client'[m].inbox : Fits(d, line.id, line.asks)'
      BY <1>1, <1>2, <1>3, <1>6, <1>8, <1>9, <2>1, <2>2 DEF AnswerInv, NumberInv, HoldInv, Nums, Alive, Asks, At, Fits, NoId
    <3>3. \A reply \in Unread(m) : Fits(d, reply.id, reply.to)'
      BY <1>1, <1>2, <1>3, <1>6, <1>8, <1>9, <2>1, <2>2 DEF AnswerInv, NumberInv, HoldInv, Nums, Alive, Asks, At, Fits, NoId
    <3>4. QED BY <3>2, <3>3
  <2>3. \A d \in Call : Asks(d)' /\ call'[d].got # None /\ call'[d].got.id # NoId => call'[d].got.to = Question(d)'
    BY <1>1, <1>2, <1>3, <1>6, <1>8, <1>9, <2>1 DEF AnswerInv, PendingInv, Asks, At
  <2>4. QED BY <1>1, <1>2, <1>3, <1>6, <1>8, <1>9, <2>2, <2>3 DEF AnswerInv, Fits
<1>13. LockInv'
  BY <1>1, <1>2, <1>3, <1>6, <1>8, <1>9 DEF LockInv, Busy, At, is_closed
<1>14. QED BY <1>8, <1>10, <1>11, <1>12, <1>13 DEF IInv

LEMMA TimedOut == ASSUME IInv, NEW c \in Call, Timeout(c) PROVE IInv'
<1> DEFINE l == call[c].life
           k == [call[c] EXCEPT !.pc = "giveup"]
           cl == client[call[c].life]
<1>1. Types /\ HoldInv /\ NumberInv /\ PendingInv /\ AnswerInv /\ LockInv /\ Nums
  BY Numbers DEF IInv
<1>2. l \in Life /\ Busy(c) /\ ~call[c].aborted /\ call[c] \in Calls /\ client[l] \in Clients
  BY <1>1 DEF Timeout, HoldInv, Busy, At, Types, Unanswered
<1>3. /\ call' = [call EXCEPT ![c] = k] /\ client' = [client EXCEPT ![l] = cl]
      /\ UNCHANGED <<servers, lock>>
  BY <1>1, <1>2 DEF Timeout, Unanswered, Types, Calls, Clients, At
<1>4. k \in Calls /\ cl \in Clients
  <2>1. k \in Calls
    BY <1>1, <1>2 DEF Timeout, Unanswered, Types, Calls, Clients, At
  <2>2. cl \in Clients
    BY <1>1, <1>2 DEF NextId, Clients
  <2>3. QED BY <2>1, <2>2
<1>5. /\ k.life = l /\ ~k.aborted /\ cl.proc = client[l].proc /\ cl.reader = client[l].reader /\ cl.out = client[l].out
      /\ k.pc \notin {"new", "over"}
  BY <1>2 DEF Calls, Clients, Sent
<1>6. /\ call'[c].pc = "giveup"
      /\ call'[c].id = call[c].id
      /\ call'[c].got = call[c].got
      /\ call'[c].page = call[c].page
      /\ client' = client
      /\ call[c].pc = "wait"
  BY <1>1, <1>2, <1>3 DEF Timeout, Unanswered, Types, Calls, Clients, At, Garbage, Sent
<1> HIDE DEF k, cl
<1>7. GoesOn(c, k, cl)
  BY <1>2, <1>3, <1>4, <1>5 DEF GoesOn
<1>8. /\ Types' /\ HoldInv' /\ Nums'
      /\ \A d \in Call \ {c} : call'[d] = call[d]
      /\ \A m \in Life \ {l} : client'[m] = client[m]
      /\ \A m \in Life : Unread(m)' = Unread(m)
      /\ k = call'[c] /\ cl = client'[l]
  BY <1>1, <1>3, <1>7, GoesOnTypes, NumbersNext
<1>9. /\ call'[c].life = l /\ ~call'[c].aborted
      /\ client'[l].proc = client[l].proc /\ client'[l].reader = client[l].reader /\ client'[l].out = client[l].out
  BY <1>5, <1>8
<1>10. NumberInv'
  <2>1. ASSUME NEW m \in Life
        PROVE  /\ client'[m].pending \subseteq 1..(client'[m].nextId - 1)
               /\ \A line \in client'[m].inbox : line.id < client'[m].nextId
               /\ \A reply \in Unread(m)' : reply.id < client'[m].nextId
    <3>1. client'[m].nextId >= client[m].nextId
      BY <1>1, <1>2, <1>3, <1>6, <1>8, <1>9 DEF Nums
    <3>2. client'[m].pending \subseteq 1..(client'[m].nextId - 1)
      <4>1. client[m].nextId \in Nat /\ client'[m].nextId \in Nat /\ client[m].pending \subseteq 1..(client[m].nextId - 1)
        BY <1>1, <1>8 DEF Nums, NumberInv
      <4>2. client'[m].pending = client[m].pending \/ (m = l /\ client'[m].pending = client[m].pending \cup {call[c].id}
                                                         /\ call[c].id \in Nat /\ call[c].id > 0 /\ call[c].id < client[m].nextId)
        BY <1>1, <1>2, <1>3, <1>6, <1>8, <1>9 DEF Nums, NumberInv, HoldInv, Alive, Asks, At, NoId
      <4>3. QED BY <3>1, <4>1, <4>2
    <3>3. \A line \in client'[m].inbox : line.id < client'[m].nextId
      BY <1>1, <1>2, <1>3, <1>6, <1>8, <1>9, <3>1 DEF NumberInv, Nums, HoldInv, Alive, Asks, At, NoId
    <3>4. ASSUME NEW reply \in Unread(m) PROVE reply.id < client'[m].nextId
      <4>1. reply.id \in Nat /\ reply.id < client[m].nextId
        BY <1>1 DEF NumberInv, Nums
      <4>2. client[m].nextId \in Nat /\ client'[m].nextId \in Nat
        BY <1>1, <1>8 DEF Nums
      <4>3. QED BY <3>1, <4>1, <4>2
    <3>5. QED BY <1>8, <3>2, <3>3, <3>4
  <2>2. \A d \in Call : \A m \in Life :
          call'[d].life = m => call'[d].id < client'[m].nextId \/ client'[m].proc = "killed"
    BY <1>1, <1>2, <1>3, <1>6, <1>8, <1>9 DEF NumberInv, Nums
  <2>3. \A d \in Call : Asks(d)' \/ At(d, "giveup")' => call'[d].id > NoId
    BY <1>1, <1>2, <1>3, <1>6, <1>8, <1>9 DEF NumberInv, Asks, At, NoId, Nums
  <2>4. \A d, e \in Call : Busy(d)' /\ call'[d].life = call'[e].life /\ call'[d].id = call'[e].id
                              /\ call'[d].id > NoId => d = e
    BY <1>1, <1>2, <1>3, <1>6, <1>8, <1>9 DEF NumberInv, HoldInv, Busy, Alive, NoId, Nums
  <2>5. QED BY <2>1, <2>2, <2>3, <2>4 DEF NumberInv
<1>11. PendingInv'
  <2>1. ASSUME NEW m \in Life, NEW n \in client'[m].pending
        PROVE  \E d \in Call : call'[d].life = m /\ call'[d].id = n /\ (InFlight(d)' \/ call'[d].aborted)
    BY <1>1, <1>2, <1>3, <1>6, <1>8, <1>9 DEF PendingInv, NumberInv, HoldInv, Busy, Asks, InFlight, At, Mine, NoId
  <2>2. ASSUME NEW d \in Call
        PROVE  /\ call'[d].pc \in {"write", "wait"} => (call'[d].got = None <=> call'[d].id \in Mine(d)'.pending)
               /\ At(d, "insert")' => call'[d].got = None
    <3>1. CASE d # c
      BY <1>1, <1>2, <1>3, <1>6, <1>8, <1>9, <3>1 DEF PendingInv, NumberInv, HoldInv, Busy, Asks, InFlight, At, Mine, NoId
    <3>2. CASE d = c
      BY <1>1, <1>2, <1>3, <1>6, <1>8, <1>9, <3>2 DEF PendingInv, NumberInv, HoldInv, Busy, Asks, InFlight, At, Mine, NoId
    <3>3. QED BY <3>1, <3>2
  <2>3. QED BY <2>1, <2>2 DEF PendingInv
<1>12. AnswerInv'
  <2>1. \A d \in Call : Question(d)' = Question(d) \/ (d = c /\ ~Asks(c)')
    BY <1>1, <1>2, <1>3, <1>6, <1>8, <1>9 DEF Question, Asks
  <2>2. ASSUME NEW d \in Call, NEW m \in Life, Asks(d)', call'[d].life = m
        PROVE  /\ \A line \in client'[m].inbox : Fits(d, line.id, line.asks)'
               /\ \A reply \in Unread(m) : Fits(d, reply.id, reply.to)'
    <3>2. \A line \in client'[m].inbox : Fits(d, line.id, line.asks)'
      BY <1>1, <1>2, <1>3, <1>6, <1>8, <1>9, <2>1, <2>2 DEF AnswerInv, NumberInv, HoldInv, Nums, Alive, Asks, At, Fits, NoId
    <3>3. \A reply \in Unread(m) : Fits(d, reply.id, reply.to)'
      BY <1>1, <1>2, <1>3, <1>6, <1>8, <1>9, <2>1, <2>2 DEF AnswerInv, NumberInv, HoldInv, Nums, Alive, Asks, At, Fits, NoId
    <3>4. QED BY <3>2, <3>3
  <2>3. \A d \in Call : Asks(d)' /\ call'[d].got # None /\ call'[d].got.id # NoId => call'[d].got.to = Question(d)'
    BY <1>1, <1>2, <1>3, <1>6, <1>8, <1>9, <2>1 DEF AnswerInv, PendingInv, Asks, At
  <2>4. QED BY <1>1, <1>2, <1>3, <1>6, <1>8, <1>9, <2>2, <2>3 DEF AnswerInv, Fits
<1>13. LockInv'
  BY <1>1, <1>2, <1>3, <1>6, <1>8, <1>9 DEF LockInv, Busy, At, is_closed
<1>14. QED BY <1>8, <1>10, <1>11, <1>12, <1>13 DEF IInv

LEMMA Connected == ASSUME IInv, NEW c \in Call, Return(c), call'[c].pc = "announce" PROVE IInv'
<1> DEFINE l == call[c].life
           k == [call[c] EXCEPT !.pc = "announce"]
           cl == client[call[c].life]
<1>1. Types /\ HoldInv /\ NumberInv /\ PendingInv /\ AnswerInv /\ LockInv /\ Nums
  BY Numbers DEF IInv
<1>2. l \in Life /\ Busy(c) /\ ~call[c].aborted /\ call[c] \in Calls /\ client[l] \in Clients
  BY <1>1 DEF Return, HoldInv, Busy, At, Types, Unanswered
<1>3. /\ call' = [call EXCEPT ![c] = k] /\ client' = [client EXCEPT ![l] = cl]
      /\ UNCHANGED <<servers, lock>>
  BY <1>1, <1>2 DEF Return, Finish, Asking, Types, Calls, Clients, At
<1>4. k \in Calls /\ cl \in Clients
  <2>1. k \in Calls
    BY <1>1, <1>2 DEF Return, Finish, Asking, Types, Calls, Clients, At
  <2>2. cl \in Clients
    BY <1>1, <1>2 DEF NextId, Clients
  <2>3. QED BY <2>1, <2>2
<1>5. /\ k.life = l /\ ~k.aborted /\ cl.proc = client[l].proc /\ cl.reader = client[l].reader /\ cl.out = client[l].out
      /\ k.pc \notin {"new", "over"}
  BY <1>2 DEF Calls, Clients, Sent
<1>6. /\ call'[c].pc = "announce"
      /\ call'[c].id = call[c].id
      /\ call'[c].got = call[c].got
      /\ call'[c].page = 0
      /\ client' = client
      /\ call[c].page = 0
      /\ call[c].pc = "wait"
      /\ call[c].got # None
  BY <1>1, <1>2, <1>3 DEF Return, Finish, Asking, Types, Calls, Clients, At, Garbage, Sent
<1> HIDE DEF k, cl
<1>7. GoesOn(c, k, cl)
  BY <1>2, <1>3, <1>4, <1>5 DEF GoesOn
<1>8. /\ Types' /\ HoldInv' /\ Nums'
      /\ \A d \in Call \ {c} : call'[d] = call[d]
      /\ \A m \in Life \ {l} : client'[m] = client[m]
      /\ \A m \in Life : Unread(m)' = Unread(m)
      /\ k = call'[c] /\ cl = client'[l]
  BY <1>1, <1>3, <1>7, GoesOnTypes, NumbersNext
<1>9. /\ call'[c].life = l /\ ~call'[c].aborted
      /\ client'[l].proc = client[l].proc /\ client'[l].reader = client[l].reader /\ client'[l].out = client[l].out
  BY <1>5, <1>8
<1>10. NumberInv'
  <2>1. ASSUME NEW m \in Life
        PROVE  /\ client'[m].pending \subseteq 1..(client'[m].nextId - 1)
               /\ \A line \in client'[m].inbox : line.id < client'[m].nextId
               /\ \A reply \in Unread(m)' : reply.id < client'[m].nextId
    <3>1. client'[m].nextId >= client[m].nextId
      BY <1>1, <1>2, <1>3, <1>6, <1>8, <1>9 DEF Nums
    <3>2. client'[m].pending \subseteq 1..(client'[m].nextId - 1)
      <4>1. client[m].nextId \in Nat /\ client'[m].nextId \in Nat /\ client[m].pending \subseteq 1..(client[m].nextId - 1)
        BY <1>1, <1>8 DEF Nums, NumberInv
      <4>2. client'[m].pending = client[m].pending \/ (m = l /\ client'[m].pending = client[m].pending \cup {call[c].id}
                                                         /\ call[c].id \in Nat /\ call[c].id > 0 /\ call[c].id < client[m].nextId)
        BY <1>1, <1>2, <1>3, <1>6, <1>8, <1>9 DEF Nums, NumberInv, HoldInv, Alive, Asks, At, NoId
      <4>3. QED BY <3>1, <4>1, <4>2
    <3>3. \A line \in client'[m].inbox : line.id < client'[m].nextId
      BY <1>1, <1>2, <1>3, <1>6, <1>8, <1>9, <3>1 DEF NumberInv, Nums, HoldInv, Alive, Asks, At, NoId
    <3>4. ASSUME NEW reply \in Unread(m) PROVE reply.id < client'[m].nextId
      <4>1. reply.id \in Nat /\ reply.id < client[m].nextId
        BY <1>1 DEF NumberInv, Nums
      <4>2. client[m].nextId \in Nat /\ client'[m].nextId \in Nat
        BY <1>1, <1>8 DEF Nums
      <4>3. QED BY <3>1, <4>1, <4>2
    <3>5. QED BY <1>8, <3>2, <3>3, <3>4
  <2>2. \A d \in Call : \A m \in Life :
          call'[d].life = m => call'[d].id < client'[m].nextId \/ client'[m].proc = "killed"
    BY <1>1, <1>2, <1>3, <1>6, <1>8, <1>9 DEF NumberInv, Nums
  <2>3. \A d \in Call : Asks(d)' \/ At(d, "giveup")' => call'[d].id > NoId
    BY <1>1, <1>2, <1>3, <1>6, <1>8, <1>9 DEF NumberInv, Asks, At, NoId, Nums
  <2>4. \A d, e \in Call : Busy(d)' /\ call'[d].life = call'[e].life /\ call'[d].id = call'[e].id
                              /\ call'[d].id > NoId => d = e
    BY <1>1, <1>2, <1>3, <1>6, <1>8, <1>9 DEF NumberInv, HoldInv, Busy, Alive, NoId, Nums
  <2>5. QED BY <2>1, <2>2, <2>3, <2>4 DEF NumberInv
<1>11. PendingInv'
  <2>1. ASSUME NEW m \in Life, NEW n \in client'[m].pending
        PROVE  \E d \in Call : call'[d].life = m /\ call'[d].id = n /\ (InFlight(d)' \/ call'[d].aborted)
    BY <1>1, <1>2, <1>3, <1>6, <1>8, <1>9 DEF PendingInv, NumberInv, HoldInv, Busy, Asks, InFlight, At, Mine, NoId
  <2>2. ASSUME NEW d \in Call
        PROVE  /\ call'[d].pc \in {"write", "wait"} => (call'[d].got = None <=> call'[d].id \in Mine(d)'.pending)
               /\ At(d, "insert")' => call'[d].got = None
    <3>1. CASE d # c
      BY <1>1, <1>2, <1>3, <1>6, <1>8, <1>9, <3>1 DEF PendingInv, NumberInv, HoldInv, Busy, Asks, InFlight, At, Mine, NoId
    <3>2. CASE d = c
      BY <1>1, <1>2, <1>3, <1>6, <1>8, <1>9, <3>2 DEF PendingInv, NumberInv, HoldInv, Busy, Asks, InFlight, At, Mine, NoId
    <3>3. QED BY <3>1, <3>2
  <2>3. QED BY <2>1, <2>2 DEF PendingInv
<1>12. AnswerInv'
  <2>1. \A d \in Call : Question(d)' = Question(d) \/ (d = c /\ ~Asks(c)')
    BY <1>1, <1>2, <1>3, <1>6, <1>8, <1>9 DEF Question, Asks
  <2>2. ASSUME NEW d \in Call, NEW m \in Life, Asks(d)', call'[d].life = m
        PROVE  /\ \A line \in client'[m].inbox : Fits(d, line.id, line.asks)'
               /\ \A reply \in Unread(m) : Fits(d, reply.id, reply.to)'
    <3>2. \A line \in client'[m].inbox : Fits(d, line.id, line.asks)'
      BY <1>1, <1>2, <1>3, <1>6, <1>8, <1>9, <2>1, <2>2 DEF AnswerInv, NumberInv, HoldInv, Nums, Alive, Asks, At, Fits, NoId
    <3>3. \A reply \in Unread(m) : Fits(d, reply.id, reply.to)'
      BY <1>1, <1>2, <1>3, <1>6, <1>8, <1>9, <2>1, <2>2 DEF AnswerInv, NumberInv, HoldInv, Nums, Alive, Asks, At, Fits, NoId
    <3>4. QED BY <3>2, <3>3
  <2>3. \A d \in Call : Asks(d)' /\ call'[d].got # None /\ call'[d].got.id # NoId => call'[d].got.to = Question(d)'
    BY <1>1, <1>2, <1>3, <1>6, <1>8, <1>9, <2>1 DEF AnswerInv, PendingInv, Asks, At
  <2>4. QED BY <1>1, <1>2, <1>3, <1>6, <1>8, <1>9, <2>2, <2>3 DEF AnswerInv, Fits
<1>13. LockInv'
  BY <1>1, <1>2, <1>3, <1>6, <1>8, <1>9 DEF LockInv, Busy, At, is_closed
<1>14. QED BY <1>8, <1>10, <1>11, <1>12, <1>13 DEF IInv

LEMMA AskedOn == ASSUME IInv, NEW c \in Call, Return(c), call'[c].pc = "begin" PROVE IInv'
<1> DEFINE l == call[c].life
           k == [call[c] EXCEPT !.pc = "begin", !.page = @ + 1]
           cl == client[call[c].life]
<1>1. Types /\ HoldInv /\ NumberInv /\ PendingInv /\ AnswerInv /\ LockInv /\ Nums
  BY Numbers DEF IInv
<1>2. l \in Life /\ Busy(c) /\ ~call[c].aborted /\ call[c] \in Calls /\ client[l] \in Clients
  BY <1>1 DEF Return, HoldInv, Busy, At, Types, Unanswered
<1>a. /\ call[c].page \in 1..(MaxPages - 1) /\ call[c].pc = "wait" /\ call[c].got # None
      /\ call' = [call EXCEPT ![c].pc = "begin", ![c].page = @ + 1] /\ UNCHANGED <<servers, lock, client>>
  BY <1>1, <1>2 DEF Return, Finish, Asking, At, Types, Calls
<1>3. /\ call' = [call EXCEPT ![c] = k] /\ client' = [client EXCEPT ![l] = cl]
      /\ UNCHANGED <<servers, lock>>
  BY <1>1, <1>2, <1>a, McpConstants DEF Return, Finish, Asking, Types, Calls, Clients, At
<1>4. k \in Calls /\ cl \in Clients
  <2>1. call[c].page + 1 \in 0..MaxPages
    BY <1>a, McpConstants
  <2>2. k \in Calls
    BY <1>2, <2>1 DEF Calls
  <2>3. cl \in Clients
    BY <1>2
  <2>4. QED BY <2>2, <2>3
<1>5. /\ k.life = l /\ ~k.aborted /\ cl.proc = client[l].proc /\ cl.reader = client[l].reader /\ cl.out = client[l].out
      /\ k.pc \notin {"new", "over"}
  BY <1>2 DEF Calls, Clients, Sent
<1>6. /\ call'[c].pc = "begin"
      /\ call'[c].id = call[c].id
      /\ call'[c].got = call[c].got
      /\ call'[c].page # 0
      /\ client' = client
      /\ call[c].page # 0
      /\ call[c].pc = "wait"
      /\ call[c].got # None
  BY <1>1, <1>2, <1>3 DEF Return, Finish, Asking, Types, Calls, Clients, At, Garbage, Sent
<1> HIDE DEF k, cl
<1>7. GoesOn(c, k, cl)
  BY <1>2, <1>3, <1>4, <1>5 DEF GoesOn
<1>8. /\ Types' /\ HoldInv' /\ Nums'
      /\ \A d \in Call \ {c} : call'[d] = call[d]
      /\ \A m \in Life \ {l} : client'[m] = client[m]
      /\ \A m \in Life : Unread(m)' = Unread(m)
      /\ k = call'[c] /\ cl = client'[l]
  BY <1>1, <1>3, <1>7, GoesOnTypes, NumbersNext
<1>9. /\ call'[c].life = l /\ ~call'[c].aborted
      /\ client'[l].proc = client[l].proc /\ client'[l].reader = client[l].reader /\ client'[l].out = client[l].out
  BY <1>5, <1>8
<1>10. NumberInv'
  <2>1. ASSUME NEW m \in Life
        PROVE  /\ client'[m].pending \subseteq 1..(client'[m].nextId - 1)
               /\ \A line \in client'[m].inbox : line.id < client'[m].nextId
               /\ \A reply \in Unread(m)' : reply.id < client'[m].nextId
    <3>1. client'[m].nextId >= client[m].nextId
      BY <1>1, <1>2, <1>3, <1>6, <1>8, <1>9 DEF Nums
    <3>2. client'[m].pending \subseteq 1..(client'[m].nextId - 1)
      <4>1. client[m].nextId \in Nat /\ client'[m].nextId \in Nat /\ client[m].pending \subseteq 1..(client[m].nextId - 1)
        BY <1>1, <1>8 DEF Nums, NumberInv
      <4>2. client'[m].pending = client[m].pending \/ (m = l /\ client'[m].pending = client[m].pending \cup {call[c].id}
                                                         /\ call[c].id \in Nat /\ call[c].id > 0 /\ call[c].id < client[m].nextId)
        BY <1>1, <1>2, <1>3, <1>6, <1>8, <1>9 DEF Nums, NumberInv, HoldInv, Alive, Asks, At, NoId
      <4>3. QED BY <3>1, <4>1, <4>2
    <3>3. \A line \in client'[m].inbox : line.id < client'[m].nextId
      BY <1>1, <1>2, <1>3, <1>6, <1>8, <1>9, <3>1 DEF NumberInv, Nums, HoldInv, Alive, Asks, At, NoId
    <3>4. ASSUME NEW reply \in Unread(m) PROVE reply.id < client'[m].nextId
      <4>1. reply.id \in Nat /\ reply.id < client[m].nextId
        BY <1>1 DEF NumberInv, Nums
      <4>2. client[m].nextId \in Nat /\ client'[m].nextId \in Nat
        BY <1>1, <1>8 DEF Nums
      <4>3. QED BY <3>1, <4>1, <4>2
    <3>5. QED BY <1>8, <3>2, <3>3, <3>4
  <2>2. \A d \in Call : \A m \in Life :
          call'[d].life = m => call'[d].id < client'[m].nextId \/ client'[m].proc = "killed"
    BY <1>1, <1>2, <1>3, <1>6, <1>8, <1>9 DEF NumberInv, Nums
  <2>3. \A d \in Call : Asks(d)' \/ At(d, "giveup")' => call'[d].id > NoId
    BY <1>1, <1>2, <1>3, <1>6, <1>8, <1>9 DEF NumberInv, Asks, At, NoId, Nums
  <2>4. \A d, e \in Call : Busy(d)' /\ call'[d].life = call'[e].life /\ call'[d].id = call'[e].id
                              /\ call'[d].id > NoId => d = e
    BY <1>1, <1>2, <1>3, <1>6, <1>8, <1>9 DEF NumberInv, HoldInv, Busy, Alive, NoId, Nums
  <2>5. QED BY <2>1, <2>2, <2>3, <2>4 DEF NumberInv
<1>11. PendingInv'
  <2>1. ASSUME NEW m \in Life, NEW n \in client'[m].pending
        PROVE  \E d \in Call : call'[d].life = m /\ call'[d].id = n /\ (InFlight(d)' \/ call'[d].aborted)
    BY <1>1, <1>2, <1>3, <1>6, <1>8, <1>9 DEF PendingInv, NumberInv, HoldInv, Busy, Asks, InFlight, At, Mine, NoId
  <2>2. ASSUME NEW d \in Call
        PROVE  /\ call'[d].pc \in {"write", "wait"} => (call'[d].got = None <=> call'[d].id \in Mine(d)'.pending)
               /\ At(d, "insert")' => call'[d].got = None
    <3>1. CASE d # c
      BY <1>1, <1>2, <1>3, <1>6, <1>8, <1>9, <3>1 DEF PendingInv, NumberInv, HoldInv, Busy, Asks, InFlight, At, Mine, NoId
    <3>2. CASE d = c
      BY <1>1, <1>2, <1>3, <1>6, <1>8, <1>9, <3>2 DEF PendingInv, NumberInv, HoldInv, Busy, Asks, InFlight, At, Mine, NoId
    <3>3. QED BY <3>1, <3>2
  <2>3. QED BY <2>1, <2>2 DEF PendingInv
<1>12. AnswerInv'
  <2>1. \A d \in Call : Question(d)' = Question(d) \/ (d = c /\ ~Asks(c)')
    BY <1>1, <1>2, <1>3, <1>6, <1>8, <1>9 DEF Question, Asks
  <2>2. ASSUME NEW d \in Call, NEW m \in Life, Asks(d)', call'[d].life = m
        PROVE  /\ \A line \in client'[m].inbox : Fits(d, line.id, line.asks)'
               /\ \A reply \in Unread(m) : Fits(d, reply.id, reply.to)'
    <3>2. \A line \in client'[m].inbox : Fits(d, line.id, line.asks)'
      BY <1>1, <1>2, <1>3, <1>6, <1>8, <1>9, <2>1, <2>2 DEF AnswerInv, NumberInv, HoldInv, Nums, Alive, Asks, At, Fits, NoId
    <3>3. \A reply \in Unread(m) : Fits(d, reply.id, reply.to)'
      BY <1>1, <1>2, <1>3, <1>6, <1>8, <1>9, <2>1, <2>2 DEF AnswerInv, NumberInv, HoldInv, Nums, Alive, Asks, At, Fits, NoId
    <3>4. QED BY <3>2, <3>3
  <2>3. \A d \in Call : Asks(d)' /\ call'[d].got # None /\ call'[d].got.id # NoId => call'[d].got.to = Question(d)'
    BY <1>1, <1>2, <1>3, <1>6, <1>8, <1>9, <2>1 DEF AnswerInv, PendingInv, Asks, At
  <2>4. QED BY <1>1, <1>2, <1>3, <1>6, <1>8, <1>9, <2>2, <2>3 DEF AnswerInv, Fits
<1>13. LockInv'
  BY <1>1, <1>2, <1>3, <1>6, <1>8, <1>9 DEF LockInv, Busy, At, is_closed
<1>14. QED BY <1>8, <1>10, <1>11, <1>12, <1>13 DEF IInv

LEMMA Introduced == ASSUME IInv, NEW c \in Call, Announce(c), call'[c].pc = "begin" PROVE IInv'
<1> DEFINE k == [call[c] EXCEPT !.pc = "begin", !.page = 1]
<1>1. Types /\ HoldInv /\ NumberInv /\ PendingInv /\ AnswerInv /\ LockInv /\ Nums
  BY Numbers DEF IInv
<1>2. call[c].life \in Life /\ call[c] \in Calls
  BY <1>1 DEF Announce, Finish, Asking, HoldInv, Busy, At, Types, Usable
<1>3. /\ call' = [call EXCEPT ![c] = k] /\ client' = client
      /\ servers' = call[c].life /\ lock' = None
  BY <1>1, <1>2 DEF Announce, Finish, Asking, Types, Calls, At
<1>4. k \in Calls
  <2>1. 1 \in 0..MaxPages
    BY McpConstants
  <2>2. QED BY <1>2, <2>1 DEF Calls
<1>5. /\ call'[c].pc = "begin"
      /\ call'[c].page = 1
      /\ call'[c].got = call[c].got
      /\ call'[c].id = call[c].id
      /\ call'[c].life = call[c].life
      /\ call'[c].aborted = call[c].aborted
      /\ call[c].pc = "announce"
      /\ \A d \in Call \ {c} : call'[d] = call[d]
  BY <1>1, <1>2, <1>3 DEF Announce, Finish, Asking, Types, Calls, At, Usable
<1> HIDE DEF k
<1>6. Types' /\ Nums'
  BY <1>1, <1>2, <1>3, <1>4, NumbersNext DEF Types
<1>7. HoldInv'
  <2>1. Alive(call[c].life) /\ ~call[c].aborted
    BY <1>1, <1>2, <1>5, McpConstants DEF HoldInv, Busy, At, Life
  <2>2. ASSUME NEW d \in Call
        PROVE  /\ Busy(d)' => call'[d].life \in Life /\ Alive(call'[d].life)
               /\ ~Busy(d)' /\ ~call'[d].aborted => call'[d].life = None /\ call'[d].id = NoId
               /\ call'[d].aborted => At(d, "over")' /\ call'[d].life \in Life /\ client[call'[d].life].proc # "none"
    BY <1>1, <1>2, <1>3, <1>5, <2>1 DEF HoldInv, Busy, At
  <2>3. QED BY <1>1, <1>3, <2>1, <2>2 DEF HoldInv, Alive
<1>8. \A l \in Life : Unread(l)' = Unread(l)
  BY <1>3 DEF Unread
<1>9. NumberInv'
  <2>1. \A d \in Call : \A m \in Life :
          call'[d].life = m => call'[d].id < client'[m].nextId \/ client'[m].proc = "killed"
    BY <1>1, <1>2, <1>3, <1>5, <1>6, <1>8 DEF NumberInv, HoldInv, Busy, At, NoId, Nums
  <2>2. \A d \in Call : Asks(d)' \/ At(d, "giveup")' => call'[d].id > NoId
    BY <1>1, <1>2, <1>3, <1>5, <1>6, <1>8 DEF NumberInv, Asks, At, NoId, Nums
  <2>3. \A d, e \in Call : Busy(d)' /\ call'[d].life = call'[e].life /\ call'[d].id = call'[e].id
                              /\ call'[d].id > NoId => d = e
    BY <1>1, <1>2, <1>3, <1>5, <1>6, <1>8 DEF NumberInv, HoldInv, Busy, Alive, At, NoId, Nums
  <2>4. QED BY <1>1, <1>2, <1>3, <1>5, <1>6, <1>8, <2>1, <2>2, <2>3 DEF NumberInv
<1>10. PendingInv'
  BY <1>1, <1>2, <1>3, <1>5, <1>6, <1>8 DEF PendingInv, NumberInv, HoldInv, Busy, Asks, InFlight, At, Mine, NoId
<1>11. AnswerInv'
  <2>1. \A d \in Call : Question(d)' = Question(d) \/ (d = c /\ ~Asks(c)')
    BY <1>1, <1>2, <1>3, <1>5, <1>6, <1>8 DEF Question, Asks
  <2>2. QED BY <1>1, <1>2, <1>3, <1>5, <1>6, <1>8, <2>1 DEF AnswerInv, Asks, Fits
<1>12. LockInv'
  <2>1. lock = c /\ servers = None
    BY <1>1, <1>5, McpConstants DEF LockInv, Busy, At
  <2>2. QED BY <1>1, <1>2, <1>3, <1>5, <1>6, <2>1, McpConstants DEF LockInv, HoldInv, Busy, At, is_closed, Life
<1>13. QED BY <1>6, <1>7, <1>9, <1>10, <1>11, <1>12 DEF IInv

LEMMA Found == ASSUME IInv, NEW c \in Call, Find(c) PROVE IInv'
<1> DEFINE k == [call[c] EXCEPT !.pc = "begin", !.life = servers, !.page = 1]
<1>1. Types /\ HoldInv /\ NumberInv /\ PendingInv /\ AnswerInv /\ LockInv /\ Nums
  BY Numbers DEF IInv
<1>2. servers \in Life /\ call[c] \in Calls
  BY <1>1 DEF Find, HoldInv, Busy, At, Types, Usable
<1>3. /\ call' = [call EXCEPT ![c] = k] /\ client' = client
      /\ UNCHANGED <<servers, lock>>
  BY <1>1, <1>2 DEF Find, Types, Calls, At
<1>4. k \in Calls
  <2>1. 1 \in 0..MaxPages
    BY McpConstants
  <2>2. QED BY <1>2, <2>1 DEF Calls
<1>5. /\ call'[c].pc = "begin"
      /\ call'[c].page = 1
      /\ call'[c].got = call[c].got
      /\ call'[c].id = call[c].id
      /\ call'[c].life = servers
      /\ call'[c].aborted = call[c].aborted
      /\ call[c].pc = "new"
      /\ ~is_closed(servers) /\ lock = None
      /\ \A d \in Call \ {c} : call'[d] = call[d]
  BY <1>1, <1>2, <1>3 DEF Find, Types, Calls, At, Usable
<1> HIDE DEF k
<1>6. Types' /\ Nums'
  BY <1>1, <1>2, <1>3, <1>4, NumbersNext DEF Types
<1>7. HoldInv'
  <2>1. Alive(servers) /\ ~call[c].aborted
    BY <1>1, <1>2, <1>5, McpConstants DEF HoldInv, Busy, At, Life
  <2>2. ASSUME NEW d \in Call
        PROVE  /\ Busy(d)' => call'[d].life \in Life /\ Alive(call'[d].life)
               /\ ~Busy(d)' /\ ~call'[d].aborted => call'[d].life = None /\ call'[d].id = NoId
               /\ call'[d].aborted => At(d, "over")' /\ call'[d].life \in Life /\ client[call'[d].life].proc # "none"
    BY <1>1, <1>2, <1>3, <1>5, <2>1 DEF HoldInv, Busy, At
  <2>3. QED BY <1>1, <1>3, <2>1, <2>2 DEF HoldInv, Alive
<1>8. \A l \in Life : Unread(l)' = Unread(l)
  BY <1>3 DEF Unread
<1>9. NumberInv'
  <2>1. \A d \in Call : \A m \in Life :
          call'[d].life = m => call'[d].id < client'[m].nextId \/ client'[m].proc = "killed"
    BY <1>1, <1>2, <1>3, <1>5, <1>6, <1>8 DEF NumberInv, HoldInv, Busy, At, NoId, Nums
  <2>2. \A d \in Call : Asks(d)' \/ At(d, "giveup")' => call'[d].id > NoId
    BY <1>1, <1>2, <1>3, <1>5, <1>6, <1>8 DEF NumberInv, Asks, At, NoId, Nums
  <2>3. \A d, e \in Call : Busy(d)' /\ call'[d].life = call'[e].life /\ call'[d].id = call'[e].id
                              /\ call'[d].id > NoId => d = e
    BY <1>1, <1>2, <1>3, <1>5, <1>6, <1>8 DEF NumberInv, HoldInv, Busy, Alive, At, NoId, Nums
  <2>4. QED BY <1>1, <1>2, <1>3, <1>5, <1>6, <1>8, <2>1, <2>2, <2>3 DEF NumberInv
<1>10. PendingInv'
  BY <1>1, <1>2, <1>3, <1>5, <1>6, <1>8 DEF PendingInv, NumberInv, HoldInv, Busy, Asks, InFlight, At, Mine, NoId
<1>11. AnswerInv'
  <2>1. \A d \in Call : Question(d)' = Question(d) \/ (d = c /\ ~Asks(c)')
    BY <1>1, <1>2, <1>3, <1>5, <1>6, <1>8 DEF Question, Asks
  <2>2. QED BY <1>1, <1>2, <1>3, <1>5, <1>6, <1>8, <2>1 DEF AnswerInv, Asks, Fits
<1>12. LockInv'
  BY <1>1, <1>2, <1>3, <1>5 DEF LockInv, HoldInv, Busy, At, is_closed
<1>13. QED BY <1>6, <1>7, <1>9, <1>10, <1>11, <1>12 DEF IInv

-----------------------------------------------------------------------------
(* A call ends: with its answer, without one, or aborted. Who was the last     *)
(* takes the client with it.                                                   *)

Ends(c, k, cl) ==
  LET l == call[c].life IN
  /\ Leave(c, [client EXCEPT ![l] = cl]) /\ call' = [call EXCEPT ![c] = k]
  /\ Busy(c) /\ k \in Calls /\ k.pc = "over" /\ cl \in Clients
  /\ cl.proc = client[l].proc /\ cl.reader = client[l].reader /\ cl.nextId = client[l].nextId
  /\ cl.inbox = client[l].inbox /\ cl.out = client[l].out
  /\ \/ k.aborted /\ k.life = l /\ k.id = call[c].id /\ cl.pending = client[l].pending
     \/ /\ ~k.aborted /\ k.life = None /\ k.id = NoId
        /\ cl.pending \subseteq client[l].pending /\ client[l].pending \subseteq cl.pending \cup {call[c].id}
        /\ InFlight(c) => call[c].id \notin cl.pending

LEMMA GoneFacts ==
  /\ Gone \in Clients /\ Gone.proc = "killed" /\ Gone.reader = "aborted"
  /\ Gone.pending = {} /\ Gone.inbox = {} /\ Gone.out = <<>> /\ Gone.nextId = 1
<1>1. /\ Gone.proc = "killed" /\ Gone.reader = "aborted" /\ Gone.torn = FALSE
      /\ Gone.pending = {} /\ Gone.inbox = {} /\ Gone.out = <<>> /\ Gone.nextId = 1
  BY DEF Gone, Unborn
<1>2. <<>> \in Seq(Reply)
  BY EmptySeq
<1>3. Gone \in Clients
  <2>1. Unborn \in Clients
    BY <1>2 DEF Unborn, Clients
  <2>2. QED BY <2>1 DEF Gone, Clients
<1>4. QED BY <1>1, <1>3

LEMMA EndKeeps == ASSUME IInv, NEW c \in Call, NEW k, NEW cl, Ends(c, k, cl) PROVE IInv'
<1> DEFINE l == call[c].life
<1>1. Types /\ HoldInv /\ NumberInv /\ PendingInv /\ AnswerInv /\ LockInv /\ Nums
  BY Numbers DEF IInv
<1>2. l \in Life /\ Busy(c) /\ Alive(l) /\ l # None
  BY <1>1, McpConstants DEF Ends, HoldInv, Life
<1>3. /\ call' = [call EXCEPT ![c] = k] /\ k \in Calls /\ cl \in Clients
      /\ servers' = servers /\ lock' = IF lock = c THEN None ELSE lock
  BY <1>1 DEF Ends, Leave
<1>4. \/ /\ client' = [client EXCEPT ![l] = Gone] /\ servers # l
         /\ \A d \in Call \ {c} : ~(Busy(d) /\ call[d].life = l)
      \/ /\ client' = [client EXCEPT ![l] = cl]
         /\ servers = l \/ \E d \in Call \ {c} : Busy(d) /\ call[d].life = l
  <2>1. \A d \in Call : d \in Holders(l) <=> Busy(d) /\ call[d].life = l
    BY <1>1, <1>2 DEF Holders, HoldInv, Busy, At
  <2>2. Holders(l) \subseteq Call /\ c \in Holders(l)
    BY <1>2, <2>1 DEF Holders
  <2>3. CASE servers # l /\ Holders(l) = {c}
    <3>1. client' = [client EXCEPT ![l] = Gone]
      BY <1>1, <1>2, <2>3 DEF Ends, Leave, Drop, Types
    <3>2. QED BY <2>1, <2>3, <3>1
  <2>4. CASE ~(servers # l /\ Holders(l) = {c})
    BY <2>1, <2>2, <2>4 DEF Ends, Leave
  <2>5. QED BY <2>3, <2>4
<1>5. /\ \A d \in Call \ {c} : call'[d] = call[d]
      /\ call'[c] = k
      /\ \A m \in Life \ {l} : client'[m] = client[m]
      /\ client'[l] \in {cl, Gone}
  BY <1>1, <1>2, <1>3, <1>4 DEF Types
<1>6. /\ call'[c].pc = "over"
      /\ \/ call'[c].aborted /\ call'[c].life = l /\ call'[c].id = call[c].id
         \/ ~call'[c].aborted /\ call'[c].life = None /\ call'[c].id = NoId
  BY <1>5 DEF Ends
<1>7. CASE client'[l] = Gone /\ servers # l /\ \A d \in Call \ {c} : ~(Busy(d) /\ call[d].life = l)
  <2>1. /\ client'[l].proc = "killed" /\ client'[l].reader = "aborted" /\ client'[l].pending = {}
        /\ client'[l].inbox = {} /\ client'[l].nextId = 1 /\ client'[l].out = <<>>
    BY <1>7, GoneFacts
  <2>2. Types' /\ Nums'
    <3>1. Types'
      BY <1>1, <1>2, <1>3, <1>4, GoneFacts DEF Types
    <3>2. QED BY <3>1, NumbersNext
  <2>3. HoldInv'
    <3>1. ASSUME NEW d \in Call
          PROVE  /\ Busy(d)' => call'[d].life \in Life /\ client'[call'[d].life].proc \in {"up", "exited"}
                 /\ ~Busy(d)' /\ ~call'[d].aborted => call'[d].life = None /\ call'[d].id = NoId
                 /\ call'[d].aborted => At(d, "over")' /\ call'[d].life \in Life /\ client'[call'[d].life].proc # "none"
      <4>1. CASE d = c
        BY <1>2, <1>5, <1>6, <2>1, <4>1 DEF Busy, Alive, At
      <4>2. CASE d # c
        BY <1>1, <1>2, <1>5, <1>7, <2>1, <4>2 DEF HoldInv, Busy, Alive, At
      <4>3. QED BY <4>1, <4>2
    <3>2. servers' # None => client'[servers].proc \in {"up", "exited"}
      BY <1>1, <1>2, <1>3, <1>5, <1>7, <2>1 DEF HoldInv, Alive, Types
    <3>3. QED BY <1>3, <3>1, <3>2 DEF HoldInv, Alive
  <2>4. /\ \A m \in Life \ {l} : Unread(m)' = Unread(m)
        /\ \A m \in Life : m = l => Unread(m)' = {}
    <3>1. \A m \in Life \ {l} : Unread(m)' = Unread(m)
      BY <1>5 DEF Unread
    <3>2. ASSUME NEW m \in Life, m = l PROVE Unread(m)' = {}
      <4>1. client'[m].out = <<>> /\ Len(<<>>) = 0
        BY <2>1, <3>2
      <4>2. 1..Len(client'[m].out) = {}
        BY <4>1
      <4>3. QED BY <4>2 DEF Unread
    <3>3. QED BY <3>1, <3>2
  <2>5. NumberInv'
    <3>1. \A d \in Call : Asks(d)' \/ At(d, "giveup")' => d # c
      BY <1>6 DEF Asks, At
    <3>2. \A d, e \in Call : Busy(d)' /\ call'[d].life = call'[e].life /\ call'[d].id = call'[e].id
                              /\ call'[d].id > NoId => d = e
      BY <1>1, <1>2, <1>5, <1>6 DEF NumberInv, Busy, At, NoId
    <3>3. \A d \in Call : \A m \in Life :
            call'[d].life = m => call'[d].id < client'[m].nextId \/ client'[m].proc = "killed"
      BY <1>1, <1>2, <1>5, <1>6, <2>1, McpConstants DEF NumberInv, Life
    <3>4. \A m \in Life : /\ client'[m].pending \subseteq 1..(client'[m].nextId - 1)
                          /\ \A line \in client'[m].inbox : line.id < client'[m].nextId
                          /\ \A reply \in Unread(m)' : reply.id < client'[m].nextId
      <4>1. ASSUME NEW m \in Life, m # l
            PROVE  /\ client'[m] = client[m] /\ Unread(m)' = Unread(m)
                   /\ client[m].pending \subseteq 1..(client[m].nextId - 1)
                   /\ \A line \in client[m].inbox : line.id < client[m].nextId
                   /\ \A reply \in Unread(m) : reply.id < client[m].nextId
        BY <1>1, <1>5, <2>4, <4>1 DEF NumberInv
      <4>2. ASSUME NEW m \in Life, m = l
            PROVE  client'[m].pending = {} /\ client'[m].inbox = {} /\ Unread(m)' = {}
        BY <2>1, <2>4, <4>2
      <4>3. QED BY <4>1, <4>2
    <3>5. \A d \in Call : Asks(d)' \/ At(d, "giveup")' => call'[d].id > NoId
      BY <1>1, <1>5, <3>1 DEF NumberInv, Asks, At
    <3>6. QED BY <3>2, <3>3, <3>4, <3>5 DEF NumberInv
  <2>6. PendingInv'
    BY <1>1, <1>2, <1>5, <1>6, <1>7, <2>1 DEF PendingInv, HoldInv, Busy, InFlight, At, Mine
  <2>7. AnswerInv'
    <3>1. \A d \in Call \ {c} : Question(d)' = Question(d)
      BY <1>5 DEF Question
    <3>2. QED BY <1>1, <1>2, <1>5, <1>6, <1>7, <2>1, <2>4, <3>1 DEF AnswerInv, HoldInv, Busy, Asks, Fits, At
  <2>8. LockInv'
    BY <1>1, <1>2, <1>3, <1>5, <1>6, <1>7, <2>1, McpConstants DEF LockInv, HoldInv, Busy, At, is_closed
  <2>9. QED BY <2>2, <2>3, <2>5, <2>6, <2>7, <2>8 DEF IInv
<1>8. CASE /\ client' = [client EXCEPT ![l] = cl]
           /\ servers = l \/ \E d \in Call \ {c} : Busy(d) /\ call[d].life = l
  <2>0. client'[l] = cl
    BY <1>1, <1>2, <1>8 DEF Types
  <2>1. /\ client'[l].proc = client[l].proc /\ client'[l].reader = client[l].reader
        /\ client'[l].inbox = client[l].inbox /\ client'[l].nextId = client[l].nextId /\ client'[l].out = client[l].out
        /\ client'[l].pending \subseteq client[l].pending
    BY <2>0 DEF Ends
  <2>2. Types' /\ Nums'
    <3>1. Types'
      BY <1>1, <1>2, <1>3, <1>8 DEF Types
    <3>2. QED BY <3>1, NumbersNext
  <2>3. HoldInv'
    <3>1. ASSUME NEW d \in Call
          PROVE  /\ Busy(d)' => call'[d].life \in Life /\ client'[call'[d].life].proc \in {"up", "exited"}
                 /\ ~Busy(d)' /\ ~call'[d].aborted => call'[d].life = None /\ call'[d].id = NoId
                 /\ call'[d].aborted => At(d, "over")' /\ call'[d].life \in Life /\ client'[call'[d].life].proc # "none"
      <4>1. CASE d = c
        BY <1>2, <1>5, <1>6, <2>1, <4>1 DEF Busy, Alive, At
      <4>2. CASE d # c
        BY <1>1, <1>2, <1>5, <2>1, <4>2 DEF HoldInv, Busy, Alive, At
      <4>3. QED BY <4>1, <4>2
    <3>2. servers' # None => client'[servers].proc \in {"up", "exited"}
      BY <1>1, <1>2, <1>3, <1>5, <2>1 DEF HoldInv, Alive, Types
    <3>3. QED BY <1>3, <3>1, <3>2 DEF HoldInv, Alive
  <2>4. \A m \in Life : Unread(m)' = Unread(m)
    BY <1>5, <2>1 DEF Unread
  <2>5. NumberInv'
    <3>1. \A d \in Call : Asks(d)' \/ At(d, "giveup")' => d # c
      BY <1>6 DEF Asks, At
    <3>2. \A d, e \in Call : Busy(d)' /\ call'[d].life = call'[e].life /\ call'[d].id = call'[e].id
                              /\ call'[d].id > NoId => d = e
      BY <1>1, <1>2, <1>5, <1>6 DEF NumberInv, Busy, At, NoId
    <3>3. \A d \in Call : \A m \in Life :
            call'[d].life = m => call'[d].id < client'[m].nextId \/ client'[m].proc = "killed"
      BY <1>1, <1>2, <1>5, <1>6, <2>1, McpConstants DEF NumberInv, Life
    <3>4. \A m \in Life : /\ client'[m].nextId = client[m].nextId /\ client'[m].inbox = client[m].inbox
                          /\ client'[m].pending \subseteq client[m].pending
      BY <1>5, <2>1
    <3>5. \A d \in Call : Asks(d)' \/ At(d, "giveup")' => call'[d].id > NoId
      BY <1>1, <1>5, <3>1 DEF NumberInv, Asks, At
    <3>6. QED BY <1>1, <2>4, <3>2, <3>3, <3>4, <3>5 DEF NumberInv
  <2>6. PendingInv'
    <3>1. ASSUME NEW m \in Life, NEW n \in client'[m].pending
          PROVE  \E d \in Call : call'[d].life = m /\ call'[d].id = n /\ (InFlight(d)' \/ call'[d].aborted)
      <4>1. n \in client[m].pending
        BY <1>5, <2>1, <3>1
      <4>2. PICK d \in Call : call[d].life = m /\ call[d].id = n /\ (InFlight(d) \/ call[d].aborted)
        BY <1>1, <4>1 DEF PendingInv
      <4>3. CASE d # c
        BY <1>5, <4>2, <4>3 DEF InFlight
      <4>4. CASE d = c
        <5>1. m = l /\ InFlight(c)
          BY <1>1, <1>2, <4>2, <4>4 DEF HoldInv, Busy, At
        <5>2. k.aborted
          BY <2>0, <3>1, <4>2, <4>4, <5>1 DEF Ends
        <5>3. QED BY <1>5, <1>6, <4>2, <4>4, <5>1, <5>2
      <4>5. QED BY <4>3, <4>4
    <3>2. ASSUME NEW d \in Call \ {c}, call[d].pc \in {"write", "wait"}
          PROVE  call[d].id \in client'[call[d].life].pending <=> call[d].id \in client[call[d].life].pending
      <4>1. CASE call[d].life # l
        BY <1>1, <1>5, <3>2, <4>1 DEF HoldInv, Busy
      <4>2. CASE call[d].life = l
        <5>1. call[d].id # call[c].id
          BY <1>1, <1>2, <3>2, <4>2 DEF NumberInv, Asks, Busy
        <5>2. \/ client'[l].pending = client[l].pending
              \/ /\ client'[l].pending \subseteq client[l].pending
                 /\ client[l].pending \subseteq client'[l].pending \cup {call[c].id}
          BY <2>0 DEF Ends
        <5>3. QED BY <4>2, <5>1, <5>2
      <4>3. QED BY <4>1, <4>2
    <3>3. \A d \in Call : call'[d].pc \in {"write", "wait", "insert"} => d # c
      BY <1>6
    <3>4. QED BY <1>1, <1>5, <3>1, <3>2, <3>3 DEF PendingInv, Mine, At
  <2>7. AnswerInv'
    <3>1. \A d \in Call \ {c} : Question(d)' = Question(d)
      BY <1>5 DEF Question
    <3>2. QED BY <1>1, <1>2, <1>5, <1>6, <2>1, <2>4, <3>1 DEF AnswerInv, HoldInv, Busy, Asks, Fits, At
  <2>8. LockInv'
    BY <1>1, <1>2, <1>3, <1>5, <1>6, <1>8, <2>1, McpConstants DEF LockInv, HoldInv, Busy, At, is_closed
  <2>9. QED BY <2>2, <2>3, <2>5, <2>6, <2>7, <2>8 DEF IInv
<1>9. \/ client'[l] = Gone /\ servers # l /\ \A d \in Call \ {c} : ~(Busy(d) /\ call[d].life = l)
      \/ /\ client' = [client EXCEPT ![l] = cl]
         /\ servers = l \/ \E d \in Call \ {c} : Busy(d) /\ call[d].life = l
  BY <1>1, <1>2, <1>4 DEF Types
<1>10. QED BY <1>7, <1>8, <1>9

Ended == [Asking EXCEPT !.pc = "over"]

LEMMA EndedFacts ==
  Ended \in Calls /\ Ended.pc = "over" /\ Ended.life = None /\ Ended.id = NoId /\ ~Ended.aborted
<1>1. Asking \in Calls
  BY McpConstants DEF Asking, Calls, NoId
<1>2. QED BY <1>1 DEF Ended, Asking, Calls

LEMMA FinishKeeps ==
  ASSUME IInv, NEW c \in Call, Busy(c), Finish(c, client),
         InFlight(c) => call[c].id \notin client[call[c].life].pending
  PROVE  IInv'
<1> DEFINE l == call[c].life
<1>1. l \in Life /\ client[l] \in Clients /\ client = [client EXCEPT ![l] = client[l]]
  BY DEF IInv, HoldInv, Types
<1>2. Ends(c, Ended, client[l])
  BY <1>1, EndedFacts DEF Ends, Finish, Ended
<1>3. QED BY <1>2, EndKeeps

LEMMA AbortKeeps == ASSUME IInv, NEW c \in Call, Abort(c) PROVE IInv'
<1> DEFINE l == call[c].life
           k == [call[c] EXCEPT !.pc = "over", !.aborted = TRUE, !.got = None]
<1>1. l \in Life /\ client[l] \in Clients /\ call[c] \in Calls /\ client \in [Life -> Clients] /\ Busy(c)
  BY DEF IInv, HoldInv, Types, Abort, Busy
<1>2. PICK torn \in BOOLEAN : Leave(c, [client EXCEPT ![l].torn = torn])
  BY <1>1 DEF Abort, Mine, Clients
<1> DEFINE cl == [client[l] EXCEPT !.torn = torn]
<1>3. [client EXCEPT ![l].torn = torn] = [client EXCEPT ![l] = cl]
  BY <1>1
<1>4. /\ cl \in Clients /\ cl.proc = client[l].proc /\ cl.reader = client[l].reader
      /\ cl.nextId = client[l].nextId /\ cl.inbox = client[l].inbox /\ cl.out = client[l].out
      /\ cl.pending = client[l].pending
  BY <1>1, <1>2 DEF Clients
<1>5. call' = [call EXCEPT ![c] = k]
  BY DEF Abort
<1>6. k \in Calls /\ k.pc = "over" /\ k.aborted /\ k.life = l /\ k.id = call[c].id
  BY <1>1 DEF Calls
<1> HIDE DEF k, cl
<1>7. Ends(c, k, cl)
  BY <1>1, <1>2, <1>3, <1>4, <1>5, <1>6 DEF Ends
<1>8. QED BY <1>7, EndKeeps

LEMMA GiveUpKeeps == ASSUME IInv, NEW c \in Call, GiveUp(c) PROVE IInv'
<1> DEFINE l == call[c].life
           cl == [client[l] EXCEPT !.pending = @ \ {call[c].id}]
<1>1. l \in Life /\ client[l] \in Clients /\ client \in [Life -> Clients] /\ Busy(c)
  BY DEF IInv, HoldInv, Types, GiveUp, Busy, At
<1>2. Withdrawn(c) = [client EXCEPT ![l] = cl]
  BY <1>1 DEF Withdrawn
<1>3. /\ cl \in Clients /\ cl.proc = client[l].proc /\ cl.reader = client[l].reader
      /\ cl.nextId = client[l].nextId /\ cl.inbox = client[l].inbox /\ cl.out = client[l].out
      /\ cl.pending = client[l].pending \ {call[c].id}
  BY <1>1 DEF Clients
<1> HIDE DEF cl
<1>4. Ends(c, Ended, cl)
  BY <1>1, <1>2, <1>3, EndedFacts DEF Ends, GiveUp, Finish, Ended
<1>5. QED BY <1>4, EndKeeps

(* The steps of a call under way *)
LEMMA StepKeeps == ASSUME IInv, NEW c \in Call, Step(c) PROVE IInv'
<1>0. Types /\ PendingInv /\ c \in DOMAIN call /\ call[c] \in Calls /\ call \in [Call -> Calls]
  BY DEF IInv, Types
<1>1. CASE Begin(c)
  <2>1. CASE ~is_closed(call[c].life)
    BY <1>1, <2>1, Begun
  <2>2. CASE is_closed(call[c].life)
    BY <1>1, <2>2, FinishKeeps DEF Begin, Busy, InFlight, At
  <2>3. QED BY <2>1, <2>2
<1>2. CASE Insert(c)
  BY <1>2, Inserted
<1>3. CASE Write(c)
  <2>1. call'[c].pc = "wait" \/ call'[c].pc = "giveup"
    BY <1>0, <1>3 DEF Write, Calls
  <2>2. QED BY <1>3, <2>1, Written, NotWritten
<1>4. CASE Timeout(c)
  BY <1>4, TimedOut
<1>5. CASE GiveUp(c)
  BY <1>5, GiveUpKeeps
<1>6. CASE Return(c)
  <2>1. At(c, "wait") /\ Busy(c) /\ call[c].id \notin client[call[c].life].pending
    BY <1>0, <1>6 DEF Return, At, Busy, PendingInv, Mine
  <2>2. call'[c].pc = "announce" \/ call'[c].pc = "begin" \/ Finish(c, client)
    BY <1>0, <1>6 DEF Return, Calls
  <2>3. QED BY <1>6, <2>1, <2>2, Connected, AskedOn, FinishKeeps
<1>7. CASE Announce(c)
  <2>1. Busy(c) /\ ~InFlight(c)
    BY <1>7 DEF Announce, At, Busy, InFlight
  <2>2. call'[c].pc = "begin" \/ Finish(c, client)
    BY <1>0, <1>7 DEF Announce, Calls
  <2>3. QED BY <1>7, <2>1, <2>2, Introduced, FinishKeeps
<1>8. QED BY <1>1, <1>2, <1>3, <1>4, <1>5, <1>6, <1>7 DEF Step

-----------------------------------------------------------------------------
(* The registry *)

LEMMA EvictedFacts ==
  ASSUME Types, HoldInv, ~Usable
  PROVE  /\ Evicted \in [Life -> Clients]
         /\ \A m \in Life : \/ Evicted[m] = client[m]
                            \/ /\ m = servers /\ Evicted[m] = Gone
                               /\ \A d \in Call : ~(Busy(d) /\ call[d].life = m)
         /\ \A m \in Life : m = servers /\ Evicted[m] # Gone => \E d \in Call : Busy(d) /\ call[d].life = m
<1>1. \A m \in Life : \A d \in Call : d \in Holders(m) <=> Busy(d) /\ call[d].life = m
  BY McpConstants DEF Holders, HoldInv, Busy, At, Life
<1>2. \A m \in Life : Holders(m) \subseteq Call
  BY DEF Holders
<1>3. CASE servers # None /\ Holders(servers) = {}
  <2>1. servers \in Life /\ Evicted = [client EXCEPT ![servers] = Gone]
    BY <1>3 DEF Types, Evicted, Usable, Drop
  <2>2. \A d \in Call : ~(Busy(d) /\ call[d].life = servers)
    BY <1>1, <1>3, <2>1
  <2>3. Evicted[servers] = Gone /\ \A m \in Life \ {servers} : Evicted[m] = client[m]
    BY <2>1 DEF Types
  <2>4. Evicted \in [Life -> Clients]
    BY <2>1, GoneFacts DEF Types
  <2>5. QED BY <2>2, <2>3, <2>4
<1>4. CASE ~(servers # None /\ Holders(servers) = {})
  <2>1. Evicted = client
    BY <1>4 DEF Evicted
  <2>2. \A m \in Life : m = servers => \E d \in Call : Busy(d) /\ call[d].life = m
    BY <1>1, <1>2, <1>4, McpConstants DEF Life
  <2>3. QED BY <2>1, <2>2 DEF Types
<1>5. QED BY <1>3, <1>4

LEMMA RefuseKeeps == ASSUME IInv, NEW c \in Call, Refuse(c) PROVE IInv'
<1> DEFINE k == [call[c] EXCEPT !.pc = "over"]
<1>1. Types /\ HoldInv /\ NumberInv /\ PendingInv /\ AnswerInv /\ LockInv /\ Nums
  BY Numbers DEF IInv
<1>2. /\ call' = [call EXCEPT ![c] = k] /\ k \in Calls /\ ~Usable
      /\ servers' = None /\ lock = None /\ lock' = None /\ client' = Evicted
      /\ call[c].pc = "new" /\ ~call[c].aborted /\ call[c].life = None /\ call[c].id = NoId
  BY <1>1 DEF Refuse, Types, Calls, At, HoldInv, Busy
<1>3. /\ \A d \in Call \ {c} : call'[d] = call[d]
      /\ call'[c].pc = "over" /\ ~call'[c].aborted /\ call'[c].life = None /\ call'[c].id = NoId
  BY <1>1, <1>2 DEF Types, Calls
<1> HIDE DEF k
<1>4. Types' /\ Nums'
  <2>1. client' \in [Life -> Clients]
    BY <1>1, <1>2, EvictedFacts
  <2>2. Types'
    BY <1>1, <1>2, <2>1 DEF Types
  <2>3. QED BY <2>2, NumbersNext
<1>5. /\ \A m \in Life : \/ client'[m] = client[m]
                         \/ /\ m = servers /\ client'[m] = Gone
                            /\ \A d \in Call : ~(Busy(d) /\ call[d].life = m)
      /\ \A m \in Life : m = servers /\ client'[m] # Gone => \E d \in Call : Busy(d) /\ call[d].life = m
  BY <1>1, <1>2, EvictedFacts
<1>6. \A d \in Call : Busy(d)' => /\ d # c /\ Busy(d) /\ call'[d] = call[d] /\ call[d].life \in Life
                                  /\ client'[call[d].life] = client[call[d].life]
  BY <1>1, <1>3, <1>5 DEF Busy, HoldInv
<1>7. HoldInv'
  <2>1. ASSUME NEW d \in Call, call'[d].aborted PROVE client'[call'[d].life].proc # "none"
    BY <1>1, <1>3, <1>5, <2>1, GoneFacts DEF HoldInv
  <2>2. QED BY <1>1, <1>2, <1>3, <1>6, <2>1 DEF HoldInv, Busy, Alive, At
<1>8. ASSUME NEW m \in Life PROVE (client'[m] = client[m] /\ Unread(m)' = Unread(m)) \/ (client'[m] = Gone /\ Unread(m)' = {})
  <2>1. CASE client'[m] = client[m]
    <3>1. client'[m].out = client[m].out
      BY <2>1
    <3>2. Unread(m)' = Unread(m)
      BY <3>1, Zenon DEF Unread
    <3>3. QED BY <2>1, <3>2
  <2>2. CASE client'[m] = Gone
    <3>1. client'[m].out = <<>> /\ Len(<<>>) = 0
      BY <2>2, GoneFacts
    <3>2. 1..Len(client'[m].out) = {}
      BY <3>1
    <3>3. QED BY <2>2, <3>2 DEF Unread
  <2>3. QED BY <1>5, <2>1, <2>2
<1>9. NumberInv'
  <2>1. ASSUME NEW m \in Life
        PROVE  /\ client'[m].pending \subseteq 1..(client'[m].nextId - 1)
               /\ \A line \in client'[m].inbox : line.id < client'[m].nextId
               /\ \A reply \in Unread(m)' : reply.id < client'[m].nextId
    BY <1>1, <1>8, GoneFacts DEF NumberInv
  <2>2. ASSUME NEW d \in Call, NEW m \in Life, call'[d].life = m
        PROVE  call'[d].id < client'[m].nextId \/ client'[m].proc = "killed"
    BY <1>1, <1>3, <1>8, <2>2, GoneFacts, McpConstants DEF NumberInv, Life
  <2>3. \A d \in Call : Asks(d)' \/ At(d, "giveup")' => call'[d].id > NoId
    BY <1>1, <1>3 DEF NumberInv, Asks, At
  <2>4. \A d, e \in Call : Busy(d)' /\ call'[d].life = call'[e].life /\ call'[d].id = call'[e].id
                              /\ call'[d].id > NoId => d = e
    BY <1>1, <1>3, <1>6 DEF NumberInv, NoId
  <2>5. QED BY <2>1, <2>2, <2>3, <2>4 DEF NumberInv
<1>10. PendingInv'
  <2>1. ASSUME NEW m \in Life, NEW n \in client'[m].pending
        PROVE  \E d \in Call : call'[d].life = m /\ call'[d].id = n /\ (InFlight(d)' \/ call'[d].aborted)
    <3>1. n \in client[m].pending
      BY <1>8, <2>1, GoneFacts
    <3>2. PICK d \in Call : call[d].life = m /\ call[d].id = n /\ (InFlight(d) \/ call[d].aborted)
      BY <1>1, <3>1 DEF PendingInv
    <3>3. d # c
      BY <1>2, <3>2 DEF InFlight
    <3>4. QED BY <1>3, <3>2, <3>3 DEF InFlight
  <2>2. \A d \in Call : call'[d].pc \in {"write", "wait", "insert"} => Busy(d)'
    BY DEF Busy
  <2>3. QED BY <1>1, <1>6, <2>1, <2>2 DEF PendingInv, Mine, At
<1>11. AnswerInv'
  <2>1. \A d \in Call : Asks(d)' => Busy(d)' /\ Asks(d) /\ Question(d)' = Question(d)
    BY <1>6 DEF Question, Asks, Busy
  <2>2. QED BY <1>1, <1>6, <1>8, <2>1, GoneFacts DEF AnswerInv, Fits
<1>12. LockInv'
  <2>1. ASSUME NEW d \in Call, Busy(d)
        PROVE  ~(call[d].page = 0 \/ At(d, "announce")) /\ is_closed(call[d].life)
    <3>1. lock # d
      BY <1>2, McpConstants
    <3>2. servers = call[d].life \/ is_closed(call[d].life)
      BY <1>1, <2>1, <3>1 DEF LockInv
    <3>3. call[d].life # None
      BY <1>1, <2>1, McpConstants DEF HoldInv, Life
    <3>4. is_closed(call[d].life)
      BY <1>2, <3>2, <3>3 DEF Usable
    <3>5. QED BY <1>1, <2>1, <3>1, <3>4 DEF LockInv
  <2>2. ASSUME NEW d \in Call, Busy(d)'
        PROVE  ~(call'[d].page = 0 \/ call'[d].pc = "announce") /\ client'[call'[d].life].reader # "reading"
    BY <1>6, <2>1, <2>2 DEF At, is_closed
  <2>3. \A d \in Call : Busy(d) => Busy(d)' /\ call'[d] = call[d]
    BY <1>2, <1>3 DEF Busy
  <2>4. \A m \in Life : client'[m].proc = "up" => \E d \in Call : Busy(d) /\ call[d].life = m
    BY <1>1, <1>5, GoneFacts DEF LockInv
  <2>5. \A m \in Life : client'[m].proc = "up" => \E d \in Call : Busy(d)' /\ call'[d].life = m
    BY <2>3, <2>4
  <2>6. QED BY <1>2, <2>2, <2>5 DEF LockInv, At, is_closed
<1>13. QED BY <1>4, <1>7, <1>9, <1>10, <1>11, <1>12 DEF IInv

LEMMA FreshFacts ==
  /\ Fresh \in Clients /\ Fresh.proc = "up" /\ Fresh.reader = "reading"
  /\ Fresh.pending = {} /\ Fresh.inbox = {} /\ Fresh.out = <<>> /\ Fresh.nextId = 1
  /\ Unborn \in Clients /\ Unborn.proc = "none"
<1>1. /\ Fresh.proc = "up" /\ Fresh.reader = "reading" /\ Unborn.proc = "none"
      /\ Fresh.pending = {} /\ Fresh.inbox = {} /\ Fresh.out = <<>> /\ Fresh.nextId = 1
  BY DEF Fresh, Unborn
<1>2. <<>> \in Seq(Reply)
  BY EmptySeq
<1>3. Unborn \in Clients
  BY <1>2 DEF Unborn, Clients
<1>4. Fresh \in Clients
  BY <1>3 DEF Fresh, Clients
<1>5. QED BY <1>1, <1>3, <1>4

LEMMA NothingRead == ASSUME NEW m \in Life, client'[m].out = <<>> PROVE Unread(m)' = {}
<1>1. Len(<<>>) = 0
  OBVIOUS
<1>2. 1..Len(client'[m].out) = {}
  BY <1>1
<1>3. QED BY <1>2 DEF Unread

LEMMA SameRead == ASSUME NEW m \in Life, client'[m].out = client[m].out PROVE Unread(m)' = Unread(m)
BY Zenon DEF Unread

LEMMA SpawnKeeps == ASSUME IInv, NEW c \in Call, Spawn(c) PROVE IInv'
<1>1. Types /\ HoldInv /\ NumberInv /\ PendingInv /\ AnswerInv /\ LockInv /\ Nums
  BY Numbers DEF IInv
<1>2. /\ ~Usable /\ servers' = None /\ lock = None /\ lock' = c
      /\ call[c].pc = "new" /\ ~call[c].aborted /\ call[c].id = NoId
  BY <1>1 DEF Spawn, At, HoldInv, Busy
<1>3. PICK l \in Life : /\ client[l] = Unborn
                        /\ client' = [Evicted EXCEPT ![l] = Fresh]
                        /\ call' = [call EXCEPT ![c].pc = "begin", ![c].life = l]
  BY DEF Spawn
<1> DEFINE k == [call[c] EXCEPT !.pc = "begin", !.life = l]
<1>4. call' = [call EXCEPT ![c] = k] /\ k \in Calls
  BY <1>1, <1>3 DEF Types, Calls
<1>5. /\ \A d \in Call \ {c} : call'[d] = call[d]
      /\ call'[c].pc = "begin" /\ ~call'[c].aborted /\ call'[c].life = l /\ call'[c].id = NoId
  BY <1>1, <1>2, <1>4 DEF Types, Calls
<1> HIDE DEF k
<1>6. client[l].proc = "none" /\ \A d \in Call : call[d].life # l
  <2>1. client[l].proc = "none"
    BY <1>3, FreshFacts
  <2>2. \A d \in Call : call[d].life # l
    BY <1>1, <2>1, McpConstants DEF HoldInv, Alive, Life
  <2>3. QED BY <2>1, <2>2
<1>7. /\ \A m \in Life \ {l} : \/ client'[m] = client[m]
                               \/ /\ m = servers /\ client'[m] = Gone
                                  /\ \A d \in Call : ~(Busy(d) /\ call[d].life = m)
      /\ \A m \in Life \ {l} : m = servers /\ client'[m] # Gone => \E d \in Call : Busy(d) /\ call[d].life = m
      /\ client'[l] = Fresh
  <2>1. \A m \in Life \ {l} : client'[m] = Evicted[m]
    BY <1>1, <1>2, <1>3, EvictedFacts
  <2>2. client'[l] = Fresh
    BY <1>1, <1>2, <1>3, EvictedFacts
  <2>3. QED BY <1>1, <1>2, <2>1, <2>2, EvictedFacts
<1>8. Types' /\ Nums'
  <2>1. client' \in [Life -> Clients]
    BY <1>1, <1>2, <1>3, EvictedFacts, FreshFacts
  <2>2. Types'
    BY <1>1, <1>2, <1>4, <2>1 DEF Types
  <2>3. QED BY <2>2, NumbersNext
<1>9. \A d \in Call : Busy(d)' /\ d # c => /\ Busy(d) /\ call'[d] = call[d] /\ call[d].life \in Life \ {l}
                                           /\ client'[call[d].life] = client[call[d].life]
  BY <1>1, <1>5, <1>6, <1>7 DEF Busy, HoldInv
<1>10. HoldInv'
  <2>1. ASSUME NEW d \in Call, call'[d].aborted
        PROVE  At(d, "over")' /\ call'[d].life \in Life /\ client'[call'[d].life].proc # "none"
    BY <1>1, <1>5, <1>7, <2>1, GoneFacts, FreshFacts DEF HoldInv, At
  <2>2. ASSUME NEW d \in Call, Busy(d)'
        PROVE  call'[d].life \in Life /\ client'[call'[d].life].proc \in {"up", "exited"}
    BY <1>1, <1>5, <1>7, <1>9, <2>2, FreshFacts DEF HoldInv, Alive
  <2>3. \A d \in Call : ~Busy(d)' /\ ~call'[d].aborted => call'[d].life = None /\ call'[d].id = NoId
    BY <1>1, <1>5 DEF HoldInv, Busy
  <2>4. QED BY <1>2, <2>1, <2>2, <2>3 DEF HoldInv, Alive
<1>11. ASSUME NEW m \in Life
       PROVE  \/ client'[m] = client[m] /\ Unread(m)' = Unread(m) /\ m # l
              \/ /\ client'[m] = Gone \/ (m = l /\ client'[m] = Fresh)
                 /\ client'[m].pending = {} /\ client'[m].inbox = {} /\ Unread(m)' = {} /\ client'[m].nextId = 1
  <2>1. CASE m # l /\ client'[m] = client[m]
    BY <2>1, SameRead
  <2>2. CASE client'[m] = Gone
    BY <2>2, GoneFacts, NothingRead
  <2>3. CASE m = l
    BY <1>7, <2>3, FreshFacts, NothingRead
  <2>4. QED BY <1>7, <2>1, <2>2, <2>3
<1>12. NumberInv'
  <2>1. ASSUME NEW m \in Life
        PROVE  /\ client'[m].pending \subseteq 1..(client'[m].nextId - 1)
               /\ \A line \in client'[m].inbox : line.id < client'[m].nextId
               /\ \A reply \in Unread(m)' : reply.id < client'[m].nextId
    BY <1>1, <1>11 DEF NumberInv
  <2>2. ASSUME NEW d \in Call, NEW m \in Life, call'[d].life = m
        PROVE  call'[d].id < client'[m].nextId \/ client'[m].proc = "killed"
    <3>1. CASE d = c
      BY <1>5, <1>7, <2>2, <3>1, FreshFacts DEF NoId
    <3>2. CASE d # c
      BY <1>1, <1>5, <1>6, <1>7, <2>2, <3>2, GoneFacts DEF NumberInv
    <3>3. QED BY <3>1, <3>2
  <2>3. \A d \in Call : Asks(d)' \/ At(d, "giveup")' => call'[d].id > NoId
    BY <1>1, <1>5 DEF NumberInv, Asks, At
  <2>4. ASSUME NEW d \in Call, NEW e \in Call, Busy(d)', call'[d].life = call'[e].life, call'[d].id = call'[e].id,
               call'[d].id > NoId
        PROVE  d = e
    <3>1. d # c /\ e # c
      BY <1>5, <2>4 DEF NoId
    <3>2. QED BY <1>1, <1>5, <1>9, <2>4, <3>1 DEF NumberInv
  <2>5. QED BY <2>1, <2>2, <2>3, <2>4 DEF NumberInv
<1>13. PendingInv'
  <2>1. ASSUME NEW m \in Life, NEW n \in client'[m].pending
        PROVE  \E d \in Call : call'[d].life = m /\ call'[d].id = n /\ (InFlight(d)' \/ call'[d].aborted)
    <3>1. n \in client[m].pending
      BY <1>11, <2>1
    <3>2. PICK d \in Call : call[d].life = m /\ call[d].id = n /\ (InFlight(d) \/ call[d].aborted)
      BY <1>1, <3>1 DEF PendingInv
    <3>3. d # c
      BY <1>2, <3>2 DEF InFlight
    <3>4. QED BY <1>5, <3>2, <3>3 DEF InFlight
  <2>2. \A d \in Call : call'[d].pc \in {"write", "wait", "insert"} => Busy(d)' /\ d # c
    BY <1>5 DEF Busy
  <2>3. QED BY <1>1, <1>9, <2>1, <2>2 DEF PendingInv, Mine, At
<1>14. AnswerInv'
  <2>1. \A d \in Call : Asks(d)' => d # c /\ Busy(d)' /\ Asks(d) /\ Question(d)' = Question(d)
    BY <1>5, <1>9 DEF Question, Asks, Busy
  <2>2. QED BY <1>1, <1>9, <1>11, <2>1 DEF AnswerInv, Fits
<1>15. LockInv'
  <2>1. ASSUME NEW d \in Call, Busy(d)
        PROVE  ~(call[d].page = 0 \/ At(d, "announce")) /\ is_closed(call[d].life)
    <3>1. lock # d
      BY <1>2, McpConstants
    <3>2. servers = call[d].life \/ is_closed(call[d].life)
      BY <1>1, <2>1, <3>1 DEF LockInv
    <3>3. call[d].life # None
      BY <1>1, <2>1, McpConstants DEF HoldInv, Life
    <3>4. is_closed(call[d].life)
      BY <1>2, <3>2, <3>3 DEF Usable
    <3>5. QED BY <1>1, <2>1, <3>1, <3>4 DEF LockInv
  <2>2. ASSUME NEW d \in Call, Busy(d)', d # c
        PROVE  ~(call'[d].page = 0 \/ call'[d].pc = "announce") /\ client'[call'[d].life].reader # "reading"
    BY <1>9, <2>1, <2>2 DEF At, is_closed
  <2>3. \A d \in Call : Busy(d) => Busy(d)' /\ call'[d] = call[d]
    BY <1>2, <1>5 DEF Busy
  <2>4. \A m \in Life \ {l} : client'[m].proc = "up" => \E d \in Call : Busy(d) /\ call[d].life = m
    BY <1>1, <1>7, GoneFacts DEF LockInv
  <2>5. Busy(c)'
    BY <1>5 DEF Busy
  <2>6. \A m \in Life : client'[m].proc = "up" => \E d \in Call : Busy(d)' /\ call'[d].life = m
    BY <1>5, <2>3, <2>4, <2>5
  <2>7. QED BY <1>2, <2>2, <2>5, <2>6 DEF LockInv, At, is_closed
<1>16. QED BY <1>8, <1>10, <1>12, <1>13, <1>14, <1>15 DEF IInv

-----------------------------------------------------------------------------
(* Reader and child *)

(* A step of reader or child alone: what is unread was so before, or answers a *)
(* line of the input, under its number or none.                                *)
Moves(l, cl) ==
  /\ client' = [client EXCEPT ![l] = cl] /\ cl \in Clients /\ UNCHANGED <<servers, lock, call>>
  /\ cl.pending = client[l].pending /\ cl.nextId = client[l].nextId /\ cl.inbox \subseteq client[l].inbox
  /\ cl.proc = client[l].proc \/ (client[l].proc = "up" /\ cl.proc = "exited")
  /\ cl.reader = client[l].reader \/ cl.reader # "reading"
  /\ \A i \in 1..Len(cl.out) :
       \/ cl.out[i] \in Unread(l)
       \/ \E line \in client[l].inbox : cl.out[i].to = line.asks /\ cl.out[i].id \in {line.id, NoId}

LEMMA MovesKeep == ASSUME IInv, NEW l \in Life, NEW cl, Moves(l, cl) PROVE IInv'
<1>1. Types /\ HoldInv /\ NumberInv /\ PendingInv /\ AnswerInv /\ LockInv /\ Nums
  BY Numbers DEF IInv
<1>2. /\ \A m \in Life \ {l} : client'[m] = client[m]
      /\ client'[l] = cl
      /\ UNCHANGED <<servers, lock, call>>
  BY <1>1 DEF Moves, Types
<1>3. \A m \in Life : /\ client'[m].pending = client[m].pending /\ client'[m].nextId = client[m].nextId
                      /\ client'[m].inbox \subseteq client[m].inbox
                      /\ client'[m].proc = client[m].proc \/ (client[m].proc = "up" /\ client'[m].proc = "exited")
                      /\ client'[m].reader = client[m].reader \/ client'[m].reader # "reading"
  BY <1>2 DEF Moves
<1>4. Types' /\ Nums'
  <2>1. Types'
    BY <1>1, <1>2 DEF Moves, Types
  <2>2. QED BY <2>1, NumbersNext
<1>5. ASSUME NEW m \in Life, NEW reply \in Unread(m)'
      PROVE  \/ reply \in Unread(m)
             \/ \E line \in client[m].inbox : reply.to = line.asks /\ reply.id \in {line.id, NoId}
  <2>1. PICK i \in 1..Len(client'[m].out) : reply = client'[m].out[i]
    BY <1>5, Zenon DEF Unread
  <2>2. CASE m = l
    <3>1. client'[m].out = cl.out
      BY <1>2, <2>2
    <3>2. i \in 1..Len(cl.out) /\ reply = cl.out[i]
      BY <2>1, <3>1
    <3>3. QED BY <2>2, <3>2 DEF Moves
  <2>3. CASE m # l
    <3>1. client'[m].out = client[m].out
      BY <1>2, <2>3
    <3>2. QED BY <1>5, <3>1, SameRead
  <2>4. QED BY <2>2, <2>3
<1>6. HoldInv'
  <2>1. \A m \in Life : /\ client[m].proc \in {"up", "exited"} => client'[m].proc \in {"up", "exited"}
                        /\ client[m].proc # "none" => client'[m].proc # "none"
    BY <1>3
  <2>2. servers' # None => servers \in Life /\ client'[servers].proc \in {"up", "exited"}
    BY <1>1, <1>2, <2>1 DEF HoldInv, Alive, Types
  <2>3. ASSUME NEW d \in Call
        PROVE  /\ Busy(d) => call[d].life \in Life /\ client'[call[d].life].proc \in {"up", "exited"}
               /\ call[d].aborted => At(d, "over") /\ call[d].life \in Life /\ client'[call[d].life].proc # "none"
    BY <1>1, <2>1 DEF HoldInv, Alive
  <2>4. QED BY <1>1, <1>2, <2>2, <2>3 DEF HoldInv, Busy, Alive, At
<1>7. NumberInv'
  <2>1. ASSUME NEW m \in Life, NEW reply \in Unread(m)' PROVE reply.id < client'[m].nextId
    BY <1>1, <1>3, <1>5, <2>1 DEF NumberInv, Nums, NoId
  <2>2. \A d \in Call : \A m \in Life :
          call'[d].life = m => call'[d].id < client'[m].nextId \/ client'[m].proc = "killed"
    BY <1>1, <1>2, <1>3 DEF NumberInv
  <2>3. \A m \in Life : /\ client'[m].pending \subseteq 1..(client'[m].nextId - 1)
                        /\ \A line \in client'[m].inbox : line.id < client'[m].nextId
    BY <1>1, <1>3 DEF NumberInv
  <2>4. QED BY <1>1, <1>2, <2>1, <2>2, <2>3 DEF NumberInv, Busy, Asks, At
<1>8. PendingInv'
  BY <1>1, <1>2, <1>3 DEF PendingInv, HoldInv, Busy, InFlight, At, Mine
<1>9. AnswerInv'
  <2>1. \A d \in Call : Question(d)' = Question(d) /\ (Asks(d)' <=> Asks(d))
    BY <1>2 DEF Question, Asks
  <2>2. ASSUME NEW d \in Call, NEW m \in Life, Asks(d), call[d].life = m
        PROVE  /\ \A line \in client'[m].inbox : Fits(d, line.id, line.asks)
               /\ \A reply \in Unread(m)' : Fits(d, reply.id, reply.to)
    <3>1. call[d].id > NoId
      BY <1>1, <2>2 DEF NumberInv
    <3>2. \A line \in client[m].inbox : Fits(d, line.id, line.asks)
      BY <1>1, <2>2 DEF AnswerInv
    <3>3. \A reply \in Unread(m) : Fits(d, reply.id, reply.to)
      BY <1>1, <2>2 DEF AnswerInv
    <3>4. ASSUME NEW reply \in Unread(m)' PROVE Fits(d, reply.id, reply.to)
      BY <1>5, <3>1, <3>2, <3>3, <3>4 DEF Fits, NoId
    <3>5. QED BY <1>3, <3>2, <3>4
  <2>3. QED BY <1>1, <1>2, <2>1, <2>2 DEF AnswerInv, Fits
<1>10. LockInv'
  BY <1>1, <1>2, <1>3 DEF LockInv, HoldInv, Busy, At, is_closed
<1>11. QED BY <1>4, <1>6, <1>7, <1>8, <1>9, <1>10 DEF IInv

LEMMA AllUnread == ASSUME NEW l \in Life PROVE \A i \in 1..Len(client[l].out) : client[l].out[i] \in Unread(l)
BY DEF Unread

LEMMA CloseKeeps == ASSUME IInv, NEW l \in Life, Close(l) PROVE IInv'
<1> DEFINE cl == [client[l] EXCEPT !.reader = "closed"]
<1>1. client[l] \in Clients /\ client \in [Life -> Clients]
  BY DEF IInv, Types
<1>2. /\ cl \in Clients /\ cl.pending = client[l].pending /\ cl.nextId = client[l].nextId
      /\ cl.inbox = client[l].inbox /\ cl.proc = client[l].proc /\ cl.reader = "closed" /\ cl.out = client[l].out
  BY <1>1 DEF Clients
<1>3. client' = [client EXCEPT ![l] = cl] /\ UNCHANGED <<servers, lock, call>>
  BY <1>1 DEF Close
<1> HIDE DEF cl
<1>4. Moves(l, cl)
  BY <1>2, <1>3, AllUnread DEF Moves
<1>5. QED BY <1>4, MovesKeep

LEMMA ExitKeeps == ASSUME IInv, NEW l \in Life, Exit(l) PROVE IInv'
<1> DEFINE cl == [client[l] EXCEPT !.proc = "exited", !.deaf = FALSE, !.inbox = {}, !.torn = FALSE]
<1>1. client[l] \in Clients /\ client \in [Life -> Clients] /\ client[l].proc = "up"
  BY DEF IInv, Types, Exit
<1>2. /\ cl \in Clients /\ cl.pending = client[l].pending /\ cl.nextId = client[l].nextId
      /\ cl.inbox = {} /\ cl.proc = "exited" /\ cl.reader = client[l].reader /\ cl.out = client[l].out
  BY <1>1 DEF Clients
<1>3. client' = [client EXCEPT ![l] = cl] /\ UNCHANGED <<servers, lock, call>>
  BY <1>1 DEF Exit
<1> HIDE DEF cl
<1>4. Moves(l, cl)
  BY <1>1, <1>2, <1>3, AllUnread DEF Moves
<1>5. QED BY <1>4, MovesKeep

LEMMA DeafKeeps == ASSUME IInv, NEW l \in Life, StopsReading(l) PROVE IInv'
<1> DEFINE cl == [client[l] EXCEPT !.deaf = TRUE]
<1>1. client[l] \in Clients /\ client \in [Life -> Clients]
  BY DEF IInv, Types
<1>2. /\ cl \in Clients /\ cl.pending = client[l].pending /\ cl.nextId = client[l].nextId
      /\ cl.inbox = client[l].inbox /\ cl.proc = client[l].proc /\ cl.reader = client[l].reader /\ cl.out = client[l].out
  BY <1>1 DEF Clients
<1>3. client' = [client EXCEPT ![l] = cl] /\ UNCHANGED <<servers, lock, call>>
  BY <1>1 DEF StopsReading
<1> HIDE DEF cl
<1>4. Moves(l, cl)
  BY <1>2, <1>3, AllUnread DEF Moves
<1>5. QED BY <1>4, MovesKeep

LEMMA AnswerKeeps == ASSUME IInv, NEW l \in Life, Answer(l) PROVE IInv'
<1>1. client[l] \in Clients /\ client \in [Life -> Clients] /\ client[l].out \in Seq(Reply)
  BY DEF IInv, Types, Clients
<1>2. PICK line \in client[l].inbox, ok \in BOOLEAN, copies \in 1..2, named \in BOOLEAN :
       /\ ok => named
       /\ line = Garbage => ~named
       /\ Len(client[l].out) + copies <= OutCap
       /\ LET r == [id |-> IF named THEN line.id ELSE NoId, to |-> line.asks, ok |-> ok] IN
          client' = [client EXCEPT ![l].inbox = @ \ {line},
                                   ![l].out = @ \o [i \in 1..copies |-> r]]
  BY DEF Answer
<1> DEFINE reply == [id |-> IF named THEN line.id ELSE NoId, to |-> line.asks, ok |-> ok]
           more == [i \in 1..copies |-> reply]
           out == client[l].out \o more
           cl == [client[l] EXCEPT !.inbox = @ \ {line}, !.out = out]
<1>3. reply \in Reply /\ reply.to = line.asks /\ reply.id \in {line.id, NoId}
  BY <1>1 DEF Clients, Line, Reply, NoId
<1> HIDE DEF reply
<1>4. more \in Seq(Reply) /\ Len(more) = copies /\ \A i \in 1..copies : more[i] = reply
  BY <1>3
<1> HIDE DEF more
<1>5. /\ out \in Seq(Reply) /\ Len(out) = Len(client[l].out) + Len(more)
      /\ \A i \in 1..(Len(client[l].out) + Len(more)) :
           out[i] = IF i <= Len(client[l].out) THEN client[l].out[i] ELSE more[i - Len(client[l].out)]
  BY <1>1, <1>4, ConcatProperties
<1> HIDE DEF out
<1>6. \A i \in 1..Len(out) : out[i] \in Unread(l) \/ out[i] = reply
  <2>1. Len(client[l].out) \in Nat
    BY <1>1, LenProperties
  <2>2. ASSUME NEW i \in 1..Len(out) PROVE out[i] \in Unread(l) \/ out[i] = reply
    <3>1. CASE i <= Len(client[l].out)
      <4>1. i \in 1..Len(client[l].out) /\ out[i] = client[l].out[i]
        BY <1>4, <1>5, <2>1, <3>1
      <4>2. QED BY <4>1, AllUnread
    <3>2. CASE ~(i <= Len(client[l].out))
      <4>1. i - Len(client[l].out) \in 1..copies /\ out[i] = more[i - Len(client[l].out)]
        <5>1. copies \in Nat /\ i \in Nat /\ i <= Len(client[l].out) + copies
          BY <1>4, <1>5, <2>1
        <5>2. i - Len(client[l].out) \in 1..copies
          BY <2>1, <3>2, <5>1
        <5>3. out[i] = IF i <= Len(client[l].out) THEN client[l].out[i] ELSE more[i - Len(client[l].out)]
          BY <1>4, <1>5
        <5>4. QED BY <3>2, <5>2, <5>3
      <4>2. QED BY <1>4, <4>1
    <3>3. QED BY <3>1, <3>2
  <2>3. QED BY <2>2
<1>7. /\ cl \in Clients /\ cl.pending = client[l].pending /\ cl.nextId = client[l].nextId
      /\ cl.inbox \subseteq client[l].inbox /\ cl.proc = client[l].proc /\ cl.reader = client[l].reader /\ cl.out = out
  BY <1>1, <1>5 DEF Clients
<1>8. client' = [client EXCEPT ![l] = cl] /\ UNCHANGED <<servers, lock, call>>
  BY <1>1, <1>2 DEF Answer, cl, out, more, reply
<1> HIDE DEF cl
<1>9. Moves(l, cl)
  BY <1>3, <1>6, <1>7, <1>8 DEF Moves
<1>10. QED BY <1>9, MovesKeep

-----------------------------------------------------------------------------
(* The reader hands over: what it read goes to the requests ids, which leave   *)
(* the map; an answer that has a number goes to that number alone.             *)

Hands(l, ids, r, cl) ==
  /\ call' = Hand(l, ids, r) /\ client' = [client EXCEPT ![l] = cl] /\ UNCHANGED <<servers, lock>>
  /\ cl \in Clients /\ r \in Reply /\ ids \subseteq client[l].pending
  /\ cl.pending = client[l].pending \ ids /\ cl.nextId = client[l].nextId
  /\ cl.inbox = client[l].inbox /\ cl.proc = client[l].proc
  /\ cl.reader = client[l].reader \/ cl.reader # "reading"
  /\ \A i \in 1..Len(cl.out) : cl.out[i] \in Unread(l)
  /\ r.id # NoId => r \in Unread(l) /\ ids \subseteq {r.id}

Handed(d, l, ids) == call[d].life = l /\ call[d].id \in ids /\ ~At(d, "over")

LEMMA HandedOver ==
  ASSUME Types, NEW l \in Life, NEW ids, NEW r, r \in Reply, call' = Hand(l, ids, r), NEW d \in Call
  PROVE  /\ call'[d] \in Calls
         /\ call'[d].pc = call[d].pc /\ call'[d].life = call[d].life /\ call'[d].id = call[d].id
         /\ call'[d].page = call[d].page /\ call'[d].aborted = call[d].aborted
         /\ Handed(d, l, ids) => call'[d].got = r
         /\ ~Handed(d, l, ids) => call'[d].got = call[d].got
<1>1. call[d] \in Calls
  BY DEF Types
<1>2. Handed(d, l, ids) <=> \E id \in ids : d \in Owners(l, id)
  BY DEF Handed, Owners
<1>3. call'[d] = IF Handed(d, l, ids) THEN [call[d] EXCEPT !.got = r] ELSE call[d]
  BY <1>2 DEF Hand
<1>4. CASE Handed(d, l, ids)
  BY <1>1, <1>3, <1>4 DEF Calls
<1>5. CASE ~Handed(d, l, ids)
  BY <1>1, <1>3, <1>5
<1>6. QED BY <1>4, <1>5

(* Who is handed something is on his way to take it out: written or writing, or *)
(* about to give up.                                                            *)
LEMMA HandedInFlight ==
  ASSUME IInv, NEW l \in Life, NEW ids, ids \subseteq client[l].pending, NEW d \in Call, Handed(d, l, ids)
  PROVE  InFlight(d)
<1>1. HoldInv /\ NumberInv /\ PendingInv /\ Nums
  BY Numbers DEF IInv
<1>2. Busy(d) /\ call[d].id > NoId
  <2>1. call[d].life # None
    BY McpConstants DEF Handed, Life
  <2>2. call[d].id \in 1..(client[l].nextId - 1) /\ client[l].nextId \in Nat
    BY <1>1 DEF Handed, NumberInv, Nums
  <2>3. QED BY <1>1, <2>1, <2>2 DEF HoldInv, Busy, Handed, At, NoId
<1>3. PICK e \in Call : call[e].life = l /\ call[e].id = call[d].id /\ (InFlight(e) \/ call[e].aborted)
  BY <1>1 DEF PendingInv, Handed
<1>4. d = e
  BY <1>1, <1>2, <1>3 DEF NumberInv, Handed
<1>5. QED BY <1>1, <1>3, <1>4 DEF HoldInv, Handed

LEMMA HandsKeep == ASSUME IInv, NEW l \in Life, NEW ids, NEW r, NEW cl, Hands(l, ids, r, cl) PROVE IInv'
<1>1. Types /\ HoldInv /\ NumberInv /\ PendingInv /\ AnswerInv /\ LockInv /\ Nums
  BY Numbers DEF IInv
<1>2. /\ \A m \in Life \ {l} : client'[m] = client[m]
      /\ client'[l] = cl
      /\ UNCHANGED <<servers, lock>>
  BY <1>1 DEF Hands, Types
<1>3. \A d \in Call :
        /\ call'[d] \in Calls
        /\ call'[d].pc = call[d].pc /\ call'[d].life = call[d].life /\ call'[d].id = call[d].id
        /\ call'[d].page = call[d].page /\ call'[d].aborted = call[d].aborted
        /\ Handed(d, l, ids) => call'[d].got = r
        /\ ~Handed(d, l, ids) => call'[d].got = call[d].got
  BY <1>1, HandedOver DEF Hands
<1>4. \A m \in Life : /\ client'[m].nextId = client[m].nextId /\ client'[m].inbox = client[m].inbox
                      /\ client'[m].proc = client[m].proc
                      /\ client'[m].reader = client[m].reader \/ client'[m].reader # "reading"
                      /\ client'[m].pending \subseteq client[m].pending
  BY <1>2 DEF Hands
<1>5. \A d \in Call : /\ Busy(d)' <=> Busy(d)
                      /\ Asks(d)' <=> Asks(d)
                      /\ InFlight(d)' <=> InFlight(d)
  BY <1>3 DEF Busy, Asks, InFlight
<1>6. \A d \in Call : Question(d)' = Question(d)
  BY <1>3 DEF Question
<1>7. \A m \in Life : Unread(m)' \subseteq Unread(m)
  <2>1. ASSUME NEW m \in Life, m # l PROVE Unread(m)' = Unread(m)
    <3>1. client'[m].out = client[m].out
      BY <1>2, <2>1
    <3>2. QED BY <3>1, SameRead
  <2>2. ASSUME NEW m \in Life, m = l, NEW reply \in Unread(m)' PROVE reply \in Unread(m)
    <3>1. PICK i \in 1..Len(client'[m].out) : reply = client'[m].out[i]
      BY <2>2, Zenon DEF Unread
    <3>2. client'[m].out = cl.out
      BY <1>2, <2>2
    <3>3. i \in 1..Len(cl.out) /\ reply = cl.out[i]
      BY <3>1, <3>2
    <3>4. QED BY <2>2, <3>3 DEF Hands
  <2>3. QED BY <2>1, <2>2
<1>8. Types' /\ Nums'
  <2>1. client' \in [Life -> Clients]
    BY <1>1 DEF Hands, Types
  <2>2. call' \in [Call -> Calls]
    BY <1>3 DEF Hands, Hand
  <2>3. Types'
    BY <1>1, <1>2, <2>1, <2>2 DEF Types
  <2>4. QED BY <2>3, NumbersNext
<1>9. HoldInv'
  BY <1>1, <1>2, <1>3, <1>4 DEF HoldInv, Busy, Alive, At, Types
<1>10. NumberInv'
  BY <1>1, <1>3, <1>4, <1>5, <1>7 DEF NumberInv, At
<1>11. PendingInv'
  <2>1. ASSUME NEW m \in Life, NEW n \in client'[m].pending
        PROVE  \E d \in Call : call'[d].life = m /\ call'[d].id = n /\ (InFlight(d)' \/ call'[d].aborted)
    BY <1>1, <1>3, <1>4, <1>5, <2>1 DEF PendingInv
  <2>2. ASSUME NEW d \in Call, call[d].pc \in {"write", "wait"}
        PROVE  call'[d].got = None <=> call[d].id \in client'[call[d].life].pending
    <3>1. call[d].life \in Life /\ ~At(d, "over")
      BY <1>1, <2>2 DEF HoldInv, Busy, At
    <3>2. call[d].got = None <=> call[d].id \in client[call[d].life].pending
      BY <1>1, <2>2 DEF PendingInv, Mine
    <3>3. r # None /\ client'[l].pending = client[l].pending \ ids
      BY <1>2, NoneIsNoReply DEF Hands
    <3>4. CASE Handed(d, l, ids)
      BY <1>3, <3>3, <3>4 DEF Handed
    <3>5. CASE ~Handed(d, l, ids) /\ call[d].life = l
      BY <1>3, <3>1, <3>2, <3>3, <3>5 DEF Handed
    <3>6. CASE ~Handed(d, l, ids) /\ call[d].life # l
      BY <1>2, <1>3, <3>1, <3>2, <3>6
    <3>7. QED BY <3>4, <3>5, <3>6
  <2>3. ASSUME NEW d \in Call, At(d, "insert") PROVE call'[d].got = None
    <3>1. ~Handed(d, l, ids)
      BY <2>3, HandedInFlight DEF Hands, InFlight, At
    <3>2. QED BY <1>1, <1>3, <2>3, <3>1 DEF PendingInv
  <2>4. QED BY <1>3, <2>1, <2>2, <2>3 DEF PendingInv, Mine, At
<1>12. AnswerInv'
  <2>1. ASSUME NEW d \in Call, Asks(d), call'[d].got # None, call'[d].got.id # NoId
        PROVE  call'[d].got.to = Question(d)
    <3>1. CASE Handed(d, l, ids)
      <4>1. r.id # NoId /\ r \in Unread(l) /\ call[d].id = r.id /\ call[d].life = l
        BY <1>3, <2>1, <3>1 DEF Hands, Handed
      <4>2. QED BY <1>1, <1>3, <2>1, <3>1, <4>1 DEF AnswerInv, Fits
    <3>2. CASE ~Handed(d, l, ids)
      BY <1>1, <1>3, <2>1, <3>2 DEF AnswerInv
    <3>3. QED BY <3>1, <3>2
  <2>2. QED BY <1>1, <1>3, <1>4, <1>5, <1>6, <1>7, <2>1 DEF AnswerInv, Fits
<1>13. LockInv'
  <2>1. ASSUME NEW d \in Call, Busy(d), lock # d
        PROVE  servers = call[d].life \/ client'[call[d].life].reader # "reading"
    BY <1>1, <1>4, <2>1 DEF LockInv, HoldInv, is_closed
  <2>2. \A m \in Life : client'[m].proc = "up" => servers = m \/ \E d \in Call : Busy(d)' /\ call'[d].life = m
    BY <1>1, <1>3, <1>4, <1>5 DEF LockInv
  <2>3. lock # None => servers = None /\ lock \in Call /\ \A d \in Call : d = lock => Busy(d)'
    BY <1>1, <1>5 DEF LockInv, Types
  <2>4. \A d \in Call : Busy(d) /\ (call[d].page = 0 \/ At(d, "announce")) => lock = d
    BY <1>1 DEF LockInv
  <2>5. QED BY <1>2, <1>3, <1>5, <2>1, <2>2, <2>3, <2>4 DEF LockInv, At, is_closed
<1>14. QED BY <1>8, <1>9, <1>10, <1>11, <1>12, <1>13 DEF IInv

LEMMA ReadKeeps == ASSUME IInv, NEW l \in Life, ReadReply(l) PROVE IInv'
<1> DEFINE r == Head(client[l].out)
           to == Addressees(l, r)
           cl == [client[l] EXCEPT !.out = Tail(client[l].out), !.pending = client[l].pending \ to]
<1>1. client[l] \in Clients /\ client \in [Life -> Clients] /\ client[l].out \in Seq(Reply) /\ client[l].out # <<>>
  BY DEF IInv, Types, Clients, ReadReply
<1>2. /\ call' = Hand(l, to, r) /\ client' = [client EXCEPT ![l] = cl] /\ UNCHANGED <<servers, lock>>
  BY <1>1 DEF ReadReply
<1>3. to \subseteq client[l].pending /\ (r.id # NoId => to \subseteq {r.id})
  BY DEF Addressees
<1>4. /\ r \in Reply /\ Tail(client[l].out) \in Seq(Reply)
      /\ Len(Tail(client[l].out)) = Len(client[l].out) - 1
      /\ \A i \in 1..Len(Tail(client[l].out)) : Tail(client[l].out)[i] = client[l].out[i + 1]
      /\ Len(client[l].out) \in Nat \ {0} /\ r = client[l].out[1]
  BY <1>1, HeadTailProperties, LenProperties, EmptySeq
<1>5. r \in Unread(l) /\ \A i \in 1..Len(Tail(client[l].out)) : Tail(client[l].out)[i] \in Unread(l)
  <2>1. 1 \in 1..Len(client[l].out)
    BY <1>4
  <2>2. ASSUME NEW i \in 1..Len(Tail(client[l].out)) PROVE i + 1 \in 1..Len(client[l].out)
    BY <1>4, <2>2
  <2>3. QED BY <1>4, <2>1, <2>2, AllUnread
<1> HIDE DEF r, to
<1>6. /\ cl \in Clients /\ cl.pending = client[l].pending \ to /\ cl.nextId = client[l].nextId
      /\ cl.inbox = client[l].inbox /\ cl.proc = client[l].proc /\ cl.reader = client[l].reader
      /\ cl.out = Tail(client[l].out)
  BY <1>1, <1>4 DEF Clients
<1> HIDE DEF cl
<1>7. Hands(l, to, r, cl)
  BY <1>2, <1>3, <1>4, <1>5, <1>6 DEF Hands
<1>8. QED BY <1>7, HandsKeep

LEMMA FailKeeps == ASSUME IInv, NEW l \in Life, fail_all(l) PROVE IInv'
<1> DEFINE cl == [client[l] EXCEPT !.reader = "ended", !.pending = {}]
<1>1. client[l] \in Clients /\ client \in [Life -> Clients]
  BY DEF IInv, Types
<1>2. /\ call' = Hand(l, client[l].pending, Cut) /\ client' = [client EXCEPT ![l] = cl] /\ UNCHANGED <<servers, lock>>
  BY <1>1 DEF fail_all
<1>3. Cut \in Reply /\ Cut.id = NoId
  BY DEF Cut, Reply, NoId
<1>4. /\ cl \in Clients /\ cl.pending = {} /\ cl.nextId = client[l].nextId
      /\ cl.inbox = client[l].inbox /\ cl.proc = client[l].proc /\ cl.reader = "ended" /\ cl.out = client[l].out
  BY <1>1 DEF Clients
<1> HIDE DEF cl
<1>5. Hands(l, client[l].pending, Cut, cl)
  BY <1>2, <1>3, <1>4, AllUnread DEF Hands
<1>6. QED BY <1>5, HandsKeep

-----------------------------------------------------------------------------
(* The invariant *)

LEMMA NothingKeeps == ASSUME IInv, UNCHANGED vars PROVE IInv'
<1>1. UNCHANGED <<servers, lock, client, call>>
  BY DEF vars
<1>2. \A m \in Life : Unread(m)' = Unread(m)
  BY <1>1 DEF Unread
<1>3. \A d \in Call : Question(d)' = Question(d)
  BY <1>1 DEF Question
<1>4. Types' /\ HoldInv'
  BY <1>1 DEF IInv, Types, HoldInv, Busy, Alive, At
<1>5. NumberInv'
  BY <1>1, <1>2 DEF IInv, NumberInv, Busy, Asks, At
<1>6. PendingInv'
  BY <1>1 DEF IInv, PendingInv, InFlight, At, Mine
<1>7. AnswerInv'
  BY <1>1, <1>2, <1>3 DEF IInv, AnswerInv, Asks, Fits
<1>8. LockInv'
  BY <1>1 DEF IInv, LockInv, Busy, At, is_closed
<1>9. QED BY <1>4, <1>5, <1>6, <1>7, <1>8 DEF IInv

LEMMA InitInv == Init => IInv
<1> SUFFICES ASSUME Init PROVE IInv
  OBVIOUS
<1>1. Asking \in Calls /\ Asking.pc = "new" /\ Asking.life = None /\ Asking.id = NoId /\ ~Asking.aborted
  BY McpConstants DEF Asking, Calls, NoId
<1>2. Unborn \in Clients /\ Unborn.proc = "none"
  BY FreshFacts
<1>3. Unborn.pending = {} /\ Unborn.inbox = {} /\ Unborn.out = <<>> /\ Unborn.nextId = 1
  BY DEF Unborn
<1>4. /\ \A d \in Call : call[d].pc = "new" /\ call[d].life = None /\ call[d].id = NoId /\ ~call[d].aborted
      /\ \A m \in Life : client[m] = Unborn
      /\ servers = None /\ lock = None
  BY <1>1 DEF Init
<1>5. \A m \in Life : Unread(m) = {}
  <2>1. 1..Len(<<>>) = {}
    OBVIOUS
  <2>2. \A m \in Life : client[m].out = <<>>
    BY <1>3, <1>4
  <2>3. QED BY <2>1, <2>2 DEF Unread
<1>6. Types
  BY <1>1, <1>2 DEF Init, Types
<1>7. HoldInv
  BY <1>4 DEF HoldInv, Busy
<1>8. NumberInv
  BY <1>3, <1>4, <1>5, McpConstants DEF NumberInv, Busy, Asks, At, NoId, Life
<1>9. PendingInv /\ AnswerInv
  BY <1>3, <1>4, <1>5 DEF PendingInv, AnswerInv, Asks, At
<1>10. LockInv
  BY <1>2, <1>4 DEF LockInv, Busy
<1>11. QED BY <1>6, <1>7, <1>8, <1>9, <1>10 DEF IInv

LEMMA NextKeeps == IInv /\ [Next]_vars => IInv'
<1> SUFFICES ASSUME IInv, [Next]_vars PROVE IInv'
  OBVIOUS
<1>1. CASE \E c \in Call : Lookup(c) \/ Step(c) \/ Abort(c)
  BY <1>1, Found, RefuseKeeps, SpawnKeeps, StepKeeps, AbortKeeps DEF Lookup
<1>2. CASE \E l \in Life : ReadReply(l) \/ Close(l) \/ fail_all(l) \/ Answer(l) \/ StopsReading(l) \/ Exit(l)
  BY <1>2, ReadKeeps, CloseKeeps, FailKeeps, AnswerKeeps, DeafKeeps, ExitKeeps
<1>3. CASE UNCHANGED vars
  BY <1>3, NothingKeeps
<1>4. QED BY <1>1, <1>2, <1>3 DEF Next

LEMMA Inductive == Spec => []IInv
<1>1. QED BY InitInv, NextKeeps, PTL DEF Spec

-----------------------------------------------------------------------------
(* What the runs check, for every value of the constants *)

LEMMA TypesEnough == IInv => TypeOK
<1> SUFFICES ASSUME IInv PROVE TypeOK
  OBVIOUS
<1>1. Types /\ NumberInv
  BY DEF IInv
<1>2. ASSUME NEW l \in Life, NEW r \in {client[l].out[i] : i \in DOMAIN client[l].out} PROVE r \in Reply
  <2>1. client[l].out \in Seq(Reply)
    BY <1>1 DEF Types, Clients
  <2>2. QED BY <1>2, <2>1, ElementOfSeq, LenProperties
<1>3. \A l \in Life : client[l] \in Clients
  BY <1>1 DEF Types
<1>4. \A c \in Call : call[c] \in Calls
  BY <1>1 DEF Types
<1>5. ASSUME NEW l \in Life
      PROVE  /\ client[l].proc \in {"none", "up", "exited", "killed"} /\ client[l].torn \in BOOLEAN /\ client[l].deaf \in BOOLEAN
             /\ client[l].pending \subseteq 1..(client[l].nextId - 1)
             /\ \A line \in client[l].inbox : line \in Line /\ line.id < client[l].nextId
             /\ client[l].reader \in {"none", "reading", "closed", "ended", "aborted"}
  BY <1>1, <1>3 DEF NumberInv, Clients
<1>6. \A c \in Call :
        /\ call[c].pc \in {"new", "begin", "insert", "write", "wait", "giveup", "announce", "over"}
        /\ call[c].life \in Life \cup {None} /\ call[c].page \in 0..MaxPages
        /\ call[c].got \in Reply \cup {None}
  BY <1>4 DEF Calls
<1>7. QED BY <1>1, <1>2, <1>5, <1>6 DEF TypeOK, Types

(* The types of the state, the numbers of what waits and travels included. *)
THEOREM TypeCorrect == Spec => []TypeOK
<1>1. QED BY Inductive, TypesEnough, PTL

(* The map of pending requests holds those of calls that take them out again    *)
(* and of aborted ones, and who waits without an answer is in it, for every      *)
(* number of calls and children and however timeouts, late answers and the end   *)
(* of the connection fall.                                                       *)
THEOREM PendingOwned == Spec => []PendingIsOwned
<1>1. IInv => PendingIsOwned
  BY TypesEnough DEF PendingIsOwned, IInv, PendingInv, At
<1>2. QED BY <1>1, Inductive, PTL

(* An answer with a number is given to the call that asked, for the page it      *)
(* asked for: numbers of a child are given out once.                             *)
THEOREM Answers == Spec => []AnswersAreTheirOwn
<1>1. IInv => AnswersAreTheirOwn
  <2>1. SUFFICES ASSUME AnswerInv PROVE AnswersAreTheirOwn
    BY DEF IInv
  <2>2. QED BY <2>1 DEF AnswersAreTheirOwn, AnswerInv, Asks, At, Question
<1>2. QED BY <1>1, Inductive, PTL

(* One open child at a time, none without a user, and nobody talks to one before *)
(* its handshake is over or after the registry has replaced it.                  *)
THEOREM Single == Spec => []OneServer
<1>1. ASSUME IInv PROVE OneServer
  <2>1. Types /\ HoldInv /\ LockInv
    BY <1>1 DEF IInv
  <2>2. \A l \in Life : \A c \in Call : Busy(c) /\ call[c].life = l => c \in Holders(l)
    BY DEF Holders, Busy, At
  <2>3. ASSUME NEW l \in Life, client[l].proc = "up", ~is_closed(l)
        PROVE  servers = l \/ (servers = None /\ lock # None /\ l = call[lock].life)
    <3>1. CASE servers = l
      BY <3>1
    <3>2. CASE servers # l
      <4>1. PICK c \in Call : Busy(c) /\ call[c].life = l
        BY <2>1, <2>3, <3>2 DEF LockInv
      <4>2. lock = c
        BY <2>1, <2>3, <3>2, <4>1 DEF LockInv
      <4>3. c # None
        BY McpConstants
      <4>4. QED BY <2>1, <4>1, <4>2, <4>3 DEF LockInv
    <3>3. QED BY <3>1, <3>2
  <2> DEFINE open == {l \in Life : client[l].proc = "up" /\ ~is_closed(l)}
  <2>4. \A l, m \in open : l = m
    BY <2>3, McpConstants DEF Life
  <2>5. Cardinality(open) <= 1
    <3>1. CASE open = {}
      BY <3>1, FS_EmptySet
    <3>2. CASE open # {}
      <4>1. PICK l : l \in open
        BY <3>2
      <4>2. \A m : m \in open <=> m = l
        <5> HIDE DEF open
        <5>1. QED BY <2>4, <4>1
      <4>3. open = {l}
        <5> HIDE DEF open
        <5>1. QED BY <4>2
      <4>4. QED BY <4>3, FS_Singleton
    <3>3. QED BY <3>1, <3>2
  <2>6. \A l \in Life : client[l].proc = "up" => servers = l \/ Holders(l) # {}
    BY <2>1, <2>2 DEF LockInv
  <2>7. \A c \in Call : call[c].pc \notin {"new", "over"} /\ lock # c =>
          servers = call[c].life \/ is_closed(call[c].life)
    BY <2>1 DEF LockInv, Busy
  <2>8. QED BY <2>5, <2>6, <2>7 DEF OneServer
<1>2. QED BY <1>1, Inductive, PTL
=============================================================================
