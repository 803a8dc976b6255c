------------------------------ MODULE LlmProofs ------------------------------
(***************************************************************************)
(* Proofs about the LLM actor and the engine behind it, for any number of    *)
(* commands, requests, cancellations and failures, every capacity of the     *)
(* channel, every set of models, tokens and conversations, and every size of *)
(* the context and of the answers. First the actor; then the operators of    *)
(* LlmContext: the prefix found is a prefix, reuse leaves the cells of the   *)
(* prompt, pruning leaves the view of the conversation; then the engine.     *)
(***************************************************************************)
EXTENDS LlmActor, LlmEngine, FiniteSetTheorems, SequenceTheorems, TLAPS

-----------------------------------------------------------------------------
(* Sequences of commands, and the order of their tickets *)

LEMMA HeadAndTail ==
  ASSUME NEW S, NEW s \in Seq(S), s # <<>>
  PROVE  /\ Head(s) \in S /\ Tail(s) \in Seq(S) /\ Len(Tail(s)) = Len(s) - 1
         /\ Elems(s) = {Head(s)} \cup Elems(Tail(s))
<1>1. /\ Len(s) \in Nat \ {0} /\ Len(Tail(s)) = Len(s) - 1 /\ Head(s) = s[1]
      /\ Head(s) \in S /\ Tail(s) \in Seq(S)
      /\ \A i \in 1..Len(Tail(s)) : Tail(s)[i] = s[i + 1]
  BY HeadTailProperties, EmptySeq
<1> DEFINE t == Tail(s)
<1>2. Len(t) = Len(s) - 1 /\ Len(t) \in Nat /\ \A i \in 1..Len(t) : t[i] = s[i + 1]
  BY <1>1
<1> HIDE DEF t
<1>3. ASSUME NEW x \in Elems(s) PROVE x = s[1] \/ x \in Elems(t)
  <2>1. PICK i \in 1..Len(s) : x = s[i]
    BY <1>3 DEF Elems
  <2>2. i = 1 \/ (i - 1 \in 1..Len(t) /\ t[i - 1] = s[i])
    BY <1>1, <1>2, <2>1
  <2>3. QED BY <2>1, <2>2 DEF Elems
<1>4. ASSUME NEW x \in Elems(t) PROVE x \in Elems(s)
  <2>1. PICK i \in 1..Len(t) : x = t[i]
    BY <1>4 DEF Elems
  <2>2. i + 1 \in 1..Len(s) /\ x = s[i + 1]
    BY <1>1, <1>2, <2>1
  <2>3. QED BY <2>2 DEF Elems
<1>5. s[1] \in Elems(s)
  BY <1>1 DEF Elems
<1>6. QED BY <1>1, <1>3, <1>4, <1>5 DEF t

LEMMA Appended ==
  ASSUME NEW S, NEW s \in Seq(S), NEW c \in S
  PROVE  /\ Append(s, c) \in Seq(S) /\ Len(Append(s, c)) = Len(s) + 1
         /\ Elems(Append(s, c)) = Elems(s) \cup {c}
<1>1. PICK t : t = Append(s, c)
  OBVIOUS
<1>2. /\ t \in Seq(S) /\ Len(t) = Len(s) + 1 /\ Len(s) \in Nat
      /\ t[Len(s) + 1] = c /\ \A i \in 1..Len(s) : t[i] = s[i]
  BY <1>1, AppendProperties, LenProperties
<1>3. Elems(t) \subseteq Elems(s) \cup {c}
  <2>1. \A i \in 1..Len(t) : i = Len(s) + 1 \/ i \in 1..Len(s)
    BY <1>2
  <2>2. QED BY <1>2, <2>1 DEF Elems
<1>4. c \in Elems(t)
  <2>1. Len(s) + 1 \in 1..Len(t)
    BY <1>2
  <2>2. QED BY <1>2, <2>1 DEF Elems
<1>5. Elems(s) \subseteq Elems(t)
  <2>1. \A i \in 1..Len(s) : i \in 1..Len(t)
    BY <1>2
  <2>2. QED BY <1>2, <2>1 DEF Elems
<1>6. QED BY <1>1, <1>2, <1>3, <1>4, <1>5

Rising(s, n) == \A i, j \in 1..Len(s) : i < j => n[s[i]] < n[s[j]]

LEMMA RisingTail ==
  ASSUME NEW S, NEW s \in Seq(S), s # <<>>, NEW n \in [S -> Nat], Rising(s, n)
  PROVE  Rising(Tail(s), n) /\ \A x \in Elems(Tail(s)) : n[Head(s)] < n[x]
<1> DEFINE t == Tail(s)
<1>1. /\ Len(s) \in Nat \ {0} /\ Head(s) = s[1]
      /\ Len(t) = Len(s) - 1 /\ \A i \in 1..Len(t) : t[i] = s[i + 1]
  BY HeadTailProperties, EmptySeq
<1> HIDE DEF t
<1>2. ASSUME NEW i \in 1..Len(t) PROVE n[s[1]] < n[t[i]]
  <2>1. i + 1 \in 1..Len(s) /\ 1 \in 1..Len(s) /\ 1 < i + 1
    BY <1>1
  <2>2. QED BY <1>1, <2>1 DEF Rising
<1>3. ASSUME NEW i \in 1..Len(t), NEW j \in 1..Len(t), i < j PROVE n[t[i]] < n[t[j]]
  <2>1. i + 1 \in 1..Len(s) /\ j + 1 \in 1..Len(s) /\ i + 1 < j + 1
    BY <1>1, <1>3
  <2>2. QED BY <1>1, <2>1 DEF Rising
<1>4. QED BY <1>1, <1>2, <1>3 DEF Rising, Elems, t

LEMMA RisingLonger ==
  ASSUME NEW S, NEW s \in Seq(S), NEW c \in S, NEW n \in [S -> Nat], Rising(s, n),
         \A x \in Elems(s) : n[x] < n[c]
  PROVE  Rising(Append(s, c), n)
<1>1. PICK t : t = Append(s, c)
  OBVIOUS
<1>2. /\ Len(t) = Len(s) + 1 /\ Len(s) \in Nat
      /\ t[Len(s) + 1] = c /\ \A i \in 1..Len(s) : t[i] = s[i]
  BY <1>1, AppendProperties, LenProperties
<1>3. ASSUME NEW i \in 1..Len(t), NEW j \in 1..Len(t), i < j PROVE n[t[i]] < n[t[j]]
  <2>1. i \in 1..Len(s) /\ (j \in 1..Len(s) \/ j = Len(s) + 1)
    BY <1>2, <1>3
  <2>2. CASE j \in 1..Len(s)
    BY <1>2, <1>3, <2>1, <2>2 DEF Rising
  <2>3. CASE j = Len(s) + 1
    BY <1>2, <2>1, <2>3 DEF Elems
  <2>4. QED BY <2>1, <2>2, <2>3
<1>4. QED BY <1>1, <1>3 DEF Rising

(* New tickets for others change nothing. *)
LEMMA RisingStill ==
  ASSUME NEW s, NEW n, NEW m, Rising(s, n), \A x \in Elems(s) : m[x] = n[x]
  PROVE  Rising(s, m)
BY DEF Rising, Elems

-----------------------------------------------------------------------------
(* The inductive invariant, in parts *)

(* A command has a ticket from its acceptance on; the channel is in their order. *)
MailInv ==
  /\ \A c \in Cmd : ticket[c] <= accepted /\ (c \notin called => ticket[c] = 0)
  /\ \A c \in Elems(channel) : ticket[c] > 0
  /\ Rising(channel, ticket)

(* So are the queues, each with the commands of its class, and all of them are *)
(* older than the channel.                                                    *)
QueuesInv ==
  \A p \in Priorities :
    /\ Rising(queue[p], ticket)
    /\ \A c \in Elems(queue[p]) : /\ Prio[c] = p /\ ticket[c] > 0
                                  /\ \A d \in Elems(channel) : ticket[c] < ticket[d]

(* What runs was accepted before anything in the channel, and what waits for it *)
(* to stop has told it.                                                        *)
RunInv ==
  /\ running # Nothing <=> phase = "run"
  /\ phase = "run" => /\ ticket[running] > 0
                      /\ \A d \in Elems(channel) : ticket[running] < ticket[d]
  /\ phase = "run" /\ (\E c \in Queued : Prio[c] > Prio[running]) => flag[Token[running]]

(* Nobody is told to stop without a reason, and reasons do not go away. *)
Overridden(b) ==
  0 < ticket[b] /\ \E d \in Cmd : ticket[b] < ticket[d] /\ (d \in Shutdowns \/ Prio[d] > Prio[b])
Reason(t) == t \in asked \/ \E b \in Generations : Token[b] = t /\ Overridden(b)

ReasonInv ==
  /\ \A t \in CancelTokens : flag[t] => Reason(t)
  /\ \A c \in Generations : reply[c] = "cancelled" => Reason(Token[c])

ActorInv == ActorTypeOK /\ MailInv /\ QueuesInv /\ RunInv /\ ReasonInv

-----------------------------------------------------------------------------
(* Types *)

LEMMA ActorInitInv == ActorInit => ActorInv
<1> SUFFICES ASSUME ActorInit PROVE ActorInv
  OBVIOUS
<1> USE LlmAssumption
<1>1. Elems(<<>>) = {} /\ \A n : Rising(<<>>, n)
  BY DEF Elems, Rising
<1>2. \A p \in Priorities : queue[p] = <<>>
  BY DEF ActorInit
<1>3. Queued = {}
  BY <1>1, <1>2 DEF Queued
<1>4. ActorTypeOK
  BY DEF ActorInit, ActorTypeOK, Phases, Replies
<1>5. MailInv /\ QueuesInv
  BY <1>1, <1>2 DEF ActorInit, MailInv, QueuesInv
<1>6. RunInv
  BY <1>3 DEF ActorInit, RunInv
<1>7. ReasonInv
  BY DEF ActorInit, ReasonInv, Generations
<1>8. QED BY <1>4, <1>5, <1>6, <1>7 DEF ActorInv

(* The class that is served has a command, and none above it has. *)
LEMMA HighestFacts ==
  ASSUME ActorTypeOK, Queued # {}
  PROVE  /\ Highest \in Priorities /\ queue[Highest] # <<>>
         /\ \A r \in Priorities : queue[r] # <<>> => r <= Highest
<1>1. \E p \in Priorities : queue[p] # <<>>
  <2>1. PICK q \in Priorities : Elems(queue[q]) # {}
    BY DEF Queued
  <2>2. queue[q] # <<>>
    BY <2>1 DEF Elems
  <2>3. QED BY <2>2
<1>2. \E p \in Priorities : queue[p] # <<>> /\ \A r \in Priorities : queue[r] # <<>> => r <= p
  BY <1>1 DEF Priorities, Low, Normal, High
<1>3. QED BY <1>2 DEF Highest

(* A command moves from the channel to the end of its queue. *)
LEMMA Taken ==
  ASSUME ActorTypeOK, MailInv, QueuesInv, TakeFromChannel
  PROVE  /\ Head(channel) \in Cmd /\ Head(channel) \in Elems(channel)
         /\ channel' \in Seq(Cmd) /\ Len(channel') <= ChanCap
         /\ queue' \in [Priorities -> Seq(Cmd)]
         /\ Elems(channel') \subseteq Elems(channel)
         /\ Queued' = Queued \cup {Head(channel)}
         /\ MailInv' /\ QueuesInv'
<1> USE LlmAssumption
<1>1. PICK h : h = Head(channel)
  OBVIOUS
<1>2. /\ channel \in Seq(Cmd) /\ channel # <<>> /\ Len(channel) \in Nat
      /\ queue \in [Priorities -> Seq(Cmd)] /\ ticket \in [Cmd -> Nat] /\ accepted \in Nat
  BY DEF ActorTypeOK, TakeFromChannel
<1>3. /\ channel' = Tail(channel) /\ queue' = [queue EXCEPT ![Prio[h]] = Append(@, h)]
      /\ called' = called /\ accepted' = accepted /\ ticket' = ticket
  BY <1>1 DEF TakeFromChannel, Pushed
<1>4. /\ h \in Cmd /\ channel' \in Seq(Cmd) /\ Len(channel') = Len(channel) - 1
      /\ Elems(channel) = {h} \cup Elems(channel')
  BY <1>1, <1>2, <1>3, HeadAndTail
<1>5. Prio[h] \in Priorities
  BY <1>4
<1>6. /\ Append(queue[Prio[h]], h) \in Seq(Cmd)
      /\ Elems(Append(queue[Prio[h]], h)) = Elems(queue[Prio[h]]) \cup {h}
  BY <1>2, <1>4, <1>5, Appended
<1>7. /\ queue' \in [Priorities -> Seq(Cmd)] /\ queue'[Prio[h]] = Append(queue[Prio[h]], h)
      /\ \A p \in Priorities : p # Prio[h] => queue'[p] = queue[p]
  BY <1>2, <1>3, <1>5, <1>6
<1>8. Len(channel') <= ChanCap
  <2>1. Len(channel) <= ChanCap /\ ChanCap \in Nat
    BY DEF ActorTypeOK
  <2>2. QED BY <1>2, <1>4, <2>1
<1>9. Queued' = Queued \cup {h}
  <2>1. \A p \in Priorities : Elems(queue'[p]) = IF p = Prio[h] THEN Elems(queue[p]) \cup {h} ELSE Elems(queue[p])
    BY <1>5, <1>6, <1>7
  <2>2. QED BY <1>5, <2>1, Zenon DEF Queued
<1>10. Rising(channel', ticket) /\ \A x \in Elems(channel') : ticket[h] < ticket[x]
  BY <1>1, <1>2, <1>3, RisingTail DEF MailInv
<1>11. MailInv'
  BY <1>3, <1>4, <1>10 DEF MailInv
<1>12. ticket[h] > 0 /\ \A p \in Priorities : \A x \in Elems(queue[p]) : ticket[x] < ticket[h]
  BY <1>4 DEF MailInv, QueuesInv
<1>13. Rising(Append(queue[Prio[h]], h), ticket)
  BY <1>2, <1>4, <1>5, <1>12, RisingLonger DEF QueuesInv
<1>14. QueuesInv'
  <2> SUFFICES ASSUME NEW p \in Priorities
               PROVE  /\ Rising(queue'[p], ticket)
                      /\ \A c \in Elems(queue'[p]) :
                           /\ Prio[c] = p /\ ticket[c] > 0
                           /\ \A d \in Elems(channel') : ticket[c] < ticket[d]
    BY <1>3 DEF QueuesInv
  <2>1. CASE p = Prio[h]
    BY <1>4, <1>6, <1>7, <1>10, <1>12, <1>13, <2>1 DEF QueuesInv
  <2>2. CASE p # Prio[h]
    BY <1>4, <1>7, <2>2 DEF QueuesInv
  <2>3. QED BY <2>1, <2>2
<1>15. QED BY <1>1, <1>4, <1>7, <1>8, <1>9, <1>11, <1>14

-----------------------------------------------------------------------------
(* Callers *)

LEMMA SendInv == ASSUME ActorInv, NEW c \in Cmd, Send(c) PROVE ActorInv'
<1> USE LlmAssumption
<1>1. ActorTypeOK /\ MailInv /\ QueuesInv /\ RunInv /\ ReasonInv
  BY DEF ActorInv
<1>2. /\ UNCHANGED <<open, queue, phase, running, worker, flag, asked>>
      /\ c \notin called /\ called' = called \cup {c}
  BY DEF Send
<1>3. Queued' = Queued
  BY <1>2 DEF Queued
<1>4. CASE phase = "stopped" /\ reply' = [reply EXCEPT ![c] = "closed"]
           /\ UNCHANGED <<channel, accepted, ticket>>
  <2>1. ActorTypeOK'
    BY <1>1, <1>2, <1>4 DEF ActorTypeOK, Replies
  <2>2. MailInv' /\ QueuesInv' /\ RunInv'
    BY <1>1, <1>2, <1>3, <1>4 DEF MailInv, QueuesInv, RunInv
  <2>3. ReasonInv'
    <3>1. \A b \in Cmd : reply'[b] = "cancelled" => reply[b] = "cancelled"
      BY <1>1, <1>4 DEF ActorTypeOK
    <3>2. \A t : Reason(t)' <=> Reason(t)
      BY <1>2, <1>4 DEF Reason, Overridden
    <3>3. QED BY <1>1, <1>2, <3>1, <3>2 DEF ReasonInv, Generations
  <2>4. QED BY <2>1, <2>2, <2>3 DEF ActorInv
<1>5. CASE /\ Len(channel) < ChanCap /\ channel' = Append(channel, c) /\ accepted' = accepted + 1
           /\ ticket' = [ticket EXCEPT ![c] = accepted'] /\ UNCHANGED reply
  <2>1. /\ channel \in Seq(Cmd) /\ Len(channel) \in Nat /\ ticket \in [Cmd -> Nat] /\ accepted \in Nat
        /\ queue \in [Priorities -> Seq(Cmd)]
    BY <1>1 DEF ActorTypeOK
  <2>2. /\ channel' \in Seq(Cmd) /\ Len(channel') = Len(channel) + 1
        /\ Elems(channel') = Elems(channel) \cup {c}
    BY <1>5, <2>1, Appended
  <2>3. /\ ticket' \in [Cmd -> Nat] /\ ticket'[c] = accepted + 1 /\ ticket[c] = 0
        /\ \A d \in Cmd : d # c => ticket'[d] = ticket[d]
        /\ \A d \in Cmd : ticket[d] <= accepted /\ ticket[d] < ticket'[c]
    BY <1>1, <1>2, <1>5, <2>1 DEF MailInv
  <2>4. ActorTypeOK'
    <3>1. Len(channel') <= ChanCap
      BY <1>5, <2>1, <2>2
    <3>2. QED BY <1>1, <1>2, <1>5, <2>1, <2>2, <2>3, <3>1 DEF ActorTypeOK
  <2>5. \A x \in Elems(channel) : x \in Cmd /\ ticket'[x] = ticket[x] /\ ticket[x] > 0
    <3>1. Elems(channel) \subseteq Cmd
      BY <2>1 DEF Elems
    <3>2. QED BY <1>1, <2>3, <3>1 DEF MailInv
  <2>6. \A p \in Priorities : \A x \in Elems(queue[p]) :
          x \in Cmd /\ ticket'[x] = ticket[x] /\ ticket[x] > 0
    <3>1. \A p \in Priorities : Elems(queue[p]) \subseteq Cmd
      BY <2>1 DEF Elems
    <3>2. QED BY <1>1, <2>3, <3>1 DEF QueuesInv
  <2>7. MailInv'
    <3>1. Rising(channel, ticket')
      BY <1>1, <2>5, RisingStill DEF MailInv
    <3>2. Rising(channel', ticket')
      BY <1>5, <2>1, <2>3, <2>5, <3>1, RisingLonger
    <3>3. QED BY <1>1, <1>2, <1>5, <2>1, <2>2, <2>3, <2>5, <3>2 DEF MailInv
  <2>8. QueuesInv'
    <3>1. \A p \in Priorities : Rising(queue[p], ticket')
      BY <1>1, <2>6, RisingStill DEF QueuesInv
    <3>2. QED BY <1>1, <1>2, <2>2, <2>3, <2>5, <2>6, <3>1 DEF QueuesInv
  <2>9. RunInv'
    <3>1. running = Nothing \/ (running \in Cmd /\ (phase = "run" => ticket'[running] = ticket[running]))
      BY <1>1, <2>3 DEF ActorTypeOK, RunInv, Generations
    <3>2. phase = "run" => ticket'[running] > 0 /\ \A d \in Elems(channel') : ticket'[running] < ticket'[d]
      BY <1>1, <2>2, <2>3, <2>5, <3>1 DEF RunInv
    <3>3. QED BY <1>1, <1>2, <1>3, <3>2 DEF RunInv
  <2>10. ReasonInv'
    <3>1. ASSUME NEW t, Reason(t) PROVE Reason(t)'
      <4>1. CASE t \in asked
        BY <1>2, <4>1 DEF Reason
      <4>2. CASE \E b \in Generations : Token[b] = t /\ Overridden(b)
        <5>1. PICK b \in Generations, d \in Cmd :
                /\ Token[b] = t /\ 0 < ticket[b] /\ ticket[b] < ticket[d]
                /\ d \in Shutdowns \/ Prio[d] > Prio[b]
          BY <4>2 DEF Overridden
        <5>2. b \in Cmd /\ b # c
          BY <2>3, <5>1 DEF Generations
        <5>3. ticket'[b] = ticket[b] /\ ticket'[b] < ticket'[d]
          BY <2>3, <5>1, <5>2
        <5>4. QED BY <5>1, <5>3 DEF Reason, Overridden
      <4>3. QED BY <3>1, <4>1, <4>2 DEF Reason
    <3>2. QED BY <1>1, <1>2, <1>5, <3>1 DEF ReasonInv
  <2>11. QED BY <2>4, <2>7, <2>8, <2>9, <2>10 DEF ActorInv
<1>6. QED BY <1>4, <1>5 DEF Send

LEMMA CancelsInv == ASSUME ActorInv, NEW t \in CancelTokens, CallerCancels(t) PROVE ActorInv'
<1>1. /\ UNCHANGED <<called, open, channel, accepted, ticket, queue, phase, running, worker, reply>>
      /\ asked' = asked \cup {t} /\ flag' = [flag EXCEPT ![t] = TRUE]
  BY DEF CallerCancels
<1>2. ActorTypeOK /\ MailInv /\ QueuesInv /\ RunInv /\ ReasonInv
  BY DEF ActorInv
<1>3. flag \in [CancelTokens -> BOOLEAN]
  BY <1>2 DEF ActorTypeOK
<1>4. ActorTypeOK'
  BY <1>1, <1>2 DEF ActorTypeOK
<1>5. MailInv' /\ QueuesInv' /\ Queued' = Queued
  BY <1>1, <1>2 DEF MailInv, QueuesInv, Queued
<1>6. RunInv'
  <2>1. \A u \in CancelTokens : flag[u] => flag'[u]
    BY <1>1, <1>3
  <2>2. phase = "run" => Token[running] \in CancelTokens
    BY <1>2 DEF ActorTypeOK, RunInv, Generations, CancelTokens
  <2>3. QED BY <1>1, <1>2, <1>5, <2>1, <2>2 DEF RunInv
<1>7. ReasonInv'
  <2>1. \A u : Reason(u) => Reason(u)'
    BY <1>1 DEF Reason, Overridden
  <2>2. Reason(t)'
    BY <1>1 DEF Reason
  <2>3. \A u \in CancelTokens : flag'[u] => u = t \/ flag[u]
    BY <1>1, <1>3
  <2>4. QED BY <1>1, <1>2, <2>1, <2>2, <2>3 DEF ReasonInv
<1>8. QED BY <1>4, <1>5, <1>6, <1>7 DEF ActorInv

-----------------------------------------------------------------------------
(* The actor *)

(* A step that only takes a command from the channel. *)
LEMMA DrainedInv ==
  ASSUME ActorInv, TakeFromChannel, phase # "run", phase' \in Phases \ {"run"},
         UNCHANGED <<running, worker, flag, asked, reply>>
  PROVE  ActorInv'
<1>1. ActorTypeOK /\ MailInv /\ QueuesInv /\ RunInv /\ ReasonInv
  BY DEF ActorInv
<1>2. called' = called /\ open' = open /\ accepted' = accepted /\ ticket' = ticket
  BY DEF TakeFromChannel
<1>3. /\ channel' \in Seq(Cmd) /\ Len(channel') <= ChanCap /\ queue' \in [Priorities -> Seq(Cmd)]
      /\ MailInv' /\ QueuesInv'
  BY <1>1, Taken
<1>4. ActorTypeOK'
  BY <1>1, <1>2, <1>3 DEF ActorTypeOK
<1>5. RunInv'
  BY <1>1 DEF RunInv
<1>6. ReasonInv'
  BY <1>1, <1>2 DEF ReasonInv, Reason, Overridden
<1>7. QED BY <1>3, <1>4, <1>5, <1>6 DEF ActorInv

LEMMA StartInv == ASSUME ActorInv, StartGeneration PROVE ActorInv'
<1> USE LlmAssumption
<1>1. ActorTypeOK /\ MailInv /\ QueuesInv /\ RunInv /\ ReasonInv
  BY DEF ActorInv
<1>2. PICK p : p = Highest
  OBVIOUS
<1>3. p \in Priorities /\ queue[p] # <<>> /\ \A r \in Priorities : queue[r] # <<>> => r <= p
  BY <1>1, <1>2, HighestFacts DEF StartGeneration
<1>4. PICK c : c = Head(queue[p])
  OBVIOUS
<1>5. /\ phase' = "run" /\ running' = c /\ c \notin Shutdowns
      /\ queue' = [queue EXCEPT ![p] = Tail(@)]
      /\ UNCHANGED <<called, open, channel, accepted, ticket, worker, flag, asked, reply>>
  BY <1>2, <1>4 DEF StartGeneration, IsGeneration
<1>6. queue \in [Priorities -> Seq(Cmd)] /\ ticket \in [Cmd -> Nat]
  BY <1>1 DEF ActorTypeOK
<1>7. /\ c \in Cmd /\ Tail(queue[p]) \in Seq(Cmd) /\ Elems(queue[p]) = {c} \cup Elems(Tail(queue[p]))
  BY <1>3, <1>4, <1>6, HeadAndTail
<1>8. /\ queue' \in [Priorities -> Seq(Cmd)] /\ queue'[p] = Tail(queue[p])
      /\ \A r \in Priorities : r # p => queue'[r] = queue[r]
  BY <1>3, <1>5, <1>6, <1>7
<1>9. \A r \in Priorities : Elems(queue'[r]) \subseteq Elems(queue[r])
  BY <1>7, <1>8
<1>10. ActorTypeOK'
  BY <1>1, <1>5, <1>7, <1>8 DEF ActorTypeOK, Generations, Phases
<1>11. MailInv'
  BY <1>1, <1>5 DEF MailInv
<1>12. QueuesInv'
  <2>1. Rising(Tail(queue[p]), ticket)
    BY <1>1, <1>3, <1>6, RisingTail DEF QueuesInv
  <2>2. \A r \in Priorities : Rising(queue'[r], ticket)
    BY <1>1, <1>8, <2>1 DEF QueuesInv
  <2>3. QED BY <1>1, <1>5, <1>9, <2>2 DEF QueuesInv
<1>13. RunInv'
  <2>1. Prio[c] = p /\ ticket[c] > 0 /\ \A d \in Elems(channel) : ticket[c] < ticket[d]
    BY <1>1, <1>3, <1>7 DEF QueuesInv
  <2>2. ASSUME NEW d \in Queued' PROVE ~(Prio[d] > Prio[c])
    <3>1. PICK r \in Priorities : d \in Elems(queue[r])
      BY <1>9 DEF Queued
    <3>2. Prio[d] = r /\ queue[r] # <<>>
      BY <1>1, <3>1 DEF QueuesInv, Elems
    <3>3. QED BY <1>3, <2>1, <3>2 DEF Priorities, Low, Normal, High
  <2>3. c # Nothing
    BY <1>7
  <2>4. QED BY <1>5, <2>1, <2>2, <2>3 DEF RunInv
<1>14. ReasonInv'
  BY <1>1, <1>5 DEF ReasonInv, Reason, Overridden
<1>15. QED BY <1>10, <1>11, <1>12, <1>13, <1>14 DEF ActorInv

LEMMA StopInv ==
  ASSUME ActorInv, Stop, phase # "run" PROVE ActorInv'
<1>1. ActorTypeOK /\ MailInv /\ QueuesInv /\ RunInv /\ ReasonInv
  BY DEF ActorInv
<1>2. /\ phase' = "stopped" /\ channel' = <<>> /\ queue' = [p \in Priorities |-> <<>>]
      /\ UNCHANGED <<called, open, accepted, ticket, running, worker, flag, asked>>
      /\ reply' = [c \in Cmd |-> IF c \in Waiting /\ reply[c] = "none" THEN "dropped" ELSE reply[c]]
  BY DEF Stop
<1>3. Elems(<<>>) = {} /\ \A n : Rising(<<>>, n)
  BY DEF Elems, Rising
<1>4. ActorTypeOK'
  <2>1. reply' \in [Cmd -> Replies]
    BY <1>1, <1>2 DEF ActorTypeOK, Replies
  <2>2. <<>> \in Seq(Cmd) /\ Len(<<>>) = 0 /\ ChanCap \in Nat
    BY LlmAssumption
  <2>3. QED BY <1>1, <1>2, <2>1, <2>2 DEF ActorTypeOK, Phases
<1>5. MailInv' /\ QueuesInv'
  BY <1>1, <1>2, <1>3 DEF MailInv, QueuesInv
<1>6. RunInv'
  BY <1>1, <1>2 DEF RunInv
<1>7. ReasonInv'
  <2>1. \A c \in Generations : reply'[c] = "cancelled" => reply[c] = "cancelled"
    BY <1>2 DEF Generations
  <2>2. QED BY <1>1, <1>2, <2>1 DEF ReasonInv, Reason, Overridden
<1>8. QED BY <1>4, <1>5, <1>6, <1>7 DEF ActorInv

LEMMA MonitorInv == ASSUME ActorInv, Monitor PROVE ActorInv'
<1> USE LlmAssumption
<1>1. ActorTypeOK /\ MailInv /\ QueuesInv /\ RunInv /\ ReasonInv
  BY DEF ActorInv
<1>2. PICK h : h = Head(channel)
  OBVIOUS
<1>3. /\ phase = "run" /\ TakeFromChannel /\ UNCHANGED <<phase, running, worker, asked, reply>>
      /\ flag' = IF Preempts(h) THEN [flag EXCEPT ![Token[running]] = TRUE] ELSE flag
      /\ called' = called /\ open' = open /\ accepted' = accepted /\ ticket' = ticket
  BY <1>2 DEF Monitor, TakeFromChannel
<1>4. /\ h \in Cmd /\ h \in Elems(channel) /\ channel' \in Seq(Cmd) /\ Len(channel') <= ChanCap
      /\ queue' \in [Priorities -> Seq(Cmd)] /\ Elems(channel') \subseteq Elems(channel)
      /\ Queued' = Queued \cup {h} /\ MailInv' /\ QueuesInv'
  BY <1>1, <1>2, <1>3, Taken
<1>5. /\ running \in Generations /\ running \in Cmd /\ Token[running] \in CancelTokens
      /\ flag \in [CancelTokens -> BOOLEAN]
  BY <1>1, <1>3 DEF RunInv, ActorTypeOK, Generations, CancelTokens
<1>6. /\ flag' \in [CancelTokens -> BOOLEAN]
      /\ \A t \in CancelTokens : flag[t] => flag'[t]
      /\ Preempts(h) => flag'[Token[running]]
      /\ \A t \in CancelTokens : flag'[t] => flag[t] \/ (Preempts(h) /\ t = Token[running])
  BY <1>3, <1>5
<1>7. ActorTypeOK'
  BY <1>1, <1>3, <1>4, <1>6 DEF ActorTypeOK
<1>8. RunInv'
  <2>1. (\E c \in Queued' : Prio[c] > Prio[running]) => flag'[Token[running]]
    BY <1>1, <1>3, <1>4, <1>5, <1>6 DEF RunInv, Preempts
  <2>2. QED BY <1>1, <1>3, <1>4, <2>1 DEF RunInv
<1>9. ReasonInv'
  <2>1. \A t : Reason(t) => Reason(t)'
    BY <1>3 DEF Reason, Overridden
  <2>2. Preempts(h) => Reason(Token[running])'
    BY <1>1, <1>3, <1>4, <1>5 DEF Reason, Overridden, RunInv, Preempts
  <2>3. QED BY <1>1, <1>3, <1>6, <2>1, <2>2 DEF ReasonInv
<1>10. QED BY <1>4, <1>7, <1>8, <1>9 DEF ActorInv

LEMMA DoneInv == ASSUME ActorInv, WorkerDone PROVE ActorInv'
<1>1. ActorTypeOK /\ MailInv /\ QueuesInv /\ RunInv /\ ReasonInv
  BY DEF ActorInv
<1>2. PICK r \in Outcomes : reply' = [reply EXCEPT ![running] = r]
  BY DEF WorkerDone
<1>3. /\ phase = "run" /\ running' = Nothing /\ phase' = "drain"
      /\ UNCHANGED <<called, open, channel, accepted, ticket, queue, worker, flag, asked>>
  BY DEF WorkerDone
<1>4. /\ running \in Generations /\ running \in Cmd /\ Token[running] \in CancelTokens
      /\ reply \in [Cmd -> Replies]
  BY <1>1, <1>3 DEF RunInv, ActorTypeOK, Generations, CancelTokens
<1>5. r \in Replies /\ (r = "cancelled" => flag[Token[running]])
  BY DEF Outcomes, Replies
<1>6. ActorTypeOK'
  BY <1>1, <1>2, <1>3, <1>4, <1>5 DEF ActorTypeOK, Phases
<1>7. MailInv' /\ QueuesInv' /\ RunInv'
  BY <1>1, <1>3 DEF MailInv, QueuesInv, RunInv
<1>8. ReasonInv'
  <2>1. \A t : Reason(t)' <=> Reason(t)
    BY <1>3 DEF Reason, Overridden
  <2>2. ASSUME NEW c \in Generations, reply'[c] = "cancelled" PROVE Reason(Token[c])
    <3>1. reply[c] = "cancelled" \/ (c = running /\ flag[Token[running]])
      BY <1>2, <1>4, <1>5, <2>2 DEF Generations
    <3>2. QED BY <1>1, <1>4, <3>1 DEF ReasonInv
  <2>3. QED BY <1>1, <1>3, <2>1, <2>2 DEF ReasonInv
<1>9. QED BY <1>6, <1>7, <1>8 DEF ActorInv

(* The tokens, the handles and the pauses of the actor touch nothing of this. *)
LEMMA RestInv ==
  ASSUME ActorInv, phase' = phase \/ (phase # "run" /\ phase' \in Phases \ {"run"}),
         open' \in BOOLEAN, worker' \in {"decoding", "sending", "stuck"},
         UNCHANGED <<called, channel, accepted, ticket, queue, running, flag, asked, reply>>
  PROVE  ActorInv'
<1>1. ActorTypeOK /\ MailInv /\ QueuesInv /\ RunInv /\ ReasonInv
  BY DEF ActorInv
<1>2. ActorTypeOK'
  BY <1>1 DEF ActorTypeOK
<1>3. MailInv' /\ QueuesInv' /\ Queued' = Queued
  BY <1>1 DEF MailInv, QueuesInv, Queued
<1>4. RunInv'
  BY <1>1, <1>3 DEF RunInv
<1>5. ReasonInv'
  BY <1>1 DEF ReasonInv, Reason, Overridden
<1>6. QED BY <1>2, <1>3, <1>4, <1>5 DEF ActorInv

LEMMA ActorStep == ActorInv /\ [ActorNext]_actorVars => ActorInv'
<1> SUFFICES ASSUME ActorInv, [ActorNext]_actorVars PROVE ActorInv'
  OBVIOUS
<1>1. phase \in Phases /\ open \in BOOLEAN /\ worker \in {"decoding", "sending", "stuck"}
  BY DEF ActorInv, ActorTypeOK
<1>2. CASE Drain
  <2>1. CASE TakeFromChannel /\ UNCHANGED phase
    BY <1>1, <1>2, <2>1, DrainedInv DEF Drain
  <2>2. CASE ~(TakeFromChannel /\ UNCHANGED phase)
    <3>1. /\ phase = "drain" /\ phase' = "pop"
          /\ UNCHANGED <<called, open, channel, accepted, ticket, queue, running, worker, flag, asked, reply>>
      BY <1>2, <2>2 DEF Drain
    <3>2. QED BY <1>1, <3>1, RestInv DEF Phases
  <2>3. QED BY <2>1, <2>2
<1>3. CASE StartGeneration
  BY <1>3, StartInv
<1>4. CASE ShutdownPopped \/ ChannelClosed
  BY <1>4, StopInv DEF ShutdownPopped, ChannelClosed
<1>5. CASE NothingQueued
  BY <1>1, <1>5, RestInv DEF NothingQueued, Phases
<1>6. CASE Wait
  BY <1>6, DrainedInv DEF Wait, Phases
<1>7. CASE Monitor
  BY <1>7, MonitorInv
<1>8. CASE WorkerDone
  BY <1>8, DoneInv
<1>9. CASE TokenReady \/ SendToken \/ ConsumerReads
  BY <1>1, <1>9, RestInv DEF TokenReady, SendToken, ConsumerReads
<1>10. CASE \E c \in Cmd : Send(c)
  BY <1>10, SendInv
<1>11. CASE \E t \in CancelTokens : CallerCancels(t)
  BY <1>11, CancelsInv
<1>12. CASE DropHandles
  BY <1>1, <1>12, RestInv DEF DropHandles
<1>13. CASE UNCHANGED actorVars
  BY <1>1, <1>13, RestInv DEF actorVars
<1>14. QED BY <1>2, <1>3, <1>4, <1>5, <1>6, <1>7, <1>8, <1>9, <1>10, <1>11, <1>12, <1>13
       DEF ActorNext, Actor

LEMMA ActorInductive == ActorSpec => []ActorInv
BY ActorInitInv, ActorStep, PTL DEF ActorSpec

-----------------------------------------------------------------------------
(* What the actor promises *)

(* The channel keeps its capacity and each queue its class, and one worker     *)
(* runs at a time, for any commands, capacity and sharing of tokens.           *)
THEOREM ActorTypeCorrect == ActorSpec => []ActorTypeOK
<1>1. ActorInv => ActorTypeOK
  BY DEF ActorInv
<1>2. QED BY <1>1, ActorInductive, PTL

(* Preemption happens when it must and only for a reason, also when commands   *)
(* share a token.                                                              *)
THEOREM Preemption == ActorSpec => []PreemptedForAReason
<1>1. ActorInv => PreemptedForAReason
  <2> SUFFICES ASSUME ActorInv PROVE PreemptedForAReason
    OBVIOUS
  <2>1. ActorTypeOK /\ RunInv /\ ReasonInv
    BY DEF ActorInv
  <2>2. ASSUME NEW c \in Generations, reply[c] = "cancelled", Token[c] \notin asked
        PROVE  \E b \in Generations, d \in Cmd :
                 /\ Token[b] = Token[c] /\ 0 < ticket[b] /\ ticket[b] < ticket[d]
                 /\ d \in Shutdowns \/ Prio[d] > Prio[b]
    BY <2>1, <2>2 DEF ReasonInv, Reason, Overridden
  <2>3. QED BY <2>1, <2>2 DEF PreemptedForAReason, RunInv
<1>2. QED BY <1>1, ActorInductive, PTL

(* Commands of one priority start in the order in which they were accepted.    *)
InOrder ==
  \A c \in Generations : running' = c /\ running # c =>
    \A d \in Waiting : Prio[d] = Prio[c] => ticket[c] <= ticket[d]

LEMMA StartsInOrder == ASSUME ActorInv, StartGeneration PROVE InOrder
<1> USE LlmAssumption
<1>1. ActorTypeOK /\ MailInv /\ QueuesInv
  BY DEF ActorInv
<1>2. PICK p : p = Highest
  OBVIOUS
<1>3. p \in Priorities /\ queue[p] # <<>> /\ running' = Head(queue[p])
  BY <1>1, <1>2, HighestFacts DEF StartGeneration
<1>4. queue[p] \in Seq(Cmd) /\ ticket \in [Cmd -> Nat]
  BY <1>1, <1>3 DEF ActorTypeOK
<1>5. PICK c : c = Head(queue[p])
  OBVIOUS
<1>6. /\ c \in Cmd /\ Elems(queue[p]) = {c} \cup Elems(Tail(queue[p]))
      /\ \A d \in Elems(Tail(queue[p])) : ticket[c] < ticket[d]
  BY <1>1, <1>3, <1>4, <1>5, HeadAndTail, RisingTail DEF QueuesInv
<1>7. Prio[c] = p /\ \A d \in Elems(channel) : ticket[c] < ticket[d]
  BY <1>1, <1>3, <1>6 DEF QueuesInv
<1>8. ASSUME NEW d \in Waiting, Prio[d] = p PROVE ticket[c] <= ticket[d]
  <2>1. d \in Elems(channel) \/ \E r \in Priorities : d \in Elems(queue[r])
    BY DEF Waiting, Queued
  <2>2. d \in Elems(channel) \/ d \in Elems(queue[p])
    BY <1>1, <1>8, <2>1 DEF QueuesInv
  <2>3. d \in Cmd
    BY <1>1, <2>1 DEF ActorTypeOK, Elems
  <2>4. ticket[c] \in Nat /\ ticket[d] \in Nat
    BY <1>4, <1>6, <2>3
  <2>5. ticket[c] < ticket[d] \/ d = c
    BY <1>6, <1>7, <2>2
  <2>6. QED BY <2>4, <2>5
<1>9. QED BY <1>3, <1>5, <1>7, <1>8 DEF InOrder

THEOREM Fifo == ActorSpec => FifoWithinPriority
<1>1. ActorInv /\ [ActorNext]_actorVars => [InOrder]_actorVars
  <2> SUFFICES ASSUME ActorInv, ActorNext PROVE InOrder
    OBVIOUS
  <2>1. CASE StartGeneration
    BY <2>1, StartsInOrder
  <2>2. CASE ~StartGeneration
    <3>1. running' = running \/ running' = Nothing
      BY <2>2 DEF ActorNext, Actor, Send, CallerCancels, DropHandles, Drain, ShutdownPopped, Stop, NothingQueued,
         Wait, ChannelClosed, Monitor, WorkerDone, TokenReady, SendToken, ConsumerReads
    <3>2. Nothing \notin Generations
      BY LlmAssumption DEF Generations
    <3>3. QED BY <3>1, <3>2 DEF InOrder
  <2>3. QED BY <2>1, <2>2
<1>2. QED BY <1>1, ActorInductive, PTL DEF ActorSpec, FifoWithinPriority, InOrder

-----------------------------------------------------------------------------
(* Who is owed an answer *)

(* The callers of generate whose command was accepted and who wait for the end. *)
Owed == {c \in Generations : ticket[c] > 0 /\ reply[c] = "none"}

(* Who is owed an answer is who is in the channel, in a queue or running, and  *)
(* an actor that has ended has nothing left.                                    *)
NobodyIsStranded ==
  /\ Owed = (Waiting \cup {running}) \cap Generations
  /\ phase = "stopped" => Waiting = {}

(* The same in the form the steps preserve: what runs is not queued as well,   *)
(* and nobody is answered who has not called.                                   *)
HeldInv ==
  /\ \A c \in Generations : c \in Owed <=> c \in Waiting \/ c = running
  /\ running \notin Queued
  /\ phase = "stopped" => Waiting = {}
  /\ \A c \in Cmd : c \notin called => reply[c] = "none"

(* What runs is not in the channel either. *)
LEMMA RunsAlone ==
  ASSUME ActorInv, HeldInv
  PROVE  /\ running \notin Waiting /\ Waiting \subseteq Cmd /\ Nothing \notin Cmd
         /\ phase # "run" => running = Nothing
         /\ phase = "run" => running \in Generations
<1>1. channel \in Seq(Cmd) /\ queue \in [Priorities -> Seq(Cmd)] /\ ticket \in [Cmd -> Nat]
      /\ running \in Generations \cup {Nothing}
  BY DEF ActorInv, ActorTypeOK
<1>2. Elems(channel) \subseteq Cmd /\ Queued \subseteq Cmd
  BY <1>1 DEF Elems, Queued
<1>3. (running # Nothing <=> phase = "run") /\ (phase = "run" => \A d \in Elems(channel) : ticket[running] < ticket[d])
  BY DEF ActorInv, RunInv
<1>4. running \notin Elems(channel)
  BY <1>1, <1>2, <1>3, LlmAssumption DEF Generations
<1>5. QED BY <1>1, <1>2, <1>3, <1>4, LlmAssumption DEF HeldInv, Waiting

LEMMA TakenHeld ==
  ASSUME ActorInv, HeldInv, TakeFromChannel, running' = running, reply' = reply, phase' # "stopped"
  PROVE  HeldInv'
<1>1. /\ Head(channel) \in Elems(channel) /\ Queued' = Queued \cup {Head(channel)}
  BY Taken DEF ActorInv
<1>2. channel \in Seq(Cmd) /\ channel # <<>> /\ channel' = Tail(channel)
      /\ called' = called /\ ticket' = ticket
  BY DEF ActorInv, ActorTypeOK, TakeFromChannel
<1>3. Elems(channel) = {Head(channel)} \cup Elems(channel')
  BY <1>2, HeadAndTail
<1>4. Waiting' = Waiting /\ running \notin Waiting
  BY <1>1, <1>3, RunsAlone DEF Waiting
<1>5. running' \notin Queued'
  BY <1>4 DEF Waiting
<1>6. Owed' = Owed
  BY <1>2 DEF Owed
<1>7. QED BY <1>2, <1>4, <1>5, <1>6 DEF HeldInv

LEMMA SendHeld == ASSUME ActorInv, HeldInv, NEW c \in Cmd, Send(c) PROVE HeldInv'
<1>1. /\ UNCHANGED <<queue, phase, running>> /\ called' = called \cup {c} /\ c \notin called
      /\ ticket[c] = 0 /\ ticket \in [Cmd -> Nat] /\ reply \in [Cmd -> Replies] /\ reply[c] = "none"
      /\ accepted \in Nat /\ channel \in Seq(Cmd)
  BY DEF Send, ActorInv, ActorTypeOK, MailInv, HeldInv
<1>2. Queued' = Queued
  BY <1>1 DEF Queued
<1>3. CASE /\ phase # "stopped" /\ channel' = Append(channel, c) /\ accepted' = accepted + 1
           /\ ticket' = [ticket EXCEPT ![c] = accepted'] /\ UNCHANGED reply
  <2>1. Elems(channel') = Elems(channel) \cup {c}
    BY <1>1, <1>3, Appended
  <2>2. Waiting' = Waiting \cup {c}
    BY <1>2, <2>1 DEF Waiting
  <2>3. \A d \in Generations : d \in Owed' <=> d \in Owed \/ d = c
    BY <1>1, <1>3 DEF Owed, Generations
  <2>4. QED BY <1>1, <1>2, <1>3, <2>2, <2>3 DEF HeldInv
<1>4. CASE reply' = [reply EXCEPT ![c] = "closed"] /\ UNCHANGED <<channel, accepted, ticket>>
  <2>1. Waiting' = Waiting
    BY <1>2, <1>4 DEF Waiting
  <2>2. Owed' = Owed
    BY <1>1, <1>4 DEF Owed, Generations
  <2>3. QED BY <1>1, <1>2, <1>4, <2>1, <2>2 DEF HeldInv
<1>5. QED BY <1>3, <1>4 DEF Send

LEMMA StartHeld == ASSUME ActorInv, HeldInv, StartGeneration PROVE HeldInv'
<1>1. PICK p : p = Highest
  OBVIOUS
<1>2. p \in Priorities /\ queue[p] # <<>>
  BY <1>1, HighestFacts DEF StartGeneration, ActorInv
<1>3. PICK c : c = Head(queue[p])
  OBVIOUS
<1>4. /\ phase = "pop" /\ phase' = "run" /\ running' = c /\ c \notin Shutdowns
      /\ queue' = [queue EXCEPT ![p] = Tail(@)]
      /\ UNCHANGED <<called, channel, ticket, reply>>
  BY <1>1, <1>3 DEF StartGeneration, IsGeneration
<1>5. queue \in [Priorities -> Seq(Cmd)] /\ ticket \in [Cmd -> Nat] /\ QueuesInv
  BY DEF ActorInv, ActorTypeOK
<1>6. c \in Cmd /\ Elems(queue[p]) = {c} \cup Elems(Tail(queue[p]))
  BY <1>2, <1>3, <1>5, HeadAndTail
<1>7. queue'[p] = Tail(queue[p]) /\ \A r \in Priorities : r # p => queue'[r] = queue[r]
  BY <1>2, <1>4, <1>5
<1>8. \A x \in Elems(Tail(queue[p])) : ticket[c] < ticket[x]
  BY <1>2, <1>3, <1>5, RisingTail DEF QueuesInv
<1>9. c \notin Elems(Tail(queue[p]))
  BY <1>5, <1>6, <1>8
<1>10. \A r \in Priorities : r # p => c \notin Elems(queue[r])
  BY <1>2, <1>5, <1>6 DEF QueuesInv
<1>11. c \notin Queued'
  BY <1>7, <1>9, <1>10 DEF Queued
<1>12. Queued = Queued' \cup {c}
  <2>1. \A r \in Priorities : Elems(queue[r]) = IF r = p THEN Elems(queue'[r]) \cup {c} ELSE Elems(queue'[r])
    BY <1>6, <1>7
  <2>2. QED BY <1>2, <2>1, Zenon DEF Queued
<1>13. Waiting = Waiting' \cup {c}
  BY <1>4, <1>12 DEF Waiting
<1>14. Owed' = Owed
  BY <1>4 DEF Owed
<1>15. running = Nothing /\ Nothing \notin Cmd
  BY <1>4, RunsAlone
<1>16. QED BY <1>4, <1>11, <1>13, <1>14, <1>15 DEF HeldInv, Generations

LEMMA StopHeld == ASSUME ActorInv, HeldInv, Stop, phase # "run" PROVE HeldInv'
<1>1. /\ phase' = "stopped" /\ channel' = <<>> /\ queue' = [p \in Priorities |-> <<>>]
      /\ UNCHANGED <<called, ticket, running>>
      /\ reply' = [c \in Cmd |-> IF c \in Waiting /\ reply[c] = "none" THEN "dropped" ELSE reply[c]]
  BY DEF Stop
<1>2. Elems(channel') = {} /\ Queued' = {}
  BY <1>1 DEF Elems, Queued
<1>3. Waiting' = {}
  BY <1>2 DEF Waiting
<1>4. running = Nothing /\ Nothing \notin Cmd
  BY RunsAlone
<1>5. \A c \in Generations : c \notin Owed'
  BY <1>1, <1>4 DEF HeldInv, Owed, Generations
<1>6. \A c \in Cmd : c \notin called => c \notin Waiting
  <2>1. \A c \in Elems(channel) : ticket[c] > 0
    BY DEF ActorInv, MailInv
  <2>2. \A c \in Queued : ticket[c] > 0
    BY DEF ActorInv, QueuesInv, Queued
  <2>3. \A c \in Cmd : c \notin called => ticket[c] = 0
    BY DEF ActorInv, MailInv
  <2>4. QED BY <2>1, <2>2, <2>3 DEF Waiting
<1>7. QED BY <1>1, <1>2, <1>3, <1>4, <1>5, <1>6 DEF HeldInv, Generations

LEMMA DoneHeld == ASSUME ActorInv, HeldInv, WorkerDone PROVE HeldInv'
<1>1. PICK r \in Outcomes : reply' = [reply EXCEPT ![running] = r]
  BY DEF WorkerDone
<1>2. /\ phase = "run" /\ running' = Nothing /\ phase' = "drain"
      /\ UNCHANGED <<called, channel, ticket, queue>>
  BY DEF WorkerDone
<1>3. running \notin Waiting /\ Waiting \subseteq Cmd /\ Nothing \notin Cmd /\ running \in Generations
  BY <1>2, RunsAlone
<1>4. r # "none"
  BY DEF Outcomes
<1>5. Queued' = Queued /\ Waiting' = Waiting
  BY <1>2 DEF Waiting, Queued
<1>6. reply \in [Cmd -> Replies] /\ ticket \in [Cmd -> Nat]
  BY DEF ActorInv, ActorTypeOK
<1>7. \A c \in Generations : c \in Owed' <=> c \in Owed /\ c # running
  BY <1>1, <1>2, <1>3, <1>4, <1>6 DEF Owed, Generations
<1>8. running \in called
  <2>1. running \in Owed
    BY <1>3 DEF HeldInv
  <2>2. QED BY <1>3, <2>1 DEF Owed, ActorInv, MailInv, Generations
<1>9. \A c \in Cmd : c \notin called' => reply'[c] = "none"
  BY <1>1, <1>2, <1>6, <1>8 DEF HeldInv
<1>10. running' \notin Queued'
  BY <1>2, <1>3, <1>5 DEF Waiting
<1>11. \A c \in Generations : c \in Owed' <=> c \in Waiting' \/ c = running'
  BY <1>2, <1>3, <1>5, <1>7 DEF HeldInv, Generations
<1>12. QED BY <1>2, <1>9, <1>10, <1>11 DEF HeldInv

LEMMA HeldStep == ActorInv /\ HeldInv /\ [ActorNext]_actorVars => HeldInv'
<1> SUFFICES ASSUME ActorInv, HeldInv, [ActorNext]_actorVars PROVE HeldInv'
  OBVIOUS
<1>1. ASSUME UNCHANGED <<called, channel, ticket, queue, running, reply>>,
             phase' = phase \/ phase' # "stopped"
      PROVE  HeldInv'
  <2>1. Queued' = Queued /\ Waiting' = Waiting /\ Owed' = Owed
    BY <1>1 DEF Waiting, Queued, Owed
  <2>2. QED BY <1>1, <2>1 DEF HeldInv
<1>2. CASE Drain
  <2>1. CASE TakeFromChannel /\ UNCHANGED phase
    BY <1>2, <2>1, TakenHeld DEF Drain
  <2>2. CASE ~(TakeFromChannel /\ UNCHANGED phase)
    BY <1>1, <1>2, <2>2 DEF Drain
  <2>3. QED BY <2>1, <2>2
<1>3. CASE Wait \/ Monitor
  BY <1>3, TakenHeld DEF Wait, Monitor
<1>4. CASE ShutdownPopped \/ ChannelClosed
  BY <1>4, StopHeld DEF ShutdownPopped, ChannelClosed
<1>5. CASE StartGeneration
  BY <1>5, StartHeld
<1>6. CASE WorkerDone
  BY <1>6, DoneHeld
<1>7. CASE \E c \in Cmd : Send(c)
  BY <1>7, SendHeld
<1>8. CASE \/ NothingQueued \/ DropHandles \/ TokenReady \/ SendToken \/ ConsumerReads
           \/ \E t \in CancelTokens : CallerCancels(t)
  BY <1>1, <1>8 DEF NothingQueued, DropHandles, TokenReady, SendToken, ConsumerReads, CallerCancels
<1>9. CASE UNCHANGED actorVars
  BY <1>1, <1>9 DEF actorVars
<1>10. QED BY <1>2, <1>3, <1>4, <1>5, <1>6, <1>7, <1>8, <1>9 DEF ActorNext, Actor

LEMMA HeldInit == ActorInit => HeldInv
<1> SUFFICES ASSUME ActorInit PROVE HeldInv
  OBVIOUS
<1>1. Elems(channel) = {} /\ Queued = {}
  BY DEF ActorInit, Elems, Queued
<1>2. Waiting = {} /\ Owed = {}
  BY <1>1 DEF Waiting, ActorInit, Owed, Generations
<1>3. running = Nothing
  BY DEF ActorInit
<1>4. QED BY <1>1, <1>2, <1>3, LlmAssumption DEF HeldInv, ActorInit, Generations

(* Every generation the channel accepted is in one place until its caller is    *)
(* answered, once; and who has been answered is in none.                        *)
THEOREM GenerationsHeld == ActorSpec => []NobodyIsStranded
<1>1. HeldInv => NobodyIsStranded
  BY DEF HeldInv, NobodyIsStranded, Owed
<1>2. QED BY <1>1, ActorInitInv, ActorStep, HeldInit, HeldStep, PTL DEF ActorSpec

-----------------------------------------------------------------------------

(* A context, as a record whose last_tokens are tokens of S. *)
IsContext(c, S) ==
  /\ c = [kv |-> c.kv, logits |-> c.logits, last |-> c.last, slipped |-> c.slipped]
  /\ c.last \in Seq(S) /\ c.slipped \in BOOLEAN

-----------------------------------------------------------------------------
(* The prefix *)

LEMMA FirstNumbers ==
  ASSUME NEW k \in Nat
  PROVE  IsFiniteSet(1..k) /\ Cardinality(1..k) = k
<1>1. 1 \in Int /\ k \in Int
  OBVIOUS
<1>2. IsFiniteSet(1..k)
  BY <1>1, FS_Interval, Zenon
<1>3. Cardinality(1..k) = IF 1 > k THEN 0 ELSE k - 1 + 1
  BY <1>1, FS_Interval, Zenon
<1>4. QED BY <1>2, <1>3

(* Numbers from 1 on without a gap: the last is how many there are. *)
LEMMA WithoutGaps ==
  ASSUME NEW k \in Nat, NEW A \in SUBSET (1..k), \A m \in A : 1..m \subseteq A
  PROVE  /\ Cardinality(A) \in 0..k
         /\ Cardinality(A) # 0 => Cardinality(A) \in A
<1>1. IsFiniteSet(A) /\ Cardinality(A) \in Nat /\ Cardinality(A) <= k
  <2>1. IsFiniteSet(1..k) /\ Cardinality(1..k) = k
    BY FirstNumbers
  <2>2. IsFiniteSet(A) /\ Cardinality(A) <= Cardinality(1..k)
    BY <2>1, FS_Subset, Zenon
  <2>3. Cardinality(A) \in Nat
    BY <2>2, FS_CardinalityType
  <2>4. QED BY <2>1, <2>2, <2>3
<1>2. ASSUME NEW n \in Nat, n > 0, Cardinality(A) = n, n \notin A
      PROVE  FALSE
  <2>1. A \in SUBSET (1..(n - 1))
    BY <1>2
  <2>2. IsFiniteSet(1..(n - 1)) /\ Cardinality(1..(n - 1)) = n - 1
    BY <1>2, FirstNumbers
  <2>3. Cardinality(A) <= Cardinality(1..(n - 1))
    BY <2>1, <2>2, FS_Subset, Zenon
  <2>4. QED BY <1>2, <2>2, <2>3
<1>3. QED BY <1>1, <1>2

(* The numbers agreed on are 1 to their number: the last of them is one of them. *)
LEMMA AgreedIsAPrefix ==
  ASSUME NEW S, NEW l \in Seq(S), NEW t \in Seq(S),
         NEW n, n = Cardinality(Agreed(l, t))
  PROVE  n \in 0..Len(l) /\ n <= Len(t) /\ \A i \in 1..n : l[i] = t[i]
<1>1. Len(l) \in Nat /\ Len(t) \in Nat
  OBVIOUS
<1>2. Agreed(l, t) \in SUBSET (1..Len(l)) /\ \A m \in Agreed(l, t) : 1..m \subseteq Agreed(l, t)
  BY <1>1 DEF Agreed
<1>3. n \in 0..Len(l) /\ (n # 0 => n \in Agreed(l, t))
  BY <1>1, <1>2, WithoutGaps
<1>4. CASE n = 0
  BY <1>1, <1>3, <1>4
<1>5. CASE n # 0
  BY <1>1, <1>3, <1>5 DEF Agreed
<1>6. QED BY <1>4, <1>5

(* What is reused is of both, and leaves the prompt a token to decode. *)
LEMMA CommonIsShared ==
  ASSUME NEW S, NEW l \in Seq(S), NEW t \in Seq(S), Len(t) > 0
  PROVE  /\ Common(l, t) \in 0..Len(l) /\ Common(l, t) < Len(t)
         /\ \A i \in 1..Common(l, t) : l[i] = t[i]
<1>1. PICK n : n = Cardinality(Agreed(l, t))
  OBVIOUS
<1>2. n \in 0..Len(l) /\ n <= Len(t) /\ \A i \in 1..n : l[i] = t[i]
  BY <1>1, AgreedIsAPrefix
<1>3. Common(l, t) = IF n < Len(t) THEN n ELSE Len(t) - 1
  BY <1>1 DEF Common
<1>4. QED BY <1>2, <1>3

-----------------------------------------------------------------------------
(* Cells *)

(* t is a followed by b. *)
Joins(t, a, b) ==
  /\ Len(t) = Len(a) + Len(b)
  /\ \A i \in 1..Len(a) : t[i] = a[i]
  /\ \A i \in 1..Len(b) : t[Len(a) + i] = b[i]

LEMMA CellsOfParts ==
  ASSUME NEW S, NEW t \in Seq(S), NEW a \in Seq(S), NEW b \in Seq(S), Joins(t, a, b)
  PROVE  Cells(0, t) = Cells(0, a) \cup Cells(Len(a), b)
<1>1. /\ Len(a) \in Nat /\ Len(b) \in Nat /\ Len(t) = Len(a) + Len(b)
      /\ \A i \in 1..Len(a) : t[i] = a[i]
      /\ \A i \in 1..Len(b) : t[Len(a) + i] = b[i]
  BY DEF Joins
<1>2. Cells(0, t) \subseteq Cells(0, a) \cup Cells(Len(a), b)
  <2>1. SUFFICES ASSUME NEW i \in 1..Len(a) + Len(b)
                 PROVE  <<0 + i - 1, t[i]>> \in Cells(0, a) \cup Cells(Len(a), b)
    BY <1>1 DEF Cells
  <2>2. CASE i <= Len(a)
    BY <1>1, <2>2 DEF Cells
  <2>3. CASE i > Len(a)
    <3>1. i - Len(a) \in 1..Len(b) /\ 0 + i - 1 = Len(a) + (i - Len(a)) - 1
      BY <1>1, <2>3
    <3>2. t[i] = b[i - Len(a)]
      BY <1>1, <2>3, <3>1
    <3>3. QED BY <3>1, <3>2 DEF Cells
  <2>4. i <= Len(a) \/ i > Len(a)
    BY <1>1
  <2>5. QED BY <2>2, <2>3, <2>4, Zenon
<1>3. Cells(0, a) \subseteq Cells(0, t)
  BY <1>1 DEF Cells
<1>4. Cells(Len(a), b) \subseteq Cells(0, t)
  <2>1. SUFFICES ASSUME NEW i \in 1..Len(b)
                 PROVE  <<Len(a) + i - 1, b[i]>> \in Cells(0, t)
    BY DEF Cells
  <2>2. /\ Len(a) + i \in 1..Len(t) /\ t[Len(a) + i] = b[i]
        /\ Len(a) + i - 1 = 0 + (Len(a) + i) - 1
    BY <1>1
  <2>3. QED BY <2>2 DEF Cells
<1>5. QED BY <1>2, <1>3, <1>4

LEMMA CellsOfPrefix ==
  ASSUME NEW S, NEW s \in Seq(S), NEW n \in 0..Len(s)
  PROVE  {cell \in Cells(0, s) : cell[1] < n} = Cells(0, SubSeq(s, 1, n))
<1>1. /\ SubSeq(s, 1, n) \in Seq(S) /\ Len(SubSeq(s, 1, n)) = n
      /\ \A i \in 1..n : SubSeq(s, 1, n)[i] = s[i]
  BY SubSeqProperties
<1>2. Len(s) \in Nat
  OBVIOUS
<1>3. \A i \in 1..Len(s) : <<0 + i - 1, s[i]>>[1] < n <=> i \in 1..n
  BY <1>2
<1>4. QED BY <1>1, <1>2, <1>3 DEF Cells

-----------------------------------------------------------------------------
LEMMA Prefix ==
  ASSUME NEW S, NEW t \in Seq(S), NEW n \in 0..Len(t)
  PROVE  /\ SubSeq(t, 1, n) \in Seq(S) /\ Len(SubSeq(t, 1, n)) = n
         /\ \A i \in 1..n : SubSeq(t, 1, n)[i] = t[i]
  OBVIOUS

LEMMA Suffix ==
  ASSUME NEW S, NEW t \in Seq(S), NEW n \in 0..Len(t)
  PROVE  /\ SubSeq(t, n + 1, Len(t)) \in Seq(S) /\ Len(SubSeq(t, n + 1, Len(t))) = Len(t) - n
         /\ \A i \in 1..(Len(t) - n) : SubSeq(t, n + 1, Len(t))[i] = t[n + i]
  OBVIOUS

(* Reuse: a prefill leaves the cells of the prompt and nothing else, however   *)
(* much of it there was, provided that last_tokens told the truth.             *)
LEMMA ReuseIsExact ==
  ASSUME NEW S, NEW c, IsContext(c, S), ~c.slipped,
         c.last = <<>> \/ c.kv = Cells(0, c.last),
         NEW t \in Seq(S), Len(t) > 0, NEW n, n = Common(c.last, t)
  PROVE  /\ Kept(c, n).kv \cup Cells(n, SubSeq(t, n + 1, Len(t))) = Cells(0, t)
         /\ IsContext(Kept(c, n), S) /\ ~Kept(c, n).slipped
<1>1. /\ Len(t) \in Nat /\ Len(c.last) \in Nat /\ n \in 0..Len(c.last) /\ n \in 0..Len(t)
      /\ \A i \in 1..n : c.last[i] = t[i]
  BY CommonIsShared DEF IsContext
<1>2. PICK a \in Seq(S) : a = SubSeq(t, 1, n)
  BY <1>1, Prefix
<1>3. PICK b \in Seq(S) : b = SubSeq(t, n + 1, Len(t))
  BY <1>1, Suffix
<1>4. a \in Seq(S) /\ Len(a) = n /\ \A i \in 1..n : a[i] = t[i]
  BY <1>1, <1>2, Prefix
<1>5. b \in Seq(S) /\ Len(b) = Len(t) - n /\ \A i \in 1..Len(b) : b[i] = t[n + i]
  BY <1>1, <1>3, Suffix
<1>6. Cells(0, t) = Cells(0, a) \cup Cells(n, b)
  <2>1. Joins(t, a, b)
    BY <1>1, <1>4, <1>5 DEF Joins
  <2>2. a \in Seq(S) /\ b \in Seq(S) /\ Len(a) = n
    BY <1>1, <1>4, <1>5
  <2>3. Cells(0, t) = Cells(0, a) \cup Cells(Len(a), b)
    BY <2>1, <2>2, CellsOfParts
  <2>4. QED BY <2>2, <2>3
<1>7. SUFFICES /\ Kept(c, n).kv = Cells(0, a)
               /\ IsContext(Kept(c, n), S) /\ ~Kept(c, n).slipped
  BY <1>3, <1>6
<1>8. CASE n = 0
  <2>1. Kept(c, n) = Empty
    BY <1>8 DEF Kept
  <2>2. Cells(0, a) = {}
    BY <1>4, <1>8 DEF Cells
  <2>3. Empty.kv = {} /\ IsContext(Empty, S) /\ ~Empty.slipped
    BY DEF Empty, IsContext
  <2>4. QED BY <2>1, <2>2, <2>3
<1>9. CASE n > 0
  <2>1. c.kv = Cells(0, c.last) /\ c.last \in Seq(S)
    BY <1>1, <1>9 DEF IsContext
  <2>2. SubSeq(c.last, 1, n) = a
    <3>1. /\ SubSeq(c.last, 1, n) \in Seq(S) /\ Len(SubSeq(c.last, 1, n)) = n
          /\ \A i \in 1..n : SubSeq(c.last, 1, n)[i] = c.last[i]
      BY <1>1, <2>1, Prefix
    <3>2. QED BY <1>1, <1>4, <3>1, SeqEqual
  <2>3. CASE n < Len(c.last)
    <3>1. Kept(c, n) = [c EXCEPT !.kv = {cell \in @ : cell[1] < n}, !.last = SubSeq(@, 1, n)]
      BY <1>9, <2>3 DEF Kept
    <3>2. /\ Kept(c, n).kv = {cell \in c.kv : cell[1] < n}
          /\ Kept(c, n).last = SubSeq(c.last, 1, n)
          /\ Kept(c, n).slipped = c.slipped
          /\ Kept(c, n) = [kv |-> Kept(c, n).kv, logits |-> Kept(c, n).logits,
                           last |-> Kept(c, n).last, slipped |-> Kept(c, n).slipped]
      BY <3>1 DEF IsContext
    <3>3. {cell \in Cells(0, c.last) : cell[1] < n} = Cells(0, SubSeq(c.last, 1, n))
      BY <1>1, <2>1, CellsOfPrefix
    <3>4. QED BY <2>1, <2>2, <3>2, <3>3 DEF IsContext
  <2>4. CASE n = Len(c.last)
    <3>1. Kept(c, n) = c
      BY <1>9, <2>4 DEF Kept
    <3>2. a = c.last
      BY <2>1, <2>2, <2>4, SubSeqFull
    <3>3. QED BY <2>1, <3>1, <3>2
  <2>5. QED BY <1>1, <2>3, <2>4
<1>10. QED BY <1>1, <1>8, <1>9

-----------------------------------------------------------------------------
(* What a conversation that outgrew the context still shows *)

LEMMA RoundedUp ==
  ASSUME NEW x \in Nat, NEW w \in Nat \ {0}, NEW q, q = (x + w - 1) \div w
  PROVE  q \in Nat /\ q * w \in Nat /\ q * w >= x /\ q * w < x + w
<1>1. q \in Nat /\ q * w <= x + w - 1 /\ x + w - 1 < q * w + w
  OBVIOUS
<1>2. q * w \in Nat
  BY <1>1
<1>3. QED BY <1>1, <1>2

(* Two multiples of w in the same w numbers are the same. *)
LEMMA OneMultiple ==
  ASSUME NEW w \in Nat \ {0}, NEW q \in Nat, NEW r \in Nat, NEW x \in Nat,
         q * w >= x, q * w < x + w, r * w >= x, r * w < x + w
  PROVE  q = r
<1>1. ASSUME NEW m \in Nat, NEW n \in Nat, m < n
      PROVE  m * w + w <= n * w
  <2>1. PICK k \in Nat : n = m + 1 + k
    BY <1>1
  <2>2. n * w = m * w + w + k * w /\ k * w >= 0
    BY <2>1
  <2>3. QED BY <2>2
<1>2. q * w \in Nat /\ r * w \in Nat
  OBVIOUS
<1>3. ~(q < r)
  BY <1>1, <1>2
<1>4. ~(r < q)
  BY <1>1, <1>2
<1>5. QED BY <1>3, <1>4

(* Whole windows are discarded, as few as make it fit, one more each time it  *)
(* is full.                                                                   *)
LEMMA DiscardedFacts ==
  ASSUME NEW n \in Nat
  PROVE  /\ Discarded(n) \in Nat /\ n - Discarded(n) <= NCtx
         /\ Discarded(n) = 0 <=> n <= NCtx
         /\ Discarded(n) > 0 => n - Discarded(n) > NCtx - Window
         /\ n - Discarded(n) < NCtx => Discarded(n + 1) = Discarded(n)
         /\ n - Discarded(n) = NCtx => Discarded(n + 1) = Discarded(n) + Window
<1>1. NCtx \in Nat /\ Window \in Nat \ {0} /\ 2 * Window < NCtx
  BY ContextAssumption
<1>2. CASE n < NCtx
  BY <1>1, <1>2 DEF Discarded
<1>3. CASE n = NCtx
  <2>1. Discarded(n) = 0
    BY <1>1, <1>3 DEF Discarded
  <2>2. Discarded(n + 1) = ((n + 1 - NCtx + Window - 1) \div Window) * Window
    BY <1>1, <1>3 DEF Discarded
  <2>3. n + 1 - NCtx + Window - 1 = Window /\ Window \div Window = 1 /\ 1 * Window = Window
    BY <1>1, <1>3
  <2>4. QED BY <1>1, <1>3, <2>1, <2>2, <2>3
<1>4. CASE n > NCtx
  <2>1. PICK x \in Nat : x = n - NCtx
    BY <1>1, <1>4
  <2>2. PICK q : q = (x + Window - 1) \div Window
    OBVIOUS
  <2>3. PICK r : r = (x + 1 + Window - 1) \div Window
    OBVIOUS
  <2>4. Discarded(n) = q * Window /\ Discarded(n + 1) = r * Window
    BY <1>1, <1>4, <2>1, <2>2, <2>3 DEF Discarded
  <2>5. q \in Nat /\ q * Window \in Nat /\ q * Window >= x /\ q * Window < x + Window
    BY <1>1, <2>1, <2>2, RoundedUp
  <2>6. r \in Nat /\ r * Window \in Nat /\ r * Window >= x + 1 /\ r * Window < x + 1 + Window
    <3>1. PICK y \in Nat : y = x + 1
      BY <2>1
    <3>2. r = (y + Window - 1) \div Window
      BY <2>3, <3>1
    <3>3. r \in Nat /\ r * Window \in Nat /\ r * Window >= y /\ r * Window < y + Window
      BY <1>1, <3>1, <3>2, RoundedUp
    <3>4. QED BY <3>1, <3>3
  <2>7. x \in Nat /\ x > 0 /\ n = x + NCtx
    BY <1>1, <1>4, <2>1
  <2>8. n - Discarded(n) < NCtx => r = q
    <3>1. SUFFICES ASSUME n - Discarded(n) < NCtx PROVE r = q
      OBVIOUS
    <3>2. q * Window >= x + 1 /\ q * Window < x + 1 + Window
      BY <1>1, <2>4, <2>5, <2>7, <3>1
    <3>3. QED BY <1>1, <2>5, <2>6, <2>7, <3>2, OneMultiple
  <2>9. n - Discarded(n) = NCtx => r = q + 1
    <3>1. SUFFICES ASSUME n - Discarded(n) = NCtx PROVE r = q + 1
      OBVIOUS
    <3>2. q * Window = x
      BY <1>1, <2>4, <2>5, <2>7, <3>1
    <3>3. (q + 1) * Window = q * Window + Window
      BY <1>1, <2>5
    <3>4. /\ q + 1 \in Nat /\ x + 1 \in Nat
          /\ (q + 1) * Window >= x + 1 /\ (q + 1) * Window < x + 1 + Window
      BY <1>1, <2>5, <2>7, <3>2, <3>3
    <3>5. QED BY <1>1, <2>6, <3>4, OneMultiple
  <2>10. (q + 1) * Window = q * Window + Window
    BY <1>1, <2>5
  <2>11. QED BY <1>1, <2>4, <2>5, <2>7, <2>8, <2>9, <2>10
<1>5. QED BY <1>1, <1>2, <1>3, <1>4

(* What is left when the second of the first windows is taken out. *)
Cut(s) == SubSeq(s, 1, Window) \o SubSeq(s, 2 * Window + 1, Len(s))

(* Where the i-th token of what is shown stands in a conversation of which d   *)
(* tokens are discarded.                                                       *)
Place(i, d) == IF i <= Window THEN i ELSE i + d

(* a is the first window of s, b what follows the d tokens after it. *)
Parts(s, a, b, d) ==
  /\ Len(a) = Window /\ \A i \in 1..Window : a[i] = s[i]
  /\ Len(b) = Len(s) - (Window + d)
  /\ \A i \in 1..(Len(s) - (Window + d)) : b[i] = s[Window + d + i]

Shows(u, s, d) ==
  /\ Len(u) = Len(s) - d
  /\ \A i \in 1..(Len(s) - d) : u[i] = s[Place(i, d)]

LEMMA PartsShow ==
  ASSUME NEW S, NEW s \in Seq(S), NEW a \in Seq(S), NEW b \in Seq(S), NEW d \in Nat,
         Window + d <= Len(s), Parts(s, a, b, d)
  PROVE  a \o b \in Seq(S) /\ Shows(a \o b, s, d)
<1>1. /\ Window \in Nat /\ Len(s) \in Nat /\ Window + d <= Len(s)
      /\ Len(a) = Window /\ Len(b) = Len(s) - (Window + d)
      /\ \A i \in 1..Window : a[i] = s[i]
      /\ \A i \in 1..(Len(s) - (Window + d)) : b[i] = s[Window + d + i]
  BY ContextAssumption DEF Parts
<1>2. a \o b \in Seq(S) /\ Len(a \o b) = Len(a) + Len(b)
  OBVIOUS
<1>3. ASSUME NEW i \in 1..(Len(s) - d)
      PROVE  (a \o b)[i] = s[Place(i, d)]
  <2>1. i \in 1..(Len(a) + Len(b))
    BY <1>1
  <2>2. (a \o b)[i] = IF i <= Len(a) THEN a[i] ELSE b[i - Len(a)]
    BY <2>1
  <2>3. CASE i <= Window
    BY <1>1, <2>2, <2>3 DEF Place
  <2>4. CASE i > Window
    <3>1. i - Window \in 1..(Len(s) - (Window + d)) /\ Window + d + (i - Window) = i + d
      BY <1>1, <2>4
    <3>2. (a \o b)[i] = b[i - Window]
      BY <1>1, <2>2, <2>4
    <3>3. b[i - Window] = s[i + d]
      BY <1>1, <3>1
    <3>4. Place(i, d) = i + d
      BY <1>1, <2>4 DEF Place
    <3>5. QED BY <3>2, <3>3, <3>4
  <2>5. i <= Window \/ i > Window
    BY <1>1
  <2>6. QED BY <2>3, <2>4, <2>5
<1>4. QED BY <1>1, <1>2, <1>3 DEF Shows

LEMMA Spliced ==
  ASSUME NEW S, NEW s \in Seq(S), NEW d \in Nat, Window + d <= Len(s)
  PROVE  LET u == SubSeq(s, 1, Window) \o SubSeq(s, Window + d + 1, Len(s)) IN
           u \in Seq(S) /\ Shows(u, s, d)
<1>1. Window \in 0..Len(s) /\ Window + d \in 0..Len(s)
  BY ContextAssumption
<1>2. /\ SubSeq(s, 1, Window) \in Seq(S) /\ SubSeq(s, Window + d + 1, Len(s)) \in Seq(S)
      /\ Parts(s, SubSeq(s, 1, Window), SubSeq(s, Window + d + 1, Len(s)), d)
  BY <1>1, Prefix, Suffix DEF Parts
<1>3. QED BY <1>2, PartsShow

LEMMA CutFacts ==
  ASSUME NEW S, NEW s \in Seq(S), Len(s) >= 2 * Window
  PROVE  Cut(s) \in Seq(S) /\ Shows(Cut(s), s, Window)
<1>1. Window \in Nat /\ Window + Window <= Len(s) /\ 2 * Window + 1 = Window + Window + 1
  BY ContextAssumption
<1>2. Cut(s) = SubSeq(s, 1, Window) \o SubSeq(s, Window + Window + 1, Len(s))
  BY <1>1 DEF Cut
<1>3. QED BY <1>1, <1>2, Spliced

LEMMA ViewFacts ==
  ASSUME NEW S, NEW t \in Seq(S)
  PROVE  View(t) \in Seq(S) /\ Shows(View(t), t, Discarded(Len(t)))
<1>1. NCtx \in Nat /\ Window \in Nat \ {0} /\ 2 * Window < NCtx /\ Len(t) \in Nat
  BY ContextAssumption
<1>2. PICK d : d = Discarded(Len(t))
  OBVIOUS
<1>3. /\ d \in Nat /\ Len(t) - d <= NCtx
      /\ d > 0 => Len(t) - d > NCtx - Window
  BY <1>1, <1>2, DiscardedFacts
<1>4. CASE d = 0
  <2>1. View(t) = t
    BY <1>2, <1>4 DEF View
  <2>2. \A i \in 1..Len(t) : Place(i, d) = i
    BY <1>1, <1>4 DEF Place
  <2>3. Shows(t, t, d)
    BY <1>1, <1>4, <2>2 DEF Shows
  <2>4. QED BY <1>2, <2>1, <2>3
<1>5. CASE d # 0
  <2>1. View(t) = SubSeq(t, 1, Window) \o SubSeq(t, Window + d + 1, Len(t))
    BY <1>2, <1>5, Zenon DEF View
  <2>2. Window + d <= Len(t)
    BY <1>1, <1>3, <1>5
  <2>3. View(t) \in Seq(S) /\ Shows(View(t), t, d)
    BY <1>3, <2>1, <2>2, Spliced
  <2>4. QED BY <1>2, <2>3
<1>6. QED BY <1>4, <1>5

LEMMA ShownOnce ==
  ASSUME NEW S, NEW u \in Seq(S), NEW w \in Seq(S), NEW s, NEW d, Shows(u, s, d), Shows(w, s, d)
  PROVE  u = w
<1>1. Len(u) = Len(w) /\ \A i \in 1..Len(u) : u[i] = w[i]
  BY DEF Shows
<1>2. QED BY <1>1, SeqEqual

LEMMA Longer ==
  ASSUME NEW S, NEW t \in Seq(S), NEW v \in S
  PROVE  /\ t \o <<v>> \in Seq(S) /\ Len(t \o <<v>>) = Len(t) + 1
         /\ \A i \in 1..Len(t) : (t \o <<v>>)[i] = t[i]
         /\ (t \o <<v>>)[Len(t) + 1] = v
  OBVIOUS

(* With one token more, what is shown grows by it or, when it was full, loses  *)
(* a window first: the cache does the same.                                    *)
LEMMA ViewGrows ==
  ASSUME NEW S, NEW t \in Seq(S), NEW v \in S
  PROVE  /\ View(t) \in Seq(S) /\ Len(View(t)) \in 0..NCtx
         /\ Len(View(t)) < NCtx => View(t \o <<v>>) = View(t) \o <<v>>
         /\ Len(View(t)) = NCtx => View(t \o <<v>>) = Cut(View(t)) \o <<v>>
<1>1. NCtx \in Nat /\ Window \in Nat \ {0} /\ 2 * Window < NCtx /\ Len(t) \in Nat
  BY ContextAssumption
<1>2. PICK d : d = Discarded(Len(t))
  OBVIOUS
<1>3. /\ d \in Nat /\ Len(t) - d <= NCtx
      /\ d = 0 <=> Len(t) <= NCtx
      /\ d > 0 => Len(t) - d > NCtx - Window
      /\ Len(t) - d < NCtx => Discarded(Len(t) + 1) = d
      /\ Len(t) - d = NCtx => Discarded(Len(t) + 1) = d + Window
  BY <1>1, <1>2, DiscardedFacts
<1>4. PICK s : s = View(t)
  OBVIOUS
<1>5. s \in Seq(S) /\ Len(s) = Len(t) - d /\ \A i \in 1..(Len(t) - d) : s[i] = t[Place(i, d)]
  BY <1>2, <1>4, ViewFacts DEF Shows
<1>6. PICK u : u = t \o <<v>>
  OBVIOUS
<1>7. /\ u \in Seq(S) /\ Len(u) = Len(t) + 1 /\ u[Len(t) + 1] = v
      /\ \A i \in 1..Len(t) : u[i] = t[i]
  BY <1>6, Longer
<1>8. View(u) \in Seq(S) /\ Shows(View(u), u, Discarded(Len(t) + 1))
  BY <1>7, ViewFacts
<1>9. Len(s) \in 0..NCtx
  BY <1>1, <1>3, <1>5
<1>10. ASSUME Len(s) < NCtx PROVE View(u) = s \o <<v>>
  <2>1. PICK w : w = s \o <<v>>
    OBVIOUS
  <2>2. /\ w \in Seq(S) /\ Len(w) = Len(s) + 1 /\ w[Len(s) + 1] = v
        /\ \A i \in 1..Len(s) : w[i] = s[i]
    BY <1>5, <2>1, Longer
  <2>3. ASSUME NEW i \in 1..(Len(u) - d) PROVE w[i] = u[Place(i, d)]
    <3>1. CASE i <= Len(s)
      <4>1. i \in 1..(Len(t) - d) /\ Place(i, d) \in 1..Len(t)
        BY <1>1, <1>3, <1>5, <3>1 DEF Place
      <4>2. QED BY <1>5, <1>7, <2>2, <4>1
    <3>2. CASE i = Len(s) + 1
      <4>1. Place(i, d) = Len(t) + 1
        BY <1>1, <1>3, <1>5, <3>2 DEF Place
      <4>2. QED BY <1>7, <2>2, <3>2, <4>1
    <3>3. i <= Len(s) \/ i = Len(s) + 1
      <4>1. Len(u) = Len(t) + 1 /\ Len(s) = Len(t) - d
        BY <1>5, <1>7
      <4>2. QED BY <1>1, <1>3, <4>1
    <3>4. QED BY <3>1, <3>2, <3>3
  <2>4. Shows(w, u, d)
    BY <1>1, <1>3, <1>5, <1>7, <2>2, <2>3 DEF Shows
  <2>5. Discarded(Len(t) + 1) = d
    BY <1>3, <1>5, <1>10
  <2>6. View(u) = w
    BY <1>8, <2>2, <2>4, <2>5, ShownOnce
  <2>7. QED BY <2>1, <2>6
<1>11. ASSUME Len(s) = NCtx PROVE View(u) = Cut(s) \o <<v>>
  <2>1. PICK c : c = Cut(s)
    OBVIOUS
  <2>2. c \in Seq(S) /\ Len(c) = NCtx - Window /\ \A i \in 1..(NCtx - Window) : c[i] = s[Place(i, Window)]
    <3>1. s \in Seq(S) /\ Len(s) >= 2 * Window
      BY <1>1, <1>5, <1>11
    <3>2. c \in Seq(S) /\ Shows(c, s, Window)
      BY <2>1, <3>1, CutFacts
    <3>3. QED BY <1>11, <3>2 DEF Shows
  <2>3. PICK w : w = c \o <<v>>
    OBVIOUS
  <2>4. /\ w \in Seq(S) /\ Len(w) = NCtx - Window + 1 /\ w[NCtx - Window + 1] = v
        /\ \A i \in 1..(NCtx - Window) : w[i] = c[i]
    BY <2>2, <2>3, Longer
  <2>5. Len(u) - (d + Window) = NCtx - Window + 1 /\ Len(t) = NCtx + d
    <3>1. Len(t) - d = NCtx /\ Len(u) = Len(t) + 1
      BY <1>5, <1>7, <1>11
    <3>2. d \in Nat
      BY <1>3
    <3>3. QED BY <1>1, <3>1, <3>2
  <2>6. ASSUME NEW i \in 1..(NCtx - Window + 1) PROVE w[i] = u[Place(i, d + Window)]
    <3>1. CASE i <= NCtx - Window
      <4>1. /\ i \in 1..(NCtx - Window) /\ Place(i, Window) \in 1..(Len(t) - d)
            /\ Place(Place(i, Window), d) = Place(i, d + Window)
            /\ Place(i, d + Window) \in 1..Len(t)
        BY <1>1, <1>3, <2>5, <3>1 DEF Place
      <4>2. w[i] = t[Place(i, d + Window)]
        BY <1>5, <2>2, <2>4, <4>1
      <4>3. QED BY <1>7, <4>1, <4>2
    <3>2. CASE i = NCtx - Window + 1
      <4>1. Place(i, d + Window) = Len(t) + 1
        BY <1>1, <1>3, <2>5, <3>2 DEF Place
      <4>2. QED BY <1>7, <2>4, <3>2, <4>1
    <3>3. QED BY <1>1, <3>1, <3>2
  <2>7. Shows(w, u, d + Window)
    BY <2>4, <2>5, <2>6 DEF Shows
  <2>8. Discarded(Len(t) + 1) = d + Window
    BY <1>3, <1>5, <1>11
  <2>9. View(u) = w
    BY <1>8, <2>4, <2>7, <2>8, ShownOnce
  <2>10. QED BY <2>1, <2>3, <2>9
<1>12. QED BY <1>4, <1>5, <1>6, <1>9, <1>10, <1>11

LEMMA CellsOfCut ==
  ASSUME NEW S, NEW s \in Seq(S), Len(s) >= 2 * Window
  PROVE  Cells(0, Cut(s)) =
           {cell \in Cells(0, s) : cell[1] < Window}
             \cup {<<cell[1] - Window, cell[2]>> : cell \in {x \in Cells(0, s) : x[1] >= 2 * Window}}
<1>1. Window \in Nat /\ Len(s) \in Nat
  BY ContextAssumption
<1>2. PICK c : c = Cut(s)
  OBVIOUS
<1>3. /\ c \in Seq(S) /\ Len(c) = Len(s) - Window
      /\ \A i \in 1..(Len(s) - Window) : c[i] = s[Place(i, Window)]
  BY <1>2, CutFacts DEF Shows
<1> DEFINE Front == {cell \in Cells(0, s) : cell[1] < Window}
           Back == {<<cell[1] - Window, cell[2]>> : cell \in {x \in Cells(0, s) : x[1] >= 2 * Window}}
<1>4. Cells(0, c) \subseteq Front \cup Back
  <2>1. SUFFICES ASSUME NEW i \in 1..(Len(s) - Window) PROVE <<0 + i - 1, c[i]>> \in Front \cup Back
    BY <1>3 DEF Cells
  <2>2. CASE i <= Window
    <3>1. c[i] = s[i] /\ i \in 1..Len(s) /\ 0 + i - 1 < Window
      BY <1>1, <1>3, <2>2 DEF Place
    <3>2. QED BY <3>1 DEF Cells
  <2>3. CASE i > Window
    <3>1. /\ c[i] = s[i + Window] /\ i + Window \in 1..Len(s)
          /\ 0 + (i + Window) - 1 >= 2 * Window /\ (0 + (i + Window) - 1) - Window = 0 + i - 1
      BY <1>1, <1>3, <2>3 DEF Place
    <3>2. PICK x : x = <<0 + (i + Window) - 1, s[i + Window]>>
      OBVIOUS
    <3>3. x \in Cells(0, s) /\ x[1] >= 2 * Window /\ <<x[1] - Window, x[2]>> = <<0 + i - 1, c[i]>>
      BY <3>1, <3>2 DEF Cells
    <3>4. QED BY <3>3
  <2>4. QED BY <1>1, <2>2, <2>3
<1>5. Front \subseteq Cells(0, c)
  <2>1. SUFFICES ASSUME NEW x \in Cells(0, s), x[1] < Window PROVE x \in Cells(0, c)
    OBVIOUS
  <2>2. PICK i \in 1..Len(s) : x = <<0 + i - 1, s[i]>>
    BY DEF Cells
  <2>3. i <= Window /\ i \in 1..(Len(s) - Window)
    <3>1. 0 + i - 1 < Window
      BY <2>1, <2>2
    <3>2. QED BY <1>1, <3>1
  <2>4. c[i] = s[i]
    BY <1>3, <2>3 DEF Place
  <2>5. QED BY <1>3, <2>2, <2>3, <2>4 DEF Cells
<1>6. Back \subseteq Cells(0, c)
  <2>1. SUFFICES ASSUME NEW i \in 1..Len(s), 0 + i - 1 >= 2 * Window
                 PROVE <<(0 + i - 1) - Window, s[i]>> \in Cells(0, c)
    BY DEF Cells
  <2>2. PICK k \in 1..(Len(s) - Window) : i = k + Window /\ k > Window
    BY <1>1, <2>1
  <2>3. c[k] = s[i] /\ 0 + k - 1 = (0 + i - 1) - Window
    <3>1. Place(k, Window) = i /\ 0 + k - 1 = (0 + i - 1) - Window
      BY <1>1, <2>2 DEF Place
    <3>2. c[k] = s[Place(k, Window)]
      BY <1>3, <2>2
    <3>3. QED BY <3>1, <3>2
  <2>4. QED BY <1>3, <2>2, <2>3 DEF Cells
<1>7. QED BY <1>2, <1>4, <1>5, <1>6

-----------------------------------------------------------------------------
(* Each operator makes a context of a context *)

LEMMA EmptyContext ==
  ASSUME NEW S
  PROVE  /\ IsContext(Empty, S) /\ ~Empty.slipped /\ Empty.kv = {}
         /\ Empty.last = <<>> /\ Cells(0, <<>>) = {}
  BY DEF Empty, IsContext, Cells

LEMMA DecodedContext ==
  ASSUME NEW S, NEW c, IsContext(c, S), NEW p, NEW t
  PROVE  /\ IsContext(Decoded(c, p, t), S)
         /\ Decoded(c, p, t).kv = c.kv \cup Cells(p, t)
         /\ Decoded(c, p, t).logits = c.kv \cup Cells(p, t)
         /\ Decoded(c, p, t).last = c.last /\ Decoded(c, p, t).slipped = c.slipped
<1> DEFINE cells == c.kv \cup Cells(p, t)
<1>1. Decoded(c, p, t) = [c EXCEPT !.kv = cells, !.logits = cells]
  BY DEF Decoded
<1> HIDE DEF cells
<1>2. Decoded(c, p, t) = [kv |-> cells, logits |-> cells, last |-> c.last, slipped |-> c.slipped]
  BY <1>1 DEF IsContext
<1>3. QED BY <1>2 DEF IsContext, cells

LEMMA UndecodedContext ==
  ASSUME NEW S, NEW c, IsContext(c, S), NEW p, NEW t, NEW d \in Undecoded(c, p, t)
  PROVE  IsContext(d, S) /\ d.slipped
  BY DEF IsContext, Undecoded

LEMMA RenamedContext ==
  ASSUME NEW S, NEW c, IsContext(c, S), NEW t \in Seq(S)
  PROVE  /\ IsContext([c EXCEPT !.last = t], S)
         /\ [c EXCEPT !.last = t].last = t
         /\ [c EXCEPT !.last = t].kv = c.kv /\ [c EXCEPT !.last = t].logits = c.logits
         /\ [c EXCEPT !.last = t].slipped = c.slipped
  BY DEF IsContext

LEMMA KeptContext ==
  ASSUME NEW S, NEW c, IsContext(c, S), NEW n \in 0..Len(c.last)
  PROVE  IsContext(Kept(c, n), S)
<1>1. CASE n = 0
  BY <1>1, EmptyContext DEF Kept
<1>2. CASE n # 0 /\ n < Len(c.last)
  <2>1. SubSeq(c.last, 1, n) \in Seq(S)
    BY Prefix DEF IsContext
  <2>2. Kept(c, n) = [c EXCEPT !.kv = {cell \in @ : cell[1] < n}, !.last = SubSeq(@, 1, n)]
    BY <1>2 DEF Kept
  <2>3. QED BY <2>1, <2>2 DEF IsContext
<1>3. CASE n # 0 /\ ~(n < Len(c.last))
  BY <1>3 DEF Kept
<1>4. QED BY <1>1, <1>2, <1>3

LEMMA PrunedContext ==
  ASSUME NEW S, NEW c, IsContext(c, S)
  PROVE  /\ IsContext(Pruned(c), S) /\ Pruned(c).slipped = c.slipped
         /\ Len(c.last) >= 2 * Window =>
              /\ Pruned(c).last = Cut(c.last)
              /\ c.kv = Cells(0, c.last) => Pruned(c).kv = Cells(0, Cut(c.last))
<1> DEFINE front == {cell \in c.kv : cell[1] < Window}
           back == {<<cell[1] - Window, cell[2]>> : cell \in {x \in c.kv : x[1] >= 2 * Window}}
           left == IF Len(c.last) >= 2 * Window THEN Cut(c.last) ELSE c.last
<1>1. Pruned(c) = [c EXCEPT !.kv = front \cup back, !.last = left]
  BY DEF Pruned, Cut
<1>2. c.last \in Seq(S) /\ left \in Seq(S)
  BY CutFacts DEF IsContext
<1>3. c.kv = Cells(0, c.last) /\ Len(c.last) >= 2 * Window => front \cup back = Cells(0, Cut(c.last))
  BY <1>2, CellsOfCut
<1> HIDE DEF front, back
<1>4. IsContext(Pruned(c), S) /\ Pruned(c).slipped = c.slipped
  BY <1>1, <1>2 DEF IsContext
<1>5. Pruned(c).kv = front \cup back /\ Pruned(c).last = left
  BY <1>1 DEF IsContext
<1>6. QED BY <1>3, <1>4, <1>5

-----------------------------------------------------------------------------
(* Types, and who holds the lock *)

Active == {"entered", "loop", "token", "finish", "closing"}

JobRecord ==
  [pc : {"none", "configured", "waiting", "done", "over"} \cup Active,
   kind : Generating \cup Loading \cup {None}, hard : BOOLEAN, prompt : Seq(Tokens),
   path : Models \cup {None}, id : Models \cup {None}, format : Models \cup {None},
   said : Seq(Vocab), past : 0..NCtx, token : Vocab \cup {None},
   told : BOOLEAN, gone : BOOLEAN, out : {None, "ok", "cancelled", "error"}]

(* What a request is in each phase. *)
Shaped(j) ==
  /\ job[j].pc \in Active => lock = j /\ Is(j, Generating)
  /\ job[j].pc \in {"waiting", "entered"} /\ Is(j, Generating) =>
       Len(job[j].prompt) > 0 /\ job[j].said = <<>>
  /\ At(j, "configured") => Is(j, {"apply", "autoload"})
  /\ At(j, "waiting") /\ Is(j, {"apply", "autoload"}) => job[j].path \in Routers
  /\ job[j].pc \in {"loop", "token"} => Len(job[j].said) < MaxAnswer
  /\ Len(job[j].said) <= MaxAnswer
  /\ At(j, "token") => job[j].past < NCtx /\ job[j].token \in Vocab

ManagerTypes ==
  /\ engine = None \/ engine \in [model : Models, layers : Modes]
  /\ IsContext(context, Tokens)
  /\ path \in Models \cup {None} /\ layers \in Modes /\ role \in {"Router", "Expert"}
  /\ template \in Models \cup {None}
  /\ engine # None => path \in Models

WorldTypes ==
  /\ config \in Routers /\ game \in Modes
  /\ latched \in Modes \cup {None} /\ target \in Modes \cup {None} /\ spoiled \in BOOLEAN

Types ==
  /\ lock \in Job \cup {None} /\ cancel \in BOOLEAN
  /\ ManagerTypes /\ WorldTypes
  /\ job \in [Job -> JobRecord]
  /\ \A j \in Job : Shaped(j)

LEMMA TypesImplyTypeOK == Types => TypeOK
<1>1. SUFFICES ASSUME Types PROVE TypeOK
  OBVIOUS
<1>2. context.last \in Seq(Tokens)
  BY <1>1 DEF Types, ManagerTypes, IsContext
<1>3. ASSUME NEW j \in Job
      PROVE  /\ job[j].pc \in {"none", "configured", "waiting", "entered", "loop", "token",
                         "finish", "closing", "done", "over"}
             /\ job[j].kind \in Generating \cup Loading \cup {None}
             /\ job[j].past \in 0..NCtx /\ Len(job[j].said) <= MaxAnswer
             /\ job[j].out \in {None, "ok", "cancelled", "error"}
             /\ job[j].pc \in {"entered", "loop", "token", "finish", "closing"} => lock = j
  BY <1>1, <1>3 DEF Types, JobRecord, Shaped, Active
<1>4. QED BY <1>1, <1>2, <1>3 DEF Types, ManagerTypes, WorldTypes, TypeOK

LEMMA TypesInit == Init => Types
<1>1. SUFFICES ASSUME Init PROVE Types
  OBVIOUS
<1>2. ManagerTypes
  BY <1>1, EmptyContext DEF Init, ManagerTypes, Modes
<1>3. WorldTypes
  BY <1>1, EngineAssumption DEF Init, WorldTypes, Modes
<1>4. Idle \in JobRecord /\ Loader \in Job
  BY EngineAssumption, ContextAssumption DEF Idle, JobRecord, Job, Loader
<1>5. [Idle EXCEPT !.pc = "configured", !.kind = "autoload"] \in JobRecord
  BY <1>4 DEF JobRecord, Idle, Loading
<1>6. job \in [Job -> JobRecord]
  BY <1>1, <1>4, <1>5 DEF Init
<1>7. ASSUME NEW j \in Job PROVE Shaped(j)
  BY <1>1, EngineAssumption DEF Init, Shaped, Idle, Active, Is, At
<1>8. QED BY <1>1, <1>2, <1>3, <1>6, <1>7 DEF Init, Types

(* A step of one request leaves the others as they are. *)
LEMMA OneRequest ==
  ASSUME Types, NEW j \in Job, NEW r \in JobRecord, job' = [job EXCEPT ![j] = r],
         lock' = lock \/ \A i \in Job \ {j} : job[i].pc \notin Active,
         Shaped(j)'
  PROVE  /\ job' \in [Job -> JobRecord] /\ \A i \in Job : Shaped(i)'
         /\ job'[j] = r /\ \A i \in Job \ {j} : job'[i] = job[i]
<1>1. /\ job \in [Job -> JobRecord] /\ \A i \in Job : Shaped(i)
  BY DEF Types
<1>2. /\ job' \in [Job -> JobRecord] /\ job'[j] = r
      /\ \A i \in Job \ {j} : job'[i] = job[i]
  BY <1>1
<1>3. ASSUME NEW i \in Job \ {j} PROVE Shaped(i)'
  BY <1>1, <1>2 DEF Shaped, At, Is
<1>4. QED BY <1>2, <1>3

LEMMA PersonaContext ==
  /\ IsContext([Decoded(Empty, 0, Persona) EXCEPT !.last = Persona], Tokens)
  /\ \A c \in Undecoded(Empty, 0, Persona) : IsContext(c, Tokens) /\ c.slipped
<1>1. Persona \in Seq(Tokens)
  BY EngineAssumption DEF Conversations
<1>2. IsContext(Empty, Tokens)
  BY EmptyContext
<1>3. IsContext(Decoded(Empty, 0, Persona), Tokens)
  BY <1>2, DecodedContext
<1>4. QED BY <1>1, <1>2, <1>3, RenamedContext, UndecodedContext

LEMMA SwapTypes ==
  ASSUME Types, NEW m \in Models, NEW n \in Modes, SwapModel(m, n) \/ SwapAndWarm(m, n)
  PROVE  /\ engine' = None \/ engine' \in [model : Models, layers : Modes]
         /\ IsContext(context', Tokens)
         /\ path' \in Models \cup {None} /\ layers' \in Modes /\ template' \in Models \cup {None}
         /\ engine' # None => path' \in Models
<1>1. CASE Swapped(m, n)
  BY <1>1, EmptyContext, PersonaContext
  DEF Types, ManagerTypes, Swapped, SwapModel, SwapAndWarm, NotSwapped
<1>2. CASE NotSwapped(m)
  BY <1>2, EmptyContext DEF Types, ManagerTypes, NotSwapped
<1>3. QED BY <1>1, <1>2 DEF SwapModel, SwapAndWarm

LEMMA LoadTypes ==
  ASSUME Types, NEW j \in Job, Load(j)
  PROVE  Types'
<1>1. job' = [job EXCEPT ![j] = [Idle EXCEPT !.pc = "over"]] /\ UNCHANGED lock
  BY DEF Load, Over
<1>2. job' \in [Job -> JobRecord] /\ \A i \in Job : Shaped(i)'
  <2>1. Idle \in JobRecord
    BY EngineAssumption, ContextAssumption DEF Idle, JobRecord
  <2>2. [Idle EXCEPT !.pc = "over"] \in JobRecord
    BY <2>1 DEF JobRecord
  <2>3. job'[j] = [Idle EXCEPT !.pc = "over"]
    BY <1>1 DEF Types
  <2>4. Shaped(j)'
    BY <2>3, EngineAssumption DEF Shaped, Idle, Active, Is, At
  <2>5. QED BY <1>1, <2>2, <2>4, OneRequest
<1>3. ManagerTypes'
  <2>1. role' = role
    BY DEF Load
  <2>2. CASE LoadByCommand(j)
    <3>1. PICK m \in Shelf, n \in Modes : SwapModel(m, n)
      BY <2>2 DEF LoadByCommand
    <3>2. m \in Models
      BY <3>1, EngineAssumption
    <3>3. QED BY <2>1, <3>1, <3>2, SwapTypes DEF ManagerTypes, Types
  <2>3. CASE LoadConfigured(j)
    <3>1. CASE UNCHANGED <<engine, context, path, layers, template>>
      BY <2>1, <3>1 DEF Types, ManagerTypes
    <3>2. CASE SwapAndWarm(job[j].path, layers)
      <4>1. job[j].path \in Models
        BY <2>3 DEF Load, LoadConfigured, Types, Shaped, Is, At, Models
      <4>2. layers \in Modes
        BY DEF Types, ManagerTypes
      <4>3. QED BY <2>1, <3>2, <4>1, <4>2, SwapTypes DEF ManagerTypes, Types
    <3>3. QED BY <2>3, <3>1, <3>2 DEF LoadConfigured, OwnLayers
  <2>4. QED BY <2>2, <2>3 DEF Load
<1>4. WorldTypes'
  BY DEF Types, WorldTypes, ManagerTypes, Load, LoadByCommand, LoadConfigured
<1>5. cancel' = cancel
  BY DEF Load
<1>6. QED BY <1>1, <1>2, <1>3, <1>4, <1>5 DEF Types

LEMMA GameLoopTypes ==
  ASSUME Types, GameLoop
  PROVE  Types'
<1>1. UNCHANGED <<lock, role, cancel, config, game, job>>
  BY DEF GameLoop, Poll, Reload, manager
<1>2. ManagerTypes'
  <2>1. CASE UNCHANGED manager
    BY <2>1 DEF manager, Types, ManagerTypes
  <2>2. CASE engine # None /\ target # None /\ SwapAndWarm(path, target)
    <3>1. path \in Models /\ target \in Modes
      BY <2>2 DEF Types, ManagerTypes, WorldTypes
    <3>2. QED BY <1>1, <2>2, <3>1, SwapTypes DEF ManagerTypes, Types
  <2>3. QED BY <2>1, <2>2 DEF GameLoop, Poll, Reload, manager
<1>3. WorldTypes'
  BY EngineAssumption DEF GameLoop, Poll, Reload, Types, WorldTypes
<1>4. ASSUME NEW j \in Job PROVE Shaped(j)'
  BY <1>1 DEF Types, Shaped, At, Is
<1>5. QED BY <1>1, <1>2, <1>3, <1>4 DEF Types

LEMMA AskTypes ==
  ASSUME Types, NEW j \in Job, Arrive(j) \/ ReadConfig(j)
  PROVE  Types'
<1>1. UNCHANGED <<lock, manager, cancel, game, latched, target, spoiled>>
  BY DEF Arrive, ReadConfig, world
<1>2. config' \in Routers
  BY DEF Arrive, Ask, AskToSwap, Apply, ReadConfig, world, Types, WorldTypes
<1>3. Idle \in JobRecord
  BY EngineAssumption, ContextAssumption DEF Idle, JobRecord
<1>4. job' \in [Job -> JobRecord] /\ \A i \in Job : Shaped(i)'
  <2>1. CASE Ask(j)
    <3>1. PICK k \in Generating, p \in Prompts \cup {Picture} :
            job' = [job EXCEPT ![j] =
              [Idle EXCEPT !.pc = "waiting", !.kind = k, !.prompt = p,
                 !.hard = k \in Nested /\ p \in Hard,
                 !.format = IF k = "direct" THEN template ELSE None,
                 !.id = IF k = "look" THEN path ELSE None]]
      BY <2>1 DEF Ask
    <3>2. p \in Seq(Tokens) /\ Len(p) > 0
      BY EngineAssumption DEF Conversations
    <3> DEFINE f == IF k = "direct" THEN template ELSE None
               m == IF k = "look" THEN path ELSE None
               h == k \in Nested /\ p \in Hard
               r == [Idle EXCEPT !.pc = "waiting", !.kind = k, !.prompt = p, !.hard = h,
                                 !.format = f, !.id = m]
    <3>3. f \in Models \cup {None} /\ m \in Models \cup {None} /\ h \in BOOLEAN
      BY DEF Types, ManagerTypes
    <3>4. job' = [job EXCEPT ![j] = r]
      BY <3>1
    <3> HIDE DEF f, m, h
    <3>5. r \in JobRecord
      BY <1>3, <3>2, <3>3 DEF JobRecord
    <3>6. r.pc = "waiting" /\ r.kind = k /\ r.prompt = p /\ r.said = <<>> /\ k \in Generating
      BY DEF Idle
    <3> HIDE DEF r
    <3>7. job'[j] = r
      BY <3>4 DEF Types
    <3>8. Shaped(j)'
      BY <3>2, <3>6, <3>7, EngineAssumption
      DEF Shaped, Active, At, Is, Generating, Nested, Direct
    <3>9. QED BY <1>1, <3>4, <3>5, <3>8, OneRequest
  <2>2. CASE AskToSwap(j) \/ Apply(j)
    <3>1. PICK q \in {"waiting", "configured"}, k \in {"swap", "apply"} :
            /\ job' = [job EXCEPT ![j] = [Idle EXCEPT !.pc = q, !.kind = k]]
            /\ (q = "waiting" /\ k = "swap") \/ (q = "configured" /\ k = "apply")
      BY <2>2 DEF AskToSwap, Apply
    <3> DEFINE r == [Idle EXCEPT !.pc = q, !.kind = k]
    <3>2. r \in JobRecord
      BY <1>3, <3>1 DEF JobRecord, Loading
    <3>3. r.pc = q /\ r.kind = k /\ r.said = <<>>
      BY DEF Idle
    <3>4. job' = [job EXCEPT ![j] = r]
      BY <3>1
    <3> HIDE DEF r
    <3>5. job'[j] = r
      BY <3>4 DEF Types
    <3>6. /\ Len(r.said) = 0 /\ MaxAnswer \in Nat
          /\ (r.pc = "waiting" /\ r.kind = "swap") \/ (r.pc = "configured" /\ r.kind = "apply")
      BY <3>1, <3>3, EngineAssumption
    <3>7. Shaped(j)'
      BY <3>5, <3>6 DEF Shaped, Active, At, Is, Generating, Nested, Direct
    <3>8. QED BY <1>1, <3>2, <3>4, <3>7, OneRequest
  <2>3. CASE ReadConfig(j)
    <3> DEFINE r == [job[j] EXCEPT !.pc = "waiting", !.path = config]
    <3>1. job' = [job EXCEPT ![j] = r]
      BY <2>3 DEF ReadConfig
    <3>2. r \in JobRecord
      BY DEF Types, WorldTypes, JobRecord, Models
    <3>3. job'[j] = r
      BY <3>1 DEF Types
    <3>4. Shaped(j)'
      <4>1. /\ job'[j].pc = "waiting" /\ job'[j].path = config
            /\ job'[j].kind = job[j].kind /\ job'[j].said = job[j].said
        BY <3>3 DEF Types, JobRecord
      <4>2. config \in Routers /\ Shaped(j) /\ At(j, "configured")
        BY <2>3 DEF Types, WorldTypes, ReadConfig
      <4>3. QED BY <4>1, <4>2 DEF Shaped, Active, At, Is, Generating, Nested, Direct
    <3>5. QED BY <1>1, <3>1, <3>2, <3>4, OneRequest
  <2>4. QED BY <2>1, <2>2, <2>3 DEF Arrive
<1>5. ManagerTypes' /\ WorldTypes'
  BY <1>1, <1>2 DEF manager, Types, ManagerTypes, WorldTypes
<1>6. QED BY <1>1, <1>4, <1>5 DEF Types

LEMMA AutoSwapTypes ==
  ASSUME Types, NEW j \in Job, MaybeAutoSwap(j)
  PROVE  ManagerTypes'
<1>1. CASE UNCHANGED manager
  BY <1>1 DEF manager, Types, ManagerTypes
<1>2. ASSUME NEW m \in Models, SwapModel(m, layers), role' \in {"Router", "Expert"}
      PROVE  ManagerTypes'
  <2>1. layers \in Modes
    BY DEF Types, ManagerTypes
  <2>2. QED BY <1>2, <2>1, SwapTypes DEF ManagerTypes, Types
<1>3. Expert \in Models /\ config \in Models /\ role \in {"Router", "Expert"}
  BY DEF Models, Types, ManagerTypes, WorldTypes
<1>4. QED BY <1>1, <1>2, <1>3 DEF MaybeAutoSwap, SwapFor, OwnLayers

LEMMA CompiledType ==
  ASSUME NEW p \in Seq(Tokens), Len(p) > 0
  PROVE  Compiled(p) \in Seq(Tokens) /\ Len(Compiled(p)) > 0
  BY DEF Compiled

(* What a step of a request makes of it: q is the record it had, r the one it *)
(* gets. None changes what was asked, or who left.                            *)
SameRequest(q, r) ==
  r.kind = q.kind /\ r.hard = q.hard /\ r.path = q.path /\ r.told = q.told /\ r.gone = q.gone

Entered(j, q, r) ==
  /\ SameRequest(q, r) /\ r.said = q.said
  /\ \/ /\ r.pc = "closing" /\ r.out = "cancelled" /\ q.gone /\ q.kind \in Turns
        /\ r.prompt = q.prompt /\ cancel' = cancel
     \/ /\ q.kind \in Nested /\ r.pc = "closing" /\ r.out = "error"
        /\ r.prompt = q.prompt /\ cancel' = FALSE
     \/ /\ q.kind \in Nested /\ r.pc = "entered" /\ engine' # None
        /\ r.prompt = Compiled(q.prompt) /\ r.id = path' /\ r.format = template'
        /\ cancel' = FALSE
     \/ /\ q.kind \notin Nested /\ r.pc = "entered" /\ r.prompt = q.prompt /\ cancel' = cancel

SameWork(q, r) ==
  /\ r.prompt = q.prompt /\ r.said = q.said /\ r.id = q.id /\ r.format = q.format
  /\ r.past = q.past /\ r.token = q.token

Phase == {"none", "configured", "waiting", "done", "over"} \cup Active
Outcome == {None, "ok", "cancelled", "error"}

MovedTo(q, p) == [q EXCEPT !.pc = p]
EndedWith(q, p, o) == [q EXCEPT !.pc = p, !.out = o]

LEMMA MovedOn ==
  ASSUME NEW q \in JobRecord, NEW p \in Phase
  PROVE  /\ MovedTo(q, p) \in JobRecord /\ MovedTo(q, p).pc = p /\ MovedTo(q, p).out = q.out
         /\ SameRequest(q, MovedTo(q, p)) /\ SameWork(q, MovedTo(q, p))
  BY DEF JobRecord, Phase, SameRequest, SameWork, MovedTo

LEMMA Ended ==
  ASSUME NEW q \in JobRecord, NEW p \in Phase, NEW o \in Outcome
  PROVE  /\ EndedWith(q, p, o) \in JobRecord
         /\ EndedWith(q, p, o).pc = p /\ EndedWith(q, p, o).out = o
         /\ SameRequest(q, EndedWith(q, p, o)) /\ SameWork(q, EndedWith(q, p, o))
<1>1. PICK a : a = MovedTo(q, p)
  OBVIOUS
<1>2. a \in JobRecord /\ a.pc = p /\ SameRequest(q, a) /\ SameWork(q, a)
  BY <1>1, MovedOn
<1>3. EndedWith(q, p, o) = [a EXCEPT !.out = o]
  BY <1>1 DEF EndedWith, MovedTo
<1>4. PICK r : r = [a EXCEPT !.out = o]
  OBVIOUS
<1>5. r \in JobRecord
  BY <1>2, <1>4 DEF JobRecord, Outcome
<1>6. r.pc = p /\ r.out = o /\ SameRequest(a, r) /\ SameWork(a, r)
  BY <1>2, <1>4 DEF JobRecord, SameRequest, SameWork
<1>7. SameRequest(q, r) /\ SameWork(q, r)
  BY <1>2, <1>6 DEF SameRequest, SameWork
<1>8. QED BY <1>3, <1>4, <1>5, <1>6, <1>7

LEMMA EnterEffect ==
  ASSUME Types, ManagerTypes', NEW j \in Job, Enter(j)
  PROVE  /\ job'[j] \in JobRecord /\ Entered(j, job[j], job'[j])
         /\ \A i \in Job \ {j} : job'[i] = job[i]
         /\ job' = [job EXCEPT ![j] = job'[j]]
<1> DEFINE i == IF Is(j, Nested) THEN path' ELSE job[j].id
           told == [job[j] EXCEPT !.id = i]
<1>1. job \in [Job -> JobRecord] /\ job[j] \in JobRecord /\ job[j].prompt \in Seq(Tokens)
      /\ Len(job[j].prompt) > 0
  BY DEF Types, Enter, Shaped, At, Is, JobRecord
<1>2. i \in Models \cup {None} /\ template' \in Models \cup {None}
      /\ Compiled(job[j].prompt) \in Seq(Tokens) /\ (Is(j, Nested) => i = path')
  BY <1>1, CompiledType DEF ManagerTypes, JobRecord
<1>3. \/ /\ job' = [job EXCEPT ![j] = [told EXCEPT !.pc = "closing", !.out = "cancelled"]]
         /\ Superseded(j) /\ cancel' = cancel
      \/ /\ job' = [job EXCEPT ![j] = [told EXCEPT !.pc = "closing", !.out = "error"]]
         /\ Is(j, Nested) /\ cancel' = FALSE
      \/ /\ job' = [job EXCEPT ![j] =
              [told EXCEPT !.pc = "entered", !.prompt = Compiled(@), !.format = template']]
         /\ Is(j, Nested) /\ cancel' = FALSE /\ engine' # None
      \/ /\ job' = [job EXCEPT ![j] = [told EXCEPT !.pc = "entered"]]
         /\ ~Is(j, Nested) /\ cancel' = cancel
  BY DEF Enter
<1> HIDE DEF i
<1>4. told \in JobRecord /\ told.prompt = job[j].prompt /\ told.said = job[j].said /\ told.id = i
      /\ told.pc = job[j].pc /\ SameRequest(job[j], told)
  BY <1>1, <1>2 DEF JobRecord, SameRequest
<1> HIDE DEF told
<1> SUFFICES job'[j] \in JobRecord /\ Entered(j, job[j], job'[j])
  BY <1>1, <1>3
<1> DEFINE Ok(r) == r \in JobRecord /\ Entered(j, job[j], r)
<1> SUFFICES Ok(job'[j])
  OBVIOUS
<1>5. ASSUME Superseded(j), cancel' = cancel
      PROVE  Ok([told EXCEPT !.pc = "closing", !.out = "cancelled"])
  <2>1. job[j].gone /\ job[j].kind \in Turns
    BY <1>5 DEF Superseded, Is
  <2>2. PICK r : r = EndedWith(told, "closing", "cancelled")
    OBVIOUS
  <2>3. /\ r \in JobRecord /\ r.pc = "closing" /\ r.out = "cancelled"
        /\ SameRequest(told, r) /\ SameWork(told, r)
    <3>1. "closing" \in Phase /\ "cancelled" \in Outcome
      BY DEF Phase, Outcome, Active
    <3>2. told \in JobRecord
      BY <1>4
    <3>3. QED BY <2>2, <3>1, <3>2, Ended
  <2>4. Ok(r)
    BY <1>4, <1>5, <2>1, <2>3 DEF Entered, SameRequest, SameWork
  <2>5. QED BY <2>2, <2>4 DEF EndedWith
<1>6. ASSUME Is(j, Nested), cancel' = FALSE
      PROVE  Ok([told EXCEPT !.pc = "closing", !.out = "error"])
  <2>1. PICK r : r = EndedWith(told, "closing", "error")
    OBVIOUS
  <2>2. /\ r \in JobRecord /\ r.pc = "closing" /\ r.out = "error"
        /\ SameRequest(told, r) /\ SameWork(told, r)
    <3>1. "closing" \in Phase /\ "error" \in Outcome
      BY DEF Phase, Outcome, Active
    <3>2. told \in JobRecord
      BY <1>4
    <3>3. QED BY <2>1, <3>1, <3>2, Ended
  <2>3. Ok(r)
    BY <1>4, <1>6, <2>2 DEF Entered, SameRequest, SameWork, Is
  <2>4. QED BY <2>1, <2>3 DEF EndedWith
<1>7. ASSUME Is(j, Nested), cancel' = FALSE, engine' # None
      PROVE  Ok([told EXCEPT !.pc = "entered", !.prompt = Compiled(@), !.format = template'])
  <2>1. PICK r : r = [told EXCEPT !.pc = "entered", !.prompt = Compiled(@), !.format = template']
    OBVIOUS
  <2>2. r \in JobRecord
    BY <1>2, <1>4, <2>1 DEF JobRecord, Active
  <2>3. /\ r.pc = "entered" /\ r.prompt = Compiled(job[j].prompt) /\ r.format = template'
        /\ r.id = i /\ SameRequest(told, r) /\ r.said = told.said
    BY <1>4, <2>1 DEF JobRecord, SameRequest
  <2>4. Ok(r)
    BY <1>2, <1>4, <1>7, <2>2, <2>3 DEF Entered, SameRequest, Is
  <2>5. QED BY <2>1, <2>4
<1>8. ASSUME ~Is(j, Nested), cancel' = cancel
      PROVE  Ok([told EXCEPT !.pc = "entered"])
  <2>1. PICK r : r = MovedTo(told, "entered")
    OBVIOUS
  <2>2. r \in JobRecord /\ r.pc = "entered" /\ SameRequest(told, r) /\ SameWork(told, r)
    BY <1>4, <2>1, MovedOn DEF Phase, Active
  <2>3. Ok(r)
    BY <1>4, <1>8, <2>2 DEF Entered, SameRequest, SameWork, Is
  <2>4. QED BY <2>1, <2>3 DEF MovedTo
<1> HIDE DEF Ok
<1>9. ASSUME NEW r, job' = [job EXCEPT ![j] = r] PROVE job'[j] = r
  BY <1>1, <1>9
<1>10. QED BY <1>3, <1>5, <1>6, <1>7, <1>8, <1>9

LEMMA EnterTypes ==
  ASSUME Types, NEW j \in Job, Enter(j)
  PROVE  Types'
<1>1. ManagerTypes'
  BY AutoSwapTypes DEF Enter
<1>2. /\ At(j, "waiting") /\ Is(j, Generating) /\ lock = None /\ lock' = j
      /\ UNCHANGED world
  BY DEF Enter
<1>3. \A i \in Job : job[i].pc \notin Active
  BY <1>2, EngineAssumption DEF Types, Shaped
<1>4. /\ job[j].prompt \in Seq(Tokens) /\ Len(job[j].prompt) > 0 /\ job[j].said = <<>>
      /\ Len(job[j].said) <= MaxAnswer /\ cancel \in BOOLEAN
  BY <1>2 DEF Types, Shaped, At, Is, JobRecord
<1>5. job'[j] \in JobRecord /\ Entered(j, job[j], job'[j]) /\ job' = [job EXCEPT ![j] = job'[j]]
  BY <1>1, EnterEffect
<1>6. Len(Compiled(job[j].prompt)) > 0
  BY <1>4, CompiledType
<1>7. cancel' \in BOOLEAN /\ Shaped(j)'
  BY <1>2, <1>4, <1>5, <1>6 DEF Shaped, Active, At, Is, Entered, SameRequest
<1>8. job' \in [Job -> JobRecord] /\ \A i \in Job : Shaped(i)'
  BY <1>2, <1>3, <1>5, <1>7, OneRequest
<1>9. QED BY <1>1, <1>2, <1>7, <1>8 DEF Types, world, WorldTypes

(* The record after a step of a generation. *)
Worked(q, p, n, t, s, f) ==
  [q EXCEPT !.pc = p, !.past = n, !.token = t, !.said = s, !.format = f]

Fitting(q, p, n, t, s, f) ==
  /\ q \in JobRecord /\ p \in Phase /\ n \in 0..NCtx /\ t \in Vocab \cup {None}
  /\ s \in Seq(Vocab) /\ f \in Models \cup {None}

LEMMA WorkedOn ==
  ASSUME NEW q, NEW p, NEW n, NEW t, NEW s, NEW f, Fitting(q, p, n, t, s, f)
  PROVE  /\ Worked(q, p, n, t, s, f) \in JobRecord
         /\ Worked(q, p, n, t, s, f).pc = p /\ Worked(q, p, n, t, s, f).past = n
         /\ Worked(q, p, n, t, s, f).token = t /\ Worked(q, p, n, t, s, f).said = s
         /\ Worked(q, p, n, t, s, f).format = f /\ Worked(q, p, n, t, s, f).out = q.out
         /\ Worked(q, p, n, t, s, f).prompt = q.prompt /\ Worked(q, p, n, t, s, f).id = q.id
         /\ SameRequest(q, Worked(q, p, n, t, s, f))
<1> USE DEF Fitting
<1>1. PICK a : a = [q EXCEPT !.pc = p, !.past = n]
  OBVIOUS
<1>2. a \in JobRecord
  BY <1>1 DEF JobRecord, Phase
<1>3. /\ a.pc = p /\ a.past = n /\ a.out = q.out /\ a.prompt = q.prompt /\ a.id = q.id
      /\ SameRequest(q, a)
  BY <1>1 DEF JobRecord, SameRequest
<1>4. Worked(q, p, n, t, s, f) = [a EXCEPT !.token = t, !.said = s, !.format = f]
  BY <1>1 DEF Worked
<1>5. PICK b : b = [a EXCEPT !.token = t, !.said = s]
  OBVIOUS
<1>6. b \in JobRecord
  BY <1>2, <1>5 DEF JobRecord
<1>7. /\ b.pc = a.pc /\ b.past = a.past /\ b.out = a.out /\ b.prompt = a.prompt /\ b.id = a.id
      /\ b.token = t /\ b.said = s /\ SameRequest(a, b)
  BY <1>2, <1>5 DEF JobRecord, SameRequest
<1>8. Worked(q, p, n, t, s, f) = [b EXCEPT !.format = f]
  BY <1>4, <1>5
<1>9. PICK r : r = [b EXCEPT !.format = f]
  OBVIOUS
<1>10. r \in JobRecord
  BY <1>6, <1>9 DEF JobRecord
<1>11. /\ r.pc = b.pc /\ r.past = b.past /\ r.out = b.out /\ r.prompt = b.prompt /\ r.id = b.id
       /\ r.token = b.token /\ r.said = b.said /\ r.format = f /\ SameRequest(b, r)
  BY <1>6, <1>9 DEF JobRecord, SameRequest
<1>12. SameRequest(q, r)
  BY <1>3, <1>7, <1>11 DEF SameRequest
<1>13. QED BY <1>3, <1>7, <1>8, <1>9, <1>10, <1>11, <1>12

(* What a prefill, a sampled token and a forwarded one make of the request. *)
Prefilled(j, q, r) ==
  /\ SameRequest(q, r) /\ r.prompt = q.prompt /\ r.said = q.said /\ r.id = q.id
  /\ cancel' = FALSE
  /\ \/ r.pc = "closing" /\ r.out = "error"
     \/ /\ engine # None /\ Fits(q.prompt)
        /\ r.pc = (IF q.kind = "decide" THEN "finish" ELSE "loop")
        /\ r.past = Len(q.prompt)
        /\ r.format = (IF q.kind = "look" THEN template ELSE q.format)

LEMMA PrefillEffect ==
  ASSUME Types, NEW j \in Job, Prefill(j)
  PROVE  /\ job'[j] \in JobRecord /\ Prefilled(j, job[j], job'[j])
         /\ \A i \in Job \ {j} : job'[i] = job[i]
         /\ job' = [job EXCEPT ![j] = job'[j]]
<1>1. job \in [Job -> JobRecord] /\ job[j] \in JobRecord /\ job[j].prompt \in Seq(Tokens)
  BY DEF Types, JobRecord
<1> DEFINE p == IF Is(j, {"decide"}) THEN "finish" ELSE "loop"
           f == IF Is(j, {"look"}) THEN template ELSE job[j].format
           t == job[j].prompt
<1>2. /\ cancel' = FALSE
      /\ \/ job' = [job EXCEPT ![j] = EndedWith(job[j], "closing", "error")]
         \/ /\ engine # None /\ Fits(t)
            /\ job' = [job EXCEPT ![j] = [job[j] EXCEPT !.pc = p, !.past = Len(t), !.format = f]]
  BY DEF Prefill, Ends, EndedWith, reset_cancel
<1>3. CASE job' = [job EXCEPT ![j] = EndedWith(job[j], "closing", "error")]
  <2>1. "closing" \in Phase /\ "error" \in Outcome
    BY DEF Phase, Outcome, Active
  <2>2. job'[j] = EndedWith(job[j], "closing", "error")
    BY <1>1, <1>3
  <2>3. /\ job'[j] \in JobRecord /\ job'[j].pc = "closing" /\ job'[j].out = "error"
        /\ SameRequest(job[j], job'[j]) /\ SameWork(job[j], job'[j])
    BY <1>1, <2>1, <2>2, Ended
  <2>4. QED BY <1>1, <1>2, <1>3, <2>2, <2>3 DEF Prefilled, SameWork
<1>4. CASE /\ engine # None /\ Fits(t)
           /\ job' = [job EXCEPT ![j] = [job[j] EXCEPT !.pc = p, !.past = Len(t), !.format = f]]
  <2>1. p \in Phase /\ Len(t) \in 0..NCtx /\ f \in Models \cup {None}
    BY <1>1, <1>4, ContextAssumption
    DEF Phase, Active, Fits, Types, ManagerTypes, JobRecord
  <2>2. job[j].token \in Vocab \cup {None} /\ job[j].said \in Seq(Vocab)
    BY <1>1 DEF JobRecord
  <2>3. p = (IF job[j].kind = "decide" THEN "finish" ELSE "loop")
        /\ f = (IF job[j].kind = "look" THEN template ELSE job[j].format)
    BY DEF Is
  <2> HIDE DEF p, f
  <2>4. [job[j] EXCEPT !.pc = p, !.past = Len(t), !.format = f] =
          Worked(job[j], p, Len(t), job[j].token, job[j].said, f)
    BY <1>1 DEF JobRecord, Worked
  <2>5. job'[j] = Worked(job[j], p, Len(t), job[j].token, job[j].said, f)
    BY <1>1, <1>4, <2>4
  <2>6. /\ job'[j] \in JobRecord /\ job'[j].pc = p /\ job'[j].past = Len(t)
        /\ job'[j].said = job[j].said /\ job'[j].format = f /\ job'[j].prompt = t
        /\ job'[j].id = job[j].id /\ SameRequest(job[j], job'[j])
    <3>1. Fitting(job[j], p, Len(t), job[j].token, job[j].said, f)
      BY <1>1, <2>1, <2>2 DEF Fitting
    <3>2. QED BY <2>5, <3>1, WorkedOn
  <2>7. Prefilled(j, job[j], job'[j])
    BY <1>2, <1>4, <2>3, <2>6 DEF Prefilled
  <2>8. QED BY <1>1, <1>4, <2>6, <2>7
<1>5. QED BY <1>2, <1>3, <1>4

Sampled(j, q, r) ==
  /\ SameRequest(q, r) /\ r.prompt = q.prompt /\ r.said = q.said /\ r.id = q.id
  /\ r.format = q.format
  /\ \/ r.pc = "finish" /\ r.past = q.past /\ context' = context
     \/ /\ ~(q.kind = "look" /\ Full(j))
        /\ context' = (IF Full(j) THEN Pruned(context) ELSE context)
        /\ r.past = (IF Full(j) THEN q.past - Window ELSE q.past)
        /\ \/ r.pc = "finish"
           \/ r.pc = "token" /\ r.token \in Vocab

WorksOn(j, p, n, t, s, f) ==
  Fitting(job[j], p, n, t, s, f) /\ job' = [job EXCEPT ![j] = Worked(job[j], p, n, t, s, f)]

LEMMA WorkedStep ==
  ASSUME Types, NEW j \in Job, NEW p, NEW n, NEW t, NEW s, NEW f, WorksOn(j, p, n, t, s, f)
  PROVE  /\ job'[j] \in JobRecord /\ job'[j].pc = p /\ job'[j].past = n /\ job'[j].token = t
         /\ job'[j].said = s /\ job'[j].format = f /\ job'[j].out = job[j].out
         /\ job'[j].prompt = job[j].prompt /\ job'[j].id = job[j].id
         /\ SameRequest(job[j], job'[j])
         /\ \A i \in Job \ {j} : job'[i] = job[i]
         /\ job' = [job EXCEPT ![j] = job'[j]]
<1>1. job \in [Job -> JobRecord]
  BY DEF Types
<1>2. job'[j] = Worked(job[j], p, n, t, s, f) /\ \A i \in Job \ {j} : job'[i] = job[i]
  BY <1>1 DEF WorksOn
<1>3. job' = [job EXCEPT ![j] = job'[j]]
  BY <1>2 DEF WorksOn
<1>4. Fitting(job[j], p, n, t, s, f)
  BY DEF WorksOn
<1>5. QED BY <1>2, <1>3, <1>4, WorkedOn

LEMMA EndedStep ==
  ASSUME Types, NEW j \in Job, NEW p \in Phase, NEW o \in Outcome,
         job' = [job EXCEPT ![j] = EndedWith(job[j], p, o)]
  PROVE  /\ job'[j] \in JobRecord /\ job'[j].pc = p /\ job'[j].out = o
         /\ SameRequest(job[j], job'[j]) /\ SameWork(job[j], job'[j])
         /\ \A i \in Job \ {j} : job'[i] = job[i]
         /\ job' = [job EXCEPT ![j] = job'[j]]
<1>1. job \in [Job -> JobRecord] /\ job[j] \in JobRecord
  BY DEF Types
<1>2. job'[j] = EndedWith(job[j], p, o) /\ \A i \in Job \ {j} : job'[i] = job[i]
  BY <1>1
<1>3. job' = [job EXCEPT ![j] = job'[j]]
  BY <1>2
<1>4. QED BY <1>1, <1>2, <1>3, Ended

LEMMA SampleEffect ==
  ASSUME Types, NEW j \in Job, Sample(j)
  PROVE  /\ job'[j] \in JobRecord /\ Sampled(j, job[j], job'[j])
         /\ \A i \in Job \ {j} : job'[i] = job[i]
         /\ job' = [job EXCEPT ![j] = job'[j]]
<1>1. job[j] \in JobRecord /\ job \in [Job -> JobRecord]
  BY DEF Types
<1> DEFINE q == job[j]
           past == IF Full(j) THEN q.past - Window ELSE q.past
<1>2. past \in 0..NCtx /\ q.past \in 0..NCtx /\ q.token \in Vocab \cup {None}
      /\ q.said \in Seq(Vocab) /\ q.format \in Models \cup {None}
  BY <1>1, ContextAssumption DEF JobRecord, Full
<1>3. \/ job' = [job EXCEPT ![j].pc = "finish"] /\ context' = context
      \/ /\ ~(Is(j, {"look"}) /\ Full(j))
         /\ context' = (IF Full(j) THEN Pruned(context) ELSE context)
         /\ \/ job' = [job EXCEPT ![j].pc = "finish", ![j].past = past]
            \/ \E v \in Vocab :
                 job' = [job EXCEPT ![j].pc = "token", ![j].past = past, ![j].token = v]
  BY DEF Sample
<1>4. PICK p \in {"finish", "token"}, n \in {q.past, past}, t \in {q.token} \cup Vocab :
        /\ job' = [job EXCEPT ![j] = Worked(q, p, n, t, q.said, q.format)]
        /\ \/ p = "finish" /\ n = q.past /\ context' = context
           \/ /\ ~(Is(j, {"look"}) /\ Full(j)) /\ n = past
              /\ context' = (IF Full(j) THEN Pruned(context) ELSE context)
              /\ p = "finish" \/ (p = "token" /\ t \in Vocab)
  <2>1. CASE job' = [job EXCEPT ![j].pc = "finish"] /\ context' = context
    <3>1. Worked(q, "finish", q.past, q.token, q.said, q.format) = [q EXCEPT !.pc = "finish"]
      BY <1>1 DEF Worked, JobRecord
    <3>2. job' = [job EXCEPT ![j] = Worked(q, "finish", q.past, q.token, q.said, q.format)]
      BY <2>1, <3>1
    <3>3. QED BY <2>1, <3>2
  <2>2. CASE /\ ~(Is(j, {"look"}) /\ Full(j))
             /\ context' = (IF Full(j) THEN Pruned(context) ELSE context)
             /\ job' = [job EXCEPT ![j].pc = "finish", ![j].past = past]
    <3> HIDE DEF past
    <3>1. Worked(q, "finish", past, q.token, q.said, q.format)
            = [q EXCEPT !.pc = "finish", !.past = past]
      BY <1>1 DEF Worked, JobRecord
    <3>2. job' = [job EXCEPT ![j] = Worked(q, "finish", past, q.token, q.said, q.format)]
      BY <2>2, <3>1
    <3>3. QED BY <2>2, <3>2
  <2>3. CASE /\ ~(Is(j, {"look"}) /\ Full(j))
             /\ context' = (IF Full(j) THEN Pruned(context) ELSE context)
             /\ \E v \in Vocab :
                  job' = [job EXCEPT ![j].pc = "token", ![j].past = past, ![j].token = v]
    <3> HIDE DEF past
    <3>1. PICK v \in Vocab :
            job' = [job EXCEPT ![j].pc = "token", ![j].past = past, ![j].token = v]
      BY <2>3
    <3>2. Worked(q, "token", past, v, q.said, q.format)
            = [q EXCEPT !.pc = "token", !.past = past, !.token = v]
      BY <1>1 DEF Worked, JobRecord
    <3>3. job' = [job EXCEPT ![j] = Worked(q, "token", past, v, q.said, q.format)]
      BY <3>1, <3>2
    <3>4. QED BY <2>3, <3>1, <3>3
  <2>4. QED BY <1>3, <2>1, <2>2, <2>3
<1>5. Fitting(job[j], p, n, t, q.said, q.format)
  <2>1. p \in Phase /\ n \in 0..NCtx /\ t \in Vocab \cup {None}
    BY <1>2, <1>4 DEF Phase, Active
  <2>2. QED BY <1>1, <1>2, <2>1 DEF Fitting
<1>6. /\ job'[j] \in JobRecord /\ job'[j].pc = p /\ job'[j].past = n /\ job'[j].token = t
      /\ job'[j].said = q.said /\ job'[j].format = q.format
      /\ job'[j].prompt = job[j].prompt /\ job'[j].id = job[j].id
      /\ SameRequest(job[j], job'[j])
      /\ \A i \in Job \ {j} : job'[i] = job[i]
      /\ job' = [job EXCEPT ![j] = job'[j]]
  <2>1. WorksOn(j, p, n, t, q.said, q.format)
    BY <1>4, <1>5 DEF WorksOn
  <2>2. QED BY <2>1, WorkedStep
<1>7. Sampled(j, job[j], job'[j])
  BY <1>4, <1>6 DEF Sampled, Is
<1>8. QED BY <1>6, <1>7

(* The three ends of a token: refused, decoded, not decoded. *)
Refused(j) == Refuses(j) /\ job'[j].pc = "finish" /\ context' = context
Accepted(j, q, r) ==
  /\ ~Refuses(j)
  /\ r.pc = (IF Len(q.said) + 1 = MaxAnswer THEN "finish" ELSE "loop")
  /\ r.past = q.past + 1 /\ r.said = q.said \o <<q.token>>
  /\ context' = Decoded(IF Is(j, {"look"}) THEN context
                          ELSE [context EXCEPT !.last = @ \o <<q.token>>], q.past, <<q.token>>)
Failed(j, q) ==
  /\ job'[j].pc = "closing" /\ job'[j].out = "error"
  /\ context' \in Undecoded(IF Is(j, {"look"}) THEN context
                              ELSE [context EXCEPT !.last = @ \o <<q.token>>], q.past, <<q.token>>)

Forwarded(j, q, r) ==
  /\ SameRequest(q, r) /\ r.prompt = q.prompt /\ r.id = q.id /\ r.format = q.format
  /\ \/ Refused(j) /\ r.said = q.said
     \/ Accepted(j, q, r)
     \/ Failed(j, q) /\ r.said = q.said

LEMMA ForwardEffect ==
  ASSUME Types, NEW j \in Job, Forward(j)
  PROVE  /\ job'[j] \in JobRecord /\ Forwarded(j, job[j], job'[j])
         /\ \A i \in Job \ {j} : job'[i] = job[i]
         /\ job' = [job EXCEPT ![j] = job'[j]]
<1>1. job[j] \in JobRecord /\ job \in [Job -> JobRecord] /\ job[j].token \in Vocab
      /\ job[j].past \in 0..NCtx /\ job[j].past < NCtx
      /\ job[j].said \in Seq(Vocab) /\ job[j].format \in Models \cup {None}
  BY DEF Types, Forward, Shaped, At, JobRecord
<1> DEFINE q == job[j]
           p == IF Len(q.said) + 1 = MaxAnswer THEN "finish" ELSE "loop"
<1>2. \/ /\ Refuses(j)
         /\ job' = [job EXCEPT ![j].pc = "finish", ![j].token = None]
         /\ context' = context
      \/ /\ ~Refuses(j)
         /\ context' = Decoded(IF Is(j, {"look"}) THEN context
                          ELSE [context EXCEPT !.last = @ \o <<q.token>>], q.past, <<q.token>>)
         /\ job' = [job EXCEPT ![j].pc = p, ![j].past = @ + 1, ![j].token = None,
                               ![j].said = @ \o <<q.token>>]
      \/ /\ job' = [job EXCEPT ![j].pc = "closing", ![j].out = "error"]
         /\ context' \in Undecoded(IF Is(j, {"look"}) THEN context
                          ELSE [context EXCEPT !.last = @ \o <<q.token>>], q.past, <<q.token>>)
  BY DEF Forward, Ends
<1>3. CASE /\ Refuses(j)
           /\ job' = [job EXCEPT ![j].pc = "finish", ![j].token = None]
           /\ context' = context
  <2>1. [q EXCEPT !.pc = "finish", !.token = None]
          = Worked(q, "finish", q.past, None, q.said, q.format)
    BY <1>1 DEF Worked, JobRecord
  <2>2. job' = [job EXCEPT ![j] = Worked(q, "finish", q.past, None, q.said, q.format)]
    BY <1>3, <2>1
  <2>3. Fitting(q, "finish", q.past, None, q.said, q.format)
    BY <1>1 DEF Fitting, Phase, Active
  <2>4. /\ job'[j] \in JobRecord /\ job'[j].pc = "finish"
        /\ job'[j].said = q.said /\ job'[j].format = q.format
        /\ job'[j].prompt = job[j].prompt /\ job'[j].id = job[j].id
        /\ SameRequest(job[j], job'[j])
        /\ \A i \in Job \ {j} : job'[i] = job[i]
        /\ job' = [job EXCEPT ![j] = job'[j]]
    <3>1. WorksOn(j, "finish", q.past, None, q.said, q.format)
      BY <2>2, <2>3 DEF WorksOn
    <3>2. QED BY <3>1, WorkedStep
  <2>5. QED BY <1>3, <2>4 DEF Forwarded, Refused
<1>4. CASE /\ ~Refuses(j)
           /\ context' = Decoded(IF Is(j, {"look"}) THEN context
                            ELSE [context EXCEPT !.last = @ \o <<q.token>>], q.past, <<q.token>>)
           /\ job' = [job EXCEPT ![j].pc = p, ![j].past = @ + 1, ![j].token = None,
                                 ![j].said = @ \o <<q.token>>]
  <2>1. p \in Phase /\ q.said \o <<q.token>> \in Seq(Vocab) /\ q.past + 1 \in 0..NCtx
    BY <1>1, ContextAssumption DEF Phase, Active
  <2>2. p = (IF Len(q.said) + 1 = MaxAnswer THEN "finish" ELSE "loop")
    OBVIOUS
  <2> HIDE DEF p
  <2>3. [q EXCEPT !.pc = p, !.past = @ + 1, !.token = None, !.said = @ \o <<q.token>>]
          = Worked(q, p, q.past + 1, None, q.said \o <<q.token>>, q.format)
    BY <1>1 DEF Worked, JobRecord
  <2>4. job' = [job EXCEPT ![j] = Worked(q, p, q.past + 1, None, q.said \o <<q.token>>, q.format)]
    BY <1>4, <2>3
  <2>5. Fitting(q, p, q.past + 1, None, q.said \o <<q.token>>, q.format)
    BY <1>1, <2>1 DEF Fitting
  <2>6. /\ job'[j] \in JobRecord /\ job'[j].pc = p /\ job'[j].past = q.past + 1
        /\ job'[j].said = q.said \o <<q.token>> /\ job'[j].format = q.format
        /\ job'[j].prompt = job[j].prompt /\ job'[j].id = job[j].id
        /\ SameRequest(job[j], job'[j])
        /\ \A i \in Job \ {j} : job'[i] = job[i]
        /\ job' = [job EXCEPT ![j] = job'[j]]
    <3>1. PICK n, s : n = q.past + 1 /\ s = q.said \o <<q.token>>
      OBVIOUS
    <3>2. WorksOn(j, p, n, None, s, q.format)
      BY <2>4, <2>5, <3>1 DEF WorksOn
    <3>3. /\ job'[j] \in JobRecord /\ job'[j].pc = p /\ job'[j].past = n
          /\ job'[j].said = s /\ job'[j].format = q.format
          /\ job'[j].prompt = job[j].prompt /\ job'[j].id = job[j].id
          /\ SameRequest(job[j], job'[j])
          /\ \A i \in Job \ {j} : job'[i] = job[i]
          /\ job' = [job EXCEPT ![j] = job'[j]]
      BY <3>2, WorkedStep
    <3>4. QED BY <3>1, <3>3
  <2>7. Accepted(j, job[j], job'[j])
    BY <1>4, <2>2, <2>6 DEF Accepted
  <2>8. QED BY <2>6, <2>7 DEF Forwarded
<1>5. CASE /\ job' = [job EXCEPT ![j].pc = "closing", ![j].out = "error"]
           /\ context' \in Undecoded(IF Is(j, {"look"}) THEN context
                            ELSE [context EXCEPT !.last = @ \o <<q.token>>], q.past, <<q.token>>)
  <2>1. job' = [job EXCEPT ![j] = EndedWith(job[j], "closing", "error")]
    BY <1>5 DEF EndedWith
  <2>2. "closing" \in Phase /\ "error" \in Outcome
    BY DEF Phase, Outcome, Active
  <2>3. /\ job'[j] \in JobRecord /\ job'[j].pc = "closing" /\ job'[j].out = "error"
        /\ SameRequest(job[j], job'[j]) /\ SameWork(job[j], job'[j])
        /\ \A i \in Job \ {j} : job'[i] = job[i]
        /\ job' = [job EXCEPT ![j] = job'[j]]
    BY <2>1, <2>2, EndedStep
  <2>4. Failed(j, job[j])
    BY <1>5, <2>3 DEF Failed
  <2>5. QED BY <2>3, <2>4 DEF Forwarded, SameWork
<1>6. QED BY <1>2, <1>3, <1>4, <1>5

(* A step of a running generation touches the context and its own record. *)
LEMMA GenerationTypes ==
  ASSUME Types, NEW j \in Job,
         UNCHANGED <<lock, engine, path, layers, role, template, world>>,
         cancel' \in BOOLEAN, IsContext(context', Tokens),
         job'[j] \in JobRecord, job' = [job EXCEPT ![j] = job'[j]], Shaped(j)'
  PROVE  Types'
<1>1. ManagerTypes' /\ WorldTypes'
  BY DEF Types, ManagerTypes, WorldTypes, world
<1>2. job' \in [Job -> JobRecord] /\ \A i \in Job : Shaped(i)'
  BY OneRequest
<1>3. QED BY <1>1, <1>2 DEF Types

(* What a prefill decodes into, and what it decodes. *)
Rest(j) == SubSeq(job[j].prompt, Start(j) + 1, Len(job[j].prompt))

LEMMA StartTypes ==
  ASSUME Types, NEW j \in Job, At(j, "entered")
  PROVE  /\ Start(j) \in 0..Len(context.last) \/ Is(j, {"look"})
         /\ Start(j) \in Nat /\ Start(j) < Len(job[j].prompt)
         /\ IsContext(Cleared(j), Tokens)
         /\ Rest(j) # <<>>
<1>1. job[j].prompt \in Seq(Tokens) /\ Len(job[j].prompt) > 0 /\ context.last \in Seq(Tokens)
  BY DEF Types, ManagerTypes, IsContext, Shaped, At, Is, Active, JobRecord
<1>2. CASE Is(j, {"look"})
  <2>1. Start(j) = 0 /\ Cleared(j) = Empty
    BY <1>2 DEF Start, Cleared
  <2>2. Len(Rest(j)) = Len(job[j].prompt)
    BY <1>1, <2>1, Suffix DEF Rest
  <2>3. QED BY <1>1, <1>2, <2>1, <2>2, EmptyContext
<1>3. CASE ~Is(j, {"look"})
  <2>1. Start(j) = Common(context.last, job[j].prompt) /\ Cleared(j) = Kept(context, Start(j))
    BY <1>3 DEF Start, Cleared
  <2>2. Start(j) \in 0..Len(context.last) /\ Start(j) < Len(job[j].prompt)
    BY <1>1, <2>1, CommonIsShared
  <2>3. IsContext(Cleared(j), Tokens)
    BY <2>1, <2>2, KeptContext DEF Types, ManagerTypes
  <2>4. Start(j) \in Nat /\ Len(context.last) \in Nat
    BY <1>1, <2>2
  <2>5. Len(Rest(j)) = Len(job[j].prompt) - Start(j)
    <3>1. PICK t, n : t = job[j].prompt /\ n = Start(j)
      OBVIOUS
    <3>2. t \in Seq(Tokens) /\ n \in 0..Len(t)
      BY <1>1, <2>2, <2>4, <3>1
    <3>3. Len(SubSeq(t, n + 1, Len(t))) = Len(t) - n
      BY <3>2, Suffix
    <3>4. QED BY <3>1, <3>3 DEF Rest
  <2>6. Rest(j) # <<>>
    BY <1>1, <2>2, <2>4, <2>5
  <2>7. QED BY <2>2, <2>3, <2>4, <2>6
<1>4. QED BY <1>2, <1>3

(* The context after a prefill. *)
Refilled(j, r) ==
  \/ /\ r.pc = "closing"
     /\ \/ context' = context \/ context' = [context EXCEPT !.last = <<>>]
        \/ context' \in Undecoded(Cleared(j), Start(j), Rest(j))
  \/ /\ r.pc # "closing"
     /\ context' = [Decoded(Cleared(j), Start(j), Rest(j))
                      EXCEPT !.last = IF Is(j, {"look"}) THEN <<>> ELSE job[j].prompt]

LEMMA PrefillContext ==
  ASSUME Types, NEW j \in Job, Prefill(j)
  PROVE  Refilled(j, job'[j]) /\ IsContext(context', Tokens)
<1>1. At(j, "entered") /\ job \in [Job -> JobRecord]
  BY DEF Prefill, Types
<1>2. IsContext(Cleared(j), Tokens) /\ Rest(j) # <<>> /\ IsContext(context, Tokens)
      /\ job[j].prompt \in Seq(Tokens)
  BY <1>1, StartTypes DEF Types, ManagerTypes, JobRecord
<1>3. \/ /\ \/ context' = context \/ context' = [context EXCEPT !.last = <<>>]
            \/ context' \in Undecoded(Cleared(j), Start(j), Rest(j))
         /\ job' = [job EXCEPT ![j].pc = "closing", ![j].out = "error"]
      \/ /\ context' = [Decoded(Cleared(j), Start(j), Rest(j))
                          EXCEPT !.last = IF Is(j, {"look"}) THEN <<>> ELSE job[j].prompt]
         /\ \E p \in {"finish", "loop"}, n \in Nat, f \in Models \cup {None} :
              job' = [job EXCEPT ![j].pc = p, ![j].past = n, ![j].format = f]
  <2>1. Len(job[j].prompt) \in Nat
    BY <1>2
  <2>2. (IF Is(j, {"look"}) THEN template ELSE job[j].format) \in Models \cup {None}
    BY <1>1 DEF Types, ManagerTypes, JobRecord
  <2>3. QED BY <1>2, <2>1, <2>2 DEF Prefill, Ends, Rest
<1>4. CASE /\ \/ context' = context \/ context' = [context EXCEPT !.last = <<>>]
              \/ context' \in Undecoded(Cleared(j), Start(j), Rest(j))
           /\ job' = [job EXCEPT ![j].pc = "closing", ![j].out = "error"]
  <2>1. job'[j].pc = "closing"
    BY <1>1, <1>4 DEF JobRecord
  <2>2. <<>> \in Seq(Tokens)
    OBVIOUS
  <2>3. IsContext(context', Tokens)
    BY <1>2, <1>4, <2>2, RenamedContext, UndecodedContext
  <2>4. QED BY <1>4, <2>1, <2>3 DEF Refilled
<1>5. ASSUME context' = [Decoded(Cleared(j), Start(j), Rest(j))
                           EXCEPT !.last = IF Is(j, {"look"}) THEN <<>> ELSE job[j].prompt],
             NEW p \in {"finish", "loop"}, NEW n \in Nat, NEW f \in Models \cup {None},
             job' = [job EXCEPT ![j].pc = p, ![j].past = n, ![j].format = f]
      PROVE  Refilled(j, job'[j]) /\ IsContext(context', Tokens)
  <2>1. job'[j].pc = p
    BY <1>1, <1>5 DEF JobRecord
  <2>2. (IF Is(j, {"look"}) THEN <<>> ELSE job[j].prompt) \in Seq(Tokens)
    BY <1>2
  <2>3. IsContext(Decoded(Cleared(j), Start(j), Rest(j)), Tokens)
    BY <1>2, DecodedContext
  <2>4. IsContext(context', Tokens)
    BY <1>5, <2>2, <2>3, RenamedContext
  <2>5. QED BY <1>5, <2>1, <2>4 DEF Refilled
<1>6. QED BY <1>3, <1>4, <1>5

LEMMA PrefillTypes ==
  ASSUME Types, NEW j \in Job, Prefill(j)
  PROVE  Types'
<1>1. /\ UNCHANGED <<lock, engine, path, layers, role, template, world>>
      /\ At(j, "entered")
  BY DEF Prefill
<1>2. job'[j] \in JobRecord /\ Prefilled(j, job[j], job'[j]) /\ job' = [job EXCEPT ![j] = job'[j]]
  BY PrefillEffect
<1>3. /\ lock = j /\ Is(j, Generating) /\ job[j].said = <<>>
  BY <1>1 DEF Types, Shaped, At, Is, Active
<1>4. Len(<<>>) = 0 /\ MaxAnswer \in Nat /\ MaxAnswer > 0
  BY EngineAssumption
<1>5. Shaped(j)'
  BY <1>1, <1>2, <1>3, <1>4 DEF Shaped, Prefilled, SameRequest, Active, At, Is
<1>6. IsContext(context', Tokens) /\ cancel' \in BOOLEAN
  BY <1>2, PrefillContext DEF Prefilled
<1>7. QED BY <1>1, <1>2, <1>5, <1>6, GenerationTypes

LEMMA SampleTypes ==
  ASSUME Types, NEW j \in Job, Sample(j)
  PROVE  Types'
<1>1. /\ UNCHANGED <<lock, engine, path, layers, role, template, world, cancel>>
      /\ At(j, "loop")
      /\ context' = context \/ context' = Pruned(context)
  BY DEF Sample
<1>2. job'[j] \in JobRecord /\ Sampled(j, job[j], job'[j]) /\ job' = [job EXCEPT ![j] = job'[j]]
  BY SampleEffect
<1>3. /\ lock = j /\ Is(j, Generating) /\ Len(job[j].said) < MaxAnswer
      /\ Len(job[j].said) <= MaxAnswer
      /\ job[j].past \in 0..NCtx
  BY <1>1 DEF Types, Shaped, At, Is, Active, JobRecord
<1>4. job'[j].pc = "token" => job'[j].past < NCtx
  BY <1>2, <1>3, ContextAssumption DEF Sampled, Full
<1>5. Shaped(j)'
  BY <1>1, <1>2, <1>3, <1>4 DEF Shaped, Sampled, SameRequest, Active, At, Is
<1>6. IsContext(context', Tokens) /\ cancel' \in BOOLEAN
  BY <1>1, PrunedContext DEF Types, ManagerTypes
<1>7. QED BY <1>1, <1>2, <1>5, <1>6, GenerationTypes

LEMMA ForwardTypes ==
  ASSUME Types, NEW j \in Job, Forward(j)
  PROVE  Types'
<1>1. /\ UNCHANGED <<lock, engine, path, layers, role, template, world, cancel>>
      /\ At(j, "token")
  BY DEF Forward
<1>2. job'[j] \in JobRecord /\ Forwarded(j, job[j], job'[j]) /\ job' = [job EXCEPT ![j] = job'[j]]
  BY ForwardEffect
<1>3. /\ lock = j /\ Is(j, Generating) /\ Len(job[j].said) < MaxAnswer
      /\ job[j].said \in Seq(Vocab) /\ job[j].token \in Vocab
      /\ MaxAnswer \in Nat
  BY <1>1, EngineAssumption DEF Types, Shaped, At, Is, Active, JobRecord
<1>4. Len(job[j].said) \in Nat /\ Len(job[j].said \o <<job[j].token>>) = Len(job[j].said) + 1
  BY <1>3
<1>5. /\ Len(job'[j].said) <= MaxAnswer
      /\ job'[j].pc = "loop" => Len(job'[j].said) < MaxAnswer
      /\ job'[j].pc \in {"finish", "loop", "closing"}
  BY <1>2, <1>3, <1>4 DEF Forwarded, Refused, Accepted, Failed
<1>6. Shaped(j)'
  BY <1>1, <1>2, <1>3, <1>5 DEF Shaped, Forwarded, SameRequest, Active, At, Is
<1>7. job[j].token \in Tokens /\ IsContext(context, Tokens)
  BY <1>3 DEF Types, ManagerTypes, Tokens
<1>8. IsContext(context', Tokens) /\ cancel' \in BOOLEAN
  <2> DEFINE pushed == IF Is(j, {"look"}) THEN context
                         ELSE [context EXCEPT !.last = @ \o <<job[j].token>>]
  <2>1. context.last \o <<job[j].token>> \in Seq(Tokens)
    BY <1>7 DEF IsContext
  <2>2. IsContext(pushed, Tokens)
    BY <1>7, <2>1, RenamedContext
  <2>3. \/ context' = context \/ context' = Decoded(pushed, job[j].past, <<job[j].token>>)
        \/ context' \in Undecoded(pushed, job[j].past, <<job[j].token>>)
    BY <1>2 DEF Forwarded, Refused, Accepted, Failed
  <2> HIDE DEF pushed
  <2>4. QED BY <1>1, <1>7, <2>2, <2>3, DecodedContext, UndecodedContext DEF Types
<1>9. QED BY <1>1, <1>2, <1>6, <1>8, GenerationTypes

LEMMA FinishEffect ==
  ASSUME Types, NEW j \in Job, Finish(j)
  PROVE  /\ job'[j] \in JobRecord /\ job'[j].pc = "closing" /\ job'[j].out = Verdict(j)
         /\ SameRequest(job[j], job'[j]) /\ SameWork(job[j], job'[j])
         /\ \A i \in Job \ {j} : job'[i] = job[i]
         /\ job' = [job EXCEPT ![j] = job'[j]]
<1>1. "closing" \in Phase /\ Verdict(j) \in Outcome
  BY DEF Phase, Active, Outcome, Verdict
<1>2. job' = [job EXCEPT ![j] = EndedWith(job[j], "closing", Verdict(j))]
  BY DEF Finish, Ends, EndedWith
<1>3. QED BY <1>1, <1>2, EndedStep

LEMMA CloseEffect ==
  ASSUME Types, NEW j \in Job, Close(j)
  PROVE  /\ job'[j] \in JobRecord /\ job'[j].pc = "done"
         /\ job'[j].out = (IF job[j].out = "ok" /\ Stopped(j) THEN "cancelled" ELSE job[j].out)
         /\ SameRequest(job[j], job'[j]) /\ SameWork(job[j], job'[j])
         /\ \A i \in Job \ {j} : job'[i] = job[i]
         /\ job' = [job EXCEPT ![j] = job'[j]]
<1> DEFINE o == IF job[j].out = "ok" /\ Stopped(j) THEN "cancelled" ELSE job[j].out
<1>1. "done" \in Phase /\ o \in Outcome
  BY DEF Phase, Active, Outcome, Types, JobRecord
<1>2. job' = [job EXCEPT ![j] = EndedWith(job[j], "done", o)]
  BY DEF Close, EndedWith
<1> HIDE DEF o
<1>3. /\ job'[j] \in JobRecord /\ job'[j].pc = "done" /\ job'[j].out = o
      /\ SameRequest(job[j], job'[j]) /\ SameWork(job[j], job'[j])
      /\ \A i \in Job \ {j} : job'[i] = job[i]
      /\ job' = [job EXCEPT ![j] = job'[j]]
  BY <1>1, <1>2, EndedStep
<1>4. QED BY <1>3 DEF o

LEMMA EndTypes ==
  ASSUME Types, NEW j \in Job, Finish(j) \/ Close(j) \/ Return(j)
  PROVE  Types'
<1>1. UNCHANGED <<manager, cancel, world>>
  BY DEF Finish, Close, Return
<1>2. ManagerTypes' /\ WorldTypes' /\ cancel' \in BOOLEAN
  BY <1>1 DEF manager, world, Types, ManagerTypes, WorldTypes
<1>3. /\ Len(job[j].said) <= MaxAnswer /\ (job[j].pc \in Active => lock = j /\ Is(j, Generating))
      /\ lock \in Job \cup {None} /\ \A i \in Job : job[i].pc \in Active => lock = i
  BY DEF Types, Shaped
<1>4. CASE Finish(j)
  <2>1. /\ job'[j] \in JobRecord /\ job'[j].pc = "closing" /\ job' = [job EXCEPT ![j] = job'[j]]
        /\ SameRequest(job[j], job'[j]) /\ SameWork(job[j], job'[j]) /\ job[j].pc = "finish"
        /\ lock' = lock
    BY <1>4, FinishEffect DEF Finish, At
  <2>2. Shaped(j)'
    BY <1>3, <2>1 DEF Shaped, Active, At, Is, SameRequest, SameWork
  <2>3. job' \in [Job -> JobRecord] /\ \A i \in Job : Shaped(i)'
    BY <2>1, <2>2, OneRequest
  <2>4. QED BY <1>2, <1>3, <2>1, <2>3 DEF Types
<1>5. CASE Close(j)
  <2>1. /\ job'[j] \in JobRecord /\ job'[j].pc = "done" /\ job' = [job EXCEPT ![j] = job'[j]]
        /\ SameRequest(job[j], job'[j]) /\ SameWork(job[j], job'[j]) /\ job[j].pc = "closing"
        /\ lock' = None
    BY <1>5, CloseEffect DEF Close, At
  <2>2. Shaped(j)'
    BY <1>3, <2>1 DEF Shaped, Active, At, Is, SameRequest, SameWork
  <2>3. \A i \in Job \ {j} : job[i].pc \notin Active
    BY <1>3, <2>1 DEF Active
  <2>4. job' \in [Job -> JobRecord] /\ \A i \in Job : Shaped(i)'
    BY <2>1, <2>2, <2>3, OneRequest
  <2>5. QED BY <1>2, <2>1, <2>4 DEF Types
<1>6. CASE Return(j)
  <2>1. job' = [job EXCEPT ![j] = [Idle EXCEPT !.pc = "over"]] /\ lock' = lock
    BY <1>6 DEF Return, Over
  <2>2. Idle \in JobRecord
    BY EngineAssumption, ContextAssumption DEF Idle, JobRecord
  <2>3. [Idle EXCEPT !.pc = "over"] \in JobRecord
    BY <2>2 DEF JobRecord
  <2>4. job'[j] = [Idle EXCEPT !.pc = "over"]
    BY <2>1 DEF Types
  <2>5. Shaped(j)'
    BY <2>4, EngineAssumption DEF Shaped, Idle, Active, Is, At
  <2>6. job' \in [Job -> JobRecord] /\ \A i \in Job : Shaped(i)'
    BY <2>1, <2>3, <2>5, OneRequest
  <2>7. QED BY <1>2, <1>3, <2>1, <2>6 DEF Types
<1>7. QED BY <1>4, <1>5, <1>6

Left(q) == [q EXCEPT !.gone = TRUE]
Warned(q) == [q EXCEPT !.told = TRUE]

LEMMA LeftRecord ==
  ASSUME NEW q \in JobRecord
  PROVE  /\ Left(q) \in JobRecord /\ Left(q).gone /\ Left(q).told = q.told
         /\ Left(q).pc = q.pc /\ Left(q).kind = q.kind /\ Left(q).out = q.out
         /\ Left(q).path = q.path /\ SameWork(q, Left(q))
  BY DEF JobRecord, Left, SameWork

LEMMA WarnedRecord ==
  ASSUME NEW q \in JobRecord
  PROVE  /\ Warned(q) \in JobRecord /\ Warned(q).told /\ Warned(q).gone = q.gone
         /\ Warned(q).pc = q.pc /\ Warned(q).kind = q.kind /\ Warned(q).out = q.out
         /\ Warned(q).path = q.path /\ SameWork(q, Warned(q))
  BY DEF JobRecord, Warned, SameWork

LEMMA LeaveEffect ==
  ASSUME Types, NEW j \in Job, CallerLeaves(j)
  PROVE  /\ job'[j] = Left(job[j]) /\ job[j] \in JobRecord
         /\ \A i \in Job \ {j} : job'[i] = job[i]
         /\ job' = [job EXCEPT ![j] = Left(job[j])]
  BY DEF Types, CallerLeaves, Left

LEMMA CancelEffect ==
  ASSUME Types, Cancel
  PROVE  \A j \in Job : /\ job[j] \in JobRecord
                        /\ job'[j] = IF Running(j) THEN Warned(job[j]) ELSE job[j]
  BY DEF Types, Cancel, Warned

LEMMA MeanwhileTypes ==
  ASSUME Types, Cancel \/ GameFlips \/ \E j \in Job : CallerLeaves(j)
  PROVE  Types'
<1>1. UNCHANGED <<lock, manager>> /\ cancel' \in BOOLEAN
  BY DEF Cancel, GameFlips, CallerLeaves, Types
<1>2. ManagerTypes' /\ WorldTypes'
  <2>1. ManagerTypes'
    BY <1>1 DEF manager, Types, ManagerTypes
  <2>2. WorldTypes'
    BY DEF Types, WorldTypes, world, Cancel, GameFlips, CallerLeaves
  <2>3. QED BY <2>1, <2>2
<1>3. CASE GameFlips
  <2>1. job' = job
    BY <1>3 DEF GameFlips
  <2>2. \A i \in Job : Shaped(i)'
    BY <1>1, <2>1 DEF Types, Shaped, At, Is
  <2>3. QED BY <1>1, <1>2, <2>1, <2>2 DEF Types
<1>4. ASSUME NEW j \in Job, CallerLeaves(j) PROVE Types'
  <2>1. job'[j] = Left(job[j]) /\ job[j] \in JobRecord /\ job' = [job EXCEPT ![j] = Left(job[j])]
    BY <1>4, LeaveEffect
  <2>2. /\ Left(job[j]) \in JobRecord /\ SameWork(job[j], job'[j])
        /\ job'[j].pc = job[j].pc /\ job'[j].kind = job[j].kind /\ job'[j].path = job[j].path
    BY <2>1, LeftRecord
  <2>3. Shaped(j)'
    BY <1>1, <2>2 DEF Types, Shaped, At, Is, SameWork
  <2>4. job' \in [Job -> JobRecord] /\ \A i \in Job : Shaped(i)'
    BY <1>1, <2>1, <2>2, <2>3, OneRequest
  <2>5. QED BY <1>1, <1>2, <2>4 DEF Types
<1>5. CASE Cancel
  <2>1. job' = [i \in Job |-> job'[i]]
    BY <1>5 DEF Cancel
  <2>2. ASSUME NEW i \in Job PROVE job'[i] \in JobRecord /\ Shaped(i)'
    <3>1. job[i] \in JobRecord /\ (job'[i] = job[i] \/ job'[i] = Warned(job[i]))
      BY <1>5, CancelEffect
    <3>2. job'[i] \in JobRecord /\ SameWork(job[i], job'[i])
          /\ job'[i].pc = job[i].pc /\ job'[i].kind = job[i].kind /\ job'[i].path = job[i].path
      BY <3>1, WarnedRecord DEF SameWork
    <3>3. QED BY <1>1, <3>2 DEF Types, Shaped, At, Is, SameWork
  <2>3. job' \in [Job -> JobRecord]
    BY <2>1, <2>2
  <2>4. QED BY <1>1, <1>2, <2>2, <2>3 DEF Types
<1>6. QED BY <1>3, <1>4, <1>5

LEMMA TypesStep == Types /\ [Next]_vars => Types'
<1>1. SUFFICES ASSUME Types, [Next]_vars PROVE Types'
  OBVIOUS
<1>2. CASE UNCHANGED vars
  <2>1. UNCHANGED <<lock, cancel, job, engine, context, path, layers, role, template,
                    config, game, latched, target, spoiled>>
    BY <1>2 DEF vars, manager, world
  <2>2. QED BY <1>1, <2>1 DEF Types, ManagerTypes, WorldTypes, Shaped, At, Is
<1>3. ASSUME NEW j \in Job, Arrive(j) \/ Serve(j) PROVE Types'
  BY <1>1, <1>3, AskTypes, LoadTypes, EnterTypes, PrefillTypes, SampleTypes, ForwardTypes, EndTypes
  DEF Serve
<1>4. QED BY <1>1, <1>2, <1>3, GameLoopTypes, MeanwhileTypes DEF Next

(* Every variable keeps its type: a generation never counts past the context it   *)
(* works in, an answer never grows past its bound, and whoever is between its      *)
(* first step and its last holds the lock.                                        *)
THEOREM TypeCorrect == Spec => []TypeOK
<1>1. Spec => []Types
  BY TypesInit, TypesStep, PTL DEF Spec
<1>2. QED BY <1>1, TypesImplyTypeOK, PTL

-----------------------------------------------------------------------------
(* Cancellation *)

(* Who has been told: a generation that the flag was set for while it ran. The  *)
(* flag stays up until it ends, since nobody else is inside to clear it.       *)
Told(j) ==
  /\ job[j].told => job[j].kind # "decide"
  /\ job[j].pc \notin {"loop", "token", "finish", "closing", "done"} => ~job[j].told
  /\ job[j].pc \in {"loop", "token", "finish"} /\ job[j].kind # "decide" => (job[j].told <=> cancel)
  /\ At(j, "closing") /\ job[j].out = "ok" => (job[j].told <=> Is(j, {"chat"}) /\ cancel)
  /\ At(j, "closing") /\ job[j].out = "cancelled" => job[j].told \/ job[j].gone
  /\ At(j, "done") =>
       /\ job[j].told \/ (job[j].gone /\ Is(j, {"chat"} \cup Turns)) => job[j].out # "ok"
       /\ job[j].out = "cancelled" => job[j].told \/ job[j].gone

CancelInv == \A j \in Job : Told(j)

LEMMA CancelInit == Init => CancelInv
<1>1. SUFFICES ASSUME Init, NEW j \in Job PROVE Told(j)
  BY DEF CancelInv
<1>2. /\ job[j].pc \in {"none", "configured"} /\ job[j].told = FALSE
  BY <1>1 DEF Init, Idle
<1>3. QED BY <1>2 DEF Told, At, Is

LEMMA OthersTold ==
  ASSUME CancelInv, NEW i \in Job, job'[i] = job[i],
         cancel' = cancel \/ job[i].pc \notin Active
  PROVE  Told(i)'
  BY DEF CancelInv, Told, At, Is, Active

LEMMA LoneWorker ==
  ASSUME Types, NEW j \in Job, lock = None \/ job[j].pc \in Active
  PROVE  \A i \in Job \ {j} : job[i].pc \notin Active
  BY EngineAssumption DEF Types, Shaped

LEMMA FreshTold ==
  ASSUME Types, CancelInv, NEW j \in Job, Arrive(j) \/ ReadConfig(j) \/ Load(j) \/ Return(j)
  PROVE  CancelInv'
<1>1. cancel' = cancel /\ job \in [Job -> JobRecord]
  BY DEF Arrive, ReadConfig, Load, Return, Types
<1>2. /\ \A i \in Job \ {j} : job'[i] = job[i]
      /\ job'[j].pc \in {"waiting", "configured", "over"} /\ job'[j].told = FALSE
  <2>1. CASE Arrive(j)
    <3>1. CASE Ask(j)
      BY <1>1, <3>1 DEF Ask, Idle
    <3>2. CASE AskToSwap(j) \/ Apply(j)
      BY <1>1, <3>2 DEF AskToSwap, Apply, Idle
    <3>3. QED BY <2>1, <3>1, <3>2 DEF Arrive
  <2>2. CASE ReadConfig(j)
    <3>1. job'[j] = [job[j] EXCEPT !.pc = "waiting", !.path = config] /\ job[j] \in JobRecord
          /\ \A i \in Job \ {j} : job'[i] = job[i]
      BY <1>1, <2>2 DEF ReadConfig
    <3>2. job[j].told = FALSE
      BY <2>2, <3>1 DEF ReadConfig, CancelInv, Told, At, JobRecord
    <3>3. job'[j].pc = "waiting" /\ job'[j].told = job[j].told
      BY <3>1 DEF JobRecord
    <3>4. QED BY <3>1, <3>2, <3>3
  <2>3. CASE Load(j) \/ Return(j)
    BY <1>1, <2>3 DEF Load, Return, Over, Idle
  <2>4. QED BY <2>1, <2>2, <2>3
<1>3. Told(j)'
  BY <1>2 DEF Told, At
<1>4. \A i \in Job \ {j} : Told(i)'
  BY <1>1, <1>2, OthersTold
<1>5. QED BY <1>3, <1>4 DEF CancelInv

LEMMA EnterTold ==
  ASSUME Types, CancelInv, NEW j \in Job, Enter(j)
  PROVE  CancelInv'
<1>1. ManagerTypes' /\ At(j, "waiting") /\ lock = None
  BY AutoSwapTypes DEF Enter
<1>2. Entered(j, job[j], job'[j]) /\ \A i \in Job \ {j} : job'[i] = job[i]
  BY <1>1, EnterEffect
<1>3. ~job[j].told
  BY <1>1 DEF CancelInv, Told, At
<1>4. Told(j)'
  BY <1>2, <1>3 DEF Told, At, Is, Entered, SameRequest
<1>5. \A i \in Job \ {j} : Told(i)'
  BY <1>1, <1>2, LoneWorker, OthersTold
<1>6. QED BY <1>4, <1>5 DEF CancelInv

LEMMA WorkTold ==
  ASSUME Types, CancelInv, NEW j \in Job, Prefill(j) \/ Sample(j) \/ Forward(j)
  PROVE  CancelInv'
<1>1. job[j].pc \in {"entered", "loop", "token"} /\ Told(j)
  BY DEF Prefill, Sample, Forward, At, CancelInv
<1>2. \A i \in Job \ {j} : job[i].pc \notin Active
  BY <1>1, LoneWorker DEF Active
<1>3. /\ SameRequest(job[j], job'[j]) /\ \A i \in Job \ {j} : job'[i] = job[i]
      /\ \/ At(j, "entered") /\ cancel' = FALSE
         \/ job[j].pc \in {"loop", "token"} /\ cancel' = cancel
      /\ \/ job'[j].pc = "closing" /\ job'[j].out = "error"
         \/ job'[j].pc \in {"loop", "token", "finish"}
  <2>1. CASE Prefill(j)
    BY <2>1, PrefillEffect DEF Prefilled, Prefill
  <2>2. CASE Sample(j)
    BY <2>2, SampleEffect DEF Sampled, Sample, At
  <2>3. CASE Forward(j)
    BY <2>3, ForwardEffect DEF Forwarded, Refused, Accepted, Failed, Forward, At
  <2>4. QED BY <2>1, <2>2, <2>3
<1>4. cancel \in BOOLEAN /\ job[j].told \in BOOLEAN
  BY DEF Types, JobRecord
<1>5. Told(j)'
  BY <1>1, <1>3, <1>4 DEF Told, At, Is, SameRequest
<1>6. QED BY <1>2, <1>3, <1>5, OthersTold DEF CancelInv

LEMMA EndTold ==
  ASSUME Types, CancelInv, NEW j \in Job, Finish(j) \/ Close(j)
  PROVE  CancelInv'
<1>1. cancel' = cancel /\ Told(j) /\ cancel \in BOOLEAN /\ job[j].told \in BOOLEAN
      /\ job[j].gone \in BOOLEAN
  BY DEF Finish, Close, CancelInv, Types, JobRecord
<1>2. CASE Finish(j)
  <2>1. /\ job'[j].pc = "closing" /\ job'[j].out = Verdict(j) /\ SameRequest(job[j], job'[j])
        /\ \A i \in Job \ {j} : job'[i] = job[i]
        /\ job[j].pc = "finish"
    BY <1>2, FinishEffect DEF Finish, At
  <2>2. Told(j)'
    BY <1>1, <2>1 DEF Told, At, Is, SameRequest, Verdict
  <2>3. QED BY <1>1, <2>1, <2>2, OthersTold DEF CancelInv
<1>3. CASE Close(j)
  <2>1. /\ job'[j].pc = "done" /\ SameRequest(job[j], job'[j])
        /\ job'[j].out = (IF job[j].out = "ok" /\ Stopped(j) THEN "cancelled" ELSE job[j].out)
        /\ \A i \in Job \ {j} : job'[i] = job[i]
        /\ job[j].pc = "closing"
    BY <1>3, CloseEffect DEF Close, At
  <2>2. Told(j)'
    BY <1>1, <2>1 DEF Told, At, Is, SameRequest, Stopped, Superseded
  <2>3. QED BY <1>1, <2>1, <2>2, OthersTold DEF CancelInv
<1>4. QED BY <1>2, <1>3

LEMMA MeanwhileTold ==
  ASSUME Types, CancelInv, GameLoop \/ GameFlips \/ Cancel \/ \E j \in Job : CallerLeaves(j)
  PROVE  CancelInv'
<1>1. CASE GameLoop \/ GameFlips
  <2>1. UNCHANGED <<job, cancel>>
    BY <1>1 DEF GameLoop, Poll, Reload, GameFlips
  <2>2. QED BY <2>1, OthersTold DEF CancelInv
<1>2. ASSUME NEW j \in Job, CallerLeaves(j) PROVE CancelInv'
  <2>1. /\ job'[j] = Left(job[j]) /\ job[j] \in JobRecord /\ cancel' = cancel /\ Told(j)
        /\ \A i \in Job \ {j} : job'[i] = job[i]
        /\ job[j].pc # "done"
    BY <1>2, LeaveEffect DEF CallerLeaves, CancelInv, At
  <2>2. /\ job'[j].gone = TRUE /\ job'[j].told = job[j].told /\ job'[j].pc = job[j].pc
        /\ job'[j].kind = job[j].kind /\ job'[j].out = job[j].out
    BY <2>1, LeftRecord DEF JobRecord, Left
  <2>3. Told(j)'
    BY <2>1, <2>2 DEF Told, At, Is
  <2>4. QED BY <2>1, <2>3, OthersTold DEF CancelInv
<1>3. CASE Cancel
  <2>1. cancel' = TRUE
    BY <1>3 DEF Cancel
  <2>2. ASSUME NEW i \in Job PROVE Told(i)'
    <3>1. job[i] \in JobRecord /\ job'[i] = (IF Running(i) THEN Warned(job[i]) ELSE job[i]) /\ Told(i)
      BY <1>3, CancelEffect DEF CancelInv
    <3>2. CASE Running(i)
      <4>1. /\ job'[i].told = TRUE /\ job'[i].pc = job[i].pc /\ job'[i].kind = job[i].kind
            /\ job'[i].out = job[i].out
        BY <3>1, <3>2, WarnedRecord, Zenon
      <4>2. QED BY <2>1, <3>1, <3>2, <4>1 DEF Told, Running, At, Is
    <3>3. CASE ~Running(i)
      BY <2>1, <3>1, <3>3 DEF Told, Running, At, Is
    <3>4. QED BY <3>2, <3>3
  <2>3. QED BY <2>2 DEF CancelInv
<1>4. QED BY <1>1, <1>2, <1>3

LEMMA CancelStep == Types /\ CancelInv /\ [Next]_vars => CancelInv'
<1>1. SUFFICES ASSUME Types, CancelInv, [Next]_vars PROVE CancelInv'
  OBVIOUS
<1>2. CASE UNCHANGED vars
  BY <1>1, <1>2, OthersTold DEF vars, CancelInv
<1>3. ASSUME NEW j \in Job, Arrive(j) \/ Serve(j) PROVE CancelInv'
  BY <1>1, <1>3, FreshTold, EnterTold, WorkTold, EndTold DEF Serve
<1>4. QED BY <1>1, <1>2, <1>3, MeanwhileTold DEF Next

(* However many generations, cancellations and callers there are: one that was  *)
(* running when the flag was set, or whose reader left, is never reported as a   *)
(* success, and "cancelled" is never the answer to an earlier request's flag.    *)
THEOREM Cancellation == Spec => []CancelIsHeard
<1>1. Types /\ CancelInv => CancelIsHeard
  BY TypesImplyTypeOK DEF CancelInv, Told, CancelIsHeard
<1>2. Spec => [](Types /\ CancelInv)
  BY TypesInit, TypesStep, CancelInit, CancelStep, PTL DEF Spec
<1>3. QED BY <1>1, <1>2, PTL

-----------------------------------------------------------------------------
(* What is believed of the engine *)

EngineInv ==
  /\ engine # None => path = engine.model /\ layers = engine.layers /\ template = engine.model
  /\ latched # None /\ ~spoiled => layers = latched

(* A generation that may still succeed knows the engine it works with: nobody   *)
(* changes it before the lock is free again.                                   *)
Hopeful(j) == job[j].pc \in {"loop", "token", "finish"} \/ (At(j, "closing") /\ job[j].out = "ok")

Informed(j) ==
  /\ Is(j, Nested) /\ (At(j, "entered") \/ Hopeful(j)) =>
       engine # None /\ job[j].id = path /\ job[j].format = template
  /\ Is(j, {"look"}) /\ Hopeful(j) => engine # None /\ job[j].format = template

BeliefInv == EngineInv /\ \A j \in Job : Informed(j)

LEMMA BeliefInit == Init => BeliefInv
<1>1. SUFFICES ASSUME Init PROVE BeliefInv
  OBVIOUS
<1>2. EngineInv
  BY <1>1 DEF Init, EngineInv
<1>3. ASSUME NEW j \in Job PROVE Informed(j)
  BY <1>1 DEF Init, Idle, Informed, Hopeful, At, Is
<1>4. QED BY <1>2, <1>3 DEF BeliefInv

LEMMA OthersInformed ==
  ASSUME BeliefInv, NEW i \in Job, job'[i] = job[i],
         UNCHANGED <<engine, path, template>> \/ job[i].pc \notin Active
  PROVE  Informed(i)'
  BY DEF BeliefInv, Informed, Hopeful, At, Is, Active

LEMMA SameEngine ==
  ASSUME EngineInv, UNCHANGED <<engine, path, layers, template, latched, spoiled>>
  PROVE  EngineInv'
  BY DEF EngineInv

LEMMA SwapBelief ==
  ASSUME EngineInv, NEW m \in Models, NEW n \in Modes, SwapModel(m, n) \/ SwapAndWarm(m, n)
  PROVE  /\ engine' # None =>
              path' = engine'.model /\ layers' = engine'.layers /\ template' = engine'.model
         /\ layers' = layers \/ layers' = n
         /\ engine' # None => layers' = n
<1>1. CASE Swapped(m, n)
  BY <1>1 DEF Swapped
<1>2. CASE NotSwapped(m)
  BY <1>2 DEF NotSwapped
<1>3. QED BY <1>1, <1>2 DEF SwapModel, SwapAndWarm

LEMMA LoadBelief ==
  ASSUME Types, BeliefInv, NEW j \in Job, Load(j)
  PROVE  BeliefInv'
<1>1. lock = None /\ job' = [job EXCEPT ![j] = [Idle EXCEPT !.pc = "over"]] /\ latched' = latched
  BY DEF Load, Over
<1>2. EngineInv /\ layers \in Modes
  BY DEF BeliefInv, Types, ManagerTypes
<1>3. EngineInv'
  <2>1. CASE LoadByCommand(j)
    <3>1. PICK m \in Shelf, n \in Modes : SwapModel(m, n) /\ spoiled' = (spoiled \/ n # layers)
      BY <2>1 DEF LoadByCommand
    <3>2. m \in Models
      BY <3>1, EngineAssumption
    <3>3. QED BY <1>1, <1>2, <3>1, <3>2, SwapBelief DEF EngineInv
  <2>2. CASE LoadConfigured(j)
    <3>1. CASE UNCHANGED <<engine, path, layers, template>>
      BY <1>1, <1>2, <2>2, <3>1, SameEngine DEF LoadConfigured
    <3>2. CASE SwapAndWarm(job[j].path, layers)
      <4>1. job[j].path \in Models
        BY <2>2 DEF Load, LoadConfigured, Types, Shaped, Is, At, Models
      <4>2. spoiled' = spoiled
        BY <2>2 DEF LoadConfigured
      <4>3. QED BY <1>1, <1>2, <3>2, <4>1, <4>2, SwapBelief DEF EngineInv
    <3>3. QED BY <2>2, <3>1, <3>2 DEF LoadConfigured, OwnLayers
  <2>3. QED BY <2>1, <2>2 DEF Load
<1>4. \A i \in Job \ {j} : job'[i] = job[i] /\ job[i].pc \notin Active
  BY <1>1, LoneWorker DEF Types
<1>5. Informed(j)'
  <2>1. job'[j] = [Idle EXCEPT !.pc = "over"]
    BY <1>1 DEF Types
  <2>2. QED BY <2>1 DEF Informed, Hopeful, At, Idle
<1>6. QED BY <1>3, <1>4, <1>5, OthersInformed DEF BeliefInv

LEMMA GameLoopBelief ==
  ASSUME Types, BeliefInv, GameLoop
  PROVE  BeliefInv'
<1>1. EngineInv /\ job' = job
  BY DEF BeliefInv, GameLoop, Poll, Reload
<1>2. CASE UNCHANGED <<engine, path, layers, template, latched, spoiled>>
  <2>1. \A i \in Job : Informed(i)'
    BY <1>1, <1>2, OthersInformed
  <2>2. QED BY <1>1, <1>2, <2>1, SameEngine DEF BeliefInv
<1>3. CASE /\ target # None /\ lock = None /\ engine # None /\ latched' = target
           /\ \/ layers = target /\ UNCHANGED <<engine, path, layers, template>>
              \/ SwapAndWarm(path, target) /\ spoiled' = (engine' = None)
  <2>1. path \in Models /\ target \in Modes
    BY <1>3 DEF Types, ManagerTypes, WorldTypes
  <2>2. EngineInv'
    BY <1>1, <1>3, <2>1, SwapBelief DEF EngineInv
  <2>3. \A i \in Job : job[i].pc \notin Active
    BY <1>3, EngineAssumption DEF Types, Shaped
  <2>4. QED BY <1>1, <2>2, <2>3, OthersInformed DEF BeliefInv
<1>4. QED BY <1>2, <1>3 DEF GameLoop, Poll, Reload, manager

LEMMA EnterBelief ==
  ASSUME Types, BeliefInv, NEW j \in Job, Enter(j)
  PROVE  BeliefInv'
<1>1. /\ At(j, "waiting") /\ lock = None /\ MaybeAutoSwap(j)
      /\ latched' = latched /\ spoiled' = spoiled
  BY DEF Enter, world
<1>2. EngineInv /\ layers \in Modes /\ Expert \in Models /\ config \in Models
  BY DEF BeliefInv, Types, ManagerTypes, WorldTypes, Models
<1>3. EngineInv'
  <2>1. CASE UNCHANGED manager
    BY <1>1, <1>2, <2>1, SameEngine DEF manager
  <2>2. ASSUME NEW m \in Models, SwapModel(m, layers)
        PROVE  EngineInv'
    BY <1>1, <1>2, <2>2, SwapBelief DEF EngineInv
  <2>3. QED BY <1>1, <1>2, <2>1, <2>2 DEF MaybeAutoSwap, SwapFor, OwnLayers
<1>4. ManagerTypes'
  BY AutoSwapTypes DEF Enter
<1>5. Entered(j, job[j], job'[j]) /\ \A i \in Job \ {j} : job'[i] = job[i]
  BY <1>4, EnterEffect
<1>6. Informed(j)'
  BY <1>5 DEF Informed, Hopeful, At, Is, Entered, SameRequest, Nested
<1>7. \A i \in Job \ {j} : Informed(i)'
  BY <1>1, <1>5, LoneWorker, OthersInformed
<1>8. QED BY <1>3, <1>6, <1>7 DEF BeliefInv

LEMMA WorkBelief ==
  ASSUME Types, BeliefInv, NEW j \in Job,
         Prefill(j) \/ Sample(j) \/ Forward(j) \/ Finish(j) \/ Close(j)
  PROVE  BeliefInv'
<1>1. UNCHANGED <<engine, path, layers, template, latched, spoiled>> /\ Informed(j)
  BY DEF Prefill, Sample, Forward, Finish, Close, world, manager, BeliefInv
<1>2. EngineInv'
  BY <1>1, SameEngine DEF BeliefInv
<1>3. (\A i \in Job \ {j} : job'[i] = job[i]) /\ Informed(j)'
  <2>1. CASE Prefill(j)
    <3>1. /\ Prefilled(j, job[j], job'[j]) /\ job[j].pc = "entered"
          /\ \A i \in Job \ {j} : job'[i] = job[i]
      BY <2>1, PrefillEffect DEF Prefill, At
    <3>2. QED BY <1>1, <3>1 DEF Informed, Hopeful, At, Is, Prefilled, SameRequest, Nested
  <2>2. CASE Sample(j)
    <3>1. /\ Sampled(j, job[j], job'[j]) /\ job[j].pc = "loop"
          /\ \A i \in Job \ {j} : job'[i] = job[i]
      BY <2>2, SampleEffect DEF Sample, At
    <3>2. QED BY <1>1, <3>1 DEF Informed, Hopeful, At, Is, Sampled, SameRequest
  <2>3. CASE Forward(j)
    <3>1. /\ Forwarded(j, job[j], job'[j]) /\ job[j].pc = "token"
          /\ \A i \in Job \ {j} : job'[i] = job[i]
      BY <2>3, ForwardEffect DEF Forward, At
    <3>2. \/ job'[j].pc \in {"loop", "finish"}
          \/ job'[j].pc = "closing" /\ job'[j].out = "error"
      BY <3>1 DEF Forwarded, Refused, Accepted, Failed
    <3>3. QED BY <1>1, <3>1, <3>2 DEF Informed, Hopeful, At, Is, Forwarded, SameRequest
  <2>4. CASE Finish(j)
    <3>1. /\ SameRequest(job[j], job'[j]) /\ SameWork(job[j], job'[j])
          /\ job[j].pc = "finish" /\ job'[j].pc = "closing"
          /\ \A i \in Job \ {j} : job'[i] = job[i]
      BY <2>4, FinishEffect DEF Finish, At
    <3>2. QED BY <1>1, <3>1 DEF Informed, Hopeful, At, Is, SameRequest, SameWork
  <2>5. CASE Close(j)
    <3>1. job'[j].pc = "done" /\ \A i \in Job \ {j} : job'[i] = job[i]
      BY <2>5, CloseEffect
    <3>2. QED BY <3>1 DEF Informed, Hopeful, At
  <2>6. QED BY <2>1, <2>2, <2>3, <2>4, <2>5
<1>4. QED BY <1>1, <1>2, <1>3, OthersInformed DEF BeliefInv

LEMMA FreshBelief ==
  ASSUME Types, BeliefInv, NEW j \in Job, Arrive(j) \/ ReadConfig(j) \/ Return(j)
  PROVE  BeliefInv'
<1>1. UNCHANGED <<engine, path, layers, template, latched, spoiled>>
  BY DEF Arrive, ReadConfig, Return, manager, world
<1>2. /\ \A i \in Job \ {j} : job'[i] = job[i]
      /\ job'[j].pc \in {"waiting", "configured", "over"}
  <2>1. CASE Arrive(j)
    BY <2>1 DEF Arrive, Ask, AskToSwap, Apply, Idle, Types
  <2>2. CASE ReadConfig(j)
    BY <2>2 DEF ReadConfig, Types, JobRecord
  <2>3. CASE Return(j)
    BY <2>3 DEF Return, Over, Idle, Types
  <2>4. QED BY <2>1, <2>2, <2>3
<1>3. Informed(j)'
  BY <1>2 DEF Informed, Hopeful, At
<1>4. QED BY <1>1, <1>2, <1>3, SameEngine, OthersInformed DEF BeliefInv

LEMMA MeanwhileBelief ==
  ASSUME Types, BeliefInv, Cancel \/ GameFlips \/ \E j \in Job : CallerLeaves(j)
  PROVE  BeliefInv'
<1>1. UNCHANGED <<engine, path, layers, template, latched, spoiled>>
  BY DEF Cancel, GameFlips, CallerLeaves, manager, world
<1>2. ASSUME NEW i \in Job
      PROVE  /\ job'[i].pc = job[i].pc /\ job'[i].kind = job[i].kind /\ job'[i].out = job[i].out
             /\ job'[i].id = job[i].id /\ job'[i].format = job[i].format
  <2>1. job[i] \in JobRecord
    BY DEF Types
  <2>2. job'[i] = job[i] \/ job'[i] = Warned(job[i]) \/ job'[i] = Left(job[i])
    <3>1. CASE Cancel
      BY <3>1, CancelEffect
    <3>2. CASE GameFlips
      BY <3>2 DEF GameFlips
    <3>3. ASSUME NEW j \in Job, CallerLeaves(j)
          PROVE  job'[i] = job[i] \/ job'[i] = Left(job[i])
      BY <3>3, LeaveEffect
    <3>4. QED BY <3>1, <3>2, <3>3
  <2>3. QED BY <2>1, <2>2, WarnedRecord, LeftRecord DEF SameWork
<1>3. ASSUME NEW i \in Job PROVE Informed(i)'
  BY <1>1, <1>2 DEF BeliefInv, Informed, Hopeful, At, Is
<1>4. QED BY <1>1, <1>3, SameEngine DEF BeliefInv

LEMMA BeliefStep == Types /\ BeliefInv /\ [Next]_vars => BeliefInv'
<1>1. SUFFICES ASSUME Types, BeliefInv, [Next]_vars PROVE BeliefInv'
  OBVIOUS
<1>2. CASE UNCHANGED vars
  BY <1>1, <1>2, OthersInformed, SameEngine DEF vars, manager, world, BeliefInv
<1>3. ASSUME NEW j \in Job, Arrive(j) \/ Serve(j) PROVE BeliefInv'
  BY <1>1, <1>3, FreshBelief, LoadBelief, EnterBelief, WorkBelief DEF Serve
<1>4. QED BY <1>1, <1>2, <1>3, GameLoopBelief, MeanwhileBelief DEF Next

(* Whoever loads a model, and however often a game starts or ends: a success is  *)
(* recorded under the model that gave it, a prompt compiled under the lock has   *)
(* its format, and an engine has the layers the game loop asked for last.        *)
THEOREM Beliefs == Spec => []BeliefsAreTrue
<1>1. BeliefInv => BeliefsAreTrue
  BY DEF BeliefInv, EngineInv, Informed, Hopeful, BeliefsAreTrue, At, Is
<1>2. Spec => [](Types /\ BeliefInv)
  BY TypesInit, TypesStep, BeliefInit, BeliefStep, PTL DEF Spec
<1>3. QED BY <1>1, <1>2, PTL

-----------------------------------------------------------------------------
(* The context *)

(* c holds the sequence b, and the request q knows how long it is; a question   *)
(* about a picture leaves nothing to reuse.                                    *)
Holds(c, q, b) ==
  /\ c.kv = Cells(0, b) /\ q.past = Len(b)
  /\ c.last = IF q.kind = "look" THEN <<>> ELSE b

(* Between a token and its decode, the cache holds what the next view is made of. *)
Extends(q, b) == \A v \in Tokens : View((q.prompt \o q.said) \o <<v>>) = b \o <<v>>

Faithful(j) ==
  /\ Is(j, {"decide"}) => job[j].pc \notin {"loop", "token"}
  /\ Reads(j) /\ ~context.slipped =>
       Holds(context, job[j], View(job[j].prompt \o job[j].said)) /\ context.logits = context.kv
  /\ At(j, "token") /\ ~context.slipped =>
       \E b \in Seq(Tokens) : Holds(context, job[j], b) /\ Extends(job[j], b)

(* last_tokens says what the cache holds, or nothing. *)
Remembers(c) == ~c.slipped => c.last = <<>> \/ c.kv = Cells(0, c.last)

ContextInv == Remembers(context) /\ \A j \in Job : Faithful(j)

LEMMA ContextInit == Init => ContextInv
<1>1. SUFFICES ASSUME Init PROVE ContextInv
  OBVIOUS
<1>2. Remembers(context)
  BY <1>1 DEF Init, Remembers, Empty
<1>3. ASSUME NEW j \in Job PROVE Faithful(j)
  BY <1>1 DEF Init, Idle, Faithful, Reads, At, Is
<1>4. QED BY <1>2, <1>3 DEF ContextInv

LEMMA OthersFaithful ==
  ASSUME ContextInv, NEW i \in Job, job'[i] = job[i],
         context' = context \/ job[i].pc \notin Active
  PROVE  Faithful(i)'
<1>1. Faithful(i)
  BY DEF ContextInv
<1>2. CASE job[i].pc \notin Active
  BY <1>1, <1>2 DEF Faithful, Reads, At, Is, Active
<1>3. CASE context' = context
  BY <1>1, <1>3 DEF Faithful, Reads, At, Is
<1>4. QED BY <1>2, <1>3

LEMMA SwapContext ==
  ASSUME NEW m, NEW n, SwapModel(m, n) \/ SwapAndWarm(m, n)
  PROVE  Remembers(context')
<1>1. IsContext(Empty, Tokens) /\ Persona \in Seq(Tokens)
  BY EmptyContext, EngineAssumption DEF Conversations
<1>2. CASE context' = Empty
  BY <1>2 DEF Remembers, Empty
<1>3. CASE context' = [Decoded(Empty, 0, Persona) EXCEPT !.last = Persona]
  <2>1. PICK c : c = Decoded(Empty, 0, Persona)
    OBVIOUS
  <2>2. IsContext(c, Tokens) /\ c.kv = Cells(0, Persona)
    <3>1. /\ IsContext(Decoded(Empty, 0, Persona), Tokens)
          /\ Decoded(Empty, 0, Persona).kv = Empty.kv \cup Cells(0, Persona)
      BY <1>1, DecodedContext
    <3>2. Empty.kv = {}
      BY EmptyContext
    <3>3. QED BY <2>1, <3>1, <3>2
  <2>3. context'.kv = Cells(0, Persona) /\ context'.last = Persona
    BY <1>1, <1>3, <2>1, <2>2, RenamedContext
  <2>4. QED BY <2>3 DEF Remembers
<1>4. CASE context' \in Undecoded(Empty, 0, Persona)
  BY <1>1, <1>4, UndecodedContext DEF Remembers
<1>5. QED BY <1>2, <1>3, <1>4 DEF SwapModel, SwapAndWarm, NotSwapped

(* A prompt that fits is shown whole. *)
LEMMA FitsWhole ==
  ASSUME NEW t \in Seq(Tokens), Fits(t)
  PROVE  View(t \o <<>>) = t
<1>1. Len(t) \in Nat /\ Len(t) <= NCtx /\ t \o <<>> = t
  BY ContextAssumption DEF Fits
<1>2. Discarded(Len(t)) = 0
  BY <1>1 DEF Discarded
<1>3. QED BY <1>1, <1>2 DEF View

LEMMA OneMore ==
  ASSUME NEW b \in Seq(Tokens), NEW v \in Tokens
  PROVE  /\ b \o <<v>> \in Seq(Tokens) /\ Len(b \o <<v>>) = Len(b) + 1
         /\ Cells(0, b \o <<v>>) = Cells(0, b) \cup Cells(Len(b), <<v>>)
<1>1. PICK t, a : t = b \o <<v>> /\ a = <<v>>
  OBVIOUS
<1>2. t \in Seq(Tokens) /\ a \in Seq(Tokens) /\ Len(t) = Len(b) + 1 /\ Len(a) = 1
  BY <1>1
<1>3. /\ \A i \in 1..Len(b) : t[i] = b[i]
      /\ \A i \in 1..Len(a) : t[Len(b) + i] = a[i]
  BY <1>1, <1>2
<1>4. Joins(t, b, a)
  BY <1>2, <1>3 DEF Joins
<1>5. Cells(0, t) = Cells(0, b) \cup Cells(Len(b), a)
  BY <1>2, <1>4, CellsOfParts
<1>6. QED BY <1>1, <1>2, <1>5

(* A prefill leaves the cells of the prompt, whether it reused some or began anew. *)
LEMMA PrefillFills ==
  ASSUME Types, ContextInv, NEW j \in Job, At(j, "entered"), ~Cleared(j).slipped
  PROVE  Cleared(j).kv \cup Cells(Start(j), Rest(j)) = Cells(0, job[j].prompt)
<1>1. job[j].prompt \in Seq(Tokens) /\ Len(job[j].prompt) > 0 /\ IsContext(context, Tokens)
  BY DEF Types, ManagerTypes, Shaped, At, Is, Active, JobRecord
<1>2. CASE Start(j) = 0
  <2>1. Cleared(j) = Empty
    BY <1>2 DEF Cleared, Kept
  <2>2. Rest(j) = job[j].prompt
    BY <1>1, <1>2 DEF Rest
  <2>3. QED BY <1>2, <2>1, <2>2, EmptyContext
<1>3. CASE Start(j) # 0
  <2>1. ~Is(j, {"look"}) /\ Start(j) = Common(context.last, job[j].prompt)
        /\ Cleared(j) = Kept(context, Start(j))
    BY <1>3 DEF Start, Cleared
  <2>2. Cleared(j).slipped = context.slipped
    BY <1>1, <1>3, <2>1 DEF Kept, IsContext
  <2>3. context.last = <<>> \/ context.kv = Cells(0, context.last)
    BY <2>2 DEF ContextInv, Remembers
  <2>4. QED BY <1>1, <2>1, <2>2, <2>3, ReuseIsExact DEF Rest
<1>4. QED BY <1>2, <1>3

LEMMA PrefillFaithful ==
  ASSUME Types, ContextInv, NEW j \in Job, Prefill(j)
  PROVE  Remembers(context') /\ Faithful(j)'
<1>1. /\ At(j, "entered") /\ Remembers(context) /\ IsContext(context, Tokens)
      /\ job[j].prompt \in Seq(Tokens) /\ job[j].said = <<>> /\ <<>> \in Seq(Tokens)
  BY DEF Prefill, ContextInv, Types, ManagerTypes, Shaped, At, Is, Active, JobRecord, Generating
<1>2. Prefilled(j, job[j], job'[j]) /\ Refilled(j, job'[j])
  BY PrefillEffect, PrefillContext
<1>3. CASE job'[j].pc = "closing"
  <2>1. Faithful(j)'
    BY <1>3 DEF Faithful, Reads, At
  <2>2. IsContext(Cleared(j), Tokens)
    BY <1>1, StartTypes
  <2>3. CASE context' = context
    BY <1>1, <2>1, <2>3 DEF Remembers
  <2>4. CASE context' = [context EXCEPT !.last = <<>>]
    <3>1. PICK e : e = <<>>
      OBVIOUS
    <3>2. [context EXCEPT !.last = e].last = e
      BY <1>1, <3>1, RenamedContext
    <3>3. QED BY <2>1, <2>4, <3>1, <3>2 DEF Remembers
  <2>5. CASE context' \in Undecoded(Cleared(j), Start(j), Rest(j))
    <3>1. context'.slipped
      BY <2>2, <2>5, UndecodedContext
    <3>2. QED BY <2>1, <3>1 DEF Remembers
  <2>6. QED BY <1>2, <1>3, <2>1, <2>3, <2>4, <2>5 DEF Refilled
<1>4. CASE job'[j].pc # "closing"
  <2> DEFINE t == job[j].prompt
             l == IF Is(j, {"look"}) THEN <<>> ELSE t
             d == Decoded(Cleared(j), Start(j), Rest(j))
  <2>1. context' = [d EXCEPT !.last = l] /\ l \in Seq(Tokens)
    BY <1>1, <1>2, <1>4 DEF Refilled
  <2>2. IsContext(Cleared(j), Tokens)
    BY <1>1, StartTypes
  <2>3. /\ IsContext(d, Tokens) /\ d.kv = Cleared(j).kv \cup Cells(Start(j), Rest(j))
        /\ d.logits = d.kv /\ d.slipped = Cleared(j).slipped
    <3>1. PICK c, n, r : c = Cleared(j) /\ n = Start(j) /\ r = Rest(j)
      OBVIOUS
    <3>2. /\ IsContext(Decoded(c, n, r), Tokens) /\ Decoded(c, n, r).kv = c.kv \cup Cells(n, r)
          /\ Decoded(c, n, r).logits = c.kv \cup Cells(n, r)
          /\ Decoded(c, n, r).slipped = c.slipped
      BY <2>2, <3>1, DecodedContext
    <3>3. QED BY <3>1, <3>2
  <2> HIDE DEF d
  <2>4. /\ context'.last = l /\ context'.kv = d.kv /\ context'.logits = d.kv
        /\ context'.slipped = Cleared(j).slipped
    BY <2>1, <2>3, RenamedContext
  <2>5. ~context'.slipped => context'.kv = Cells(0, t)
    BY <1>1, <2>3, <2>4, PrefillFills
  <2>6. Remembers(context')
    BY <2>4, <2>5 DEF Remembers
  <2>7. /\ SameRequest(job[j], job'[j]) /\ job'[j].prompt = t /\ job'[j].said = <<>>
        /\ Fits(t) /\ job'[j].past = Len(t)
        /\ job'[j].pc = (IF job[j].kind = "decide" THEN "finish" ELSE "loop")
    BY <1>1, <1>2, <1>4 DEF Prefilled
  <2>8. View(job'[j].prompt \o job'[j].said) = t
    BY <1>1, <2>7, FitsWhole
  <2>9. ~context'.slipped =>
          /\ Holds(context', job'[j], View(job'[j].prompt \o job'[j].said))
          /\ context'.logits = context'.kv
    BY <2>4, <2>5, <2>7, <2>8 DEF Holds, SameRequest, Is
  <2>10. Faithful(j)'
    BY <2>7, <2>9 DEF Faithful, Reads, At, Is, SameRequest
  <2>11. QED BY <2>6, <2>10
<1>5. QED BY <1>3, <1>4

LEMMA ShownTypes ==
  ASSUME Types, NEW j \in Job
  PROVE  /\ job[j].prompt \o job[j].said \in Seq(Tokens)
         /\ View(job[j].prompt \o job[j].said) \in Seq(Tokens)
         /\ Len(View(job[j].prompt \o job[j].said)) \in 0..NCtx
<1>1. job[j].prompt \in Seq(Tokens) /\ job[j].said \in Seq(Vocab) /\ Vocab \subseteq Tokens
  BY DEF Types, JobRecord, Tokens
<1>2. job[j].said \in Seq(Tokens)
  BY <1>1
<1>3. PICK t : t = job[j].prompt \o job[j].said
  OBVIOUS
<1>4. t \in Seq(Tokens)
  BY <1>1, <1>2, <1>3
<1>5. View(t) \in Seq(Tokens)
  BY <1>4, ViewFacts
<1>6. Len(View(t)) \in 0..NCtx
  <2>1. PICK n, d : n = Len(t) /\ d = Discarded(Len(t))
    OBVIOUS
  <2>2. n \in Nat /\ d \in Nat /\ n - d <= NCtx /\ (d > 0 => n - d > NCtx - Window)
    BY <1>4, <2>1, DiscardedFacts
  <2>3. Len(View(t)) = n - d
    BY <1>4, <2>1, ViewFacts DEF Shows
  <2>4. Len(View(t)) \in Nat
    BY <1>5
  <2>5. QED BY <2>2, <2>3, <2>4, ContextAssumption
<1>7. QED BY <1>3, <1>4, <1>5, <1>6

(* Room is made by pruning, and the view moves with it. *)
LEMMA SampleFaithful ==
  ASSUME Types, ContextInv, NEW j \in Job, Sample(j)
  PROVE  Remembers(context') /\ Faithful(j)'
<1> DEFINE t == job[j].prompt \o job[j].said
           s == View(t)
<1>1. /\ At(j, "loop") /\ Remembers(context) /\ IsContext(context, Tokens) /\ ~Is(j, {"decide"})
      /\ job[j].past \in 0..NCtx
  BY DEF Sample, ContextInv, Types, ManagerTypes, Faithful, At, JobRecord
<1>2. t \in Seq(Tokens) /\ s \in Seq(Tokens) /\ Len(s) \in 0..NCtx
  BY ShownTypes
<1>3. ~context.slipped => Holds(context, job[j], s)
  BY <1>1 DEF ContextInv, Faithful, Reads
<1>4. Sampled(j, job[j], job'[j])
  BY SampleEffect
<1>5. \A v \in Tokens : /\ Len(s) < NCtx => View(t \o <<v>>) = s \o <<v>>
                        /\ Len(s) = NCtx => View(t \o <<v>>) = Cut(s) \o <<v>>
  BY <1>2, ViewGrows
<1>6. CASE context' = context /\ job'[j].pc = "finish"
  BY <1>1, <1>4, <1>6 DEF Remembers, Faithful, Reads, At, Is, Sampled, SameRequest
<1>7. CASE /\ ~Full(j) /\ context' = context /\ job'[j].past = job[j].past
           /\ job'[j].pc = "token"
  <2>1. SameRequest(job[j], job'[j]) /\ job'[j].prompt = job[j].prompt /\ job'[j].said = job[j].said
    BY <1>4 DEF Sampled
  <2>2. ASSUME ~context.slipped
        PROVE  Holds(context', job'[j], s) /\ Extends(job'[j], s)
    <3>1. Len(s) < NCtx
      BY <1>1, <1>2, <1>3, <1>7, <2>2, ContextAssumption DEF Full, Holds
    <3>2. Extends(job'[j], s)
      BY <1>5, <2>1, <3>1 DEF Extends
    <3>3. QED BY <1>3, <1>7, <2>1, <2>2, <3>2 DEF Holds, SameRequest
  <2>3. ~context'.slipped => \E b \in Seq(Tokens) : Holds(context', job'[j], b) /\ Extends(job'[j], b)
    BY <1>2, <1>7, <2>2
  <2>4. QED BY <1>1, <1>7, <2>1, <2>3 DEF Remembers, Faithful, Reads, At, Is, SameRequest
<1>8. CASE /\ Full(j) /\ ~Is(j, {"look"}) /\ context' = Pruned(context)
           /\ job'[j].past = job[j].past - Window /\ job'[j].pc \in {"finish", "token"}
  <2>1. SameRequest(job[j], job'[j]) /\ job'[j].prompt = job[j].prompt /\ job'[j].said = job[j].said
    BY <1>4 DEF Sampled
  <2>2. context'.slipped = context.slipped
    BY <1>1, <1>8, PrunedContext
  <2>3. ASSUME ~context.slipped
        PROVE  Holds(context', job'[j], Cut(s)) /\ Extends(job'[j], Cut(s)) /\ Cut(s) \in Seq(Tokens)
    <3>1. context.last = s /\ context.kv = Cells(0, s) /\ Len(s) = job[j].past
      BY <1>3, <1>8, <2>3 DEF Holds, Is
    <3>2. Len(s) = NCtx /\ Len(s) >= 2 * Window
      BY <1>1, <1>2, <1>8, <3>1, ContextAssumption DEF Full
    <3>3. context'.last = Cut(s) /\ context'.kv = Cells(0, Cut(s))
      BY <1>1, <1>8, <3>1, <3>2, PrunedContext
    <3>4. Cut(s) \in Seq(Tokens) /\ Len(Cut(s)) = Len(s) - Window
      BY <1>2, <3>2, CutFacts DEF Shows
    <3>5. Extends(job'[j], Cut(s))
      BY <1>5, <2>1, <3>2 DEF Extends
    <3>6. QED BY <1>8, <2>1, <3>1, <3>3, <3>4, <3>5 DEF Holds, SameRequest, Is
  <2>4. ~context'.slipped => \E b \in Seq(Tokens) : Holds(context', job'[j], b) /\ Extends(job'[j], b)
    BY <2>2, <2>3
  <2>5. Remembers(context')
    BY <1>8, <2>1, <2>2, <2>3 DEF Remembers, Holds, SameRequest, Is
  <2>6. QED BY <1>1, <1>8, <2>1, <2>4, <2>5 DEF Faithful, Reads, At, Is, SameRequest
<1>9. QED BY <1>4, <1>6, <1>7, <1>8 DEF Sampled, Is

LEMMA ForwardFaithful ==
  ASSUME Types, ContextInv, NEW j \in Job, Forward(j)
  PROVE  Remembers(context') /\ Faithful(j)'
<1>1. /\ At(j, "token") /\ Remembers(context) /\ IsContext(context, Tokens) /\ ~Is(j, {"decide"})
      /\ job[j].token \in Tokens /\ job[j].said \in Seq(Vocab) /\ job[j].prompt \in Seq(Tokens)
      /\ job[j].token \in Vocab
  BY DEF Forward, ContextInv, Types, ManagerTypes, Shaped, Faithful, At, JobRecord, Tokens
<1>2. Forwarded(j, job[j], job'[j])
  BY ForwardEffect
<1>3. SameRequest(job[j], job'[j]) /\ job'[j].prompt = job[j].prompt
  BY <1>2 DEF Forwarded
<1>4. CASE Refused(j)
  <2>1. context' = context /\ job'[j].pc = "finish"
    BY <1>4 DEF Refused
  <2>2. QED BY <1>1, <1>3, <2>1 DEF Remembers, Faithful, Reads, At, Is, SameRequest
<1> DEFINE v == job[j].token
           a == IF Is(j, {"look"}) THEN context ELSE [context EXCEPT !.last = @ \o <<v>>]
           l == IF Is(j, {"look"}) THEN context.last ELSE context.last \o <<v>>
<1>5. /\ IsContext(a, Tokens) /\ a.kv = context.kv /\ a.slipped = context.slipped
      /\ a.last = l
  <2>1. context.last \o <<v>> \in Seq(Tokens)
    BY <1>1 DEF IsContext
  <2>2. PICK w : w = context.last \o <<v>>
    OBVIOUS
  <2>3. /\ IsContext([context EXCEPT !.last = w], Tokens)
        /\ [context EXCEPT !.last = w].last = w /\ [context EXCEPT !.last = w].kv = context.kv
        /\ [context EXCEPT !.last = w].slipped = context.slipped
    <3>1. w \in Seq(Tokens)
      BY <2>1, <2>2
    <3>2. QED BY <1>1, <3>1, RenamedContext
  <2>4. a = (IF Is(j, {"look"}) THEN context ELSE [context EXCEPT !.last = w])
        /\ l = (IF Is(j, {"look"}) THEN context.last ELSE w)
    BY <2>2
  <2> HIDE DEF a, l
  <2>5. QED BY <1>1, <2>3, <2>4
<1>6. CASE Failed(j, job[j])
  <2>1. context' \in Undecoded(a, job[j].past, <<v>>) /\ job'[j].pc = "closing"
    BY <1>6 DEF Failed
  <2> HIDE DEF a
  <2>2. context'.slipped
    BY <1>5, <2>1, UndecodedContext
  <2>3. QED BY <2>1, <2>2 DEF Remembers, Faithful, Reads, At
<1>7. CASE Accepted(j, job[j], job'[j])
  <2>1. /\ context' = Decoded(a, job[j].past, <<v>>)
        /\ job'[j].past = job[j].past + 1 /\ job'[j].said = job[j].said \o <<v>>
        /\ job'[j].pc \in {"finish", "loop"}
    BY <1>7 DEF Accepted
  <2> HIDE DEF a
  <2>2. /\ context'.kv = context.kv \cup Cells(job[j].past, <<v>>) /\ context'.logits = context'.kv
        /\ context'.last = l /\ context'.slipped = context.slipped
    <3>1. PICK n, w : n = job[j].past /\ w = <<v>>
      OBVIOUS
    <3>2. /\ Decoded(a, n, w).kv = a.kv \cup Cells(n, w)
          /\ Decoded(a, n, w).logits = a.kv \cup Cells(n, w)
          /\ Decoded(a, n, w).last = a.last /\ Decoded(a, n, w).slipped = a.slipped
      BY <1>5, DecodedContext
    <3>3. QED BY <1>5, <2>1, <3>1, <3>2
  <2>3. ASSUME ~context.slipped
        PROVE  Holds(context', job'[j], View(job'[j].prompt \o job'[j].said))
    <3>1. PICK b \in Seq(Tokens) : Holds(context, job[j], b) /\ Extends(job[j], b)
      BY <1>1, <2>3 DEF ContextInv, Faithful
    <3>2. b \in Seq(Tokens)
      BY <3>1
    <3>3. job'[j].prompt \o job'[j].said = (job[j].prompt \o job[j].said) \o <<v>>
      <4>1. PICK p, s, w : p = job[j].prompt /\ s = job[j].said /\ w = <<v>>
        OBVIOUS
      <4>2. p \in Seq(Tokens) /\ s \in Seq(Tokens) /\ w \in Seq(Tokens)
        BY <1>1, <4>1 DEF Tokens
      <4>3. (p \o s) \o w = p \o (s \o w)
        BY <4>2, ConcatAssociative
      <4>4. QED BY <1>3, <2>1, <4>1, <4>3
    <3>4. View(job'[j].prompt \o job'[j].said) = b \o <<v>>
      BY <1>1, <3>1, <3>3 DEF Extends
    <3>5. Len(b \o <<v>>) = Len(b) + 1 /\ Cells(0, b \o <<v>>) = Cells(0, b) \cup Cells(Len(b), <<v>>)
      BY <1>1, <3>2, OneMore
    <3>6. context'.kv = Cells(0, b \o <<v>>) /\ job'[j].past = Len(b \o <<v>>)
      BY <2>1, <2>2, <3>1, <3>5 DEF Holds
    <3>7. context'.last = IF job'[j].kind = "look" THEN <<>> ELSE b \o <<v>>
      BY <1>3, <2>2, <3>1 DEF Holds, SameRequest, Is
    <3>8. QED BY <3>4, <3>6, <3>7 DEF Holds
  <2>4. Remembers(context')
    BY <1>3, <2>2, <2>3 DEF Remembers, Holds
  <2>5. QED BY <1>1, <1>3, <2>1, <2>2, <2>3, <2>4 DEF Faithful, Reads, At, Is, SameRequest
<1>8. QED BY <1>2, <1>4, <1>6, <1>7 DEF Forwarded

LEMMA EnterFaithful ==
  ASSUME Types, ContextInv, NEW j \in Job, Enter(j)
  PROVE  ContextInv'
<1>1. At(j, "waiting") /\ lock = None /\ MaybeAutoSwap(j)
  BY DEF Enter
<1>2. Remembers(context')
  <2>1. CASE context' = context
    BY <2>1 DEF ContextInv, Remembers
  <2>2. CASE \E m, n : SwapModel(m, n)
    BY <2>2, SwapContext
  <2>3. QED BY <1>1, <2>1, <2>2 DEF MaybeAutoSwap, SwapFor, manager
<1>3. ManagerTypes'
  BY AutoSwapTypes DEF Enter
<1>4. \A i \in Job \ {j} : job'[i] = job[i]
  BY <1>3, EnterEffect
<1>5. job'[j].pc \in {"entered", "closing"}
  BY <1>3, EnterEffect DEF Entered
<1>6. Faithful(j)'
  BY <1>5 DEF Faithful, Reads, At
<1>7. \A i \in Job \ {j} : Faithful(i)'
  BY <1>1, <1>4, LoneWorker, OthersFaithful
<1>8. QED BY <1>2, <1>6, <1>7 DEF ContextInv

LEMMA LoadFaithful ==
  ASSUME Types, ContextInv, Reload \/ \E j \in Job : Load(j)
  PROVE  ContextInv'
<1>1. lock = None
  BY DEF Reload, Load
<1>2. Remembers(context')
  <2>1. CASE context' = context
    BY <2>1 DEF ContextInv, Remembers
  <2>2. CASE \E m, n : SwapModel(m, n) \/ SwapAndWarm(m, n)
    BY <2>2, SwapContext
  <2>3. QED BY <2>1, <2>2 DEF Reload, Load, LoadByCommand, LoadConfigured
<1>3. \A i \in Job : job[i].pc \notin Active
  BY <1>1, EngineAssumption DEF Types, Shaped
<1>4. ASSUME NEW i \in Job PROVE Faithful(i)'
  <2>1. CASE job'[i] = job[i]
    BY <1>3, <2>1, OthersFaithful
  <2>2. CASE job'[i].pc = "over"
    BY <2>2 DEF Faithful, Reads, At
  <2>3. job'[i] = job[i] \/ job'[i].pc = "over"
    BY DEF Reload, Load, Over, Types, Idle
  <2>4. QED BY <2>1, <2>2, <2>3
<1>5. QED BY <1>2, <1>4 DEF ContextInv

LEMMA FreshFaithful ==
  ASSUME Types, ContextInv, NEW j \in Job,
         Arrive(j) \/ ReadConfig(j) \/ Finish(j) \/ Close(j) \/ Return(j)
  PROVE  ContextInv'
<1>1. context' = context
  BY DEF Arrive, ReadConfig, Finish, Close, Return, manager
<1>2. /\ \A i \in Job \ {j} : job'[i] = job[i]
      /\ job'[j].pc \in {"waiting", "configured", "closing", "done", "over"}
  <2>1. CASE Arrive(j)
    BY <2>1 DEF Arrive, Ask, AskToSwap, Apply, Idle, Types
  <2>2. CASE ReadConfig(j)
    BY <2>2 DEF ReadConfig, Types, JobRecord
  <2>3. CASE Return(j)
    BY <2>3 DEF Return, Over, Idle, Types
  <2>4. CASE Finish(j) \/ Close(j)
    BY <2>4, FinishEffect, CloseEffect
  <2>5. QED BY <2>1, <2>2, <2>3, <2>4
<1>3. Faithful(j)'
  BY <1>2 DEF Faithful, Reads, At
<1>4. \A i \in Job \ {j} : Faithful(i)'
  BY <1>1, <1>2, OthersFaithful
<1>5. Remembers(context')
  BY <1>1 DEF ContextInv, Remembers
<1>6. QED BY <1>3, <1>4, <1>5 DEF ContextInv

LEMMA WorkFaithful ==
  ASSUME Types, ContextInv, NEW j \in Job, Prefill(j) \/ Sample(j) \/ Forward(j)
  PROVE  ContextInv'
<1>1. job[j].pc \in Active
  BY DEF Prefill, Sample, Forward, At, Active
<1>2. \A i \in Job \ {j} : job'[i] = job[i] /\ job[i].pc \notin Active
  BY <1>1, LoneWorker, PrefillEffect, SampleEffect, ForwardEffect
<1>3. Remembers(context') /\ Faithful(j)'
  BY PrefillFaithful, SampleFaithful, ForwardFaithful
<1>4. QED BY <1>2, <1>3, OthersFaithful DEF ContextInv

LEMMA MeanwhileFaithful ==
  ASSUME Types, ContextInv, Poll \/ Cancel \/ GameFlips \/ \E j \in Job : CallerLeaves(j)
  PROVE  ContextInv'
<1>1. context' = context
  BY DEF Poll, Cancel, GameFlips, CallerLeaves, manager
<1>2. ASSUME NEW i \in Job
      PROVE  /\ job'[i].pc = job[i].pc /\ job'[i].kind = job[i].kind /\ job'[i].past = job[i].past
             /\ job'[i].prompt = job[i].prompt /\ job'[i].said = job[i].said
  <2>1. job[i] \in JobRecord
    BY DEF Types
  <2>2. job'[i] = job[i] \/ job'[i] = Warned(job[i]) \/ job'[i] = Left(job[i])
    <3>1. CASE Cancel
      BY <3>1, CancelEffect
    <3>2. CASE Poll \/ GameFlips
      BY <3>2 DEF Poll, GameFlips
    <3>3. ASSUME NEW j \in Job, CallerLeaves(j)
          PROVE  job'[i] = job[i] \/ job'[i] = Left(job[i])
      BY <3>3, LeaveEffect
    <3>4. QED BY <3>1, <3>2, <3>3
  <2>3. QED BY <2>1, <2>2, WarnedRecord, LeftRecord DEF SameWork
<1>3. ASSUME NEW i \in Job PROVE Faithful(i)'
  BY <1>1, <1>2 DEF ContextInv, Faithful, Reads, At, Is, Holds, Extends
<1>4. Remembers(context')
  BY <1>1 DEF ContextInv, Remembers
<1>5. QED BY <1>3, <1>4 DEF ContextInv

LEMMA ContextStep == Types /\ ContextInv /\ [Next]_vars => ContextInv'
<1>1. SUFFICES ASSUME Types, ContextInv, [Next]_vars PROVE ContextInv'
  OBVIOUS
<1>2. CASE UNCHANGED vars
  <2>1. context' = context /\ job' = job
    BY <1>2 DEF vars, manager
  <2>2. Remembers(context')
    BY <1>1, <2>1 DEF ContextInv, Remembers
  <2>3. QED BY <1>1, <2>1, <2>2, OthersFaithful DEF ContextInv
<1>3. ASSUME NEW j \in Job, Arrive(j) \/ Serve(j) PROVE ContextInv'
  BY <1>1, <1>3, FreshFaithful, LoadFaithful, EnterFaithful, WorkFaithful DEF Serve
<1>4. QED BY <1>1, <1>2, <1>3, LoadFaithful, MeanwhileFaithful DEF Next, GameLoop

(* However long the conversations are and however much of them the cache held,   *)
(* a token is sampled from the view of its own conversation: reuse, pruning and   *)
(* swaps leave no cell of another one, unless a decode has failed on this cache.  *)
THEOREM Contexts == Spec => []ContextIsThePrompt
<1>1. Types /\ ContextInv => ContextIsThePrompt
  BY DEF ContextInv, Faithful, Holds, ContextIsThePrompt, Is
<1>2. Spec => [](Types /\ ContextInv)
  BY TypesInit, TypesStep, ContextInit, ContextStep, PTL DEF Spec
<1>3. QED BY <1>1, <1>2, PTL
==============================================================================
