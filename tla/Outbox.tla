--------------------------------- MODULE Outbox ---------------------------------
(***************************************************************************)
(* Messages to other people: drafts wait in a table (messaging/outbox.rs)   *)
(* until a second request confirms them (commands/messaging.rs), which      *)
(* removes the draft and then sends it (Messaging). Requests run             *)
(* concurrently; what each does to the table is one closure on the writer   *)
(* thread, one transaction.                                                 *)
(*                                                                          *)
(* A draft is an identity (its random id); its text is what the key it was  *)
(* encrypted with can open. The wall clock may jump either way.             *)
(* Not modelled: contacts (a name nobody or several answer to stages        *)
(* nothing) and peek, which no request calls.                               *)
(***************************************************************************)
EXTENDS Messaging

CONSTANTS Op,          \* what each request may ask for
          MaxPending,  \* MAX_PENDING (32 in the code)
          TTL,         \* TTL_SECS (300 in the code)
          Times,       \* bound: the readings of the clock
          Keys,        \* keys a process may have been started with
          MaxCrashes   \* bound on the crashes of the process

Ops == {"draft", "confirm", "cancel", "pending"}

(* Ids are random, so that no two requests create the same draft. *)
ASSUME OutboxAssumption ==
  /\ IsFiniteSet(Draft)
  /\ Op \in [Req -> SUBSET Ops]
  /\ \A r, s \in Req : "draft" \in Op[r] \cap Op[s] /\ On[r] = On[s] => r = s
  /\ MaxPending \in Nat \ {0} /\ TTL \in Nat /\ Times \subseteq Int
  /\ MaxCrashes \in Nat

VARIABLES
  box,      \* the rows of message_outbox
  born,     \* created_at of a row, 0 where there is none
  seq,      \* seq of a row, 0 for a draft never inserted
  last,     \* the AUTOINCREMENT counter
  cipher,   \* the key that opens a row: none where there is none
  now,      \* the clock
  key,      \* the key of the running process
  crashes

Table == <<box, born, seq, last, cipher>>
Platforms == <<to, sent, tabVars>>
Environment == <<now, key, crashes>>
vars == <<Table, messaging, Environment>>

TypeOK ==
  /\ MessagingTypeOK
  /\ box \subseteq Draft
  /\ born \in [Draft -> Int] /\ seq \in [Draft -> Nat] /\ last \in Nat
  /\ cipher \in [Draft -> SUBSET Keys]
  /\ now \in Times /\ key \in Keys
  /\ crashes \in Nat

Init ==
  /\ MessagingInit
  /\ box = {} /\ born = [d \in Draft |-> 0] /\ seq = [d \in Draft |-> 0] /\ last = 0
  /\ now \in Times /\ key \in Keys
  /\ cipher = [d \in Draft |-> {}]
  /\ crashes = 0

-----------------------------------------------------------------------------
(* het_han and the condition of delete_expired agree. *)
Expired(d) == now - born[d] >= TTL
Live == {d \in box : ~Expired(d)}

(* Only these rows stay. *)
Keep(rows) ==
  /\ box' = rows
  /\ born' = [d \in Draft |-> IF d \in rows THEN born[d] ELSE 0]
  /\ cipher' = [d \in Draft |-> IF d \in rows THEN cipher[d] ELSE {}]
  /\ UNCHANGED <<seq, last>>

(* ORDER BY created_at, seq *)
Older(d, e) == born[d] < born[e] \/ (born[d] = born[e] /\ seq[d] < seq[e])

(* How many rows must go before one is inserted. Mutant: one too few. *)
ExcessOffByOne(rows) ==
  IF Cardinality(rows) > MaxPending THEN Cardinality(rows) - MaxPending ELSE 0
Excess(rows) ==
  IF Cardinality(rows) >= MaxPending THEN Cardinality(rows) - MaxPending + 1 ELSE 0

-----------------------------------------------------------------------------
(* The writer thread gets to the closure of a request. *)
Turn(r, op) ==
  /\ step[r] = "new" /\ op \in Op[r]
  /\ UNCHANGED <<Platforms, Environment>>

(* stage: expired rows go, then the oldest ones until there is room. *)
Stage(r) ==
  /\ Turn(r, "draft")
  /\ \E gone \in SUBSET Live :
       /\ Cardinality(gone) = Excess(Live)
       /\ \A d \in gone, e \in Live \ gone : Older(d, e)
       /\ LET rest == Live \ gone IN
            /\ box' = rest \cup {On[r]}
            /\ born' = [d \in Draft |-> IF d = On[r] THEN now
                                       ELSE IF d \in rest THEN born[d] ELSE 0]
            /\ cipher' = [d \in Draft |-> IF d = On[r] THEN {key}
                                         ELSE IF d \in rest THEN cipher[d] ELSE {}]
  /\ last' = last + 1
  /\ seq' = [seq EXCEPT ![On[r]] = last']
  /\ Answer(r, "drafted")

(* take: a row that is alive and can be opened is consumed before anything is *)
(* sent.                                                                      *)
AfterConfirmation(d) == box \ {d}

Take(r) ==
  /\ Turn(r, "confirm")
  /\ LET d == On[r] IN
       \/ /\ d \notin box
          /\ Answer(r, "error") /\ UNCHANGED Table
       \/ /\ d \in box /\ Expired(d)
          /\ Keep(box \ {d}) /\ Answer(r, "error")
       \/ /\ d \in box /\ ~Expired(d) /\ key \notin cipher[d]
          /\ Answer(r, "error") /\ UNCHANGED Table
       \/ /\ d \in box /\ ~Expired(d) /\ key \in cipher[d]
          /\ Keep(AfterConfirmation(d))
          /\ step' = [step EXCEPT ![r] = "sending"]
          /\ UNCHANGED reply

AfterCancel(d) == Live \ {d}

Cancel(r) ==
  /\ Turn(r, "cancel")
  /\ Keep(AfterCancel(On[r]))
  /\ Answer(r, IF On[r] \in Live THEN "cancelled" ELSE "nothing")

(* One row that cannot be opened refuses the whole list. *)
Pending(r) ==
  /\ Turn(r, "pending")
  /\ Keep(Live)
  /\ Answer(r, IF \E d \in Live : key \notin cipher[d] THEN "error" ELSE "listed")

(* SQLite refuses, or the writer rejects the closure: the transaction leaves *)
(* nothing behind.                                                           *)
StorageFails(r) ==
  /\ step[r] = "new"
  /\ Answer(r, "error")
  /\ UNCHANGED <<Table, Platforms, Environment>>

-----------------------------------------------------------------------------
(* messaging::send, outside the writer *)
Dispatch(r) ==
  /\ Deliver(r) \/ Delivered(r) \/ MessengerStep(r)
  /\ UNCHANGED <<Table, Environment>>

Page == PageChanges /\ UNCHANGED <<Table, Environment>>

(* Mutant: the draft goes back into the outbox, for a retry. *)
PutBack(d) == box \cup {d}
AfterFailure(d) == box

(* The platform refuses, or the browser: what was typed stays in the box.     *)
SendFails(r) ==
  /\ step[r] \in Sending \ {"delivered"}
  /\ Keep(AfterFailure(On[r]))
  /\ Answer(r, "error")
  /\ disturbed' = disturbed \ {r}
  /\ UNCHANGED <<to, sent, chat, compose, astray, Environment>>

-----------------------------------------------------------------------------
Tick ==
  /\ now' \in Times \ {now}
  /\ UNCHANGED <<Table, messaging, key, crashes>>

(* The process ends anywhere and starts again, perhaps with another key; the  *)
(* browser stays. A request that had not reached the table is as good as     *)
(* never made.                                                               *)
Crash ==
  /\ crashes < MaxCrashes
  /\ crashes' = crashes + 1
  /\ key' \in Keys
  /\ step' = [r \in Req |-> IF step[r] = "new" THEN "new" ELSE "over"]
  /\ disturbed' = {r \in disturbed : step[r] = "over"}
  /\ UNCHANGED <<Table, to, reply, sent, chat, compose, astray, now>>

Handle(r) == \/ Stage(r) \/ Take(r) \/ Cancel(r) \/ Pending(r) \/ StorageFails(r)
             \/ Dispatch(r) \/ SendFails(r)

Next == (\E r \in Req : Handle(r)) \/ Page \/ Tick \/ Crash

Spec == Init /\ [][Next]_vars
-----------------------------------------------------------------------------
(* What the outbox promises *)

(* A draft leaves at most once, however many confirmations race, fail, are    *)
(* repeated or are cut off by a crash, and also when a text that a failed     *)
(* attempt has left in the compose box goes with another's message.           *)
NeverSentTwice == \A d \in Draft : sent[d] <= 1

(* Whoever was told that a draft was cancelled will not see it sent, also     *)
(* when a confirmation was under way.                                         *)
CancelledIsNeverSent ==
  \A r \in Req : reply[r] = "cancelled" => sent[On[r]] = 0

(* "Ok" of a confirmation: Telegram has accepted the message; and a text for  *)
(* Messenger has left the compose box, once, alone and in its own             *)
(* conversation, provided nobody else used or changed the tab meanwhile, the   *)
(* page kept the focus and could be read. The code promises no more: a box     *)
(* that is gone is taken for an empty one, and what Facebook makes of the      *)
(* message only its server knows.                                             *)
SentMeansItLeft ==
  \A r \in Req : reply[r] = "sent" /\ r \notin disturbed =>
                 sent[On[r]] = 1 /\ On[r] \notin astray

(* What callers are told about a draft agrees with what left the machine:     *)
(* the three promises above together.                                         *)
AnswersMatchTheWire == TypeOK /\ NeverSentTwice /\ CancelledIsNeverSent /\ SentMeansItLeft

(* The table never outgrows its limit, whatever expires, is cancelled or is   *)
(* confirmed between two drafts, and wherever the clock goes.                 *)
NeverOverfull == Cardinality(box) <= MaxPending

(* The life of each draft is the one DraftLife describes: in particular a     *)
(* consumed draft never comes back, not even when its message cannot be sent. *)
(* A text that was left in the compose box may still leave with another's.    *)
Holders(d) == {r \in Req : On[r] = d /\ step[r] \in Sending}

Fate(d) == IF seq[d] = 0 THEN "unborn"
           ELSE IF d \in box THEN "waiting"
           ELSE IF sent[d] > 0 THEN "sent"
           ELSE IF Holders(d) # {} \/ d \in compose THEN "leaving" ELSE "gone"

Life == INSTANCE DraftLife WITH fate <- [d \in Draft |-> Fate(d)]
ImplementsLife == Life!Spec
=============================================================================
