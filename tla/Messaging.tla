-------------------------------- MODULE Messaging --------------------------------
(***************************************************************************)
(* The way out of a confirmed draft (messaging/mod.rs, send). A draft for   *)
(* Telegram is one request to its server, whose answer is awaited. A draft   *)
(* for Messenger (integrations/messenger.rs) is typed into a tab of the      *)
(* browser: the conversation is opened, the compose box cleared, the text    *)
(* inserted, Enter pressed, the send button clicked when text remains, and   *)
(* an empty box is taken for a message that left. All requests share the one *)
(* tab, and nothing keeps two of them apart.                                 *)
(*                                                                          *)
(* The page is external: a conversation, and the texts in its compose box.  *)
(* A command to the browser takes effect at once or never. Left out: the    *)
(* wait until the page is ready, the probe of the keyboard and the search   *)
(* for the window, which only fail; drafts that the page itself restores;    *)
(* a user who presses Enter on a text that was left in the box.              *)
(***************************************************************************)
EXTENDS Integers, FiniteSets

CONSTANTS Draft, Req,
          On,        \* the draft that a request creates or names
          Chat,      \* conversations of Messenger
          Elsewhere, \* any other page
          Telegram,  \* stands for every chat of Telegram
          Routes     \* where each draft may go: what its contact says

ASSUME MessagingAssumption ==
  /\ On \in [Req -> Draft]
  /\ Telegram \notin Chat /\ Elsewhere \notin Chat
  /\ Routes \subseteq [Draft -> Chat \cup {Telegram}]

VARIABLES
  to,         \* the platform and the conversation of each draft
  step,       \* where each request is
  reply,      \* what its caller was told
  chat,       \* the page that the tab shows
  compose,    \* drafts whose text is in the compose box
  sent,       \* history: how often a draft was accepted by Telegram, or left the box
  astray,     \* history: drafts that left the box in another's chat or message
  disturbed   \* history: requests that are at the tab or have answered Ok, while
              \* somebody else used or changed the tab, or the page had lost the
              \* focus or could not be read

tabVars == <<chat, compose, astray, disturbed>>
messaging == <<to, step, reply, sent, tabVars>>

OnTab == {"open", "clear", "typed", "pressed", "clicked"}
Sending == {"sending", "delivered"} \cup OnTab
Steps == {"new", "over"} \cup Sending
Replies == {"none", "drafted", "sent", "cancelled", "nothing", "listed", "error"}

MessagingTypeOK ==
  /\ to \in [Draft -> Chat \cup {Telegram}]
  /\ step \in [Req -> Steps] /\ reply \in [Req -> Replies]
  /\ chat \in Chat \cup {Elsewhere} /\ compose \subseteq Draft
  /\ sent \in [Draft -> Nat]
  /\ astray \subseteq Draft /\ disturbed \subseteq Req

MessagingInit ==
  /\ to \in Routes
  /\ step = [r \in Req |-> "new"] /\ reply = [r \in Req |-> "none"]
  /\ chat = Elsewhere /\ compose = {}
  /\ sent = [d \in Draft |-> 0] /\ astray = {} /\ disturbed = {}

Answer(r, what) ==
  /\ step' = [step EXCEPT ![r] = "over"]
  /\ reply' = [reply EXCEPT ![r] = what]

GoesTo(r, from, next) ==
  /\ step[r] = from
  /\ step' = [step EXCEPT ![r] = next]
  /\ UNCHANGED <<to, reply>>

-----------------------------------------------------------------------------
(* Telegram *)

Deliver(r) ==
  /\ to[On[r]] = Telegram
  /\ GoesTo(r, "sending", "delivered")
  /\ sent' = [sent EXCEPT ![On[r]] = @ + 1]
  /\ UNCHANGED tabVars

(* Telegram accepted the message; its answer may still get lost. *)
Delivered(r) ==
  /\ step[r] = "delivered"
  /\ \E what \in {"sent", "error"} : Answer(r, what)
  /\ UNCHANGED <<to, sent, tabVars>>

-----------------------------------------------------------------------------
(* Messenger *)

Others(r) == {s \in Req \ {r} : step[s] \in OnTab}

(* The tab is navigated unless it shows the conversation already; then what is *)
(* in the box stays there.                                                    *)
Open(r) ==
  /\ to[On[r]] # Telegram
  /\ GoesTo(r, "sending", "open")
  /\ chat' = to[On[r]]
  /\ compose' = IF chat = to[On[r]] THEN compose ELSE {}
  /\ disturbed' = IF Others(r) = {} THEN disturbed ELSE disturbed \cup {r} \cup Others(r)
  /\ UNCHANGED <<sent, astray>>

(* What a failed attempt has left in the box goes; a box that is not there, or *)
(* a query without an answer, counts as an empty one. Mutant: not cleared.    *)
LeaveTheRest(r) ==
  /\ GoesTo(r, "open", "clear")
  /\ UNCHANGED <<sent, tabVars>>

Clear(r) ==
  /\ GoesTo(r, "open", "clear")
  /\ \/ compose' = {} /\ UNCHANGED disturbed
     \/ UNCHANGED compose /\ disturbed' = disturbed \cup {r}
  /\ UNCHANGED <<chat, sent, astray>>

(* Input.insertText goes to what has the focus: nobody asks any more whether   *)
(* that is the box.                                                           *)
Insert(r) ==
  /\ GoesTo(r, "clear", "typed")
  /\ \/ compose' = compose \cup {On[r]} /\ UNCHANGED disturbed
     \/ UNCHANGED compose /\ disturbed' = disturbed \cup {r}
  /\ UNCHANGED <<chat, sent, astray>>

(* Everything in the box leaves as one message, or the key or the click has no *)
(* effect.                                                                    *)
Leaves ==
  /\ sent' = [d \in Draft |-> IF d \in compose THEN sent[d] + 1 ELSE sent[d]]
  /\ astray' = astray \cup {d \in compose : to[d] # chat \/ compose # {d}}
  /\ compose' = {}
Stays == UNCHANGED <<sent, astray, compose>>

PressEnter(r) ==
  /\ GoesTo(r, "typed", "pressed")
  /\ Leaves \/ Stays
  /\ UNCHANGED <<chat, disturbed>>

(* The safety net: a click on the send button, if a text is seen in the box.  *)
ClickSend(r) ==
  /\ GoesTo(r, "pressed", "clicked")
  /\ (compose # {} /\ Leaves) \/ Stays
  /\ UNCHANGED <<chat, disturbed>>

(* The last look: Ok when the box is empty, or when it cannot be read.        *)
Look(r) ==
  /\ step[r] = "clicked"
  /\ Answer(r, "sent")
  /\ disturbed' = IF compose = {} THEN disturbed ELSE disturbed \cup {r}
  /\ UNCHANGED <<to, chat, compose, sent, astray>>

MessengerStep(r) ==
  Open(r) \/ Clear(r) \/ Insert(r) \/ PressEnter(r) \/ ClickSend(r) \/ Look(r)

(* The page reloads, or the user leaves the conversation by hand.             *)
PageChanges ==
  /\ compose # {} \/ \E r \in Req : step[r] \in OnTab
  /\ chat' \in {chat, Elsewhere}
  /\ compose' = {}
  /\ disturbed' = disturbed \cup {r \in Req : step[r] \in OnTab}
  /\ UNCHANGED <<to, step, reply, sent, astray>>
=============================================================================
