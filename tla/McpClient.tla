------------------------------- MODULE McpClient -------------------------------
(***************************************************************************)
(* The client side of MCP (mcp/client.rs) for one server of the             *)
(* configuration: a registry that connects lazily under its lock, child     *)
(* processes one after the other (lives), and calls that send requests and  *)
(* wait for the answer a reader task routes to them by id. A call of a      *)
(* voice turn may be aborted at any await (webrtc/pipeline.rs).             *)
(***************************************************************************)
EXTENDS Naturals, Sequences, FiniteSets

CONSTANTS
  Call,      \* commands and turns that use the server
  Listing,   \* those that ask for the list of tools, page by page
  Voice,     \* those that belong to a voice turn
  Lives,     \* bound: child processes that can be started
  MaxPages,  \* MAX_TOOL_PAGES
  OutCap,    \* bound: answers of a child that nobody has read yet
  None

ASSUME McpConstants ==
  /\ Listing \subseteq Call /\ Voice \subseteq Call
  /\ Lives \in Nat \ {0} /\ MaxPages \in Nat \ {0} /\ OutCap \in Nat \ {0}
  /\ None \notin 1..Lives /\ None \notin Call

VARIABLES
  servers,  \* the client the registry holds: its life, or None
  lock,     \* the call that holds the registry's lock while it connects
  client,   \* per life: process, pipes, reader task, pending requests
  call

vars == <<servers, lock, client, call>>

Life == 1..Lives
NoId == 0      \* "id": null

Request == Call \X (0..MaxPages)   \* page 0 is the handshake
Line == [id : Nat, asks : {None} \cup Request]
Garbage == [id |-> NoId, asks |-> None]   \* a line of standard input that is not JSON
Reply == [id : Nat, to : {None} \cup Request, ok : BOOLEAN]
Cut == [id |-> NoId, to |-> None, ok |-> FALSE]   \* what fail_all sends

ASSUME NoneIsNoReply == None \notin Reply

(* A child that is deaf no longer reads its standard input, for good. *)
Unborn == [proc |-> "none", deaf |-> FALSE, torn |-> FALSE, inbox |-> {}, out |-> <<>>,
           reader |-> "none", pending |-> {}, nextId |-> 1]
Fresh == [Unborn EXCEPT !.proc = "up", !.reader = "reading"]
Gone == [Unborn EXCEPT !.proc = "killed", !.reader = "aborted"]

Asking == [pc |-> "new", life |-> None, id |-> NoId, page |-> 0, got |-> None, aborted |-> FALSE]

TypeOK ==
  /\ servers \in Life \cup {None} /\ lock \in Call \cup {None}
  /\ \A l \in Life :
       /\ client[l].proc \in {"none", "up", "exited", "killed"} /\ client[l].torn \in BOOLEAN
       /\ client[l].deaf \in BOOLEAN
       /\ client[l].pending \subseteq 1..(client[l].nextId - 1)
       /\ \A line \in client[l].inbox : line \in Line /\ line.id < client[l].nextId
       /\ client[l].reader \in {"none", "reading", "closed", "ended", "aborted"}
       /\ \A r \in {client[l].out[i] : i \in DOMAIN client[l].out} : r \in Reply
  /\ \A c \in Call :
       /\ call[c].pc \in {"new", "begin", "insert", "write", "wait", "giveup", "announce", "over"}
       /\ call[c].life \in Life \cup {None} /\ call[c].page \in 0..MaxPages
       /\ call[c].got \in Reply \cup {None}

Init ==
  /\ servers = None /\ lock = None
  /\ client = [l \in Life |-> Unborn]
  /\ call = [c \in Call |-> Asking]

is_closed(l) == client[l].reader # "reading"
At(c, pc) == call[c].pc = pc
Mine(c) == client[call[c].life]
Holders(l) == {c \in Call : call[c].life = l /\ ~At(c, "over")}

(* Mutant: a client that goes away leaves its child running. *)
LeftRunning(clients, l) == clients

(* The last reference to a client is gone: the reader is aborted, the child killed. *)
Drop(clients, l) == [clients EXCEPT ![l] = Gone]

(* The registry forgets a client whose server has closed its output. *)
Evicted ==
  IF servers # None /\ is_closed(servers) /\ Holders(servers) = {}
    THEN Drop(client, servers) ELSE client
Usable == servers # None /\ ~is_closed(servers)

(* A call ends, with its reference, and with the registry's lock if it has it. *)
Leave(c, clients) ==
  /\ client' = IF servers # call[c].life /\ Holders(call[c].life) = {c}
                 THEN Drop(clients, call[c].life) ELSE clients
  /\ lock' = IF lock = c THEN None ELSE lock
  /\ UNCHANGED servers
Finish(c, clients) == Leave(c, clients) /\ call' = [call EXCEPT ![c] = [Asking EXCEPT !.pc = "over"]]

-----------------------------------------------------------------------------
(* The registry. *)

Find(c) ==
  /\ At(c, "new") /\ lock = None /\ Usable
  /\ call' = [call EXCEPT ![c].pc = "begin", ![c].life = servers, ![c].page = 1]
  /\ UNCHANGED <<servers, lock, client>>

(* Not in the configuration, which is read anew each time, or not to be started. *)
Refuse(c) ==
  /\ At(c, "new") /\ lock = None /\ ~Usable
  /\ servers' = None /\ client' = Evicted
  /\ call' = [call EXCEPT ![c].pc = "over"]
  /\ UNCHANGED lock

Spawn(c) ==
  /\ At(c, "new") /\ lock = None /\ ~Usable
  /\ \E l \in Life :
       /\ client[l] = Unborn /\ \A k \in 1..(l - 1) : client[k] # Unborn
       /\ client' = [Evicted EXCEPT ![l] = Fresh]
       /\ call' = [call EXCEPT ![c].pc = "begin", ![c].life = l]
  /\ servers' = None /\ lock' = c

-----------------------------------------------------------------------------
(* One request: "initialize" of the call that connects, then the call's own. *)

(* Mutant: numbers by how many wait, so that a late answer meets its number again. *)
NumberedByWaiting(l) == Cardinality(client[l].pending) + 1

NextId(l) == client[l].nextId

Begin(c) ==
  /\ At(c, "begin")
  /\ LET l == call[c].life IN
     \/ is_closed(l) /\ Finish(c, client)
     \/ /\ ~is_closed(l)
        /\ call' = [call EXCEPT ![c].pc = "insert", ![c].id = NextId(l), ![c].got = None]
        /\ client' = [client EXCEPT ![l].nextId = @ + 1]
        /\ UNCHANGED <<servers, lock>>

Insert(c) ==
  /\ At(c, "insert")
  /\ client' = [client EXCEPT ![call[c].life].pending = @ \cup {call[c].id}]
  /\ call' = [call EXCEPT ![c].pc = "write"]
  /\ UNCHANGED <<servers, lock>>

(* A line that follows the torn beginning of another reaches the child as garbage, *)
(* and what is written to a child that is deaf stays in the pipe.                  *)
Sent(cl, line) ==
  [cl EXCEPT !.inbox = IF cl.deaf THEN @ ELSE @ \cup {IF cl.torn THEN Garbage ELSE line},
             !.torn = FALSE]

(* write_line, once it has the mutex of the pipe: it returns while the pipe has *)
(* room, and there is no timeout around it (see Stuck).                         *)
Write(c) ==
  /\ At(c, "write")
  /\ \/ /\ Mine(c).proc = "up"
        /\ client' = [client EXCEPT ![call[c].life] = Sent(@, [id |-> call[c].id, asks |-> <<c, call[c].page>>])]
        /\ call' = [call EXCEPT ![c].pc = "wait"]
     \/ call' = [call EXCEPT ![c].pc = "giveup"] /\ UNCHANGED client
  /\ UNCHANGED <<servers, lock>>

(* Mutant: the end of the connection is trusted to wake who waits. *)
UnansweredWhileOpen(c) == At(c, "wait") /\ call[c].got = None /\ ~is_closed(call[c].life)

Unanswered(c) == At(c, "wait") /\ call[c].got = None

Timeout(c) ==
  /\ Unanswered(c)
  /\ call' = [call EXCEPT ![c].pc = "giveup"]
  /\ UNCHANGED <<servers, lock, client>>

(* Mutant: a request that timed out stays in the map. *)
StillPending(c) == client

Withdrawn(c) == [client EXCEPT ![call[c].life].pending = @ \ {call[c].id}]

GiveUp(c) == At(c, "giveup") /\ Finish(c, Withdrawn(c))

(* An answer: "initialized" follows the first one, another page may follow a page. *)
Return(c) ==
  /\ At(c, "wait") /\ call[c].got # None
  /\ \/ /\ call[c].page = 0 /\ call[c].got.ok
        /\ call' = [call EXCEPT ![c].pc = "announce"]
        /\ UNCHANGED <<servers, lock, client>>
     \/ /\ call[c].page \in 1..(MaxPages - 1) /\ call[c].got.ok /\ c \in Listing
        /\ call' = [call EXCEPT ![c].pc = "begin", ![c].page = @ + 1]
        /\ UNCHANGED <<servers, lock, client>>
     \/ (call[c].page = 0 => ~call[c].got.ok) /\ Finish(c, client)

Announce(c) ==
  /\ At(c, "announce")
  /\ \/ /\ Mine(c).proc = "up"
        /\ servers' = call[c].life /\ lock' = None
        /\ call' = [call EXCEPT ![c].pc = "begin", ![c].page = 1]
        /\ UNCHANGED client
     \/ Finish(c, client)

(* The turn is interrupted and its task aborted: nothing withdraws the request, *)
(* and a line that is being written may be left unfinished.                     *)
Abort(c) ==
  /\ c \in Voice /\ call[c].pc \notin {"new", "over"}
  /\ \E torn \in {Mine(c).torn, Mine(c).torn \/ (At(c, "write") /\ Mine(c).proc = "up")} :
       Leave(c, [client EXCEPT ![call[c].life].torn = torn])
  /\ call' = [call EXCEPT ![c] = [@ EXCEPT !.pc = "over", !.aborted = TRUE, !.got = None]]

-----------------------------------------------------------------------------
(* The reader task of a life. *)

Owners(l, id) == {c \in Call : call[c].life = l /\ call[c].id = id /\ ~At(c, "over")}
Hand(l, ids, reply) ==
  [c \in Call |-> IF \E id \in ids : c \in Owners(l, id)
                    THEN [call[c] EXCEPT !.got = reply] ELSE call[c]]

(* To whom route_response gives an answer: an error without an id goes to the  *)
(* only request there is, and to nobody when there are several.                *)
Addressees(l, reply) ==
  IF reply.id # NoId THEN client[l].pending \cap {reply.id}
  ELSE IF Cardinality(client[l].pending) = 1 THEN client[l].pending ELSE {}

ReadReply(l) ==
  /\ client[l].reader = "reading" /\ client[l].out # <<>>
  /\ LET reply == Head(client[l].out)
         to == Addressees(l, reply) IN
     /\ call' = Hand(l, to, reply)
     /\ client' = [client EXCEPT ![l].out = Tail(@), ![l].pending = @ \ to]
  /\ UNCHANGED <<servers, lock>>

(* End of file, or bytes that are not text, behind the last line that is read. *)
Close(l) ==
  /\ client[l].reader = "reading" /\ client[l].out = <<>>
  /\ client' = [client EXCEPT ![l].reader = "closed"]
  /\ UNCHANGED <<servers, lock, call>>

fail_all(l) ==
  /\ client[l].reader = "closed"
  /\ call' = Hand(l, client[l].pending, Cut)
  /\ client' = [client EXCEPT ![l].reader = "ended", ![l].pending = {}]
  /\ UNCHANGED <<servers, lock>>

-----------------------------------------------------------------------------
(* The child: answers in any order, twice, without the id, or not at all, and  *)
(* may stop reading.                                                           *)

Answer(l) ==
  /\ client[l].proc = "up" /\ client[l].reader = "reading"
  /\ \E line \in client[l].inbox, ok \in BOOLEAN, copies \in 1..2, named \in BOOLEAN :
       /\ ok => named
       /\ line = Garbage => ~named
       /\ Len(client[l].out) + copies <= OutCap
       /\ LET reply == [id |-> IF named THEN line.id ELSE NoId, to |-> line.asks, ok |-> ok] IN
          client' = [client EXCEPT ![l].inbox = @ \ {line},
                                   ![l].out = @ \o [i \in 1..copies |-> reply]]
  /\ UNCHANGED <<servers, lock, call>>

StopsReading(l) ==
  /\ client[l].proc = "up" /\ ~client[l].deaf
  /\ client' = [client EXCEPT ![l].deaf = TRUE]
  /\ UNCHANGED <<servers, lock, call>>

Exit(l) ==
  /\ client[l].proc = "up"
  /\ client' = [client EXCEPT ![l].proc = "exited", ![l].deaf = FALSE,
                             ![l].inbox = {}, ![l].torn = FALSE]
  /\ UNCHANGED <<servers, lock, call>>

-----------------------------------------------------------------------------
Lookup(c) == Find(c) \/ Refuse(c) \/ Spawn(c)
Step(c) ==
  \/ Begin(c) \/ Insert(c) \/ Write(c) \/ Timeout(c) \/ GiveUp(c) \/ Return(c) \/ Announce(c)

Next ==
  \/ \E c \in Call : Lookup(c) \/ Step(c) \/ Abort(c)
  \/ \E l \in Life : ReadReply(l) \/ Close(l) \/ fail_all(l) \/ Answer(l)
                    \/ StopsReading(l) \/ Exit(l)

Spec == Init /\ [][Next]_vars

(* A call that writes to a child that does not read waits for room in the pipe, *)
(* or for the mutex that another such call holds: nothing limits that wait.     *)
Stuck(c) == /\ call[c].pc \in {"write", "announce"}
            /\ Mine(c).proc = "up" /\ Mine(c).deaf

(* Tasks are scheduled, timers fire, and the registry's lock is handed on; a    *)
(* write returns if the child reads or is gone. Nothing else is asked of the    *)
(* reader or of the child.                                                      *)
FairSpec == Spec /\ \A c \in Call : WF_vars(Lookup(c) \/ (Step(c) /\ ~Stuck(c)))

-----------------------------------------------------------------------------
InFlight(c) == call[c].pc \in {"write", "wait", "giveup"}

(* The map of pending requests holds those of calls that have not given up, and *)
(* of calls that were aborted: a timeout or a failed write leaves nothing. And   *)
(* who still waits without an answer is in it, so that an answer finds him.      *)
PendingIsOwned ==
  /\ TypeOK
  /\ \A l \in Life : \A id \in client[l].pending :
       \E c \in Call : call[c].life = l /\ call[c].id = id /\ (InFlight(c) \/ call[c].aborted)
  /\ \A c \in Call : At(c, "wait") /\ call[c].got = None => call[c].id \in Mine(c).pending

(* An answer with an id is given to the call that asked: not a late one to the  *)
(* call behind, not a doubled one, not one of the server that died before.       *)
AnswersAreTheirOwn ==
  \A c \in Call : At(c, "wait") /\ call[c].got # None /\ call[c].got.id # NoId =>
    call[c].got.to = <<c, call[c].page>>

(* Two calls that come at once do not start two children of one server; no       *)
(* child outlives its users; nobody but the call that connects talks to a child  *)
(* before the handshake is over, or to one that the registry has replaced while  *)
(* it is still open.                                                             *)
OneServer ==
  /\ Cardinality({l \in Life : client[l].proc = "up" /\ ~is_closed(l)}) <= 1
  /\ \A l \in Life : client[l].proc = "up" => servers = l \/ Holders(l) # {}
  /\ \A c \in Call : call[c].pc \notin {"new", "over"} /\ lock # c =>
       servers = call[c].life \/ is_closed(call[c].life)

(* Every call returns, also when the child dies, keeps silent, answers without  *)
(* an id or late, and when the call entered the map after fail_all had emptied   *)
(* it. The exception is a child that lives and no longer reads: a write to it    *)
(* may wait for ever, and when the call that writes is connecting, everybody     *)
(* waits with it for the registry's lock.                                        *)
EveryCallReturns ==
  \A c \in Call : <>At(c, "over") \/ <>[](Stuck(c) \/ (lock # None /\ Stuck(lock)))
=============================================================================
