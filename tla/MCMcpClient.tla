------------------------------ MODULE MCMcpClient ------------------------------
(* An instance of McpClient, and what one behaviour of it may show. *)
EXTENDS McpClient

CONSTANTS spoken, listed, tool

(* Three calls meet on one child when one of them is over, and ask once,   *)
(* with one answer on its way; two calls see a second page, or a second child,  *)
(* and a child that stops reading while the third has not come or is over.      *)
(* When all are over nothing more happens.                                      *)
Three == \A c \in Call : ~At(c, "new")
SomeDeaf == \E l \in Life : client[l].deaf
OneCast ==
  /\ \E c \in Call : ~At(c, "over")
  /\ Three => /\ client[2] = Unborn /\ call[listed].page <= 1 /\ Len(client[1].out) <= 1
              /\ \E c \in Call : At(c, "over")
              /\ ~SomeDeaf
  /\ client[2] # Unborn => call[listed].page <= 1
  /\ SomeDeaf => client[1].deaf /\ call[listed].page <= 1 /\ \A l \in Life : Len(client[l].out) <= 1

-----------------------------------------------------------------------------
(* Statements of the repository that the code does not keep: a configuration *)
(* of this module that names one of them finds a counterexample.             *)

(* "If exactly ONE request is in flight it is the only possible owner" of an   *)
(* error without an id: the request that caused it may have timed out, and the *)
(* next one gets its error.                                                    *)
OrphansAreTheirs ==
  \A c \in Call : At(c, "wait") /\ call[c].got # None /\ call[c].got # Cut =>
    call[c].got.to = <<c, call[c].page>>

(* "Answers every waiting request with an error when the connection breaks":   *)
(* one that entered the map after the map was emptied waits for its timeout.   *)
ClosedTellsEveryone ==
  \A c \in Call : At(c, "wait") /\ Mine(c).reader = "ended" => call[c].got # None

(* The time limit of each request (LIVA_MCP_TIMEOUT_MS) bounds a call: but only *)
(* the wait for the answer is limited, and not the write to a child that no     *)
(* longer reads (client.rs:316, client.rs:285).                                 *)
CallsAreTimed == \A c \in Call : <>At(c, "over")

(* "On a timeout the key is taken out of the map by itself, so that an answer    *)
(* that comes late does not stay there for good" (request).                      *)
PendingIsWaiting ==
  \A l \in Life : \A id \in client[l].pending :
    \E c \in Call : call[c].life = l /\ call[c].id = id /\ InFlight(c)
=============================================================================
