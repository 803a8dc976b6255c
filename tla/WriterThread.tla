----------------------------- MODULE WriterThread -----------------------------
(***************************************************************************)
(* The writer of DbActor as its clients see it: one thread, one closure at  *)
(* a time. A client that needs several steps on the connection holds the    *)
(* thread from its first to its last.                                       *)
(***************************************************************************)
VARIABLE holder   \* who has the connection, "free" when nobody

Takes(client) == holder = "free" /\ holder' = client
Gives(client) == holder = client /\ holder' = "free"
InPassing == holder = "free" /\ UNCHANGED holder
=============================================================================
