----------------------------- MODULE WriterClients -----------------------------
(***************************************************************************)
(* Three clients of the writer thread beside each other: the facts with the *)
(* cache of active recall, the audit trail of the computer-use crate, and   *)
(* the remembered turns. They share the connection, and the process that    *)
(* ends under all of them.                                                  *)
(***************************************************************************)
EXTENDS RecallCache, AuditTrail, MemoryLife

vars == <<holder, recall, audit, memory>>

Init == holder = "free" /\ RecallInit /\ AuditInit /\ MemoryInit

Crash == RecallCrash /\ AuditCrash /\ MemoryCrash /\ holder' = "free"

Next ==
  \/ RecallNext /\ UNCHANGED <<audit, memory>>
  \/ AuditNext /\ UNCHANGED <<recall, memory>>
  \/ MemoryNext /\ UNCHANGED <<recall, audit>>
  \/ Crash

Spec == Init /\ [][Next]_vars

(* The tasks of worker, bridge and projection consumer are scheduled, and file *)
(* and database calls return, with or without an error; the writer finishes    *)
(* what it began. A consumer whose transaction fails tries again.               *)
FairSpec ==
  /\ Spec
  /\ WF_vars(Worker /\ UNCHANGED <<recall, memory>>)
  /\ WF_vars(StoreStep /\ UNCHANGED <<recall, memory>>)
  /\ WF_vars(EndChange /\ UNCHANGED <<audit, memory>>)
  /\ WF_vars(Consolidate /\ UNCHANGED <<recall, audit>>)

-----------------------------------------------------------------------------
(* Nothing the clients have accepted is stranded: whatever the channel of the  *)
(* trail took leaves the memory of the process, and every pending turn is      *)
(* consolidated, given up or deleted. A turn that can never match does not     *)
(* keep the batch from the turns behind it.                                    *)
WorkDrains == []<>(InFlight = {} /\ In("pending") = {})
=============================================================================
