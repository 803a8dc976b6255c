---------------------------- MODULE MCSessionActor ----------------------------
(* Instances of SessionActor. The name of a message is its queue mode and a  *)
(* number, so that a configuration lists its messages and nothing else.      *)
EXTENDS SessionActor

CONSTANTS f1, f2, f3, i1, i2, s1, c1, c2, c3, g1, g2, p1, x1

ModeOf == [m \in Msg |-> CASE m \in {f1, f2, f3} -> "followup"
                           [] m \in {i1, i2}     -> "interrupt"
                           [] m = s1             -> "steer"
                           [] m \in {c1, c2, c3} -> "collect"
                           [] m \in {g1, g2}     -> "guide"
                           [] m = p1             -> "stop"
                           [] m = x1             -> "close"]

(* Turns that run beside each other's messages, through two lives of the      *)
(* actor, with a checkpointer that works; and collected turns, a shutdown and  *)
(* a checkpointer that fails, in one life. Nobody is forced to send.           *)
Called == {m \in Msg : handle[m] > 0}
OneCast ==
  \/ \E cast \in {{f1, f2, i1, s1}, {f1, i1, s1, p1}} : Called \subseteq cast /\ broken = {}
  \/ /\ \E cast \in {{f1, c1, c2, x1}, {f1, c1, g1, x1}} : Called \subseteq cast
     /\ broken = Faults /\ lives <= 1

-----------------------------------------------------------------------------
(* Statements of the repository that the code does not keep: a configuration *)
(* of this module that names one of them finds a counterexample.             *)

(* "Injects steering guidance into the currently executing turn": an         *)
(* instruction that was accepted is read by the turn, or can still be.       *)
AcceptedSteeringIsRead ==
  \A m \in InMode({"steer", "guide"}) :
    reply[m] = "ok" => m \in applied \cup UNION {task[t].inbox : t \in Msg}

(* "Graceful shutdown of actor": a turn that answered its caller is kept.    *)
ShutdownKeepsTheTurn == In({"lost"}) \subseteq saved

(* "Rehydrate initial state from checkpointer if available": the checkpoint is  *)
(* what the session remembers, but one that cannot be loaded is overwritten.    *)
CheckpointNeverForgets == [][saved \subseteq saved']_vars
=============================================================================
