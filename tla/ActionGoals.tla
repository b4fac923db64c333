---------------------------- MODULE ActionGoals ----------------------------
(***************************************************************************)
(* What an action server promises of each goal: it is rejected or executed *)
(* and, once executed, ends exactly once; it ends canceled only if         *)
(* somebody asked for that.  The names of the states are those of rclc's   *)
(* GOAL_STATE constants.                                                   *)
(***************************************************************************)
CONSTANT Goals

VARIABLE status

Init == status = [g \in Goals |-> "unknown"]

Answer(g) ==
  /\ status[g] = "unknown"
  /\ \E s \in {"executing", "rejected"} : status' = [status EXCEPT ![g] = s]

Cancel(g) ==
  /\ status[g] = "executing"
  /\ status' = [status EXCEPT ![g] = "canceling"]

\* A request to cancel may come too late to be heeded.
End(g) ==
  \E s \in {"succeeded", "aborted", "canceled"} :
    /\ status[g] \in IF s = "canceled" THEN {"canceling"} ELSE {"executing", "canceling"}
    /\ status' = [status EXCEPT ![g] = s]

Next == \E g \in Goals : Answer(g) \/ Cancel(g) \/ End(g)

Spec == Init /\ [][Next]_status
=============================================================================
