------------------------------ MODULE Deadline ------------------------------
(***************************************************************************)
(* What whoever calls a server counts on: a ping or a sync ends, with an   *)
(* answer or an error, once its context has ended, whatever the server,    *)
(* the network and the proxy do.                                           *)
(***************************************************************************)
CONSTANT Calls

VARIABLES
    status,         \* of each call
    expired         \* its context has ended: by its timeout, or cancelled

deadlineVars == <<status, expired>>

DeadlineInit ==
    /\ status = [k \in Calls |-> "pending"]
    /\ expired = [k \in Calls |-> FALSE]

Expire(k) ==
    /\ expired' = [expired EXCEPT ![k] = TRUE]
    /\ UNCHANGED status

End(k) ==
    /\ status[k] = "pending"
    /\ \E outcome \in {"answered", "failed"} :
         status' = [status EXCEPT ![k] = outcome]
    /\ UNCHANGED expired

(* A panic ends the program and all calls.                                 *)
Crash ==
    /\ status' = [k \in Calls |-> IF status[k] = "pending" THEN "lost"
                                                           ELSE status[k]]
    /\ UNCHANGED expired

NextCalls ==
    /\ \A k \in Calls : status[k] # "pending"
    /\ status' = [k \in Calls |-> "pending"]
    /\ expired' = [k \in Calls |-> FALSE]

DeadlineNext ==
    \/ \E k \in Calls : Expire(k) \/ End(k)
    \/ Crash
    \/ NextCalls

DeadlineSpec ==
    /\ DeadlineInit
    /\ [][DeadlineNext]_deadlineVars
    /\ \A k \in Calls : WF_deadlineVars(expired[k] /\ End(k))

=============================================================================
