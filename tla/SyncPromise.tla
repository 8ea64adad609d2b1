---------------------------- MODULE SyncPromise ----------------------------
(***************************************************************************)
(* What ServerSyncBox (service/sync.go) promises to those who call         *)
(* ReqSync: a request is owed until a sync of that server begins, a        *)
(* request preempts a sync that began before it, and a sync that ends in   *)
(* its own right began after the last request.                             *)
(***************************************************************************)
CONSTANT Tickets    \* the tickets of the servers and relays to be synced

VARIABLES
    owed,           \* owed[t]: a request for t that no sync has taken up yet
    current         \* current[t]: a sync that began after t's last request

vars == <<owed, current>>

TypeOK ==
    /\ owed \in [Tickets -> BOOLEAN]
    /\ current \in [Tickets -> BOOLEAN]

Init ==
    /\ owed = [t \in Tickets |-> FALSE]
    /\ current = [t \in Tickets |-> FALSE]

Request(t) ==
    /\ owed' = [owed EXCEPT ![t] = TRUE]
    /\ current' = [current EXCEPT ![t] = FALSE]

(* One round takes up every request that is owed, and no round begins      *)
(* while a sync of an earlier one is still current.                        *)
Begin ==
    /\ \E t \in Tickets : owed[t]
    /\ \A t \in Tickets : ~current[t]
    /\ current' = owed
    /\ owed' = [t \in Tickets |-> FALSE]

Finish(t) ==
    /\ current[t]
    /\ current' = [current EXCEPT ![t] = FALSE]
    /\ UNCHANGED owed

Next ==
    \/ Begin
    \/ \E t \in Tickets : Request(t) \/ Finish(t)

Fairness ==
    /\ WF_vars(Begin)
    /\ \A t \in Tickets : WF_vars(Finish(t))

Safety == Init /\ [][Next]_vars

Spec == Safety /\ Fairness

=============================================================================
