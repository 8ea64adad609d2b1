------------------------------ MODULE SyncBox ------------------------------
(***************************************************************************)
(* ServerSyncBox of service/sync.go: the mailbox through which handlers    *)
(* and background jobs ask for a server's passages to be pushed to it, and *)
(* the one goroutine, SyncBackground, that serves it in rounds.            *)
(*                                                                         *)
(* The mutex mu makes ReqSync and the scan of a round atomic.  Everything  *)
(* a worker goroutine does between two shared accesses is one action.      *)
(* What the passages are is no matter here: module Fleet adds it.          *)
(***************************************************************************)
EXTENDS Functions

CONSTANTS
    Tickets,        \* tickets of the servers and relays
    Goroutines,     \* identities for the goroutines of one round
    None            \* no goroutine, no ticket

(* The runtime always has a goroutine to start for each pending ticket.    *)
ASSUME GoroutinesAssumption ==
    /\ ExistsInjection(Tickets, Goroutines)
    /\ None \notin Goroutines
    /\ None \notin Tickets

VARIABLES
    box,            \* box[t]: the token in the channel box[t] of capacity 1
    waitingSync,    \* the token in the channel waitingSync of capacity 1
    syncCancel,     \* the goroutine whose cancel function is registered for t
    loop,           \* where SyncBackground is
    worker          \* the goroutines of the current round

vars == <<box, waitingSync, syncCancel, loop, worker>>

WorkerPC == {"idle", "get", "read", "call", "record", "exit", "delete"}

Idle == [pc |-> "idle", ticket |-> None, canceled |-> FALSE, err |-> "nil"]

Started(t) == [pc |-> "get", ticket |-> t, canceled |-> FALSE, err |-> "nil"]

Active(g) == worker[g].pc # "idle"

TypeOK ==
    /\ box \in [Tickets -> BOOLEAN]
    /\ waitingSync \in BOOLEAN
    /\ syncCancel \in [Tickets -> Goroutines \cup {None}]
    /\ loop \in {"recv", "scan", "wait"}
    /\ worker \in [Goroutines -> [pc : WorkerPC,
                                  ticket : Tickets \cup {None},
                                  canceled : BOOLEAN,
                                  err : {"nil", "canceled", "failed"}]]

Init ==
    /\ box = [t \in Tickets |-> FALSE]
    /\ waitingSync = FALSE
    /\ syncCancel = [t \in Tickets |-> None]
    /\ loop = "recv"
    /\ worker = [g \in Goroutines |-> Idle]

-----------------------------------------------------------------------------
(* ReqSync: cancel the sync of t that is under way, if any, then leave a   *)
(* token for t and one for the loop; a full channel drops the token.       *)

(* Variant, one of those a run must tell from the code: nothing is         *)
(* cancelled.                                                              *)
CancelNone(t) == worker' = worker

CancelRegistered(t) ==
    worker' = [g \in Goroutines |->
                 IF syncCancel[t] = g THEN [worker[g] EXCEPT !.canceled = TRUE]
                                      ELSE worker[g]]

ReqSync(t) ==
    /\ CancelRegistered(t)
    /\ syncCancel' = [syncCancel EXCEPT ![t] = None]
    /\ box' = [box EXCEPT ![t] = TRUE]
    /\ waitingSync' = TRUE
    /\ UNCHANGED loop

-----------------------------------------------------------------------------
(* SyncBackground.                                                         *)

Recv ==
    /\ loop = "recv"
    /\ waitingSync
    /\ waitingSync' = FALSE
    /\ loop' = "scan"
    /\ UNCHANGED <<box, syncCancel, worker>>

Pending == {t \in Tickets : box[t]}

(* One critical section of mu: take every token and start a goroutine for  *)
(* each, its cancel function registered under its ticket.                  *)
Start(f) ==
    /\ worker' = [g \in Goroutines |->
                    IF \E t \in Pending : f[t] = g
                    THEN Started(CHOOSE t \in Pending : f[t] = g)
                    ELSE worker[g]]
    /\ syncCancel' = [t \in Tickets |-> IF box[t] THEN f[t] ELSE syncCancel[t]]

(* Variant: a round takes one token.                                       *)
ScanOne ==
    /\ loop = "scan"
    /\ \E t \in Pending, g \in {g \in Goroutines : ~Active(g)} :
         /\ worker' = [worker EXCEPT ![g] = Started(t)]
         /\ syncCancel' = [syncCancel EXCEPT ![t] = g]
         /\ box' = [box EXCEPT ![t] = FALSE]
    /\ loop' = "wait"
    /\ UNCHANGED waitingSync

Scan ==
    /\ loop = "scan"
    /\ \E f \in Injection(Pending, {g \in Goroutines : ~Active(g)}) : Start(f)
    /\ box' = [t \in Tickets |-> FALSE]
    /\ loop' = "wait"
    /\ UNCHANGED waitingSync

(* Variant: a round does not wait for its goroutines.                      *)
WaitNot ==
    /\ loop = "wait"
    /\ loop' = "recv"
    /\ UNCHANGED <<box, waitingSync, syncCancel, worker>>

(* wg.Wait() returns; the sleep of five seconds that follows is a delay.   *)
WaitDone ==
    /\ loop = "wait"
    /\ \A g \in Goroutines : ~Active(g)
    /\ loop' = "recv"
    /\ UNCHANGED <<box, waitingSync, syncCancel, worker>>

-----------------------------------------------------------------------------
(* A worker goroutine.                                                     *)

Goto(g, pc) ==
    /\ worker' = [worker EXCEPT ![g].pc = pc]
    /\ UNCHANGED <<box, waitingSync, syncCancel, loop>>

(* GetServerByTicket and NewManager: an error of either returns before the *)
(* outcome of the sync would be recorded.                                  *)
WorkerGetServer(g, found) ==
    /\ worker[g].pc = "get"
    /\ Goto(g, IF found THEN "read" ELSE "exit")

WorkerGetPassages(g) ==
    /\ worker[g].pc = "read"
    /\ Goto(g, "call")

(* SyncPassages ends within the 15 seconds of its context.  A cancelled    *)
(* call may have succeeded already, or fail by the deadline it is given.   *)
WorkerCall(g, err) ==
    /\ worker[g].pc = "call"
    /\ err = "canceled" => worker[g].canceled
    /\ worker' = [worker EXCEPT ![g].pc = "record", ![g].err = err]
    /\ UNCHANGED <<box, waitingSync, syncCancel, loop>>

(* The deferred setSyncNextSeen(ticket, failed).                           *)
WorkerRecord(g) ==
    /\ worker[g].pc = "record"
    /\ Goto(g, "exit")

(* Variant: a goroutine cancels its own context before it looks at it.     *)
WorkerExitSwapped(g) ==
    /\ worker[g].pc = "exit"
    /\ worker' = [worker EXCEPT ![g] = Idle]
    /\ UNCHANGED <<box, waitingSync, syncCancel, loop>>

(* The last deferred function: a goroutine that was cancelled leaves       *)
(* syncCancel alone; any other cancels its own context and goes for mu.    *)
WorkerExit(g) ==
    /\ worker[g].pc = "exit"
    /\ worker' = [worker EXCEPT ![g] =
                    IF @.canceled THEN Idle
                    ELSE [@ EXCEPT !.canceled = TRUE, !.pc = "delete"]]
    /\ UNCHANGED <<box, waitingSync, syncCancel, loop>>

(* Variants: the clean-up also empties the box; the entry itself goes.     *)
WorkerDeleteDraining(g) ==
    /\ worker[g].pc = "delete"
    /\ syncCancel' = [syncCancel EXCEPT ![worker[g].ticket] = None]
    /\ box' = [box EXCEPT ![worker[g].ticket] = FALSE]
    /\ worker' = [worker EXCEPT ![g] = Idle]
    /\ UNCHANGED <<waitingSync, loop>>

WorkerDeleteEntry(g) ==
    /\ worker[g].pc = "delete"
    /\ syncCancel' = [t \in Tickets \ {worker[g].ticket} |-> syncCancel[t]]
    /\ worker' = [worker EXCEPT ![g] = Idle]
    /\ UNCHANGED <<box, waitingSync, loop>>

WorkerDelete(g) ==
    /\ worker[g].pc = "delete"
    /\ syncCancel' = [syncCancel EXCEPT ![worker[g].ticket] = None]
    /\ worker' = [worker EXCEPT ![g] = Idle]
    /\ UNCHANGED <<box, waitingSync, loop>>

WorkerStep(g) ==
    \/ \E found \in BOOLEAN : WorkerGetServer(g, found)
    \/ WorkerGetPassages(g)
    \/ \E err \in {"nil", "canceled", "failed"} : WorkerCall(g, err)
    \/ WorkerRecord(g)
    \/ WorkerExit(g)
    \/ WorkerDelete(g)

-----------------------------------------------------------------------------
Next ==
    \/ \E t \in Tickets : ReqSync(t)
    \/ Recv
    \/ Scan
    \/ WaitDone
    \/ \E g \in Goroutines : WorkerStep(g)

(* Go runs every runnable goroutine; calls end by their deadline.  Nothing *)
(* obliges a handler to call ReqSync.                                      *)
Fairness ==
    /\ WF_vars(Recv)
    /\ WF_vars(Scan)
    /\ WF_vars(WaitDone)
    /\ \A g \in Goroutines : WF_vars(WorkerStep(g))

Spec == Init /\ [][Next]_vars /\ Fairness

-----------------------------------------------------------------------------
(* Safety.                                                                 *)

(* A token in a box is never stranded: the loop has a wake-up token, or it *)
(* is on its way to the scan (both channels drop tokens when full).        *)
NoLostWakeup ==
    (\E t \in Tickets : box[t]) => waitingSync \/ loop = "scan"

(* Two goroutines never sync one server at a time, so a late write of old  *)
(* passages cannot overtake a newer one from this process.                 *)
OneWorkerPerTicket ==
    \A g, h \in Goroutines :
        Active(g) /\ Active(h) /\ worker[g].ticket = worker[h].ticket => g = h

(* A registered cancel function is that of the goroutine now syncing the   *)
(* ticket, which has not been cancelled by a request.                      *)
CancelIsLive ==
    \A t \in Tickets : syncCancel[t] # None =>
        LET w == worker[syncCancel[t]]
        IN  /\ w.pc # "idle"
            /\ w.ticket = t
            /\ w.canceled => w.pc = "delete"

(* A request that comes while its server is being synced always finds the  *)
(* cancel function: a sync with old passages does not run on under it.     *)
PendingPreempts ==
    \A t \in Tickets, g \in Goroutines :
        box[t] /\ Active(g) /\ worker[g].ticket = t => worker[g].canceled

-----------------------------------------------------------------------------
(* What makes the safety properties inductive.                             *)

(* A goroutine that no request has cancelled can still be cancelled.       *)
UncanceledIsRegistered ==
    \A g \in Goroutines :
        Active(g) /\ ~worker[g].canceled => syncCancel[worker[g].ticket] = g

ActiveHasTicket ==
    \A g \in Goroutines :
        /\ Active(g) => worker[g].ticket \in Tickets
        /\ worker[g].pc = "delete" => worker[g].canceled

(* wg.Wait() separates the rounds.                                         *)
RoundsAreSeparate ==
    loop # "wait" => \A g \in Goroutines : ~Active(g)

IInv ==
    /\ TypeOK
    /\ NoLostWakeup
    /\ OneWorkerPerTicket
    /\ CancelIsLive
    /\ PendingPreempts
    /\ UncanceledIsRegistered
    /\ ActiveHasTicket
    /\ RoundsAreSeparate

-----------------------------------------------------------------------------
(* Liveness.                                                               *)

(* Once no more requests come, the box is served and falls silent.         *)
Silent ==
    /\ \A t \in Tickets : ~box[t] /\ syncCancel[t] = None
    /\ \A g \in Goroutines : ~Active(g)
    /\ ~waitingSync

QuietSettles ==
    <>[][\A t \in Tickets : ~ReqSync(t)]_vars => <>[]Silent

(* The box keeps its promise: every request is taken up by a sync that     *)
(* begins after it, whatever requests come in the meantime.                *)
Promise == INSTANCE SyncPromise
    WITH owed <- box, current <- [t \in Tickets |-> syncCancel[t] # None]

KeepsPromise == Promise!Spec

=============================================================================
