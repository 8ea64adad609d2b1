--------------------------- MODULE SyncBoxProofs ---------------------------
(***************************************************************************)
(* For any set of tickets and of goroutines: the safety of ServerSyncBox   *)
(* (module SyncBox), and that each of its steps is a step of SyncPromise.  *)
(***************************************************************************)
EXTENDS SyncBox, Integers, FiniteSetTheorems, TLAPS

-----------------------------------------------------------------------------
(* What one action does to the workers, in the words the proofs use.       *)

(* A scan starts, for each pending ticket, one goroutine that was idle,    *)
(* and leaves the other goroutines as they were.                           *)
LEMMA StartEffect ==
    ASSUME NEW f \in Injection(Pending, {g \in Goroutines : ~Active(g)}),
           Start(f), TypeOK
    PROVE  /\ \A t \in Pending :
                /\ f[t] \in Goroutines /\ ~Active(f[t])
                /\ worker'[f[t]] = Started(t)
                /\ syncCancel'[t] = f[t]
           /\ \A g \in Goroutines :
                (\A t \in Pending : f[t] # g) => worker'[g] = worker[g]
           /\ \A t \in Tickets \ Pending : syncCancel'[t] = syncCancel[t]
<1>1. f \in [Pending -> {g \in Goroutines : ~Active(g)}] /\ IsInjective(f)
  BY DEF Injection
<1>2. Pending \subseteq Tickets
  BY DEF Pending
<1>3. ASSUME NEW t \in Pending
      PROVE  worker'[f[t]] = Started(t)
  <2>1. (CHOOSE u \in Pending : f[u] = f[t]) = t
    BY <1>1 DEF IsInjective
  <2>2. f[t] \in Goroutines
    BY <1>1
  <2> QED
    BY <2>1, <2>2 DEF Start
<1>4. \A t \in Pending :
        /\ f[t] \in Goroutines /\ ~Active(f[t])
        /\ syncCancel'[t] = f[t]
  BY <1>1, <1>2 DEF Start, Pending
<1>5. \A g \in Goroutines :
        (\A t \in Pending : f[t] # g) => worker'[g] = worker[g]
  BY DEF Start
<1>6. \A t \in Tickets \ Pending : syncCancel'[t] = syncCancel[t]
  BY DEF Start, Pending
<1> QED
  BY <1>3, <1>4, <1>5, <1>6

(* The steps of a worker up to its deferred functions move its pc only.    *)
Moves(g) ==
    /\ Active(g)
    /\ worker[g].pc # "delete"
    /\ \E pc \in WorkerPC \ {"idle", "delete"}, err \in {"nil", "canceled", "failed"} :
         worker' = [worker EXCEPT ![g].pc = pc, ![g].err = err]
    /\ UNCHANGED <<box, waitingSync, syncCancel, loop>>

LEMMA MovesEffect ==
    ASSUME NEW g \in Goroutines, TypeOK,
           \/ \E found \in BOOLEAN : WorkerGetServer(g, found)
           \/ WorkerGetPassages(g)
           \/ \E err \in {"nil", "canceled", "failed"} : WorkerCall(g, err)
           \/ WorkerRecord(g)
    PROVE  Moves(g)
<1> DEFINE Sets(pc, err) == worker' = [worker EXCEPT ![g].pc = pc, ![g].err = err]
<1>0. /\ worker[g].err \in {"nil", "canceled", "failed"}
      /\ \A pc : [worker EXCEPT ![g].pc = pc]
                   = [worker EXCEPT ![g].pc = pc, ![g].err = worker[g].err]
  BY DEF TypeOK
<1>1. CASE \E found \in BOOLEAN : WorkerGetServer(g, found)
  <2>1. PICK found \in BOOLEAN : WorkerGetServer(g, found)
    BY <1>1
  <2>2. Sets(IF found THEN "read" ELSE "exit", worker[g].err)
    BY <2>1, <1>0 DEF WorkerGetServer, Goto
  <2> QED
    BY <1>0, <2>1, <2>2 DEF Moves, WorkerGetServer, Goto, WorkerPC, Active
<1>2. CASE WorkerGetPassages(g)
  <2>1. Sets("call", worker[g].err)
    BY <1>0, <1>2 DEF WorkerGetPassages, Goto
  <2> QED
    BY <1>0, <1>2, <2>1 DEF Moves, WorkerGetPassages, Goto, WorkerPC, Active
<1>3. CASE \E err \in {"nil", "canceled", "failed"} : WorkerCall(g, err)
  BY <1>3 DEF Moves, WorkerCall, WorkerPC, Active
<1>4. CASE WorkerRecord(g)
  <2>1. Sets("exit", worker[g].err)
    BY <1>0, <1>4 DEF WorkerRecord, Goto
  <2> QED
    BY <1>0, <1>4, <2>1 DEF Moves, WorkerRecord, Goto, WorkerPC, Active
<1> QED
  BY <1>1, <1>2, <1>3, <1>4

-----------------------------------------------------------------------------
(* Each action preserves the inductive invariant.                          *)

LEMMA InitIInv == Init => IInv
<1> SUFFICES ASSUME Init PROVE IInv
  OBVIOUS
<1>1. /\ \A g \in Goroutines : worker[g].pc = "idle"
      /\ \A t \in Tickets : ~box[t] /\ syncCancel[t] = None
  BY DEF Init, Idle
<1>2. TypeOK
  BY DEF Init, TypeOK, Idle, WorkerPC
<1> QED
  BY <1>1, <1>2
     DEF IInv, NoLostWakeup, OneWorkerPerTicket, CancelIsLive, PendingPreempts,
         UncanceledIsRegistered, ActiveHasTicket, RoundsAreSeparate, Active

LEMMA ReqSyncIInv ==
    ASSUME IInv, NEW t \in Tickets, ReqSync(t)
    PROVE  IInv'
<1> USE GoroutinesAssumption DEF IInv
<1>1. \A g \in Goroutines :
        /\ worker'[g].pc = worker[g].pc
        /\ worker'[g].ticket = worker[g].ticket
        /\ worker'[g].canceled <=> (syncCancel[t] = g \/ worker[g].canceled)
  BY DEF ReqSync, CancelRegistered, TypeOK
<1>2. TypeOK'
  BY DEF ReqSync, CancelRegistered, TypeOK
<1>3. NoLostWakeup'
  BY DEF ReqSync, NoLostWakeup
<1>4. OneWorkerPerTicket'
  BY <1>1 DEF OneWorkerPerTicket, Active
<1>5. CancelIsLive'
  <2> SUFFICES ASSUME NEW u \in Tickets, syncCancel'[u] # None
               PROVE  /\ worker'[syncCancel'[u]].pc # "idle"
                      /\ worker'[syncCancel'[u]].ticket = u
                      /\ worker'[syncCancel'[u]].canceled =>
                           worker'[syncCancel'[u]].pc = "delete"
    BY DEF CancelIsLive
  <2>1. u # t /\ syncCancel'[u] = syncCancel[u] /\ syncCancel[u] \in Goroutines
    BY DEF ReqSync, TypeOK
  <2>2. syncCancel[t] # syncCancel[u]
    BY <2>1 DEF CancelIsLive
  <2> QED
    BY <1>1, <2>1, <2>2 DEF CancelIsLive
<1>6. PendingPreempts'
  BY <1>1 DEF PendingPreempts, UncanceledIsRegistered, Active, ReqSync, TypeOK
<1>7. UncanceledIsRegistered'
  BY <1>1 DEF UncanceledIsRegistered, ActiveHasTicket, Active, ReqSync, TypeOK
<1>8. ActiveHasTicket'
  BY <1>1 DEF ActiveHasTicket, Active
<1>9. RoundsAreSeparate'
  BY <1>1 DEF RoundsAreSeparate, Active, ReqSync
<1> QED
  BY <1>2, <1>3, <1>4, <1>5, <1>6, <1>7, <1>8, <1>9

LEMMA LoopIInv ==
    ASSUME IInv, Recv \/ WaitDone
    PROVE  IInv'
<1>1. UNCHANGED <<box, syncCancel, worker>>
  BY DEF Recv, WaitDone
<1>2. TypeOK' /\ NoLostWakeup' /\ RoundsAreSeparate'
  BY <1>1 DEF IInv, Recv, WaitDone, TypeOK, NoLostWakeup, RoundsAreSeparate, Active
<1>3. OneWorkerPerTicket' /\ CancelIsLive'
  BY <1>1 DEF IInv, OneWorkerPerTicket, CancelIsLive, Active
<1>4. PendingPreempts' /\ UncanceledIsRegistered' /\ ActiveHasTicket'
  BY <1>1 DEF IInv, PendingPreempts, UncanceledIsRegistered, ActiveHasTicket, Active
<1> QED
  BY <1>2, <1>3, <1>4 DEF IInv

LEMMA ScanIInv ==
    ASSUME IInv, Scan
    PROVE  IInv'
<1> USE GoroutinesAssumption DEF IInv
<1>1. PICK f \in Injection(Pending, {g \in Goroutines : ~Active(g)}) : Start(f)
  BY DEF Scan
<1>2. /\ \A t \in Pending :
           /\ f[t] \in Goroutines
           /\ worker'[f[t]] = Started(t)
           /\ syncCancel'[t] = f[t]
      /\ \A g \in Goroutines :
           (\A t \in Pending : f[t] # g) => worker'[g] = worker[g]
      /\ \A t \in Tickets \ Pending : syncCancel'[t] = syncCancel[t]
  BY <1>1, StartEffect
<1>3. /\ \A g \in Goroutines : ~Active(g)
      /\ \A t \in Tickets : syncCancel[t] = None
      /\ Pending \subseteq Tickets
  BY DEF Scan, RoundsAreSeparate, CancelIsLive, Active, TypeOK, Pending
<1>4. \A t \in Pending :
        /\ worker'[f[t]].pc = "get"
        /\ worker'[f[t]].ticket = t
        /\ ~worker'[f[t]].canceled
  <2> TAKE t \in Pending
  <2>1. worker'[f[t]] = [pc |-> "get", ticket |-> t, canceled |-> FALSE, err |-> "nil"]
    BY <1>2 DEF Started
  <2> QED
    BY <2>1
<1>5. ASSUME NEW g \in Goroutines, Active(g)'
      PROVE  /\ worker'[g].ticket \in Pending
             /\ f[worker'[g].ticket] = g
             /\ worker'[g].pc = "get"
  <2>1. PICK t \in Pending : f[t] = g
    BY <1>2, <1>3, <1>5 DEF Active
  <2> QED
    BY <1>4, <2>1
<1>6. TypeOK'
  <2>1. worker' \in [Goroutines -> [pc : WorkerPC, ticket : Tickets \cup {None},
                                    canceled : BOOLEAN,
                                    err : {"nil", "canceled", "failed"}]]
    <3>1. ASSUME NEW g \in Goroutines
          PROVE  worker'[g] \in [pc : WorkerPC, ticket : Tickets \cup {None},
                                 canceled : BOOLEAN,
                                 err : {"nil", "canceled", "failed"}]
      <4>1. CASE \E t \in Pending : f[t] = g
        <5>1. PICK t \in Pending : worker'[g] = Started(t)
          BY <4>1, <1>2
        <5> QED
          BY <5>1, <1>3 DEF Started, WorkerPC
      <4>2. CASE \A t \in Pending : f[t] # g
        BY <4>2, <1>2 DEF TypeOK
      <4> QED
        BY <4>1, <4>2
    <3>2. worker' = [g \in Goroutines |-> worker'[g]]
      BY <1>1 DEF Start
    <3> QED
      BY <3>1, <3>2
  <2>2. syncCancel' \in [Tickets -> Goroutines \cup {None}]
    <3>1. syncCancel' = [t \in Tickets |-> syncCancel'[t]]
      BY <1>1 DEF Start
    <3> QED
      BY <3>1, <1>2 DEF TypeOK
  <2> QED
    BY <2>1, <2>2 DEF Scan, TypeOK
<1>7. NoLostWakeup' /\ PendingPreempts' /\ RoundsAreSeparate'
  BY DEF Scan, NoLostWakeup, PendingPreempts, RoundsAreSeparate
<1>8. OneWorkerPerTicket'
  BY <1>5 DEF OneWorkerPerTicket
<1>9. CancelIsLive'
  <2> SUFFICES ASSUME NEW t \in Tickets, syncCancel'[t] # None
               PROVE  /\ worker'[syncCancel'[t]].pc # "idle"
                      /\ worker'[syncCancel'[t]].ticket = t
                      /\ ~worker'[syncCancel'[t]].canceled
    BY DEF CancelIsLive
  <2>1. t \in Pending /\ syncCancel'[t] = f[t]
    BY <1>2, <1>3
  <2> QED
    BY <1>4, <2>1
<1>10. UncanceledIsRegistered'
  BY <1>2, <1>5 DEF UncanceledIsRegistered
<1>11. ActiveHasTicket'
  BY <1>3, <1>5 DEF ActiveHasTicket, Active
<1> QED
  BY <1>6, <1>7, <1>8, <1>9, <1>10, <1>11

LEMMA MovesIInv ==
    ASSUME IInv, NEW g \in Goroutines, Moves(g)
    PROVE  IInv'
<1> USE DEF IInv
<1>1. PICK pc \in WorkerPC \ {"idle", "delete"}, err \in {"nil", "canceled", "failed"} :
        worker' = [worker EXCEPT ![g].pc = pc, ![g].err = err]
  BY DEF Moves
<1>2. \A h \in Goroutines :
        /\ Active(h)' <=> Active(h)
        /\ worker'[h].ticket = worker[h].ticket
        /\ worker'[h].canceled = worker[h].canceled
        /\ worker'[h].pc = "delete" <=> worker[h].pc = "delete"
  BY <1>1 DEF TypeOK, Active, Moves
<1>3. /\ UNCHANGED <<box, waitingSync, syncCancel, loop>>
      /\ syncCancel \in [Tickets -> Goroutines \cup {None}]
  BY DEF Moves, TypeOK
<1>4. TypeOK'
  BY <1>1, <1>3 DEF TypeOK
<1> QED
  BY <1>2, <1>3, <1>4, GoroutinesAssumption
     DEF NoLostWakeup, OneWorkerPerTicket, CancelIsLive, PendingPreempts,
         UncanceledIsRegistered, ActiveHasTicket, RoundsAreSeparate, Active

LEMMA WorkerExitIInv ==
    ASSUME IInv, NEW g \in Goroutines, WorkerExit(g)
    PROVE  IInv'
<1> USE GoroutinesAssumption DEF IInv
<1>1. UNCHANGED <<box, waitingSync, syncCancel, loop>> /\ Active(g)
  BY DEF WorkerExit, Active
<1>2. \A h \in Goroutines \ {g} : worker'[h] = worker[h]
  BY DEF WorkerExit, TypeOK
<1>3. CASE worker[g].canceled
  <2>1. worker'[g] = Idle
    BY <1>3 DEF WorkerExit, TypeOK
  <2>2. \A t \in Tickets : syncCancel[t] # g
    BY <1>3 DEF CancelIsLive, WorkerExit
  <2>3. TypeOK'
    BY <1>1, <1>3 DEF WorkerExit, TypeOK, Idle, WorkerPC
  <2> QED
    BY <1>1, <1>2, <2>1, <2>2, <2>3
       DEF NoLostWakeup, OneWorkerPerTicket, CancelIsLive, PendingPreempts,
           UncanceledIsRegistered, ActiveHasTicket, RoundsAreSeparate, Active,
           Idle, TypeOK
<1>4. CASE ~worker[g].canceled
  <2>1. worker'[g] = [worker[g] EXCEPT !.canceled = TRUE, !.pc = "delete"]
    BY <1>4 DEF WorkerExit, TypeOK
  <2>2. /\ worker'[g].ticket = worker[g].ticket
        /\ worker'[g].pc = "delete"
        /\ worker'[g].canceled
    BY <2>1 DEF TypeOK
  <2>3. TypeOK'
    BY <1>1, <1>4 DEF WorkerExit, TypeOK, WorkerPC
  <2> QED
    <3>1. \A h \in Goroutines :
            /\ worker'[h].ticket = worker[h].ticket
            /\ Active(h)' <=> Active(h)
      BY <1>1, <1>2, <2>2 DEF Active
    <3>2. /\ OneWorkerPerTicket' /\ NoLostWakeup' /\ RoundsAreSeparate'
          /\ ActiveHasTicket'
      BY <1>1, <1>2, <2>2, <3>1
         DEF NoLostWakeup, OneWorkerPerTicket, RoundsAreSeparate, ActiveHasTicket
    <3>3. PendingPreempts' /\ UncanceledIsRegistered'
      BY <1>1, <1>2, <2>2, <3>1 DEF PendingPreempts, UncanceledIsRegistered
    <3>4. CancelIsLive'
      BY <1>1, <1>2, <2>2 DEF CancelIsLive, TypeOK
    <3> QED
      BY <2>3, <3>2, <3>3, <3>4
<1> QED
  BY <1>3, <1>4

LEMMA WorkerDeleteIInv ==
    ASSUME IInv, NEW g \in Goroutines, WorkerDelete(g)
    PROVE  IInv'
<1> USE GoroutinesAssumption DEF IInv
<1>1. /\ UNCHANGED <<box, waitingSync, loop>>
      /\ Active(g) /\ worker[g].ticket \in Tickets
  BY DEF WorkerDelete, ActiveHasTicket, Active
<1>2. /\ \A h \in Goroutines \ {g} : worker'[h] = worker[h]
      /\ worker'[g] = Idle
  BY DEF WorkerDelete, TypeOK
<1>3. \A t \in Tickets :
        syncCancel'[t] = IF t = worker[g].ticket THEN None ELSE syncCancel[t]
  BY DEF WorkerDelete, TypeOK
<1>4. TypeOK'
  BY <1>1 DEF WorkerDelete, TypeOK, Idle, WorkerPC
<1>5. OneWorkerPerTicket' /\ PendingPreempts' /\ ActiveHasTicket'
  BY <1>1, <1>2 DEF OneWorkerPerTicket, PendingPreempts, ActiveHasTicket,
                    Active, Idle
<1>6. CancelIsLive'
  BY <1>1, <1>2, <1>3 DEF CancelIsLive, TypeOK
<1>7. UncanceledIsRegistered'
  BY <1>1, <1>2, <1>3
     DEF UncanceledIsRegistered, OneWorkerPerTicket, ActiveHasTicket, Active, Idle
<1>8. NoLostWakeup' /\ RoundsAreSeparate'
  BY <1>1, <1>2 DEF NoLostWakeup, RoundsAreSeparate, Active, Idle
<1> QED
  BY <1>4, <1>5, <1>6, <1>7, <1>8

LEMMA NextIInv == IInv /\ [Next]_vars => IInv'
<1> SUFFICES ASSUME IInv, [Next]_vars PROVE IInv'
  OBVIOUS
<1>1. CASE \E t \in Tickets : ReqSync(t)
  BY <1>1, ReqSyncIInv
<1>2. CASE Recv \/ WaitDone
  BY <1>2, LoopIInv
<1>3. CASE Scan
  BY <1>3, ScanIInv
<1>4. CASE \E g \in Goroutines : WorkerStep(g)
  <2> SUFFICES ASSUME NEW g \in Goroutines, WorkerStep(g) PROVE IInv'
    BY <1>4
  <2>1. CASE WorkerExit(g)
    BY <2>1, WorkerExitIInv
  <2>2. CASE WorkerDelete(g)
    BY <2>2, WorkerDeleteIInv
  <2>3. CASE ~WorkerExit(g) /\ ~WorkerDelete(g)
    <3>1. Moves(g)
      BY <2>3, MovesEffect DEF WorkerStep, IInv
    <3> QED
      BY <3>1, MovesIInv
  <2> QED
    BY <2>1, <2>2, <2>3
<1>5. CASE UNCHANGED vars
  BY <1>5 DEF vars, IInv, TypeOK, NoLostWakeup, OneWorkerPerTicket,
              CancelIsLive, PendingPreempts, UncanceledIsRegistered,
              ActiveHasTicket, RoundsAreSeparate, Active
<1> QED
  BY <1>1, <1>2, <1>3, <1>4, <1>5 DEF Next

-----------------------------------------------------------------------------
(* The theorems.                                                           *)

(* SyncBackground's rounds, ReqSync's cancellations and the goroutines'    *)
(* deferred functions keep the inductive invariant, however many tickets.  *)
THEOREM Inductive == Spec => []IInv
<1>1. Init => IInv
  BY InitIInv
<1>2. IInv /\ [Next]_vars => IInv'
  BY NextIInv
<1> QED
  BY <1>1, <1>2, PTL DEF Spec

(* The state of the mailbox has its type.                                  *)
THEOREM Typing == Spec => []TypeOK
<1>1. IInv => TypeOK
  BY DEF IInv
<1> QED
  BY <1>1, Inductive, PTL

(* No token is left in a box without a wake-up for the loop to find it.    *)
THEOREM Wakeup == Spec => []NoLostWakeup
<1>1. IInv => NoLostWakeup
  BY DEF IInv
<1> QED
  BY <1>1, Inductive, PTL

(* Never two goroutines at one server.                                     *)
THEOREM Exclusion == Spec => []OneWorkerPerTicket
<1>1. IInv => OneWorkerPerTicket
  BY DEF IInv
<1> QED
  BY <1>1, Inductive, PTL

(* A registered cancel function cancels the sync under way, and a request  *)
(* always finds it.                                                        *)
THEOREM Preemption == Spec => [](CancelIsLive /\ PendingPreempts)
<1>1. IInv => CancelIsLive /\ PendingPreempts
  BY DEF IInv
<1> QED
  BY <1>1, Inductive, PTL

-----------------------------------------------------------------------------
(* The mailbox implements SyncPromise: a box with a token is a request     *)
(* that is owed, a registered cancel function a sync that is current.      *)

LEMMA InitRefines == Init => Promise!Init
BY DEF Init, Promise!Init

LEMMA ReqSyncRefines ==
    ASSUME IInv, NEW t \in Tickets, ReqSync(t)
    PROVE  Promise!Request(t)
BY DEF IInv, TypeOK, ReqSync, Promise!Request

LEMMA ScanRefines ==
    ASSUME IInv, Scan
    PROVE  Promise!Begin \/ UNCHANGED Promise!vars
<1>1. PICK f \in Injection(Pending, {g \in Goroutines : ~Active(g)}) : Start(f)
  BY DEF Scan
<1>2. /\ \A t \in Pending : syncCancel'[t] \in Goroutines
      /\ \A t \in Tickets \ Pending : syncCancel'[t] = syncCancel[t]
  BY <1>1, StartEffect DEF IInv
<1>3. \A t \in Tickets : syncCancel[t] = None
  BY DEF Scan, IInv, RoundsAreSeparate, CancelIsLive, Active, TypeOK
<1>4. \A t \in Tickets : syncCancel'[t] # None <=> box[t]
  BY <1>2, <1>3, GoroutinesAssumption DEF Pending
<1>5. box \in [Tickets -> BOOLEAN] /\ box' = [t \in Tickets |-> FALSE]
  BY DEF IInv, TypeOK, Scan
<1>6. [t \in Tickets |-> syncCancel'[t] # None] = box
  <2>1. \A t \in Tickets : (syncCancel'[t] # None) = box[t]
    BY <1>4, <1>5
  <2> QED
    BY <2>1, <1>5
<1>7. CASE \E t \in Tickets : box[t]
  BY <1>3, <1>5, <1>6, <1>7 DEF Promise!Begin
<1>8. CASE \A t \in Tickets : ~box[t]
  <2>1. box' = box
    BY <1>5, <1>8
  <2>2. [t \in Tickets |-> syncCancel'[t] # None]
          = [t \in Tickets |-> syncCancel[t] # None]
    BY <1>3, <1>4, <1>8
  <2> QED
    BY <2>1, <2>2 DEF Promise!vars
<1> QED
  BY <1>7, <1>8

LEMMA WorkerDeleteRefines ==
    ASSUME IInv, NEW g \in Goroutines, WorkerDelete(g)
    PROVE  (\E t \in Tickets : Promise!Finish(t)) \/ UNCHANGED Promise!vars
<1>1. PICK t \in Tickets : t = worker[g].ticket
  BY DEF IInv, ActiveHasTicket, Active, WorkerDelete
<1>2. syncCancel' = [syncCancel EXCEPT ![t] = None] /\ box' = box
  BY <1>1 DEF WorkerDelete
<1>3. syncCancel \in [Tickets -> Goroutines \cup {None}]
  BY DEF IInv, TypeOK
<1>4. CASE syncCancel[t] = None
  <2>1. syncCancel' = syncCancel
    BY <1>1, <1>2, <1>3, <1>4
  <2> QED
    BY <1>2, <2>1 DEF Promise!vars
<1>5. CASE syncCancel[t] # None
  BY <1>1, <1>2, <1>3, <1>5 DEF Promise!Finish
<1> QED
  BY <1>4, <1>5

LEMMA StepRefines == IInv /\ [Next]_vars => [Promise!Next]_(Promise!vars)
<1> SUFFICES ASSUME IInv, [Next]_vars
             PROVE  [Promise!Next]_(Promise!vars)
  OBVIOUS
<1>1. CASE \E t \in Tickets : ReqSync(t)
  BY <1>1, ReqSyncRefines DEF Promise!Next
<1>2. CASE Recv \/ WaitDone \/ UNCHANGED vars
  <2>1. UNCHANGED <<box, syncCancel>>
    BY <1>2 DEF Recv, WaitDone, vars
  <2> QED
    BY <2>1 DEF Promise!vars
<1>3. CASE Scan
  BY <1>3, ScanRefines DEF Promise!Next
<1>4. CASE \E g \in Goroutines : WorkerStep(g)
  <2> SUFFICES ASSUME NEW g \in Goroutines, WorkerStep(g)
               PROVE  [Promise!Next]_(Promise!vars)
    BY <1>4
  <2>1. CASE WorkerDelete(g)
    BY <2>1, WorkerDeleteRefines DEF Promise!Next
  <2>2. CASE ~WorkerDelete(g)
    <3>1. UNCHANGED <<box, syncCancel>>
      BY <2>2 DEF WorkerStep, WorkerGetServer, WorkerGetPassages, WorkerCall,
                  WorkerRecord, WorkerExit, Goto
    <3> QED
      BY <3>1 DEF Promise!vars
  <2> QED
    BY <2>1, <2>2
<1> QED
  BY <1>1, <1>2, <1>3, <1>4 DEF Next

(* Every behaviour of ReqSync and SyncBackground is one that SyncPromise   *)
(* allows (its liveness stays with the model checker).                     *)
THEOREM Refinement == Spec => Promise!Safety
<1>1. Init => Promise!Init
  BY InitRefines
<1>2. IInv /\ [Next]_vars => [Promise!Next]_(Promise!vars)
  BY StepRefines
<1> QED
  BY <1>1, <1>2, Inductive, PTL DEF Spec, Promise!Safety

-----------------------------------------------------------------------------
(* Why the mailbox drains (QuietSettles), but for the fairness: without    *)
(* new requests, every step leaves less to do, and as long as it is not    *)
(* silent, the loop or a goroutine can go on.                              *)

(* The steps that goroutines have ahead of them, at most.                  *)
Stage(pc) ==
    CASE pc = "get" -> 6 [] pc = "read" -> 5 [] pc = "call" -> 4
      [] pc = "record" -> 3 [] pc = "exit" -> 2 [] pc = "delete" -> 1
      [] pc = "idle" -> 0

Ahead == {s \in Goroutines \X (1..6) : s[2] <= Stage(worker[s[1]].pc)}

(* The turns of the loop: to take the wake-up, to scan, and to wait.       *)
Turns ==
    (IF waitingSync THEN 3 ELSE 0) +
    (CASE loop = "scan" -> 2 [] loop = "wait" -> 1 [] loop = "recv" -> 0)

(* A turn outweighs all that the goroutines have to do, and a token in the *)
(* box all turns.                                                          *)
Weight == 6 * Cardinality(Goroutines) + 1

Rank == (6 * Cardinality(Pending) + Turns) * Weight + Cardinality(Ahead)

LEMMA StepsAreFinite ==
    ASSUME IsFiniteSet(Goroutines), NEW S, S \subseteq Goroutines \X (1..6)
    PROVE  /\ IsFiniteSet(S) /\ Cardinality(S) \in Nat
           /\ Weight \in Nat /\ Cardinality(S) < Weight
<1>1. IsFiniteSet(1..6) /\ Cardinality(1..6) = 6
  <2>1. 1 \in Int /\ 6 \in Int /\ ~(1 > 6) /\ 6 - 1 + 1 = 6
    OBVIOUS
  <2>2. /\ IsFiniteSet(1..6)
        /\ Cardinality(1..6) = IF 1 > 6 THEN 0 ELSE 6 - 1 + 1
    BY <2>1, FS_Interval, Zenon
  <2> QED
    BY <2>1, <2>2
<1>2. /\ IsFiniteSet(Goroutines \X (1..6))
      /\ Cardinality(Goroutines \X (1..6)) = Cardinality(Goroutines) * 6
  BY <1>1, FS_Product
<1>3. /\ IsFiniteSet(S) /\ Cardinality(S) \in Nat
      /\ Cardinality(S) <= Cardinality(Goroutines \X (1..6))
  BY <1>2, FS_Subset, FS_CardinalityType
<1>4. Cardinality(Goroutines) \in Nat
  BY FS_CardinalityType
<1> QED
  BY <1>2, <1>3, <1>4 DEF Weight

LEMMA TokensAreFinite ==
    ASSUME IsFiniteSet(Goroutines), NEW S, S \subseteq Tickets
    PROVE  IsFiniteSet(S) /\ Cardinality(S) \in Nat
<1>1. PICK f : f \in Injection(Tickets, Goroutines)
  BY GoroutinesAssumption DEF ExistsInjection
<1>2. IsFiniteSet(Tickets)
  BY <1>1, FS_Injection
<1> QED
  BY <1>2, FS_Subset, FS_CardinalityType

(* Fewer turns are less to do, whatever the goroutines have.               *)
LEMMA FewerTurns ==
    ASSUME NEW w \in Nat, NEW m \in Nat, NEW n \in Nat, m < n,
           NEW a \in Nat, NEW b \in Nat, a < w
    PROVE  m * w + a < n * w + b
<1>1. PICK d \in Nat : n = m + 1 + d
  <2>1. n - m - 1 \in Nat /\ n = m + 1 + (n - m - 1)
    OBVIOUS
  <2> QED
    BY <2>1
<1>2. n * w = m * w + w + d * w /\ d * w \in Nat /\ m * w \in Nat
  BY <1>1
<1> QED
  BY <1>2

LEMMA LoopDrains ==
    ASSUME IInv, TypeOK', IsFiniteSet(Goroutines), Recv \/ Scan \/ WaitDone
    PROVE  Rank' < Rank
<1> DEFINE tokens == Cardinality(Pending)
           left == 6 * tokens + Turns
<1>1. TypeOK
  BY DEF IInv
<1>2. tokens \in Nat /\ tokens' \in Nat
  BY TokensAreFinite DEF Pending
<1>3. Turns \in 0..5 /\ Turns' \in 0..5
  BY <1>1 DEF Turns, TypeOK
<1>4. /\ Weight \in Nat /\ Weight' = Weight
      /\ Cardinality(Ahead) \in Nat /\ Cardinality(Ahead') \in Nat
      /\ Cardinality(Ahead') < Weight
  BY StepsAreFinite DEF Ahead, Weight
<1> HIDE DEF tokens
<1>5. left' < left
  <2>1. CASE Recv
    <3>1. tokens' = tokens /\ Turns' = Turns - 1
      BY <1>1, <2>1 DEF Recv, Turns, tokens, Pending
    <3> QED
      BY <1>2, <1>3, <3>1
  <2>2. CASE WaitDone
    <3>1. tokens' = tokens /\ Turns' = Turns - 1
      BY <1>1, <2>2 DEF WaitDone, Turns, tokens, Pending
    <3> QED
      BY <1>2, <1>3, <3>1
  <2>3. CASE Scan
    <3>1. Turns' = Turns - 1
      BY <1>1, <2>3 DEF Scan, Turns
    <3>2. Pending' = {}
      BY <2>3 DEF Scan, Pending
    <3>3. tokens' = 0
      BY <3>2, FS_EmptySet DEF tokens
    <3> QED
      BY <1>2, <1>3, <3>1, <3>3
  <2> QED
    BY <2>1, <2>2, <2>3
<1>6. left \in Nat /\ left' \in Nat
  <2>1. \A n \in Nat, turns \in 0..5 : 6 * n + turns \in Nat
    OBVIOUS
  <2> QED
    BY <1>2, <1>3, <2>1, Zenon
<1>7. Rank = left * Weight + Cardinality(Ahead) /\ Rank' = left' * Weight + Cardinality(Ahead')
  BY <1>4 DEF Rank, tokens
<1> HIDE DEF left
<1> QED
  BY <1>4, <1>5, <1>6, <1>7, FewerTurns

LEMMA WorkerDrains ==
    ASSUME IInv, TypeOK', IsFiniteSet(Goroutines), NEW g \in Goroutines, WorkerStep(g)
    PROVE  Rank' < Rank
<1>1. TypeOK
  BY DEF IInv
<1>2. /\ box' = box /\ waitingSync' = waitingSync /\ loop' = loop
      /\ \A h \in Goroutines : h # g => worker'[h] = worker[h]
      /\ Stage(worker'[g].pc) \in 0..6 /\ Stage(worker[g].pc) \in 1..6
      /\ Stage(worker'[g].pc) < Stage(worker[g].pc)
  <2>1. worker[g].pc \in WorkerPC /\ worker'[g].pc \in WorkerPC
    BY <1>1 DEF TypeOK
  <2>2. CASE \E found \in BOOLEAN : WorkerGetServer(g, found)
    BY <1>1, <2>1, <2>2 DEF WorkerGetServer, Goto, Stage, TypeOK
  <2>3. CASE WorkerGetPassages(g)
    BY <1>1, <2>1, <2>3 DEF WorkerGetPassages, Goto, Stage, TypeOK
  <2>4. CASE \E err \in {"nil", "canceled", "failed"} : WorkerCall(g, err)
    BY <1>1, <2>1, <2>4 DEF WorkerCall, Stage, TypeOK
  <2>5. CASE WorkerRecord(g)
    BY <1>1, <2>1, <2>5 DEF WorkerRecord, Goto, Stage, TypeOK
  <2>6. CASE WorkerExit(g)
    BY <1>1, <2>1, <2>6 DEF WorkerExit, Idle, Stage, TypeOK
  <2>7. CASE WorkerDelete(g)
    BY <1>1, <2>1, <2>7 DEF WorkerDelete, Idle, Stage, TypeOK
  <2> QED
    BY <2>2, <2>3, <2>4, <2>5, <2>6, <2>7 DEF WorkerStep
<1>3. Pending' = Pending /\ Turns' = Turns /\ Weight' = Weight
  BY <1>2 DEF Pending, Turns, Weight
<1>4. /\ Ahead \subseteq Goroutines \X (1..6)
      /\ Ahead' \subseteq Goroutines \X (1..6)
  BY DEF Ahead
<1>5. Ahead' \subseteq Ahead
  <2> SUFFICES ASSUME NEW s \in Ahead' PROVE s \in Ahead
    OBVIOUS
  <2>1. s \in Goroutines \X (1..6) /\ s[2] <= Stage(worker'[s[1]].pc)
    BY DEF Ahead
  <2>2. CASE s[1] = g
    BY <1>2, <2>1, <2>2 DEF Ahead
  <2>3. CASE s[1] # g
    BY <1>2, <2>1, <2>3 DEF Ahead
  <2> QED
    BY <2>2, <2>3
<1>6. Ahead' # Ahead
  <2> DEFINE s == <<g, Stage(worker[g].pc)>>
  <2>1. s \in Ahead
    BY <1>2 DEF Ahead
  <2>2. s \notin Ahead'
    BY <1>2 DEF Ahead
  <2> QED
    BY <2>1, <2>2
<1>7. /\ IsFiniteSet(Ahead) /\ Cardinality(Ahead) \in Nat
      /\ Cardinality(Ahead') \in Nat
  BY <1>4, StepsAreFinite
<1>8. Cardinality(Ahead') < Cardinality(Ahead)
  <2>1. /\ Cardinality(Ahead') <= Cardinality(Ahead)
        /\ Cardinality(Ahead) = Cardinality(Ahead') => Ahead = Ahead'
    BY <1>5, <1>7, FS_Subset
  <2> QED
    BY <1>6, <1>7, <2>1
<1> DEFINE left == (6 * Cardinality(Pending) + Turns) * Weight
<1>9. left \in Nat
  <2>1. Cardinality(Pending) \in Nat
    BY TokensAreFinite DEF Pending
  <2>2. Turns \in 0..5
    BY <1>1 DEF Turns, TypeOK
  <2>3. Weight \in Nat
    BY <1>4, StepsAreFinite
  <2>4. 6 * Cardinality(Pending) + Turns \in Nat
    BY <2>1, <2>2
  <2> QED
    BY <2>3, <2>4
<1>10. Rank = left + Cardinality(Ahead) /\ Rank' = left + Cardinality(Ahead')
  BY <1>3 DEF Rank
<1> HIDE DEF left
<1> QED
  BY <1>7, <1>8, <1>9, <1>10

(* Requests are what keeps SyncBackground busy: as long as none comes, the *)
(* loop and its goroutines have fewer and fewer steps left, however many   *)
(* servers are pending and whatever becomes of their syncs.                *)
THEOREM Drains ==
    ASSUME IsFiniteSet(Goroutines)
    PROVE  Spec => [](Rank \in Nat) /\ [][(\A t \in Tickets : ~ReqSync(t)) => Rank' < Rank]_vars
<1>1. IInv => Rank \in Nat
  <2> SUFFICES ASSUME IInv PROVE Rank \in Nat
    OBVIOUS
  <2>1. Cardinality(Pending) \in Nat
    BY TokensAreFinite DEF Pending
  <2>2. Turns \in 0..5
    BY DEF Turns, TypeOK, IInv
  <2>3. Weight \in Nat /\ Cardinality(Ahead) \in Nat
    BY StepsAreFinite DEF Ahead
  <2>4. 6 * Cardinality(Pending) + Turns \in Nat
    BY <2>1, <2>2
  <2>5. (6 * Cardinality(Pending) + Turns) * Weight \in Nat
    BY <2>3, <2>4
  <2> QED
    BY <2>3, <2>5 DEF Rank
<1>2. IInv /\ IInv' /\ [Next]_vars
        => [(\A t \in Tickets : ~ReqSync(t)) => Rank' < Rank]_vars
  <2> SUFFICES ASSUME IInv, IInv', Next, \A t \in Tickets : ~ReqSync(t)
               PROVE  Rank' < Rank
    OBVIOUS
  <2>1. TypeOK'
    BY DEF IInv
  <2> QED
    BY <2>1, LoopDrains, WorkerDrains DEF Next
<1> QED
  BY <1>1, <1>2, Inductive, PTL DEF Spec

(* The guards of the loop and of a goroutine.                              *)
CanGoOn ==
    \/ loop = "recv" /\ waitingSync
    \/ loop = "scan" /\ Injection(Pending, {g \in Goroutines : ~Active(g)}) # {}
    \/ loop = "wait" /\ \A g \in Goroutines : ~Active(g)
    \/ \E g \in Goroutines :
         worker[g].pc \in {"get", "read", "call", "record", "exit", "delete"}

(* And none of them is ever stuck before all is served: not the loop with  *)
(* a token that it has no wake-up for, nor with goroutines to wait for     *)
(* that have ended, nor with none left to start.                           *)
THEOREM NeverStuck == Spec => [](Silent \/ CanGoOn)
<1>1. IInv => Silent \/ CanGoOn
  <2> SUFFICES ASSUME IInv, ~CanGoOn PROVE Silent
    OBVIOUS
  <2>1. TypeOK /\ loop \in {"recv", "scan", "wait"}
    BY DEF IInv, TypeOK
  <2>2. \A g \in Goroutines : ~Active(g)
    BY <2>1 DEF CanGoOn, Active, TypeOK, WorkerPC
  <2>3. loop # "scan"
    <3> SUFFICES ASSUME loop = "scan" PROVE FALSE
      OBVIOUS
    <3>1. PICK f \in Injection(Tickets, Goroutines) : TRUE
      BY GoroutinesAssumption DEF ExistsInjection
    <3>2. Pending \subseteq Tickets /\ {g \in Goroutines : ~Active(g)} = Goroutines
      BY <2>2 DEF Pending
    <3> DEFINE h == [t \in Pending |-> f[t]]
    <3>3. h \in Injection(Pending, Goroutines)
      BY <3>1, <3>2 DEF Injection, IsInjective
    <3> QED
      BY <3>2, <3>3 DEF CanGoOn
  <2>4. loop = "recv" /\ ~waitingSync
    BY <2>1, <2>2, <2>3 DEF CanGoOn, TypeOK
  <2>5. \A t \in Tickets : ~box[t]
    BY <2>4 DEF IInv, NoLostWakeup
  <2>6. \A t \in Tickets : syncCancel[t] = None
    BY <2>1, <2>2 DEF IInv, CancelIsLive, Active, TypeOK
  <2> QED
    BY <2>2, <2>4, <2>5, <2>6 DEF Silent
<1> QED
  BY <1>1, Inductive, PTL

=============================================================================
