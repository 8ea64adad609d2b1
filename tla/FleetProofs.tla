---------------------------- MODULE FleetProofs ----------------------------
(***************************************************************************)
(* For any set of users, servers and relays, and any number of operations  *)
(* in flight: the safety of module Fleet.                                  *)
(***************************************************************************)
EXTENDS Fleet, SyncBoxProofs

-----------------------------------------------------------------------------
(* The inductive invariant.                                                *)

(* What an operation in flight will ask a sync of, if it is registered.    *)
OpAwaits(v, t) ==
    \/ v.pc \in {"boot", "listChat"}
    \/ v.pc = "listServer" /\ v.server = t
    \/ v.pc = "send" /\ t \in v.targets

(* It will ask the peers of q for a sync too, if q still has its ticket.   *)
OpAnnounces(v, q) == v.pc = "listServer" /\ ~v.onlyItSelf /\ v.server = q

Awaited(t) == box[t] \/ \E o \in Ops : OpAwaits(op[o], t)
Announced(q) == \E o \in Ops : OpAnnounces(op[o], q)

(* A passage p of t that is there for the sake of its peer q.              *)
Via(t, p, q) == IF t \in Relays THEN \E u \in Users : p = <<u, q>> ELSE p = q

Excused(t, p) ==
    \/ \E u \in putBack : Opens(u, {p})
    \/ \E q \in Tickets : Via(t, p, q) /\ Announced(q)

(* The passages S are what t should have, as far as nothing is announced.  *)
Fits(t, S) ==
    /\ \A p \in PassagesOf(t) \ S : Excused(t, p)
    /\ \A u \in Users : ticket[u] \in {"swept", "lapsed"} => ~Opens(u, S)

At(g, t, pcs) == worker[g].ticket = t /\ worker[g].pc \in pcs

Working(t) ==
    \E g \in Goroutines : At(g, t, {"get", "read", "call", "record"})

UpToDate(t) ==
    /\ \A g \in Goroutines : At(g, t, {"call"}) => Fits(t, snapshot[g])
    /\ \A g \in Goroutines :
         At(g, t, {"record"}) => worker[g].err = "failed" \/ Fits(t, installed[t])
    /\ Working(t) \/ server[t].nextSeen \/ Fits(t, installed[t])

(* A server may fail once more in every round under way, and a round that  *)
(* begins finds it short of MaxFailureCount.                               *)
MaxFailures == MaxFailureCount - 1 + MaxRounds

FailuresAreBounded ==
    \A t \in Tickets : server[t].failures + pinging[t] <= MaxFailures

(* A sync that a request has cancelled is followed by another.             *)
CanceledIsPending ==
    \A g \in Goroutines :
        Active(g) /\ worker[g].canceled /\ worker[g].pc # "delete" =>
            box[worker[g].ticket]

(* What a sync records is the outcome of the last call.                    *)
RecordIsOutcome ==
    \A g \in Goroutines : worker[g].pc = "record" =>
        (unsynced[worker[g].ticket] <=> worker[g].err = "failed")

FailureIsAwaited ==
    \A t \in ServersOfChat :
        unsynced[t] => server[t].nextSeen \/ Awaited(t) \/ Working(t)

PassagesAreAwaited ==
    \A t \in ServersOfChat \ passedOver : Awaited(t) \/ UpToDate(t)

SyncInv ==
    /\ IInv
    /\ FleetTypeOK
    /\ CanceledIsPending
    /\ RecordIsOutcome

-----------------------------------------------------------------------------
(* The types of what the actions put together.                             *)

(* The fields an operation in flight has follow from where it is.          *)
LEMMA OpFields ==
    ASSUME FleetTypeOK, NEW o \in Ops
    PROVE  /\ op[o].pc \in {"idle", "save", "ping", "boot", "listChat",
                            "listServer", "send"}
           /\ op[o].pc = "save" => op[o].user \in Users /\ op[o].expired \in BOOLEAN
           /\ op[o].pc = "ping" => op[o].server \in Tickets
           /\ op[o].pc = "boot" =>
                /\ op[o].relays \subseteq Relays
                /\ op[o] = [pc |-> "boot", relays |-> op[o].relays]
           /\ op[o].pc = "listServer" =>
                op[o].server \in Tickets /\ op[o].onlyItSelf \in BOOLEAN
           /\ op[o].pc = "send" => op[o].targets \subseteq Tickets
<1>1. op[o] \in OpState
  BY DEF FleetTypeOK
<1> QED
  BY <1>1 DEF OpState, IdleOp

LEMMA BootStep ==
    ASSUME FleetTypeOK, NEW o \in Ops, NEW r, NEW reachable,
           SyncAllRelay(o, r, reachable)
    PROVE  op' = [op EXCEPT ![o] = [pc |-> "boot", relays |-> op[o].relays \ {r}]]
<1> DEFINE w == [op[o] EXCEPT !.relays = @ \ {r}]
<1>1. op' = [op EXCEPT ![o] = w]
  BY DEF SyncAllRelay
<1>2. op[o] = [pc |-> "boot", relays |-> op[o].relays]
  BY OpFields DEF SyncAllRelay
<1>3. w = [pc |-> "boot", relays |-> op[o].relays \ {r}]
  BY <1>2
<1> QED
  BY <1>1, <1>3

LEMMA SendType ==
    ASSUME NEW targets, targets \subseteq Tickets
    PROVE  Send(targets) \in OpState
BY DEF Send, OpState

LEMMA BeginType ==
    ASSUME FleetTypeOK, NEW v \in OpState, Begin(v)
    PROVE  op' \in [Ops -> OpState]
BY DEF FleetTypeOK, Begin

LEMMA FreshType ==
    /\ Fresh \in ServerState /\ Unknown \in ServerState
    /\ Fresh.known /\ ~Fresh.nextSeen /\ Fresh.failures = 0
    /\ ~Unknown.known /\ ~Unknown.nextSeen /\ Unknown.failures = 0
<1>0. Fresh \in [known : BOOLEAN, nextSeen : BOOLEAN, failures : Nat]
  BY DEF Fresh
<1>1. Unknown = [known |-> FALSE, nextSeen |-> FALSE, failures |-> 0]
  <2>1. /\ Unknown \in [known : BOOLEAN, nextSeen : BOOLEAN, failures : Nat]
        /\ Unknown.known = FALSE
        /\ Unknown.nextSeen = Fresh.nextSeen
        /\ Unknown.failures = Fresh.failures
    BY <1>0 DEF Unknown
  <2>2. Fresh.nextSeen = FALSE /\ Fresh.failures = 0
    BY DEF Fresh
  <2> QED
    BY <2>1, <2>2
<1>2. 0 \in 0..(MaxFailureCount - 1 + MaxRounds)
  BY FleetAssumption
<1>3. Fresh \in ServerState /\ Unknown \in ServerState
  BY <1>1, <1>2 DEF Fresh, ServerState
<1>4. Fresh.known /\ ~Fresh.nextSeen /\ Fresh.failures = 0
  BY DEF Fresh
<1>5. ~Unknown.known /\ ~Unknown.nextSeen /\ Unknown.failures = 0
  BY <1>1
<1> QED
  BY <1>3, <1>4, <1>5

(* What GetPassagesByServer returns, passage by passage.                   *)
IsPassage(t, p) ==
    \/ /\ t \in Relays
       /\ \E u \in Users, q \in Servers :
            /\ p = <<u, q>>
            /\ ticket[u] = "valid" /\ ticket[q] = "valid" /\ Alive(q)
    \/ /\ t \notin Relays
       /\ \/ p \in Users /\ ticket[p] = "valid"
          \/ p \in Relays /\ ticket[p] = "valid" /\ Alive(p)

PassagesRead ==
    \A t \in Tickets : \A p :
        p \in PassagesOf(t) <=>
            ticket[t] # "revoked" /\ server[t].known /\ IsPassage(t, p)

LEMMA PassagesOfServer == PassagesRead
<1> SUFFICES ASSUME NEW t \in Tickets, NEW p
             PROVE  p \in PassagesOf(t) <=>
                      ticket[t] # "revoked" /\ server[t].known /\ IsPassage(t, p)
  BY DEF PassagesRead
<1> DEFINE users == {u \in Users : ticket[u] = "valid"}
           peers == {q \in Peers(t) : ticket[q] = "valid" /\ Alive(q)}
<1>1. CASE ticket[t] = "revoked" \/ ~server[t].known
  BY <1>1 DEF PassagesOf
<1>2. CASE ticket[t] # "revoked" /\ server[t].known /\ t \in Relays
  <2>1. PassagesOf(t) = users \X peers
    BY <1>2 DEF PassagesOf
  <2>2. peers = {q \in Servers : ticket[q] = "valid" /\ Alive(q)}
    BY <1>2 DEF Peers
  <2> QED
    BY <1>2, <2>1, <2>2 DEF IsPassage
<1>3. CASE ticket[t] # "revoked" /\ server[t].known /\ t \notin Relays
  <2>1. PassagesOf(t) = users \cup peers
    BY <1>3 DEF PassagesOf
  <2>2. peers = {q \in Relays : ticket[q] = "valid" /\ Alive(q)}
    BY <1>3 DEF Peers
  <2> QED
    BY <1>3, <2>1, <2>2 DEF IsPassage
<1> QED
  BY <1>1, <1>2, <1>3

LEMMA PassagesType ==
    ASSUME NEW t \in Tickets
    PROVE  PassagesOf(t) \subseteq Passage
BY PassagesOfServer DEF PassagesRead, Passage, IsPassage

-----------------------------------------------------------------------------
(* The mailbox: whatever else a step of the fleet does, it is a step of    *)
(* SyncBox, or a crash.                                                    *)

(* The actions by what they do to the mailbox and to what syncs carry.     *)
LEMMA Kinds ==
    ASSUME [FleetNext]_fleetVars
    PROVE  \/ UNCHANGED <<vars, snapshot, unsynced>>
           \/ \E o \in Ops, t \in Tickets : SendReqSync(o, t)
           \/ Loop
           \/ \E g \in Goroutines : SyncStep(g)
           \/ Crash
<1> USE DEF mailbox, history
<1>1. ASSUME NEW u, GetTicket(u) \/ RenewRead(u) \/ Expire(u) \/ Lapse(u)
      PROVE  UNCHANGED <<vars, snapshot, unsynced>>
  BY <1>1 DEF GetTicket, RenewRead, Expire, Lapse
<1>2. ASSUME NEW params, Revoke(params)
      PROVE  UNCHANGED <<vars, snapshot, unsynced>>
  BY <1>2 DEF Revoke, RevokeTicket
<1>3. ASSUME NEW t, PostRegister(t) \/ PingStart(t) \/ PingDone(t)
      PROVE  UNCHANGED <<vars, snapshot, unsynced>>
  BY <1>3 DEF PostRegister, PingStart, PingDone
<1>4. ASSUME NEW o, ListChat(o) \/ ListServer(o) \/ RenewSave(o) \/ SyncAllChat(o)
      PROVE  UNCHANGED <<vars, snapshot, unsynced>>
  BY <1>4 DEF ListChat, ListServer, RenewSave, SyncAllChat, PassOver
<1>5. ASSUME NEW o, NEW t, NEW r, RegisterServer(o, r) \/ SyncAllRelay(o, t, r)
      PROVE  UNCHANGED <<vars, snapshot, unsynced>>
  BY <1>5 DEF RegisterServer, SyncAllRelay
<1>6. CASE Clean \/ UNCHANGED fleetVars
  BY <1>6 DEF Clean, CleanTickets, PassOver, fleetVars
<1> QED
  BY <1>1, <1>2, <1>3, <1>4, <1>5, <1>6 DEF FleetNext, OpStep

LEMMA SyncIsWorkerStep ==
    ASSUME IInv, FleetTypeOK, NEW g \in Goroutines, SyncStep(g)
    PROVE  WorkerStep(g)
<1>1. CASE GetServer(g)
  <2>1. server[worker[g].ticket].known \in BOOLEAN
    BY <1>1 DEF GetServer, WorkerGetServer, FleetTypeOK, ServerState, IInv,
                ActiveHasTicket, Active
  <2> QED
    BY <1>1, <2>1 DEF GetServer, WorkerStep
<1>2. CASE \E err \in Outcomes : SyncPassages(g, err)
  BY <1>2, FleetAssumption DEF SyncPassages, WorkerStep
<1>3. CASE GetPassages(g) \/ SetSyncNextSeen(g) \/ Finish(g)
  BY <1>3 DEF GetPassages, SetSyncNextSeen, Finish, WorkerStep
<1> QED
  BY <1>1, <1>2, <1>3 DEF SyncStep

LEMMA MailboxStep ==
    ASSUME IInv, FleetTypeOK, [FleetNext]_fleetVars
    PROVE  [Next]_vars \/ Crash
<1>1. ASSUME NEW g \in Goroutines, SyncStep(g)
      PROVE  Next
  BY <1>1, SyncIsWorkerStep DEF Next
<1>2. ASSUME NEW o \in Ops, NEW t \in Tickets, SendReqSync(o, t)
      PROVE  Next
  BY <1>2 DEF SendReqSync, Next
<1> QED
  BY <1>1, <1>2, Kinds DEF Loop, Next

LEMMA MailboxIInv ==
    ASSUME IInv, FleetTypeOK, [FleetNext]_fleetVars
    PROVE  IInv'
<1>1. CASE Crash
  <2>1. Init'
    BY <1>1 DEF Crash, Init
  <2>2. (Init => IInv)'
    BY InitIInv, PTL
  <2> QED
    BY <2>1, <2>2
<1>2. CASE [Next]_vars
  BY <1>2, NextIInv
<1> QED
  BY <1>1, <1>2, MailboxStep

-----------------------------------------------------------------------------
(* Types.                                                                  *)

LEMMA ServerEdit ==
    ASSUME FleetTypeOK, NEW t \in Tickets
    PROVE  /\ [server EXCEPT ![t] = Fresh] \in [Tickets -> ServerState]
           /\ \A b \in BOOLEAN :
                [server EXCEPT ![t].nextSeen = b] \in [Tickets -> ServerState]
           /\ \A f \in 0..MaxFailures :
                [server EXCEPT ![t].failures = f] \in [Tickets -> ServerState]
BY FreshType DEF FleetTypeOK, ServerState, MaxFailures

(* Handlers, time and the cleaner.                                         *)
LEMMA TicketsType ==
    ASSUME IInv, FleetTypeOK, IInv',
           \/ \E u \in Users \ Members :
                GetTicket(u) \/ RenewRead(u) \/ Expire(u) \/ Lapse(u)
           \/ \E x \in Users \cup Tickets : RevokeTicket(x)
           \/ Clean
    PROVE  FleetTypeOK'
<1>1. /\ ticket' \in [Users \cup Tickets -> TicketState]
      /\ server' \in [Tickets -> ServerState]
      /\ passedOver' \subseteq Tickets
  <2>1. CASE \E u \in Users \ Members :
               GetTicket(u) \/ RenewRead(u) \/ Expire(u) \/ Lapse(u)
    BY <2>1 DEF GetTicket, RenewRead, Expire, Lapse, FleetTypeOK, TicketState,
                db, history
  <2>2. CASE \E x \in Users \cup Tickets : RevokeTicket(x)
    BY <2>2, FreshType DEF RevokeTicket, FleetTypeOK, TicketState, db, history
  <2>3. CASE Clean
    BY <2>3 DEF Clean, CleanTickets, PassOver, FleetTypeOK, TicketState, db,
                ServersOfChat
  <2> QED
    BY <2>1, <2>2, <2>3
<1>2. op' \in [Ops -> OpState]
  <2>1. CASE \E u \in Users \ Members : RenewRead(u)
    <3>1. PICK u \in Users : RenewRead(u)
      BY <2>1
    <3>2. [pc |-> "save", user |-> u, expired |-> ticket[u] # "valid"] \in OpState
      BY DEF OpState
    <3> QED
      BY <3>1, <3>2, BeginType DEF RenewRead
  <2>2. CASE \E u \in Users \ Members : GetTicket(u)
    <3>1. [pc |-> "listChat"] \in OpState
      BY DEF OpState
    <3> QED
      BY <2>2, <3>1, BeginType DEF GetTicket
  <2>3. CASE Clean
    <3>1. Send(Unflagged(ServersOfChat)) \in OpState
      BY SendType DEF Unflagged, ServersOfChat
    <3> QED
      BY <2>3, <3>1, BeginType DEF Clean, CleanTickets
  <2>4. CASE \/ \E u \in Users \ Members : Expire(u) \/ Lapse(u)
             \/ \E x \in Users \cup Tickets : RevokeTicket(x)
    BY <2>4 DEF Expire, Lapse, RevokeTicket, FleetTypeOK
  <2> QED
    BY <2>1, <2>2, <2>3, <2>4
<1>3. UNCHANGED <<snapshot, installed, pinging, unsynced, putBack>>
  BY DEF GetTicket, RenewRead, Expire, Lapse, RevokeTicket, Clean, CleanTickets,
         PassOver, history
<1> QED
  BY <1>1, <1>2, <1>3 DEF FleetTypeOK, IInv

(* Operations in flight.                                                   *)
LEMMA OpsType ==
    ASSUME IInv, FleetTypeOK, IInv', NEW o \in Ops, OpStep(o)
    PROVE  FleetTypeOK'
<1> USE OpFields
<1>1. CASE ListChat(o)
  <2>1. Send(Unflagged(ServersOfChat)) \in OpState
    BY SendType DEF Unflagged, ServersOfChat
  <2> QED
    BY <1>1, <2>1 DEF ListChat, PassOver, ServersOfChat, FleetTypeOK, db, IInv
<1>2. CASE ListServer(o)
  <2> DEFINE t == op[o].server
             peers == IF op[o].onlyItSelf THEN {} ELSE Peers(t) \cap ServersOfChat
  <2>1. Send({t} \cup Unflagged(peers)) \in OpState /\ peers \subseteq Tickets
    BY <1>2, SendType DEF ListServer, Unflagged, ServersOfChat
  <2>2. IdleOp \in OpState
    BY DEF OpState
  <2>3. op' \in [Ops -> OpState] /\ passedOver' \subseteq Tickets
    BY <1>2, <2>1, <2>2 DEF ListServer, PassOver, FleetTypeOK, history
  <2> QED
    BY <1>2, <2>3 DEF ListServer, PassOver, FleetTypeOK, db, history, IInv
<1>3. CASE RenewSave(o)
  <2>1. IdleOp \in OpState /\ [pc |-> "listChat"] \in OpState
    BY DEF OpState
  <2>2. op[o].user \in Users
    BY <1>3 DEF RenewSave
  <2>3. op' \in [Ops -> OpState] /\ putBack' \subseteq Users
    BY <1>3, <2>1, <2>2 DEF RenewSave, FleetTypeOK
  <2> QED
    BY <1>3, <2>3 DEF RenewSave, FleetTypeOK, TicketState, IInv
<1>4. CASE SyncAllChat(o)
  <2>1. [pc |-> "listChat"] \in OpState
    BY DEF OpState
  <2> QED
    BY <1>4, <2>1 DEF SyncAllChat, FleetTypeOK, IInv, db, history
<1>5. ASSUME NEW t \in Tickets, SendReqSync(o, t)
      PROVE  FleetTypeOK'
  <2>1. Send(op[o].targets \ {t}) \in OpState
    BY <1>5, SendType DEF SendReqSync
  <2> QED
    BY <1>5, <2>1 DEF SendReqSync, FleetTypeOK, IInv, db, history
<1>6. ASSUME NEW r \in BOOLEAN, RegisterServer(o, r)
      PROVE  FleetTypeOK'
  <2>1. /\ [pc |-> "listServer", server |-> op[o].server,
            onlyItSelf |-> FALSE] \in OpState
        /\ IdleOp \in OpState
    BY <1>6 DEF RegisterServer, OpState
  <2>2. op' \in [Ops -> OpState]
    BY <1>6, <2>1 DEF RegisterServer, FleetTypeOK
  <2>3. op[o].server \in Tickets
    BY <1>6 DEF RegisterServer
  <2>4. server' \in [Tickets -> ServerState]
    BY <1>6, <2>3, FreshType DEF RegisterServer, FleetTypeOK
  <2> QED
    BY <1>6, <2>2, <2>4 DEF RegisterServer, FleetTypeOK, IInv, history
<1>7. ASSUME NEW t \in Relays, NEW r \in BOOLEAN, SyncAllRelay(o, t, r)
      PROVE  FleetTypeOK'
  <2>1. op' = [op EXCEPT ![o] = [pc |-> "boot", relays |-> op[o].relays \ {t}]]
    BY <1>7, BootStep
  <2>2. [pc |-> "boot", relays |-> op[o].relays \ {t}] \in OpState
    BY <1>7 DEF SyncAllRelay, OpState
  <2>3. server' \in [Tickets -> ServerState]
    BY <1>7, ServerEdit, FleetAssumption DEF SyncAllRelay, FleetTypeOK
  <2> QED
    BY <1>7, <2>1, <2>2, <2>3 DEF SyncAllRelay, FleetTypeOK, IInv, history
<1> QED
  BY <1>1, <1>2, <1>3, <1>4, <1>5, <1>6, <1>7 DEF OpStep

(* Registrations and pings.                                                *)
LEMMA ServersType ==
    ASSUME IInv, FleetTypeOK, FailuresAreBounded, IInv', NEW t \in Tickets,
           PostRegister(t) \/ PingStart(t) \/ PingDone(t)
    PROVE  FleetTypeOK'
<1>1. CASE PostRegister(t)
  <2>1. [pc |-> "ping", server |-> t] \in OpState
    BY DEF OpState
  <2> QED
    BY <1>1, <2>1, BeginType, PassagesType
       DEF PostRegister, FleetTypeOK, IInv, db, history
<1>2. CASE PingStart(t)
  <2>1. pinging' \in [Tickets -> 0..MaxRounds]
    BY <1>2, FleetAssumption DEF PingStart, FleetTypeOK
  <2> QED
    BY <1>2, <2>1 DEF PingStart, FleetTypeOK, IInv, db, history
<1>3. CASE PingDone(t)
  <2>1. \A b \in BOOLEAN :
          [pc |-> "listServer", server |-> t, onlyItSelf |-> b] \in OpState
    BY DEF OpState
  <2>2. /\ server[t].failures + 1 \in 0..MaxFailures
        /\ 0 \in 0..MaxFailures
        /\ pinging' \in [Tickets -> 0..MaxRounds]
    BY <1>3, FleetAssumption
       DEF PingDone, FailuresAreBounded, MaxFailures, FleetTypeOK, ServerState
  <2>3. server' \in [Tickets -> ServerState]
    BY <1>3, <2>2, ServerEdit
       DEF PingDone, PingGone, PingFailed, PingAnswered, FleetTypeOK
  <2>4. op' \in [Ops -> OpState]
    <3>1. CASE PingGone(t) \/ op' = op
      BY <3>1 DEF PingGone, FleetTypeOK
    <3>2. CASE PingFailed(t) /\ op' # op
      BY <3>2, <2>1, BeginType DEF PingFailed
    <3>3. CASE PingAnswered(t) /\ op' # op
      <4>1. (~(server[t].failures >= MaxFailureCount)) \in BOOLEAN
        OBVIOUS
      <4> QED
        BY <3>3, <4>1, <2>1, BeginType DEF PingAnswered
    <3> QED
      BY <1>3, <3>1, <3>2, <3>3 DEF PingDone
  <2> QED
    BY <1>3, <2>2, <2>3, <2>4 DEF PingDone, FleetTypeOK, IInv, history
<1> QED
  BY <1>1, <1>2, <1>3

(* The sync of one server.                                                 *)
LEMMA SyncType ==
    ASSUME IInv, FleetTypeOK, IInv',
           Loop \/ \E g \in Goroutines : SyncStep(g)
    PROVE  FleetTypeOK'
<1>1. CASE Loop
  BY <1>1 DEF Loop, FleetTypeOK, IInv, db, history
<1>2. ASSUME NEW g \in Goroutines, SyncStep(g)
      PROVE  FleetTypeOK'
  <2>1. CASE GetServer(g) \/ Finish(g)
    BY <2>1 DEF GetServer, Finish, FleetTypeOK, IInv, db, history
  <2>2. CASE GetPassages(g)
    <3>1. worker[g].ticket \in Tickets
      BY <2>2 DEF GetPassages, WorkerGetPassages, IInv, ActiveHasTicket, Active
    <3> QED
      BY <2>2, <3>1, PassagesType DEF GetPassages, FleetTypeOK, IInv, db
  <2>3. CASE \E err \in Outcomes : SyncPassages(g, err)
    <3>1. worker[g].ticket \in Tickets
      BY <2>3 DEF SyncPassages, WorkerCall, IInv, ActiveHasTicket, Active
    <3>2. snapshot' \in [Goroutines -> SUBSET Passage]
      BY <2>3 DEF SyncPassages, FleetTypeOK
    <3>3. installed' \in [Tickets -> SUBSET Passage]
      BY <2>3, <3>1 DEF SyncPassages, FleetTypeOK
    <3>4. unsynced' \in [Tickets -> BOOLEAN]
      <4>1. PICK err \in Outcomes :
              unsynced' = [unsynced EXCEPT ![worker[g].ticket] = err = "failed"]
        BY <2>3 DEF SyncPassages
      <4>2. (err = "failed") \in BOOLEAN
        OBVIOUS
      <4> QED
        BY <4>1, <4>2, <3>1 DEF FleetTypeOK
    <3> QED
      BY <2>3, <3>2, <3>3, <3>4 DEF SyncPassages, FleetTypeOK, IInv, db
  <2>4. CASE SetSyncNextSeen(g)
    <3>1. worker[g].ticket \in Tickets
      BY <2>4 DEF SetSyncNextSeen, WorkerRecord, IInv, ActiveHasTicket, Active
    <3>2. (worker[g].err = "failed") \in BOOLEAN
      OBVIOUS
    <3>3. server' \in [Tickets -> ServerState]
      BY <2>4, <3>1, <3>2, ServerEdit DEF SetSyncNextSeen, FleetTypeOK
    <3> QED
      BY <2>4, <3>1, <3>3 DEF SetSyncNextSeen, FleetTypeOK, IInv
  <2> QED
    BY <1>2, <2>1, <2>2, <2>3, <2>4 DEF SyncStep
<1> QED
  BY <1>1, <1>2

LEMMA CrashType ==
    ASSUME IInv, FleetTypeOK, IInv', Crash
    PROVE  FleetTypeOK'
<1>1. op' \in [Ops -> OpState]
  <2>1. IdleOp \in OpState
    BY DEF OpState
  <2>2. [pc |-> "boot", relays |-> Relays \cap ServersOfChat] \in OpState
    BY DEF OpState
  <2> QED
    BY <2>1, <2>2 DEF Crash
<1>2. pinging' \in [Tickets -> 0..MaxRounds]
  BY FleetAssumption DEF Crash
<1> QED
  BY <1>1, <1>2 DEF Crash, FleetTypeOK, IInv, db, history

LEMMA TypeStep ==
    ASSUME IInv, FleetTypeOK, FailuresAreBounded, [FleetNext]_fleetVars
    PROVE  FleetTypeOK'
<1> USE MailboxIInv
<1>1. CASE \/ \E u \in Users \ Members :
                GetTicket(u) \/ RenewRead(u) \/ Expire(u) \/ Lapse(u)
           \/ Clean
  BY <1>1, TicketsType
<1>2. ASSUME NEW params \in {<<>>} \cup {<<x>> : x \in (Users \ Members) \cup Tickets},
             Revoke(params)
      PROVE  FleetTypeOK'
  <2>1. \E x \in Users \cup Tickets : RevokeTicket(x)
    BY <1>2 DEF Revoke
  <2> QED
    BY <2>1, TicketsType
<1>3. ASSUME NEW t \in Tickets, PostRegister(t) \/ PingStart(t) \/ PingDone(t)
      PROVE  FleetTypeOK'
  BY <1>3, ServersType
<1>4. ASSUME NEW o \in Ops, OpStep(o)
      PROVE  FleetTypeOK'
  BY <1>4, OpsType
<1>5. CASE Loop \/ \E g \in Goroutines : SyncStep(g)
  BY <1>5, SyncType
<1>6. CASE Crash
  BY <1>6, CrashType
<1>7. CASE UNCHANGED fleetVars
  BY <1>7 DEF fleetVars, mailbox, db, history, FleetTypeOK, IInv
<1> QED
  BY <1>1, <1>2, <1>3, <1>4, <1>5, <1>6, <1>7 DEF FleetNext

-----------------------------------------------------------------------------
(* What a step of the mailbox does, in the words of the invariant.         *)

LEMMA ReqSyncEffect ==
    ASSUME IInv, NEW t \in Tickets, ReqSync(t)
    PROVE  /\ box'[t]
           /\ \A u \in Tickets : box[u] => box'[u]
           /\ \A g \in Goroutines :
                /\ worker'[g].pc = worker[g].pc
                /\ worker'[g].ticket = worker[g].ticket
                /\ worker'[g].err = worker[g].err
                /\ Active(g) /\ worker'[g].canceled =>
                     worker[g].canceled \/ worker[g].ticket = t
<1>1. box'[t] /\ \A u \in Tickets : box[u] => box'[u]
  BY DEF ReqSync, IInv, TypeOK
<1>2. \A g \in Goroutines :
        /\ worker'[g].pc = worker[g].pc
        /\ worker'[g].ticket = worker[g].ticket
        /\ worker'[g].err = worker[g].err
        /\ worker'[g].canceled => worker[g].canceled \/ syncCancel[t] = g
  BY DEF ReqSync, CancelRegistered, IInv, TypeOK
<1>3. \A g \in Goroutines : syncCancel[t] = g => worker[g].ticket = t
  BY GoroutinesAssumption DEF IInv, CancelIsLive
<1> QED
  BY <1>1, <1>2, <1>3

LEMMA ScanEffect ==
    ASSUME IInv, Scan
    PROVE  /\ \A g \in Goroutines : ~Active(g)
           /\ \A g \in Goroutines :
                worker'[g].pc = "idle" \/ (worker'[g].pc = "get" /\ ~worker'[g].canceled)
           /\ \A t \in Tickets : box[t] =>
                \E g \in Goroutines : worker'[g].ticket = t /\ worker'[g].pc = "get"
<1>1. PICK f \in Injection(Pending, {g \in Goroutines : ~Active(g)}) : Start(f)
  BY DEF Scan
<1>2. /\ \A t \in Pending : f[t] \in Goroutines /\ worker'[f[t]] = Started(t)
      /\ \A g \in Goroutines :
           (\A t \in Pending : f[t] # g) => worker'[g] = worker[g]
  BY <1>1, StartEffect DEF IInv
<1>3. \A g \in Goroutines : ~Active(g)
  BY DEF Scan, IInv, RoundsAreSeparate
<1>4. \A t : /\ Started(t).pc = "get"
             /\ Started(t).ticket = t
             /\ ~Started(t).canceled
  BY DEF Started
<1>5. \A g \in Goroutines :
        worker'[g].pc = "idle" \/ (worker'[g].pc = "get" /\ ~worker'[g].canceled)
  <2> TAKE g \in Goroutines
  <2>1. CASE \E t \in Pending : f[t] = g
    BY <2>1, <1>2, <1>4
  <2>2. CASE \A t \in Pending : f[t] # g
    <3>1. worker'[g] = worker[g]
      BY <2>2, <1>2
    <3>2. worker'[g].pc = "idle"
      BY <3>1, <1>3 DEF Active
    <3> QED
      BY <3>2
  <2> QED
    BY <2>1, <2>2
<1>6. \A t \in Tickets : box[t] =>
        \E g \in Goroutines : worker'[g].ticket = t /\ worker'[g].pc = "get"
  BY <1>2, <1>4 DEF Pending
<1> QED
  BY <1>3, <1>5, <1>6

LEMMA FinishEffect ==
    ASSUME IInv, NEW g \in Goroutines, WorkerExit(g) \/ WorkerDelete(g)
    PROVE  \/ worker'[g] = Idle
           \/ /\ worker'[g].pc = "delete" /\ worker'[g].ticket = worker[g].ticket
              /\ worker[g].pc = "exit"
<1>1. CASE WorkerDelete(g) \/ (WorkerExit(g) /\ worker[g].canceled)
  BY <1>1 DEF WorkerDelete, WorkerExit, IInv, TypeOK
<1>2. CASE WorkerExit(g) /\ ~worker[g].canceled
  <2>1. worker'[g] = [worker[g] EXCEPT !.canceled = TRUE, !.pc = "delete"]
    BY <1>2 DEF WorkerExit, IInv, TypeOK
  <2> QED
    BY <1>2, <2>1 DEF WorkerExit, IInv, TypeOK
<1>3. worker[g].canceled \in BOOLEAN
  BY DEF IInv, TypeOK
<1> QED
  BY <1>1, <1>2, <1>3

(* A goroutine that moves on leaves the others, and the boxes, alone.      *)
LEMMA WorkerEffect ==
    ASSUME IInv, NEW g \in Goroutines, WorkerStep(g)
    PROVE  /\ box' = box
           /\ Active(g) /\ worker[g].ticket \in Tickets
           /\ \A h \in Goroutines \ {g} : worker'[h] = worker[h]
           /\ worker'[g] = Idle \/ worker'[g].ticket = worker[g].ticket
           /\ worker'[g].canceled => worker[g].canceled \/ worker'[g].pc = "delete"
<1>1. box' = box /\ Active(g)
  BY DEF WorkerStep, WorkerGetServer, WorkerGetPassages, WorkerCall,
         WorkerRecord, WorkerExit, WorkerDelete, Goto, Active
<1>2. worker[g].ticket \in Tickets
  BY <1>1 DEF IInv, ActiveHasTicket
<1>3. \A h \in Goroutines \ {g} : worker'[h] = worker[h]
  BY DEF WorkerStep, WorkerGetServer, WorkerGetPassages, WorkerCall,
         WorkerRecord, WorkerExit, WorkerDelete, Goto, IInv, TypeOK
<1>4. /\ worker'[g] = Idle \/ worker'[g].ticket = worker[g].ticket
      /\ worker'[g].canceled => worker[g].canceled \/ worker'[g].pc = "delete"
  <2>1. CASE WorkerExit(g) \/ WorkerDelete(g)
    <3>1. ~Idle.canceled
      BY DEF Idle
    <3> QED
      BY <2>1, <3>1, FinishEffect
  <2>3. CASE ~WorkerExit(g) /\ ~WorkerDelete(g)
    <3>1. Moves(g)
      BY <2>3, MovesEffect DEF WorkerStep, IInv
    <3>2. PICK pc \in WorkerPC, err \in {"nil", "canceled", "failed"} :
            worker' = [worker EXCEPT ![g].pc = pc, ![g].err = err]
      BY <3>1 DEF Moves
    <3>3. /\ worker'[g].ticket = worker[g].ticket
          /\ worker'[g].canceled = worker[g].canceled
      BY <3>2 DEF IInv, TypeOK
    <3> QED
      BY <3>3
  <2> QED
    BY <2>1, <2>3
<1> QED
  BY <1>1, <1>2, <1>3, <1>4

-----------------------------------------------------------------------------
(* The small invariants.                                                   *)

LEMMA FailuresStep ==
    ASSUME FleetTypeOK, FailuresAreBounded, IInv, [FleetNext]_fleetVars
    PROVE  FailuresAreBounded'
<1> USE FleetAssumption DEF FailuresAreBounded, MaxFailures
<1>0. \A t \in Tickets : /\ server[t].failures \in Nat
                         /\ pinging[t] \in 0..MaxRounds
  BY DEF FleetTypeOK, ServerState
<1>1. CASE UNCHANGED <<server, pinging>>
  BY <1>1
<1>2. CASE Crash
  <2>1. server' = server /\ \A t \in Tickets : pinging'[t] = 0
    BY <1>2 DEF Crash, db
  <2> QED
    BY <1>0, <2>1
<1>3. ASSUME NEW t \in Tickets, PingStart(t)
      PROVE  FailuresAreBounded'
  <2>1. server' = server /\ server[t].failures < MaxFailureCount
    BY <1>3 DEF PingStart, Alive, db
  <2>2. /\ \A u \in Tickets \ {t} : pinging'[u] = pinging[u]
        /\ pinging'[t] = pinging[t] + 1 /\ pinging[t] < MaxRounds
    BY <1>3 DEF PingStart, FleetTypeOK
  <2> QED
    BY <1>0, <2>1, <2>2
<1>4. ASSUME NEW t \in Tickets, PingDone(t)
      PROVE  FailuresAreBounded'
  <2>1. \A u \in Tickets \ {t} : server'[u] = server[u] /\ pinging'[u] = pinging[u]
    BY <1>4 DEF PingDone, PingGone, PingFailed, PingAnswered, FleetTypeOK
  <2>2. pinging'[t] = pinging[t] - 1
    BY <1>4 DEF PingDone, FleetTypeOK
  <2>3. server'[t].failures \in {0, server[t].failures, server[t].failures + 1}
    BY <1>4 DEF PingDone, PingGone, PingFailed, PingAnswered, FleetTypeOK, ServerState
  <2> QED
    BY <1>0, <2>1, <2>2, <2>3
<1>5. ASSUME NEW x, RevokeTicket(x)
      PROVE  FailuresAreBounded'
  <2>1. \A t \in Tickets : server'[t] = Unknown \/ server'[t] = server[t]
    BY <1>5 DEF RevokeTicket
  <2>2. pinging' = pinging
    BY <1>5 DEF RevokeTicket
  <2> QED
    BY <1>0, <2>1, <2>2, FreshType
<1>6. ASSUME NEW o \in Ops,
             \/ \E r \in BOOLEAN : RegisterServer(o, r)
             \/ \E t \in Relays, r \in BOOLEAN : SyncAllRelay(o, t, r)
      PROVE  FailuresAreBounded'
  <2>1. \A t \in Tickets : server'[t] = Fresh \/ server'[t] = server[t]
    BY <1>6 DEF RegisterServer, SyncAllRelay, FleetTypeOK
  <2>2. pinging' = pinging
    BY <1>6 DEF RegisterServer, SyncAllRelay
  <2> QED
    BY <1>0, <2>1, <2>2, FreshType
<1>7. ASSUME NEW g \in Goroutines, SetSyncNextSeen(g)
      PROVE  FailuresAreBounded'
  <2>1. \A t \in Tickets : server'[t].failures = server[t].failures
    BY <1>7 DEF SetSyncNextSeen, FleetTypeOK, ServerState
  <2>2. pinging' = pinging
    BY <1>7 DEF SetSyncNextSeen
  <2> QED
    BY <2>1, <2>2
<1> QED
  <2>1. ASSUME NEW u, GetTicket(u) \/ RenewRead(u) \/ Expire(u) \/ Lapse(u)
        PROVE  UNCHANGED <<server, pinging>>
    BY <2>1 DEF GetTicket, RenewRead, Expire, Lapse, db
  <2>2. ASSUME NEW o, ListChat(o) \/ ListServer(o) \/ RenewSave(o)
                        \/ SyncAllChat(o) \/ \E t \in Tickets : SendReqSync(o, t)
        PROVE  UNCHANGED <<server, pinging>>
    BY <2>2 DEF ListChat, ListServer, RenewSave, SyncAllChat, SendReqSync, db
  <2>3. ASSUME NEW g, GetServer(g) \/ GetPassages(g) \/ Finish(g)
                        \/ \E err \in Outcomes : SyncPassages(g, err)
        PROVE  UNCHANGED <<server, pinging>>
    BY <2>3 DEF GetServer, GetPassages, Finish, SyncPassages, db
  <2>4. ASSUME Clean \/ Loop \/ \E t \in Tickets : PostRegister(t)
        PROVE  UNCHANGED <<server, pinging>>
    BY <2>4 DEF Clean, CleanTickets, Loop, PostRegister, db
  <2> QED
    BY <1>1, <1>2, <1>3, <1>4, <1>5, <1>6, <1>7, <2>1, <2>2, <2>3, <2>4
       DEF FleetNext, OpStep, SyncStep, Revoke, fleetVars, db

LEMMA CanceledStep ==
    ASSUME IInv, FleetTypeOK, CanceledIsPending, [FleetNext]_fleetVars
    PROVE  CanceledIsPending'
<1> USE DEF CanceledIsPending
<1>1. CASE UNCHANGED vars \/ Recv \/ WaitDone
  <2>1. UNCHANGED <<box, worker>>
    BY <1>1 DEF vars, Recv, WaitDone
  <2> QED
    BY <2>1 DEF Active
<1>2. ASSUME NEW t \in Tickets, ReqSync(t)
      PROVE  CanceledIsPending'
  <2> SUFFICES ASSUME NEW g \in Goroutines, Active(g)', worker'[g].canceled,
                      worker'[g].pc # "delete"
               PROVE  box'[worker'[g].ticket]
    OBVIOUS
  <2>1. Active(g) /\ worker[g].pc # "delete" /\ worker'[g].ticket = worker[g].ticket
    BY <1>2, ReqSyncEffect DEF Active
  <2>2. worker[g].ticket \in Tickets
    BY <2>1 DEF IInv, ActiveHasTicket
  <2> QED
    BY <1>2, <2>1, <2>2, ReqSyncEffect
<1>3. CASE Scan
  BY <1>3, ScanEffect DEF Active
<1>4. ASSUME NEW g \in Goroutines, WorkerStep(g)
      PROVE  CanceledIsPending'
  <2> SUFFICES ASSUME NEW h \in Goroutines, Active(h)', worker'[h].canceled,
                      worker'[h].pc # "delete"
               PROVE  box'[worker'[h].ticket]
    OBVIOUS
  <2>1. CASE h # g
    BY <1>4, <2>1, WorkerEffect DEF Active
  <2>2. CASE h = g
    <3>1. worker'[g].ticket = worker[g].ticket /\ worker[g].canceled
      BY <1>4, <2>2, WorkerEffect DEF Active, Idle
    <3>2. worker[g].pc # "delete"
      <4>1. WorkerDelete(g) => worker'[g] = Idle
        BY DEF WorkerDelete, IInv, TypeOK
      <4> QED
        BY <1>4, <2>2, <4>1 DEF WorkerStep, WorkerGetServer, WorkerGetPassages,
             WorkerCall, WorkerRecord, WorkerExit, Active, Idle
    <3> QED
      BY <1>4, <2>2, <3>1, <3>2, WorkerEffect
  <2> QED
    BY <2>1, <2>2
<1>5. CASE Crash
  BY <1>5 DEF Crash, Active, Idle
<1> QED
  BY <1>1, <1>2, <1>3, <1>4, <1>5, MailboxStep DEF Next

LEMMA RecordStep ==
    ASSUME IInv, FleetTypeOK, RecordIsOutcome, [FleetNext]_fleetVars
    PROVE  RecordIsOutcome'
<1> USE DEF RecordIsOutcome
<1>1. ASSUME NEW g \in Goroutines, NEW err \in Outcomes, SyncPassages(g, err)
      PROVE  RecordIsOutcome'
  <2>1. WorkerStep(g) /\ worker[g].ticket \in Tickets
    BY <1>1, FleetAssumption, WorkerEffect DEF SyncPassages, WorkerStep
  <2>2. /\ worker'[g].pc = "record" /\ worker'[g].err = err
        /\ worker'[g].ticket = worker[g].ticket
    BY <1>1 DEF SyncPassages, WorkerCall, IInv, TypeOK
  <2>3. /\ unsynced'[worker[g].ticket] = (err = "failed")
        /\ \A t \in Tickets \ {worker[g].ticket} : unsynced'[t] = unsynced[t]
    BY <1>1, <2>1 DEF SyncPassages, FleetTypeOK
  <2>4. ASSUME NEW h \in Goroutines \ {g}, worker'[h].pc = "record"
        PROVE  unsynced'[worker'[h].ticket] <=> worker'[h].err = "failed"
    <3>1. worker'[h] = worker[h]
      BY <2>1, WorkerEffect
    <3>2. worker[h].ticket \in Tickets /\ worker[h].ticket # worker[g].ticket
      BY <2>1, <2>4, <3>1, WorkerEffect
         DEF IInv, ActiveHasTicket, OneWorkerPerTicket, Active
    <3> QED
      BY <2>3, <2>4, <3>1, <3>2
  <2> QED
    BY <2>2, <2>3, <2>4
<1>2. CASE UNCHANGED <<vars, snapshot, unsynced>>
  BY <1>2 DEF vars
<1>3. ASSUME NEW o \in Ops, NEW t \in Tickets, SendReqSync(o, t)
      PROVE  RecordIsOutcome'
  BY <1>3, ReqSyncEffect DEF SendReqSync, history
<1>4. CASE Loop
  <2>1. CASE Scan
    BY <1>4, <2>1, ScanEffect
  <2>2. CASE Recv \/ WaitDone
    BY <1>4, <2>2 DEF Loop, Recv, WaitDone, history
  <2> QED
    BY <1>4, <2>1, <2>2 DEF Loop
<1>5. ASSUME NEW g \in Goroutines, SyncStep(g),
             ~\E err \in Outcomes : SyncPassages(g, err)
      PROVE  RecordIsOutcome'
  <2>1. WorkerStep(g) /\ UNCHANGED unsynced
    BY <1>5, SyncIsWorkerStep DEF SyncStep, GetServer, GetPassages,
       SetSyncNextSeen, Finish, history
  <2>2. worker'[g].pc # "record"
    <3>1. CASE Finish(g)
      BY <3>1, FinishEffect DEF Finish, Idle
    <3>2. CASE ~Finish(g)
      <4>1. PICK pc \in {"read", "exit", "call"} : Goto(g, pc)
        BY <1>5, <3>2 DEF SyncStep, GetServer, GetPassages, SetSyncNextSeen,
           WorkerGetServer, WorkerGetPassages, WorkerRecord
      <4> QED
        BY <4>1 DEF Goto, IInv, TypeOK
    <3> QED
      BY <3>1, <3>2
  <2> QED
    BY <2>1, <2>2, WorkerEffect
<1>6. CASE Crash
  BY <1>6 DEF Crash, Idle
<1> QED
  BY <1>1, <1>2, <1>3, <1>4, <1>5, <1>6, Kinds

-----------------------------------------------------------------------------
(* What is awaited or announced changes with the operations in flight.     *)

LEMMA OpReplaced ==
    ASSUME FleetTypeOK, NEW o \in Ops, NEW v, op' = [op EXCEPT ![o] = v],
           NEW t \in Tickets, box[t] => box'[t]
    PROVE  /\ OpAwaits(v, t) => Awaited(t)'
           /\ OpAnnounces(v, t) => Announced(t)'
           /\ Awaited(t) => OpAwaits(op[o], t) \/ Awaited(t)'
           /\ Announced(t) => OpAnnounces(op[o], t) \/ Announced(t)'
<1>1. op'[o] = v /\ \A p \in Ops \ {o} : op'[p] = op[p]
  BY DEF FleetTypeOK
<1>2. OpAwaits(v, t) => Awaited(t)'
  <2>1. OpAwaits(op'[o], t) => \E p \in Ops : OpAwaits(op'[p], t)
    OBVIOUS
  <2> QED
    BY <1>1, <2>1 DEF Awaited, OpAwaits
<1>3. OpAnnounces(v, t) => Announced(t)'
  BY <1>1 DEF Announced, OpAnnounces
<1>4. Awaited(t) => OpAwaits(op[o], t) \/ Awaited(t)'
  BY <1>1 DEF Awaited, OpAwaits
<1>5. Announced(t) => OpAnnounces(op[o], t) \/ Announced(t)'
  BY <1>1 DEF Announced, OpAnnounces
<1> QED
  BY <1>2, <1>3, <1>4, <1>5

LEMMA OpBegun ==
    ASSUME FleetTypeOK, NEW v, Begin(v), NEW t \in Tickets, box' = box
    PROVE  /\ OpAwaits(v, t) => Awaited(t)'
           /\ OpAnnounces(v, t) => Announced(t)'
           /\ Awaited(t) => Awaited(t)'
           /\ Announced(t) => Announced(t)'
<1>1. PICK o \in Ops : op[o] = IdleOp /\ op' = [op EXCEPT ![o] = v]
  BY DEF Begin
<1>2. ~OpAwaits(op[o], t) /\ ~OpAnnounces(op[o], t)
  BY <1>1 DEF OpAwaits, OpAnnounces, IdleOp
<1> QED
  BY <1>1, <1>2, OpReplaced

LEMMA SendAwaits ==
    ASSUME NEW targets, NEW t \in targets
    PROVE  OpAwaits(Send(targets), t)
BY DEF OpAwaits, Send

-----------------------------------------------------------------------------
(* When passages fit.                                                      *)

(* The passages a server should have fit it: they open it for no ticket    *)
(* that is not valid.                                                      *)
AllFitThemselves == \A t \in Tickets : Fits(t, PassagesOf(t))

LEMMA FitsSelf == AllFitThemselves
<1> SUFFICES ASSUME NEW t \in Tickets, NEW u \in Users, Opens(u, PassagesOf(t))
             PROVE  ticket[u] = "valid"
  BY DEF AllFitThemselves, Fits
<1>1. CASE u \in PassagesOf(t)
  BY <1>1, PassagesOfServer, FleetAssumption DEF PassagesRead, IsPassage, Servers
<1>2. CASE \E s \in Servers : <<u, s>> \in PassagesOf(t)
  <2>1. PICK s \in Servers : <<u, s>> \in PassagesOf(t)
    BY <1>2
  <2>2. <<u, s>> \notin Users /\ <<u, s>> \notin Tickets
    BY FleetAssumption DEF Servers
  <2> QED
    BY <2>1, <2>2, PassagesOfServer, FleetAssumption DEF PassagesRead, IsPassage
<1> QED
  BY <1>1, <1>2 DEF Opens

LEMMA FitsSame ==
    ASSUME UNCHANGED <<ticket, op, putBack>>,
           \A q \in Tickets : /\ server'[q].known = server[q].known
                             /\ server'[q].failures = server[q].failures
    PROVE  \A t \in Tickets : \A S : Fits(t, S)' <=> Fits(t, S)
<1> SUFFICES ASSUME NEW t \in Tickets, NEW S
             PROVE  Fits(t, S)' <=> Fits(t, S)
  OBVIOUS
<1>1. \A q \in Tickets : Alive(q)' <=> Alive(q)
  BY DEF Alive
<1>2. Peers(t)' = Peers(t) /\ Peers(t) \subseteq Tickets
  BY FleetAssumption DEF Peers, Servers
<1>3. PassagesOf(t)' = PassagesOf(t)
  BY <1>1, <1>2 DEF PassagesOf
<1> QED
  BY <1>3 DEF Fits, Excused, Opens, Via, Announced, OpAnnounces

(* Passages go on fitting a server as long as every user and every peer    *)
(* that appears is put back or announced.                                  *)
LEMMA FitsKept ==
    ASSUME NEW t \in ServersOfChat,
           \A u \in Users : ticket'[u] = "valid" => ticket[u] = "valid" \/ u \in putBack',
           \A q \in Tickets : ticket'[q] = "valid" => ticket[q] = "valid",
           \A q \in Tickets : Alive(q)' => Alive(q) \/ Announced(q)',
           \A q \in Peers(t) : Announced(q) =>
               Announced(q)' \/ ticket'[q] # "valid",
           \A u \in Users : ticket'[u] \in {"swept", "lapsed"} =>
               ticket[u] \in {"swept", "lapsed"},
           putBack \subseteq putBack'
    PROVE  \A S : Fits(t, S) => Fits(t, S)'
<1> TAKE S
<1> SUFFICES ASSUME Fits(t, S), NEW p \in PassagesOf(t)' \ S
             PROVE  Excused(t, p)'
  BY DEF Fits, Opens
<1>1. IsPassage(t, p)'
  <2>1. PassagesRead'
    BY PassagesOfServer, PTL
  <2> QED
    BY <2>1 DEF PassagesRead, ServersOfChat
<1>2. t \in Tickets /\ ticket[t] = "valid" /\ server[t].known
  BY DEF ServersOfChat
<1>3. CASE IsPassage(t, p)
  <2>1. Excused(t, p)
    BY <1>2, <1>3, PassagesOfServer DEF PassagesRead, Fits
  <2>2. CASE \E u \in putBack : Opens(u, {p})
    BY <2>2 DEF Excused, Opens
  <2>3. CASE \E q \in Tickets : Via(t, p, q) /\ Announced(q)
    <3>1. PICK q \in Tickets : Via(t, p, q) /\ Announced(q)
      BY <2>3
    <3>2. q \in Peers(t) /\ ticket'[q] = "valid"
      BY <1>1, <3>1, FleetAssumption DEF IsPassage, Via, Peers, Servers
    <3> QED
      BY <3>1, <3>2 DEF Excused, Via
  <2> QED
    BY <2>1, <2>2, <2>3 DEF Excused
<1>4. CASE ~IsPassage(t, p)
  <2>1. CASE t \in Relays
    <3>1. PICK u \in Users, q \in Servers :
            /\ p = <<u, q>>
            /\ ticket'[u] = "valid" /\ ticket'[q] = "valid" /\ Alive(q)'
      BY <1>1, <2>1 DEF IsPassage
    <3>2. u \in putBack' \/ Announced(q)'
      BY <1>4, <2>1, <3>1 DEF IsPassage, Servers
    <3> QED
      BY <2>1, <3>1, <3>2 DEF Excused, Opens, Via, Servers
  <2>2. CASE t \notin Relays
    <3>1. \/ p \in Users /\ ticket'[p] = "valid"
          \/ p \in Relays /\ ticket'[p] = "valid" /\ Alive(p)'
      BY <1>1, <2>2 DEF IsPassage
    <3>2. \/ p \in putBack'
          \/ p \in Tickets /\ Announced(p)'
      BY <1>4, <2>2, <3>1, FleetAssumption DEF IsPassage
    <3> QED
      BY <2>2, <3>2 DEF Excused, Opens, Via
  <2> QED
    BY <2>1, <2>2
<1> QED
  BY <1>3, <1>4

-----------------------------------------------------------------------------
(* What a transaction, or the step of an operation in flight, does for a   *)
(* server that is registered after it: a sync of it is awaited, or it was  *)
(* registered before, and all that fitted it does, or a request has passed *)
(* over it, with no sync under way.                                        *)
Unaffected(t) ==
    /\ ~Awaited(t)
    /\ installed'[t] = installed[t] \/ installed'[t] = PassagesOf(t)'
    /\ \A S : Fits(t, S) => Fits(t, S)'

Skipped(t) ==
    /\ server[t].nextSeen
    /\ t \notin passedOver' =>
         \A g \in Goroutines : ~At(g, t, {"call", "record"})

Minded(t) ==
    \/ Awaited(t)'
    \/ /\ t \in ServersOfChat
       /\ server'[t].nextSeen = server[t].nextSeen
       /\ t \in passedOver => t \in passedOver'
       /\ Unaffected(t) \/ Skipped(t)

LEMMA PassOverSkips ==
    ASSUME NEW ts, PassOver(ts), NEW t \in ts, server[t].nextSeen
    PROVE  Skipped(t)
BY DEF PassOver, Skipped, At

LEMMA PassOverKeeps ==
    ASSUME NEW ts, PassOver(ts)
    PROVE  passedOver \subseteq passedOver'
BY DEF PassOver

(* Nothing but tickets that lose their validity.                           *)
LEMMA TicketsMinded ==
    ASSUME FleetTypeOK,
           \/ \E u \in Users \ Members :
                GetTicket(u) \/ RenewRead(u) \/ Expire(u) \/ Lapse(u)
           \/ \E x \in Users \cup Tickets : RevokeTicket(x)
    PROVE  \A t \in ServersOfChat' : Minded(t)
<1> SUFFICES ASSUME NEW t \in ServersOfChat'
             PROVE  Minded(t)
  OBVIOUS
<1>1. t \in Tickets /\ ticket'[t] = "valid" /\ server'[t].known
  BY DEF ServersOfChat
<1> USE FleetAssumption
<1>2. ASSUME NEW u \in Users, GetTicket(u)
      PROVE  Minded(t)
  <2>1. box' = box /\ Begin([pc |-> "listChat"])
    BY <1>2 DEF GetTicket, mailbox, vars
  <2>2. OpAwaits([pc |-> "listChat"], t)
    BY DEF OpAwaits
  <2> QED
    BY <1>1, <2>1, <2>2, OpBegun DEF Minded
<1>3. ASSUME NEW u \in Users, RenewRead(u)
      PROVE  Minded(t)
  <2>1. box' = box /\ UNCHANGED <<ticket, server, installed, passedOver, putBack>>
    BY <1>3 DEF RenewRead, mailbox, vars, db, history
  <2>2. \A q \in Tickets : /\ Awaited(q) => Awaited(q)'
                           /\ Announced(q) => Announced(q)'
    BY <1>3, <2>1, OpBegun DEF RenewRead
  <2>3. t \in ServersOfChat
    BY <2>1 DEF ServersOfChat
  <2>4. \A S : Fits(t, S) => Fits(t, S)'
    BY <2>1, <2>2, <2>3, FitsKept DEF Alive, Peers, Servers
  <2> QED
    BY <1>1, <2>1, <2>2, <2>3, <2>4 DEF Minded, Unaffected
<1>4. ASSUME NEW u \in Users, Expire(u) \/ Lapse(u)
      PROVE  Minded(t)
  <2>1. /\ UNCHANGED <<box, op, server, installed, passedOver, putBack>>
        /\ \A x \in Users \cup Tickets :
             ticket'[x] = IF x = u THEN ticket'[u] ELSE ticket[x]
        /\ ticket'[u] # "valid"
        /\ ticket'[u] \in {"swept", "lapsed"} => ticket[u] \in {"swept", "lapsed"}
    BY <1>4 DEF Expire, Lapse, mailbox, vars, history, FleetTypeOK
  <2>2. \A q \in Tickets : /\ Awaited(q) <=> Awaited(q)'
                           /\ Announced(q) <=> Announced(q)'
                           /\ Alive(q) <=> Alive(q)'
    BY <2>1 DEF Awaited, Announced, OpAwaits, OpAnnounces, Alive
  <2>3. t \in ServersOfChat
    BY <1>1, <2>1 DEF ServersOfChat
  <2>4. \A S : Fits(t, S) => Fits(t, S)'
    <3>1. \A q \in Tickets : ticket'[q] = "valid" => ticket[q] = "valid"
      BY <2>1
    <3>2. \A v \in Users :
            /\ ticket'[v] = "valid" => ticket[v] = "valid"
            /\ ticket'[v] \in {"swept", "lapsed"} => ticket[v] \in {"swept", "lapsed"}
      BY <2>1
    <3> QED
      BY <2>1, <2>2, <2>3, <3>1, <3>2, FitsKept DEF Peers, Servers
  <2> QED
    BY <1>1, <2>1, <2>2, <2>3, <2>4 DEF Minded, Unaffected
<1>5. ASSUME NEW x \in Users \cup Tickets, RevokeTicket(x)
      PROVE  Minded(t)
  <2>1. /\ UNCHANGED <<box, op, installed, passedOver, putBack>>
        /\ \A y \in Users \cup Tickets :
             ticket'[y] = IF y = x THEN "revoked" ELSE ticket[y]
        /\ \A q \in Tickets : server'[q] = IF q = x THEN Unknown ELSE server[q]
    BY <1>5 DEF RevokeTicket, mailbox, vars, history, FleetTypeOK
  <2>2. \A q \in Tickets : /\ Awaited(q) <=> Awaited(q)'
                           /\ Announced(q) <=> Announced(q)'
                           /\ Alive(q)' => Alive(q)
    BY <2>1, FreshType DEF Awaited, Announced, OpAwaits, OpAnnounces, Alive
  <2>3. t # x /\ t \in ServersOfChat
    BY <1>1, <2>1 DEF ServersOfChat
  <2>4. \A S : Fits(t, S) => Fits(t, S)'
    <3>1. \A q \in Tickets : ticket'[q] = "valid" => ticket[q] = "valid"
      BY <2>1
    <3>2. \A v \in Users :
            /\ ticket'[v] = "valid" => ticket[v] = "valid"
            /\ ticket'[v] \in {"swept", "lapsed"} => ticket[v] \in {"swept", "lapsed"}
      BY <2>1
    <3> QED
      BY <2>1, <2>2, <2>3, <3>1, <3>2, FitsKept DEF Peers, Servers
  <2> QED
    BY <1>1, <2>1, <2>2, <2>3, <2>4 DEF Minded, Unaffected
<1> QED
  BY <1>2, <1>3, <1>4, <1>5

LEMMA CleanMinded ==
    ASSUME FleetTypeOK, Clean
    PROVE  \A t \in ServersOfChat' : Minded(t)
<1> SUFFICES ASSUME NEW t \in ServersOfChat'
             PROVE  Minded(t)
  OBVIOUS
<1>1. PICK old \in SUBSET Users : CleanTickets(old)
  BY DEF Clean
<1>2. /\ box' = box /\ server' = server
      /\ PassOver(ServersOfChat)
      /\ Begin(Send(Unflagged(ServersOfChat)))
  BY <1>1 DEF CleanTickets, mailbox, vars
<1>3. \A q \in Tickets : ticket'[q] = ticket[q]
  BY <1>1, FleetAssumption DEF CleanTickets
<1>4. t \in Tickets /\ t \in ServersOfChat
  BY <1>2, <1>3 DEF ServersOfChat
<1>5. CASE server[t].nextSeen
  BY <1>2, <1>4, <1>5, PassOverSkips, PassOverKeeps DEF Minded
<1>6. CASE ~server[t].nextSeen
  <2>1. OpAwaits(Send(Unflagged(ServersOfChat)), t)
    BY <1>4, <1>6, SendAwaits DEF Unflagged
  <2> QED
    BY <1>2, <1>4, <2>1, OpBegun DEF Minded
<1> QED
  BY <1>5, <1>6

(* Registrations and pings.                                                *)
LEMMA ServersMinded ==
    ASSUME FleetTypeOK, NEW s \in Tickets,
           PostRegister(s) \/ PingStart(s) \/ PingDone(s)
    PROVE  \A t \in ServersOfChat' : Minded(t)
<1> SUFFICES ASSUME NEW t \in ServersOfChat'
             PROVE  Minded(t)
  OBVIOUS
<1>1. /\ UNCHANGED <<box, ticket, passedOver, putBack>>
      /\ t \in Tickets
  BY DEF PostRegister, PingStart, PingDone, mailbox, vars, db, history, ServersOfChat
<1>2. \A q \in Tickets : /\ Awaited(q) => Awaited(q)'
                         /\ Announced(q) => Announced(q)'
  <2>1. CASE op' = op
    BY <1>1, <2>1 DEF Awaited, Announced, OpAwaits, OpAnnounces
  <2>2. CASE op' # op
    <3>1. PICK v : Begin(v)
      BY <2>2 DEF PostRegister, PingStart, PingDone, PingGone, PingFailed,
                  PingAnswered
    <3> QED
      BY <1>1, <3>1, OpBegun
  <2> QED
    BY <2>1, <2>2
<1>3. \A q \in Tickets : /\ server'[q].known = server[q].known
                         /\ server'[q].nextSeen = server[q].nextSeen
                         /\ Alive(q)' => Alive(q) \/ Announced(q)'
  <2>1. CASE server' = server
    BY <2>1 DEF Alive
  <2>2. CASE PingFailed(s)
    BY <2>2, FleetAssumption DEF PingFailed, FleetTypeOK, ServerState, Alive
  <2>3. CASE PingAnswered(s)
    <3>1. \A q \in Tickets :
            /\ server'[q].known = server[q].known
            /\ server'[q].nextSeen = server[q].nextSeen
            /\ q # s => server'[q] = server[q]
      BY <2>3 DEF PingAnswered, FleetTypeOK, ServerState
    <3>2. CASE server[s].failures >= MaxFailureCount
      <4>1. Begin([pc |-> "listServer", server |-> s, onlyItSelf |-> FALSE])
        BY <2>3, <3>2 DEF PingAnswered
      <4>2. OpAnnounces([pc |-> "listServer", server |-> s, onlyItSelf |-> FALSE], s)
        BY DEF OpAnnounces
      <4>3. Announced(s)'
        BY <1>1, <4>1, <4>2, OpBegun
      <4> QED
        BY <3>1, <4>3 DEF Alive
    <3>3. CASE ~(server[s].failures >= MaxFailureCount)
      <4>1. server[s].known /\ server[s].failures < MaxFailureCount
        BY <2>3, <3>3, FleetAssumption DEF PingAnswered, FleetTypeOK, ServerState
      <4> QED
        BY <3>1, <4>1 DEF Alive
    <3> QED
      BY <3>2, <3>3
  <2> QED
    BY <2>1, <2>2, <2>3 DEF PostRegister, PingStart, PingDone, PingGone, db
<1>4. t \in ServersOfChat
  BY <1>1, <1>3 DEF ServersOfChat
<1>5. \A S : Fits(t, S) => Fits(t, S)'
  BY <1>1, <1>2, <1>3, <1>4, FitsKept, FleetAssumption DEF Peers, Servers
<1>6. installed'[t] = installed[t] \/ installed'[t] = PassagesOf(t)'
  <2>1. CASE PostRegister(s)
    <3>1. PassagesOf(t)' = PassagesOf(t)
      BY <2>1 DEF PostRegister, db, PassagesOf, Peers, Alive
    <3> QED
      BY <1>1, <2>1, <3>1 DEF PostRegister, FleetTypeOK
  <2>2. CASE PingStart(s) \/ PingDone(s)
    BY <2>2 DEF PingStart, PingDone
  <2> QED
    BY <2>1, <2>2
<1> QED
  BY <1>1, <1>2, <1>3, <1>4, <1>5, <1>6 DEF Minded, Unaffected

(* Operations in flight that read the servers and tickets of the chat.     *)
LEMMA ListsMinded ==
    ASSUME FleetTypeOK, NEW o \in Ops, ListChat(o) \/ ListServer(o)
    PROVE  \A t \in ServersOfChat' : Minded(t)
<1> SUFFICES ASSUME NEW t \in ServersOfChat'
             PROVE  Minded(t)
  OBVIOUS
<1>1. UNCHANGED <<box, ticket, server, installed, putBack>>
  BY DEF ListChat, ListServer, PassOver, mailbox, vars, db, history
<1>2. t \in Tickets /\ t \in ServersOfChat /\ ticket[t] = "valid"
  BY <1>1 DEF ServersOfChat
<1>3. ASSUME NEW targets, op' = [op EXCEPT ![o] = Send(targets)], t \in targets
      PROVE  Minded(t)
  BY <1>1, <1>2, <1>3, SendAwaits, OpReplaced DEF Minded
<1>4. ASSUME NEW ts, PassOver(ts), t \in ts, server[t].nextSeen
      PROVE  Minded(t)
  BY <1>1, <1>2, <1>4, PassOverSkips, PassOverKeeps DEF Minded
<1>5. CASE ListChat(o)
  BY <1>2, <1>3, <1>4, <1>5 DEF ListChat, Unflagged
<1>6. CASE ListServer(o)
  <2> DEFINE s == op[o].server
             peers == IF op[o].onlyItSelf THEN {} ELSE Peers(s) \cap ServersOfChat
  <2>1. CASE ticket[s] = "valid" /\ t \in peers /\ server[t].nextSeen
    BY <1>4, <1>6, <2>1 DEF ListServer
  <2>2. CASE ticket[s] = "valid" /\ (t = s \/ (t \in peers /\ ~server[t].nextSeen))
    BY <1>3, <1>6, <2>2 DEF ListServer, Unflagged
  <2>3. CASE ticket[s] # "valid" \/ (t # s /\ t \notin peers)
    <3>1. PICK v : op' = [op EXCEPT ![o] = v]
      BY <1>6 DEF ListServer
    <3>2. ~OpAwaits(op[o], t)
      BY <1>2, <1>6, <2>3 DEF ListServer, OpAwaits
    <3>3. Awaited(t) => Awaited(t)'
      BY <1>1, <1>2, <3>1, <3>2, OpReplaced
    <3>4. ASSUME NEW q \in Peers(t), Announced(q)
          PROVE  Announced(q)' \/ ticket'[q] # "valid"
      <4>1. q \in Tickets
        BY FleetAssumption DEF Peers, Servers
      <4>2. CASE ~OpAnnounces(op[o], q)
        BY <1>1, <3>1, <3>4, <4>1, <4>2, OpReplaced
      <4>3. CASE OpAnnounces(op[o], q)
        <5>1. q = s /\ ~op[o].onlyItSelf
          BY <4>3 DEF OpAnnounces
        <5>2. t \in Peers(s)
          BY <1>2, <3>4, <5>1 DEF Peers, Servers
        <5> QED
          BY <1>1, <1>2, <2>3, <5>1, <5>2 DEF Peers, Servers
      <4> QED
        BY <4>2, <4>3
    <3>5. \A S : Fits(t, S) => Fits(t, S)'
      BY <1>1, <1>2, <3>4, FitsKept DEF Alive
    <3>6. passedOver \subseteq passedOver'
      BY <1>6, PassOverKeeps DEF ListServer, history
    <3> QED
      BY <1>1, <1>2, <3>3, <3>5, <3>6 DEF Minded, Unaffected
  <2> QED
    BY <2>1, <2>2, <2>3
<1> QED
  BY <1>5, <1>6

LEMMA RenewSaveMinded ==
    ASSUME FleetTypeOK, NEW o \in Ops, RenewSave(o)
    PROVE  \A t \in ServersOfChat' : Minded(t)
<1> SUFFICES ASSUME NEW t \in ServersOfChat'
             PROVE  Minded(t)
  OBVIOUS
<1> DEFINE u == op[o].user
<1>1. /\ UNCHANGED <<box, server, installed, passedOver>>
      /\ u \in Users /\ u \notin Tickets
      /\ \A x \in Users \cup Tickets :
           ticket'[x] = IF x = u THEN "valid" ELSE ticket[x]
  BY OpFields, FleetAssumption DEF RenewSave, mailbox, vars, FleetTypeOK
<1>2. t \in Tickets /\ t \in ServersOfChat
  BY <1>1 DEF ServersOfChat
<1> DEFINE listChat == [pc |-> "listChat"]
<1>3. CASE op' = [op EXCEPT ![o] = listChat]
  <2>1. OpAwaits(listChat, t)
    BY DEF OpAwaits
  <2> QED
    BY <1>1, <1>2, <1>3, <2>1, OpReplaced DEF Minded
<1>4. CASE /\ op' = [op EXCEPT ![o] = IdleOp]
           /\ ~ReadHasExpired(o)
           /\ putBack' = IF ticket[u] = "revoked" THEN putBack \cup {u} ELSE putBack
  <2>1. op' = [op EXCEPT ![o] = IdleOp]
    BY <1>4
  <2>2. \A q \in Tickets : ~OpAwaits(op[o], q) /\ ~OpAnnounces(op[o], q)
    BY DEF RenewSave, OpAwaits, OpAnnounces
  <2>3. \A q \in Tickets : /\ Awaited(q) => Awaited(q)'
                           /\ Announced(q) => Announced(q)'
    BY <1>1, <2>1, <2>2, OpReplaced
  <2>4. \A v \in Users : ticket'[v] = "valid" => ticket[v] = "valid" \/ v \in putBack'
    BY <1>1, <1>4 DEF ReadHasExpired
  <2>5. putBack \subseteq putBack'
    BY <1>4
  <2>6. \A S : Fits(t, S) => Fits(t, S)'
    <3>1. \A q \in Tickets : /\ ticket'[q] = "valid" => ticket[q] = "valid"
                             /\ Alive(q)' => Alive(q)
      BY <1>1 DEF Alive
    <3>2. \A v \in Users :
            ticket'[v] \in {"swept", "lapsed"} => ticket[v] \in {"swept", "lapsed"}
      BY <1>1
    <3> QED
      BY <1>2, <2>3, <2>4, <2>5, <3>1, <3>2, FitsKept, FleetAssumption
         DEF Peers, Servers
  <2> QED
    BY <1>1, <1>2, <2>3, <2>6 DEF Minded, Unaffected
<1> QED
  BY <1>3, <1>4 DEF RenewSave

LEMMA RegisterMinded ==
    ASSUME FleetTypeOK, NEW o \in Ops, NEW r \in BOOLEAN, RegisterServer(o, r)
    PROVE  \A t \in ServersOfChat' : Minded(t)
<1> SUFFICES ASSUME NEW t \in ServersOfChat'
             PROVE  Minded(t)
  OBVIOUS
<1>0. PICK s : s = op[o].server
  OBVIOUS
<1>1. /\ UNCHANGED <<box, ticket, installed, passedOver, putBack>>
      /\ t \in Tickets /\ s \in Tickets
  BY <1>0, OpFields DEF RegisterServer, mailbox, vars, history, ServersOfChat
<1>2. PICK v : op' = [op EXCEPT ![o] = v]
  BY DEF RegisterServer
<1>3. \A q \in Tickets : ~OpAwaits(op[o], q) /\ ~OpAnnounces(op[o], q)
  BY DEF RegisterServer, OpAwaits, OpAnnounces
<1>4. \A q \in Tickets : /\ Awaited(q) => Awaited(q)'
                         /\ Announced(q) => Announced(q)'
  BY <1>1, <1>2, <1>3, OpReplaced
<1>5. r => Awaited(s)' /\ Announced(s)'
  <2> DEFINE w == [pc |-> "listServer", server |-> s, onlyItSelf |-> FALSE]
  <2>1. OpAwaits(w, s) /\ OpAnnounces(w, s)
    BY DEF OpAwaits, OpAnnounces
  <2>2. r => op' = [op EXCEPT ![o] = w]
    BY <1>0 DEF RegisterServer
  <2> QED
    BY <1>1, <2>1, <2>2, OpReplaced
<1>6. \A q \in Tickets : server'[q] = server[q] \/ (r /\ q = s)
  BY <1>0 DEF RegisterServer, FleetTypeOK
<1>7. CASE r /\ t = s
  BY <1>5, <1>7 DEF Minded
<1>8. CASE ~(r /\ t = s)
  <2>1. t \in ServersOfChat /\ server'[t] = server[t]
    BY <1>1, <1>6, <1>8 DEF ServersOfChat
  <2>2. \A q \in Tickets : Alive(q)' => Alive(q) \/ Announced(q)'
    BY <1>5, <1>6 DEF Alive
  <2>3. \A S : Fits(t, S) => Fits(t, S)'
    BY <1>1, <1>4, <2>1, <2>2, FitsKept, FleetAssumption DEF Peers, Servers
  <2> QED
    BY <1>1, <1>4, <2>1, <2>3 DEF Minded, Unaffected
<1> QED
  BY <1>7, <1>8

LEMMA BootMinded ==
    ASSUME FleetTypeOK, NEW o \in Ops,
           \/ \E s \in Relays, r \in BOOLEAN : SyncAllRelay(o, s, r)
           \/ SyncAllChat(o)
    PROVE  \A t \in ServersOfChat' : Minded(t)
<1>1. box' = box
  BY DEF SyncAllRelay, SyncAllChat, mailbox, vars
<1>2. PICK v : op' = [op EXCEPT ![o] = v] /\ v.pc \in {"boot", "listChat"}
  <2>1. CASE SyncAllChat(o)
    <3> DEFINE w == [pc |-> "listChat"]
    <3>1. op' = [op EXCEPT ![o] = w] /\ w.pc = "listChat"
      BY <2>1 DEF SyncAllChat
    <3> HIDE DEF w
    <3> QED
      BY <3>1
  <2>2. CASE \E s \in Relays, r \in BOOLEAN : SyncAllRelay(o, s, r)
    <3>1. PICK s : SyncAllRelay(o, s, TRUE) \/ SyncAllRelay(o, s, FALSE)
      BY <2>2
    <3> DEFINE w == [pc |-> "boot", relays |-> op[o].relays \ {s}]
    <3>2. op' = [op EXCEPT ![o] = w] /\ w.pc = "boot"
      BY <3>1, BootStep
    <3> HIDE DEF w
    <3> QED
      BY <3>2
  <2> QED
    BY <2>1, <2>2
<1> QED
  BY <1>1, <1>2, OpReplaced DEF Minded, OpAwaits, ServersOfChat

LEMMA SendMinded ==
    ASSUME IInv, FleetTypeOK, NEW o \in Ops, NEW s \in Tickets, SendReqSync(o, s)
    PROVE  \A t \in ServersOfChat' : Minded(t)
<1> SUFFICES ASSUME NEW t \in ServersOfChat'
             PROVE  Minded(t)
  OBVIOUS
<1>1. /\ UNCHANGED <<ticket, server, installed, passedOver, putBack>>
      /\ box'[s] /\ \A q \in Tickets : box[q] => box'[q]
      /\ op' = [op EXCEPT ![o] = Send(op[o].targets \ {s})]
      /\ op[o].pc = "send"
  BY ReqSyncEffect DEF SendReqSync, db, history
<1>2. t \in Tickets /\ t \in ServersOfChat
  BY <1>1 DEF ServersOfChat
<1>3. CASE t = s
  BY <1>1, <1>3 DEF Minded, Awaited
<1>4. CASE t # s
  <2>1. Awaited(t) => Awaited(t)'
    <3>1. OpAwaits(op[o], t) => OpAwaits(Send(op[o].targets \ {s}), t)
      BY <1>1, <1>4, SendAwaits DEF OpAwaits
    <3> QED
      BY <1>1, <1>2, <3>1, OpReplaced
  <2>2. \A q \in Tickets : Announced(q) => Announced(q)'
    BY <1>1, OpReplaced DEF OpAnnounces
  <2>3. \A S : Fits(t, S) => Fits(t, S)'
    BY <1>1, <1>2, <2>2, FitsKept, FleetAssumption DEF Peers, Servers, Alive
  <2> QED
    BY <1>1, <1>2, <2>1, <2>3 DEF Minded, Unaffected
<1> QED
  BY <1>3, <1>4

LEMMA StutterMinded ==
    ASSUME UNCHANGED fleetVars
    PROVE  \A t \in ServersOfChat' : Minded(t)
<1> USE DEF fleetVars, mailbox, vars, db, history
<1>1. \A t \in Tickets : \A S : Fits(t, S)' <=> Fits(t, S)
  BY FitsSame
<1>2. \A t \in Tickets : Awaited(t)' <=> Awaited(t)
  BY DEF Awaited, OpAwaits
<1>3. ServersOfChat' = ServersOfChat /\ ServersOfChat \subseteq Tickets
  BY DEF ServersOfChat
<1> QED
  BY <1>1, <1>2, <1>3 DEF Minded, Unaffected

(* All the steps that are not of SyncBackground or its goroutines leave    *)
(* those as they are, but for cancellations, and mind every server.        *)
LEMMA AllMinded ==
    ASSUME IInv, FleetTypeOK, [FleetNext]_fleetVars
    PROVE  \/ /\ \A t \in ServersOfChat' : Minded(t)
              /\ UNCHANGED <<snapshot, unsynced>>
              /\ \A g \in Goroutines : /\ worker'[g].pc = worker[g].pc
                                       /\ worker'[g].ticket = worker[g].ticket
                                       /\ worker'[g].err = worker[g].err
           \/ Loop
           \/ \E g \in Goroutines : SyncStep(g)
           \/ Crash
<1> DEFINE AllAre == \A t \in ServersOfChat' : Minded(t)
<1>1. CASE UNCHANGED <<vars, snapshot, unsynced>>
           /\ ~\E o \in Ops, t \in Tickets : SendReqSync(o, t)
  <2>1. ASSUME NEW params \in {<<>>} \cup {<<x>> : x \in (Users \ Members) \cup Tickets},
               Revoke(params)
        PROVE  AllAre
    <3>1. \E x \in Users \cup Tickets : RevokeTicket(x)
      BY <2>1 DEF Revoke
    <3> QED
      BY <3>1, TicketsMinded
  <2>2. ASSUME NEW o \in Ops, OpStep(o)
        PROVE  AllAre
    <3>1. CASE ListChat(o) \/ ListServer(o)
      BY <3>1, ListsMinded
    <3>2. CASE RenewSave(o)
      BY <3>2, RenewSaveMinded
    <3>3. ASSUME NEW r \in BOOLEAN, RegisterServer(o, r)
          PROVE  AllAre
      BY <3>3, RegisterMinded
    <3>4. CASE \/ \E s \in Relays, r \in BOOLEAN : SyncAllRelay(o, s, r)
               \/ SyncAllChat(o)
      BY <3>4, BootMinded
    <3> HIDE DEF AllAre
    <3> QED
      BY <1>1, <2>2, <3>1, <3>2, <3>3, <3>4 DEF OpStep
  <2>3. ASSUME NEW t \in Tickets, PostRegister(t) \/ PingStart(t) \/ PingDone(t)
        PROVE  AllAre
    BY <2>3, ServersMinded
  <2>4. ASSUME NEW u \in Users \ Members,
               GetTicket(u) \/ RenewRead(u) \/ Expire(u) \/ Lapse(u)
        PROVE  AllAre
    <3>1. \E v \in Users \ Members :
            GetTicket(v) \/ RenewRead(v) \/ Expire(v) \/ Lapse(v)
      BY <2>4
    <3> QED
      BY <3>1, TicketsMinded
  <2>5. ASSUME Clean
        PROVE  AllAre
    BY <2>5, CleanMinded
  <2>6. ASSUME UNCHANGED fleetVars
        PROVE  AllAre
    BY <2>6, StutterMinded
  <2> HIDE DEF AllAre
  <2>7. CASE ~(Loop \/ Crash \/ \E g \in Goroutines : SyncStep(g))
    <3>1. AllAre
      BY <2>1, <2>2, <2>3, <2>4, <2>5, <2>6, <2>7 DEF FleetNext
    <3> QED
      BY <1>1, <3>1 DEF AllAre, vars
  <2> QED
    BY <2>7
<1>2. ASSUME NEW o \in Ops, NEW t \in Tickets, SendReqSync(o, t)
      PROVE  /\ AllAre
             /\ UNCHANGED <<snapshot, unsynced>>
             /\ \A g \in Goroutines : /\ worker'[g].pc = worker[g].pc
                                      /\ worker'[g].ticket = worker[g].ticket
                                      /\ worker'[g].err = worker[g].err
  BY <1>2, SendMinded, ReqSyncEffect DEF SendReqSync, history
<1> HIDE DEF AllAre
<1>3. CASE \E o \in Ops, t \in Tickets : SendReqSync(o, t)
  BY <1>2, <1>3 DEF AllAre
<1> QED
  BY <1>1, <1>3, Kinds

-----------------------------------------------------------------------------
(* The sync of a server.                                                   *)

LEMMA LoopEffect ==
    ASSUME IInv, Loop
    PROVE  /\ UNCHANGED <<ticket, server, op, putBack, passedOver, installed,
                          snapshot, unsynced>>
           /\ \A t \in Tickets : \A S : Fits(t, S)' <=> Fits(t, S)
           /\ \/ /\ UNCHANGED <<box, worker>>
                 /\ \A t \in Tickets : Awaited(t)' <=> Awaited(t)
              \/ /\ Scan
                 /\ \A t \in Tickets : Awaited(t) => box[t] \/ Awaited(t)'
<1>1. UNCHANGED <<ticket, server, op, putBack, passedOver, installed, snapshot, unsynced>>
  BY DEF Loop, db, history
<1>2. \A t \in Tickets : \A S : Fits(t, S)' <=> Fits(t, S)
  BY <1>1, FitsSame
<1>3. CASE Recv \/ WaitDone
  BY <1>1, <1>2, <1>3 DEF Recv, WaitDone, Awaited, OpAwaits
<1>4. CASE Scan
  BY <1>1, <1>2, <1>4 DEF Awaited, OpAwaits
<1> QED
  BY <1>3, <1>4 DEF Loop

(* A goroutine changes nothing for the other servers.                      *)
LEMMA SyncEffect ==
    ASSUME IInv, FleetTypeOK, NEW g \in Goroutines, SyncStep(g)
    PROVE  /\ worker[g].ticket \in Tickets
           /\ ServersOfChat' = ServersOfChat
           /\ \A t \in Tickets : /\ Awaited(t)' <=> Awaited(t)
                                 /\ \A S : Fits(t, S)' <=> Fits(t, S)
           /\ \A t \in Tickets \ {worker[g].ticket} :
                /\ server'[t] = server[t]
                /\ installed'[t] = installed[t]
                /\ unsynced'[t] = unsynced[t]
                /\ t \in passedOver <=> t \in passedOver'
           /\ \A h \in Goroutines \ {g} :
                worker'[h] = worker[h] /\ snapshot'[h] = snapshot[h]
           /\ worker'[g] = Idle \/ worker'[g].ticket = worker[g].ticket
<1>1. /\ box' = box
      /\ worker[g].ticket \in Tickets
      /\ \A h \in Goroutines \ {g} : worker'[h] = worker[h]
      /\ worker'[g] = Idle \/ worker'[g].ticket = worker[g].ticket
  BY SyncIsWorkerStep, WorkerEffect
<1>2. UNCHANGED <<ticket, op, putBack>>
  BY DEF SyncStep, GetServer, GetPassages, SyncPassages, SetSyncNextSeen, Finish,
         db, history
<1>3. /\ \A q \in Tickets : /\ server'[q].known = server[q].known
                            /\ server'[q].failures = server[q].failures
      /\ \A t \in Tickets \ {worker[g].ticket} : server'[t] = server[t]
  BY <1>1 DEF SyncStep, GetServer, GetPassages, SyncPassages, SetSyncNextSeen,
     Finish, db, FleetTypeOK, ServerState
<1>4. \A t \in Tickets \ {worker[g].ticket} :
        /\ installed'[t] = installed[t]
        /\ unsynced'[t] = unsynced[t]
        /\ t \in passedOver <=> t \in passedOver'
  BY <1>1 DEF SyncStep, GetServer, GetPassages, SyncPassages, SetSyncNextSeen,
     Finish, history, FleetTypeOK
<1>5. \A h \in Goroutines \ {g} : snapshot'[h] = snapshot[h]
  BY DEF SyncStep, GetServer, GetPassages, SyncPassages, SetSyncNextSeen, Finish,
     FleetTypeOK
<1>6. ServersOfChat' = ServersOfChat
  BY <1>2, <1>3 DEF ServersOfChat
<1>7. \A t \in Tickets : /\ Awaited(t)' <=> Awaited(t)
                         /\ \A S : Fits(t, S)' <=> Fits(t, S)
  BY <1>1, <1>2, <1>3, FitsSame DEF Awaited, OpAwaits
<1> QED
  BY <1>1, <1>3, <1>4, <1>5, <1>6, <1>7

LEMMA OthersUpToDate ==
    ASSUME IInv, FleetTypeOK, NEW g \in Goroutines, SyncStep(g),
           NEW t \in Tickets \ {worker[g].ticket}
    PROVE  /\ Working(t) => Working(t)'
           /\ UpToDate(t) => UpToDate(t)'
<1>1. \A h \in Goroutines :
        /\ At(h, t, {"call"})' <=> At(h, t, {"call"})
        /\ At(h, t, {"record"})' <=> At(h, t, {"record"})
        /\ At(h, t, {"get", "read", "call", "record"})'
             <=> At(h, t, {"get", "read", "call", "record"})
        /\ At(h, t, {"get", "read", "call", "record"}) =>
             worker'[h] = worker[h] /\ snapshot'[h] = snapshot[h]
  <2> TAKE h \in Goroutines
  <2>1. CASE h # g
    <3>1. worker'[h] = worker[h] /\ snapshot'[h] = snapshot[h]
      BY <2>1, SyncEffect
    <3> QED
      BY <3>1 DEF At
  <2>2. CASE h = g
    <3>1. worker[g].ticket # t /\ (worker'[g].pc = "idle" \/ worker'[g].ticket # t)
      BY SyncEffect DEF Idle
    <3> QED
      BY <2>2, <3>1 DEF At
  <2> QED
    BY <2>1, <2>2
<1>2. /\ server'[t] = server[t] /\ installed'[t] = installed[t]
      /\ \A S : Fits(t, S)' <=> Fits(t, S)
  BY SyncEffect
<1>3. \A h \in Goroutines, pc \in {"call", "record"} :
        At(h, t, {pc}) => At(h, t, {"get", "read", "call", "record"})
  BY DEF At
<1>4. Working(t) => Working(t)'
  BY <1>1 DEF Working
<1>5. ASSUME UpToDate(t)
      PROVE  UpToDate(t)'
  <2>1. ASSUME NEW h \in Goroutines, At(h, t, {"call"})'
        PROVE  Fits(t, snapshot[h])'
    <3>1. Fits(t, snapshot[h]) /\ snapshot'[h] = snapshot[h]
      BY <1>1, <1>3, <1>5, <2>1 DEF UpToDate
    <3> QED
      BY <1>2, <3>1 DEF Fits
  <2>2. ASSUME NEW h \in Goroutines, At(h, t, {"record"})'
        PROVE  worker'[h].err = "failed" \/ Fits(t, installed[t])'
    <3>1. /\ worker[h].err = "failed" \/ Fits(t, installed[t])
          /\ worker'[h] = worker[h]
      BY <1>1, <1>3, <1>5, <2>2 DEF UpToDate
    <3> QED
      BY <1>2, <3>1 DEF Fits
  <2>3. Working(t)' \/ server'[t].nextSeen \/ Fits(t, installed[t])'
    <3>1. Fits(t, installed[t]) => Fits(t, installed[t])'
      BY <1>2 DEF Fits
    <3> QED
      BY <1>2, <1>4, <1>5, <3>1 DEF UpToDate
  <2> QED
    BY <2>1, <2>2, <2>3 DEF UpToDate
<1> QED
  BY <1>4, <1>5

-----------------------------------------------------------------------------
(* Each step keeps failures awaited.                                       *)

LEMMA FailureSync ==
    ASSUME SyncInv, FailureIsAwaited, NEW g \in Goroutines, SyncStep(g)
    PROVE  FailureIsAwaited'
<1> USE DEF SyncInv
<1> SUFFICES ASSUME NEW t \in ServersOfChat', unsynced'[t]
             PROVE  server'[t].nextSeen \/ Awaited(t)' \/ Working(t)'
  BY DEF FailureIsAwaited
<1>1. t \in ServersOfChat /\ t \in Tickets /\ server[t].known
  BY SyncEffect DEF ServersOfChat
<1>2. CASE t # worker[g].ticket
  <2>1. unsynced[t] /\ server'[t] = server[t] /\ (Awaited(t)' <=> Awaited(t))
    BY <1>1, <1>2, SyncEffect
  <2> QED
    BY <1>1, <1>2, <2>1, OthersUpToDate DEF FailureIsAwaited
<1>3. CASE t = worker[g].ticket
  <2>1. CASE GetServer(g)
    <3>1. At(g, t, {"read"})'
      BY <1>1, <1>3, <2>1
         DEF GetServer, WorkerGetServer, Goto, At, IInv, TypeOK
    <3> QED
      BY <3>1 DEF Working, At
  <2>2. CASE GetPassages(g)
    <3>1. At(g, t, {"call"})'
      BY <1>3, <2>2 DEF GetPassages, WorkerGetPassages, Goto, At, IInv, TypeOK
    <3> QED
      BY <3>1 DEF Working, At
  <2>3. CASE \E err \in Outcomes : SyncPassages(g, err)
    <3>1. At(g, t, {"record"})'
      BY <1>3, <2>3 DEF SyncPassages, WorkerCall, At, IInv, TypeOK
    <3> QED
      BY <3>1 DEF Working, At
  <2>4. CASE SetSyncNextSeen(g)
    <3>1. unsynced[t]
      BY <2>4 DEF SetSyncNextSeen
    <3>2. worker[g].err = "failed"
      BY <1>3, <2>4, <3>1 DEF SetSyncNextSeen, WorkerRecord, RecordIsOutcome
    <3>3. server'[t].nextSeen = (worker[g].err = "failed")
      BY <1>1, <1>3, <2>4 DEF SetSyncNextSeen, FleetTypeOK, ServerState
    <3> QED
      BY <3>2, <3>3
  <2>5. CASE Finish(g)
    <3>1. unsynced[t] /\ server'[t] = server[t] /\ (Awaited(t)' <=> Awaited(t))
      BY <1>1, <2>5, SyncEffect DEF Finish, db, history
    <3>2. ~Working(t)
      <4>1. At(g, t, {"exit", "delete"})
        BY <1>3, <2>5 DEF Finish, WorkerExit, WorkerDelete, At
      <4> QED
        BY <4>1 DEF Working, At, IInv, OneWorkerPerTicket, Active
    <3> QED
      BY <1>1, <3>1, <3>2 DEF FailureIsAwaited
  <2> QED
    BY <2>1, <2>2, <2>3, <2>4, <2>5 DEF SyncStep
<1> QED
  BY <1>2, <1>3

LEMMA CrashAwaits ==
    ASSUME FleetTypeOK, Crash
    PROVE  \A t \in ServersOfChat' : Awaited(t)'
<1> SUFFICES ASSUME NEW t \in ServersOfChat'
             PROVE  Awaited(t)'
  OBVIOUS
<1>1. t \in Tickets /\ ticket[t] = "valid"
  BY DEF Crash, ServersOfChat, db
<1>2. Identifiers # {}
  BY <1>1 DEF Identifiers, GetValidTickets, FleetTypeOK
<1>3. PICK o \in Ops : op' = [p \in Ops |->
                  IF p # o \/ Identifiers = {} THEN IdleOp
                  ELSE [pc |-> "boot", relays |-> Relays \cap ServersOfChat]]
  BY DEF Crash
<1>4. op'[o].pc = "boot"
  BY <1>2, <1>3
<1> QED
  BY <1>4 DEF Awaited, OpAwaits

LEMMA FailureStep ==
    ASSUME SyncInv, FailureIsAwaited, [FleetNext]_fleetVars
    PROVE  FailureIsAwaited'
<1> USE DEF SyncInv
<1>1. CASE Crash
  BY <1>1, CrashAwaits DEF FailureIsAwaited
<1>2. ASSUME NEW g \in Goroutines, SyncStep(g)
      PROVE  FailureIsAwaited'
  BY <1>2, FailureSync
<1>3. CASE Loop
  <2> SUFFICES ASSUME NEW t \in ServersOfChat', unsynced'[t]
               PROVE  server'[t].nextSeen \/ Awaited(t)' \/ Working(t)'
    BY DEF FailureIsAwaited
  <2>1. /\ t \in ServersOfChat /\ t \in Tickets
        /\ server[t].nextSeen \/ Awaited(t) \/ Working(t)
        /\ server' = server
    BY <1>3, LoopEffect DEF FailureIsAwaited, ServersOfChat
  <2>2. CASE Scan
    <3>1. ~Working(t)
      BY <2>2, ScanEffect DEF Working, At, Active
    <3>2. box[t] => Working(t)'
      BY <2>1, <2>2, ScanEffect DEF Working, At
    <3>3. Awaited(t) => box[t] \/ Awaited(t)'
      BY <1>3 DEF Loop, Awaited, OpAwaits
    <3> QED
      BY <2>1, <3>1, <3>2, <3>3
  <2>3. CASE UNCHANGED <<box, worker>> /\ (Awaited(t)' <=> Awaited(t))
    BY <2>1, <2>3 DEF Working, At
  <2> QED
    BY <1>3, <2>1, <2>2, <2>3, LoopEffect
<1>4. ASSUME \A t \in ServersOfChat' : Minded(t),
             UNCHANGED <<snapshot, unsynced>>,
             \A g \in Goroutines : /\ worker'[g].pc = worker[g].pc
                                   /\ worker'[g].ticket = worker[g].ticket
                                   /\ worker'[g].err = worker[g].err
      PROVE  FailureIsAwaited'
  <2> SUFFICES ASSUME NEW t \in ServersOfChat', unsynced'[t]
               PROVE  server'[t].nextSeen \/ Awaited(t)' \/ Working(t)'
    BY DEF FailureIsAwaited
  <2>1. Working(t)' <=> Working(t)
    BY <1>4 DEF Working, At
  <2> QED
    BY <1>4, <2>1 DEF Minded, Unaffected, Skipped, FailureIsAwaited
<1> QED
  BY <1>1, <1>2, <1>3, <1>4, AllMinded

-----------------------------------------------------------------------------
(* Each step keeps passages awaited.                                       *)

LEMMA PassagesSync ==
    ASSUME SyncInv, PassagesAreAwaited, NEW g \in Goroutines, SyncStep(g)
    PROVE  PassagesAreAwaited'
<1> USE DEF SyncInv
<1> SUFFICES ASSUME NEW t \in ServersOfChat', t \notin passedOver', ~Awaited(t)'
             PROVE  UpToDate(t)'
  BY DEF PassagesAreAwaited
<1>1. /\ t \in ServersOfChat /\ t \in Tickets /\ server[t].known
      /\ ~Awaited(t)
  BY SyncEffect DEF ServersOfChat
<1>2. CASE t # worker[g].ticket
  BY <1>1, <1>2, SyncEffect, OthersUpToDate DEF PassagesAreAwaited
<1>3. CASE t = worker[g].ticket
  <2>0. \A h \in Goroutines \ {g} :
          ~At(h, t, WorkerPC \ {"idle"}) /\ ~At(h, t, WorkerPC \ {"idle"})'
    <3>1. \A h \in Goroutines \ {g} : ~At(h, t, WorkerPC \ {"idle"})
      <4>1. Active(g)
        BY SyncIsWorkerStep, WorkerEffect
      <4> QED
        BY <1>3, <4>1 DEF At, IInv, OneWorkerPerTicket, Active
    <3> QED
      BY <3>1, SyncEffect DEF At
  <2>1. \A h \in Goroutines \ {g} :
          /\ ~At(h, t, {"call"})' /\ ~At(h, t, {"record"})'
          /\ ~At(h, t, {"get", "read", "call", "record"})
    BY <2>0 DEF At, WorkerPC
  <2>2. \A S : Fits(t, S)' <=> Fits(t, S)
    BY <1>1, SyncEffect
  <2>3. CASE GetServer(g)
    <3>1. worker'[g].pc = "read" /\ worker'[g].ticket = t
      BY <1>1, <1>3, <2>3 DEF GetServer, WorkerGetServer, Goto, IInv, TypeOK
    <3> QED
      BY <2>1, <3>1 DEF UpToDate, At, Working
  <2>4. CASE GetPassages(g)
    <3>1. worker'[g].pc = "call" /\ worker'[g].ticket = t
      BY <1>3, <2>4 DEF GetPassages, WorkerGetPassages, Goto, IInv, TypeOK
    <3>2. snapshot'[g] = PassagesOf(t)
      BY <1>3, <2>4 DEF GetPassages, FleetTypeOK
    <3>3. Fits(t, PassagesOf(t))
      BY <1>1, FitsSelf DEF AllFitThemselves
    <3>4. Fits(t, snapshot[g])'
      BY <2>2, <3>2, <3>3 DEF Fits
    <3> QED
      BY <2>1, <3>1, <3>4 DEF UpToDate, At, Working
  <2>5. ASSUME NEW err \in Outcomes, SyncPassages(g, err)
        PROVE  UpToDate(t)'
    <3>1. /\ worker'[g].pc = "record" /\ worker'[g].ticket = t
          /\ worker'[g].err = err /\ worker[g].pc = "call"
      BY <1>3, <2>5 DEF SyncPassages, WorkerCall, IInv, TypeOK
    <3>2. err # "canceled"
      <4>1. err = "canceled" => worker[g].canceled
        BY <2>5 DEF SyncPassages, WorkerCall
      <4>2. worker[g].canceled => box[t]
        BY <1>3, <3>1 DEF CanceledIsPending, Active
      <4> QED
        BY <1>1, <4>1, <4>2 DEF Awaited
    <3>3. err = "nil" => Fits(t, installed[t])'
      <4> SUFFICES ASSUME err = "nil"
                   PROVE  Fits(t, installed[t])'
        OBVIOUS
      <4>1. installed'[t] = snapshot[g]
        BY <1>1, <1>3, <2>5 DEF SyncPassages, FleetTypeOK
      <4>2. t \notin passedOver
        BY <2>5 DEF SyncPassages
      <4>3. Fits(t, snapshot[g])
        BY <1>1, <1>3, <3>1, <4>2 DEF PassagesAreAwaited, UpToDate, At
      <4> QED
        BY <2>2, <4>1, <4>3 DEF Fits
    <3>4. err = "nil" \/ err = "failed"
      BY <3>2, FleetAssumption
    <3> QED
      BY <2>1, <3>1, <3>3, <3>4 DEF UpToDate, At, Working
  <2>6. CASE SetSyncNextSeen(g)
    <3>1. worker'[g].pc = "exit" /\ worker[g].pc = "record"
      BY <2>6 DEF SetSyncNextSeen, WorkerRecord, Goto, IInv, TypeOK
    <3>2. server'[t].nextSeen = (worker[g].err = "failed")
      BY <1>1, <1>3, <2>6 DEF SetSyncNextSeen, FleetTypeOK, ServerState
    <3>3. worker[g].err # "failed" => Fits(t, installed[t])'
      <4> SUFFICES ASSUME worker[g].err # "failed"
                   PROVE  Fits(t, installed[t])'
        OBVIOUS
      <4>1. installed' = installed /\ t \notin passedOver
        BY <2>6 DEF SetSyncNextSeen
      <4>2. Fits(t, installed[t])
        BY <1>1, <1>3, <3>1, <4>1 DEF PassagesAreAwaited, UpToDate, At
      <4> QED
        BY <2>2, <4>1, <4>2 DEF Fits
    <3> QED
      BY <2>1, <3>1, <3>2, <3>3 DEF UpToDate, At
  <2>7. CASE Finish(g)
    <3>1. worker'[g].pc \notin {"get", "read", "call", "record"}
      BY <2>7, FinishEffect DEF Finish, Idle
    <3>2. ~Working(t)
      BY <1>3, <2>1, <2>7 DEF Finish, WorkerExit, WorkerDelete, At, Working
    <3>3. server' = server /\ installed' = installed /\ t \notin passedOver
      BY <2>7 DEF Finish, db, history
    <3>4. server[t].nextSeen \/ Fits(t, installed[t])
      BY <1>1, <3>2, <3>3 DEF PassagesAreAwaited, UpToDate
    <3>5. server'[t].nextSeen \/ Fits(t, installed[t])'
      BY <2>2, <3>3, <3>4 DEF Fits
    <3> QED
      BY <2>1, <3>1, <3>5 DEF UpToDate, At
  <2> QED
    BY <2>3, <2>4, <2>5, <2>6, <2>7 DEF SyncStep
<1> QED
  BY <1>2, <1>3

LEMMA PassagesStep ==
    ASSUME SyncInv, PassagesAreAwaited, [FleetNext]_fleetVars
    PROVE  PassagesAreAwaited'
<1> USE DEF SyncInv
<1>1. CASE Crash
  BY <1>1, CrashAwaits DEF PassagesAreAwaited
<1>2. ASSUME NEW g \in Goroutines, SyncStep(g)
      PROVE  PassagesAreAwaited'
  BY <1>2, PassagesSync
<1>3. CASE Loop
  <2> SUFFICES ASSUME NEW t \in ServersOfChat', t \notin passedOver', ~Awaited(t)'
               PROVE  UpToDate(t)'
    BY DEF PassagesAreAwaited
  <2>1. /\ t \in ServersOfChat /\ t \in Tickets
        /\ Awaited(t) \/ UpToDate(t)
        /\ UNCHANGED <<server, installed, snapshot>>
        /\ \A S : Fits(t, S)' <=> Fits(t, S)
    BY <1>3, LoopEffect DEF PassagesAreAwaited, ServersOfChat
  <2>2. Fits(t, installed[t])' <=> Fits(t, installed[t])
    BY <2>1 DEF Fits
  <2>3. CASE Scan
    <3>1. ~Working(t)
      BY <2>3, ScanEffect DEF Working, At, Active
    <3>2. box[t] => Working(t)'
      BY <2>1, <2>3, ScanEffect DEF Working, At
    <3>3. Awaited(t) => box[t]
      BY <1>3 DEF Loop, Awaited, OpAwaits
    <3>4. \A g \in Goroutines : worker'[g].pc \notin {"call", "record"}
      BY <2>3, ScanEffect
    <3> QED
      BY <2>1, <2>2, <3>1, <3>2, <3>3, <3>4 DEF UpToDate, At
  <2>4. CASE UNCHANGED <<box, worker>> /\ (Awaited(t)' <=> Awaited(t))
    <3>1. \A g \in Goroutines : Fits(t, snapshot[g])' <=> Fits(t, snapshot[g])
      BY <2>1 DEF Fits
    <3> QED
      BY <2>1, <2>2, <2>4, <3>1 DEF UpToDate, Working, At
  <2> QED
    BY <1>3, <2>1, <2>3, <2>4, LoopEffect
<1>4. ASSUME \A t \in ServersOfChat' : Minded(t),
             UNCHANGED <<snapshot, unsynced>>,
             \A g \in Goroutines : /\ worker'[g].pc = worker[g].pc
                                   /\ worker'[g].ticket = worker[g].ticket
                                   /\ worker'[g].err = worker[g].err
      PROVE  PassagesAreAwaited'
  <2> SUFFICES ASSUME NEW t \in ServersOfChat', t \notin passedOver', ~Awaited(t)'
               PROVE  UpToDate(t)'
    BY DEF PassagesAreAwaited
  <2>1. /\ t \in ServersOfChat /\ t \in Tickets /\ t \notin passedOver
        /\ server'[t].nextSeen = server[t].nextSeen
        /\ Unaffected(t) \/ Skipped(t)
    BY <1>4 DEF Minded, ServersOfChat
  <2>2. \A g \in Goroutines, pc \in {"call", "record"} :
          At(g, t, {pc})' <=> At(g, t, {pc})
    BY <1>4 DEF At
  <2>3. Working(t)' <=> Working(t)
    BY <1>4 DEF Working, At
  <2>4. CASE Unaffected(t)
    <3>1. UpToDate(t) /\ \A S : Fits(t, S) => Fits(t, S)'
      BY <2>1, <2>4 DEF Unaffected, PassagesAreAwaited
    <3>2. \A g \in Goroutines : Fits(t, snapshot[g]) => Fits(t, snapshot[g])'
      BY <1>4, <3>1 DEF Fits
    <3>3. Fits(t, installed[t]) => Fits(t, installed[t])'
      <4>1. CASE installed'[t] = installed[t]
        BY <3>1, <4>1 DEF Fits
      <4>2. CASE installed'[t] = PassagesOf(t)'
        <5>1. AllFitThemselves'
          BY FitsSelf, PTL
        <5> QED
          BY <2>1, <4>2, <5>1 DEF AllFitThemselves, Fits
      <4> QED
        BY <2>4, <4>1, <4>2 DEF Unaffected
    <3>4. Working(t)' \/ server'[t].nextSeen \/ Fits(t, installed[t])'
      BY <2>1, <2>3, <3>1, <3>3 DEF UpToDate
    <3>5. \A g \in Goroutines : At(g, t, {"call"})' => Fits(t, snapshot[g])'
      BY <2>2, <3>1, <3>2 DEF UpToDate
    <3>6. \A g \in Goroutines : At(g, t, {"record"})' =>
            worker'[g].err = "failed" \/ Fits(t, installed[t])'
      BY <1>4, <2>2, <3>1, <3>3 DEF UpToDate
    <3> QED
      BY <3>4, <3>5, <3>6 DEF UpToDate
  <2>5. CASE Skipped(t)
    <3>1. \A g \in Goroutines : ~At(g, t, {"call"})' /\ ~At(g, t, {"record"})'
      BY <1>4, <2>5 DEF Skipped, At
    <3> QED
      BY <2>1, <2>5, <3>1 DEF Skipped, UpToDate
  <2> QED
    BY <2>1, <2>4, <2>5
<1> QED
  BY <1>1, <1>2, <1>3, <1>4, AllMinded

-----------------------------------------------------------------------------
(* The theorems.                                                           *)

FleetIInv ==
    /\ SyncInv
    /\ FailuresAreBounded
    /\ FailureIsAwaited
    /\ PassagesAreAwaited

LEMMA FleetInitIInv == FleetInit => FleetIInv
<1> SUFFICES ASSUME FleetInit PROVE FleetIInv
  OBVIOUS
<1>1. IInv
  BY InitIInv DEF FleetInit
<1>2. FleetTypeOK
  <2>1. IdleOp \in OpState
    BY DEF OpState
  <2>2. [t \in Tickets |-> 0] \in [Tickets -> 0..MaxRounds]
    BY FleetAssumption
  <2> QED
    BY <1>1, <2>1, <2>2, FreshType
       DEF FleetInit, FleetTypeOK, IInv, TicketState, db, history
<1>3. \A g \in Goroutines : worker[g].pc = "idle"
  BY DEF FleetInit, Init, Idle
<1>4. CanceledIsPending /\ RecordIsOutcome
  BY <1>3 DEF CanceledIsPending, RecordIsOutcome, Active
<1>5. ServersOfChat = {}
  BY FreshType DEF FleetInit, ServersOfChat
<1>6. FailuresAreBounded
  BY FreshType, FleetAssumption DEF FleetInit, FailuresAreBounded, MaxFailures
<1> QED
  BY <1>1, <1>2, <1>4, <1>5, <1>6
     DEF FleetIInv, SyncInv, FailureIsAwaited, PassagesAreAwaited

LEMMA FleetNextIInv == FleetIInv /\ [FleetNext]_fleetVars => FleetIInv'
<1> SUFFICES ASSUME FleetIInv, [FleetNext]_fleetVars PROVE FleetIInv'
  OBVIOUS
<1>1. SyncInv'
  BY MailboxIInv, TypeStep, CanceledStep, RecordStep DEF FleetIInv, SyncInv
<1>2. FailuresAreBounded'
  BY FailuresStep DEF FleetIInv, SyncInv
<1>3. FailureIsAwaited' /\ PassagesAreAwaited'
  BY FailureStep, PassagesStep DEF FleetIInv
<1> QED
  BY <1>1, <1>2, <1>3 DEF FleetIInv

(* Whatever handlers, bot, cleaner, pings, crashes and the mailbox do to a *)
(* chat, in whatever order, they keep the inductive invariant.             *)
THEOREM FleetInductive == FleetSpec => []FleetIInv
<1>1. FleetInit => FleetIInv
  BY FleetInitIInv
<1>2. FleetIInv /\ [FleetNext]_fleetVars => FleetIInv'
  BY FleetNextIInv
<1> QED
  BY <1>1, <1>2, PTL DEF FleetSpec

(* The records of a chat have their type; above all, a server's failures   *)
(* exceed the maximum by no more than the rounds that were under way when  *)
(* it was reached, as later rounds do not ping it.                         *)
THEOREM FleetTyping == FleetSpec => []FleetTypeOK
<1>1. FleetIInv => FleetTypeOK
  BY DEF FleetIInv, SyncInv
<1> QED
  BY <1>1, FleetInductive, PTL

(* The mailbox keeps its safety under crashes, which module SyncBox does   *)
(* not have: one goroutine per server, no token without a wake-up.         *)
THEOREM FleetMailbox ==
    FleetSpec =>
        [](NoLostWakeup /\ OneWorkerPerTicket /\ CancelIsLive /\ PendingPreempts)
<1>1. FleetIInv => NoLostWakeup /\ OneWorkerPerTicket /\ CancelIsLive /\ PendingPreempts
  BY DEF FleetIInv, SyncInv, IInv
<1> QED
  BY <1>1, FleetInductive, PTL

(* A failed sync of a registered server is flagged, or another is coming.  *)
THEOREM Retries == FleetSpec => []FailureIsRetried
<1>1. FleetIInv => FailureIsRetried
  <2> SUFFICES ASSUME FleetIInv, NEW t \in ServersOfChat, unsynced[t],
                      ~server[t].nextSeen
               PROVE  Syncing(t)
    BY DEF FailureIsRetried
  <2>1. Awaited(t) \/ Working(t)
    BY DEF FleetIInv, FailureIsAwaited
  <2> QED
    BY <2>1 DEF Awaited, OpAwaits, Working, At, Active, Syncing
<1> QED
  BY <1>1, FleetInductive, PTL

(* A server that has settled has nothing left to wait for.                 *)
LEMMA SettledFits ==
    ASSUME FleetIInv, NEW t \in Tickets \ passedOver, Settled(t)
    PROVE  /\ Fits(t, installed[t])
           /\ \A q : ~Announced(q)
<1>1. ~Awaited(t) /\ \A q : ~Announced(q)
  BY DEF Settled, Syncing, Awaited, OpAwaits, Announced, OpAnnounces
<1>2. ~Working(t)
  BY DEF Settled, Syncing, Working, At, Active
<1> QED
  BY <1>1, <1>2 DEF FleetIInv, PassagesAreAwaited, UpToDate, Settled

(* Nobody entitled to a settled server is missing from it.                 *)
THEOREM Entitlement == FleetSpec => []EntitledAreServed
<1>1. FleetIInv => EntitledAreServed
  <2> SUFFICES ASSUME FleetIInv, NEW t \in Tickets \ passedOver, Settled(t)
               PROVE  Served(t)
    BY DEF EntitledAreServed
  <2> QED
    BY SettledFits DEF Fits, Excused, Served
<1> QED
  BY <1>1, FleetInductive, PTL

(* A ticket the cleaner has swept opens no settled server.                 *)
THEOREM Disabling == FleetSpec => []ExpiredAreDisabled
<1>1. FleetIInv => ExpiredAreDisabled
  BY SettledFits DEF ExpiredAreDisabled, Fits
<1> QED
  BY <1>1, FleetInductive, PTL

-----------------------------------------------------------------------------
(* The mailbox at work: every step of the whole program is one that        *)
(* SyncPromise allows, or a crash, after which nothing is owed.  So no     *)
(* handler, cleaner or ping ever drops or overtakes a request for a sync   *)
(* (its liveness, under no crashes, is KeepsPromise of SyncBox).           *)
THEOREM FleetPromise ==
    FleetSpec => /\ Promise!Init
                 /\ [][Promise!Next \/ (Crash /\ Promise!Init')]_(Promise!vars)
<1>1. FleetInit => Promise!Init
  BY InitRefines DEF FleetInit
<1>2. FleetIInv /\ [FleetNext]_fleetVars
        => [Promise!Next \/ (Crash /\ Promise!Init')]_(Promise!vars)
  <2> SUFFICES ASSUME FleetIInv, [FleetNext]_fleetVars
               PROVE  [Promise!Next \/ (Crash /\ Promise!Init')]_(Promise!vars)
    OBVIOUS
  <2>1. IInv /\ FleetTypeOK
    BY DEF FleetIInv, SyncInv
  <2>2. CASE Crash
    <3>1. Init'
      BY <2>2 DEF Crash, Init
    <3>2. (Init => Promise!Init)'
      BY InitRefines, PTL
    <3> QED
      BY <2>2, <3>1, <3>2
  <2>3. CASE [Next]_vars
    BY <2>1, <2>3, StepRefines
  <2> QED
    BY <2>1, <2>2, <2>3, MailboxStep
<1> QED
  BY <1>1, <1>2, FleetInductive, PTL DEF FleetSpec

=============================================================================
