------------------------------- MODULE Fleet -------------------------------
(***************************************************************************)
(* One chat of SweetLisa: its tickets, the servers and relays registered   *)
(* with them, and the passages installed on each, kept up to date through  *)
(* the mailbox of module SyncBox.                                          *)
(*                                                                         *)
(* A bolt transaction is one action.  Everything that happens after it is  *)
(* committed - reading the list of servers, then the ReqSync of each - is  *)
(* the business of an operation in flight, which other actors interleave   *)
(* with and a crash cuts short.  Bandwidth and NoRelay, which also filter  *)
(* passages, are left to module Paths.                                     *)
(***************************************************************************)
EXTENDS SyncBox, Naturals

CONSTANTS
    Users,              \* user tickets
    Members,            \* those of them at rest: issued long ago, never touched
    Relays,             \* the tickets that are of type relay
    Ops,                \* slots for operations in flight: a bound
    MaxFailureCount,    \* model.MaxFailureCount
    MaxRounds,          \* rounds of pings that overlap: a bound
    Outcomes            \* what a call of SyncPassages may return

ASSUME FleetAssumption ==
    /\ Relays \subseteq Tickets
    /\ Users \cap Tickets = {}
    /\ (Users \cup Tickets) \cap (Users \X Tickets) = {}
    /\ Members \subseteq Users
    /\ MaxFailureCount \in Nat \ {0}
    /\ MaxRounds \in Nat \ {0}
    /\ Outcomes \subseteq {"nil", "canceled", "failed"}

VARIABLES
    ticket,             \* the ticket bucket, with the age of expired tickets
    server,             \* the server bucket
    snapshot,           \* the passages a worker has read and will push
    installed,          \* the passages on each server (external)
    pinging,            \* how many rounds have a ping of each under way
    op,                 \* the operations in flight
    unsynced,           \* history: the last call of SyncPassages failed
    putBack,            \* history: renewed unsynced, though revoked
    passedOver          \* history: left to a retry, with a sync under way

db == <<ticket, server>>
mailbox == vars
history == <<unsynced, putBack, passedOver>>
fleetVars == <<mailbox, db, snapshot, installed, pinging, op, history>>

Servers == Tickets \ Relays

(* "swept": expired, and a tick of the cleaner has seen it; "lapsed": past *)
(* the three hours in which the cleaner syncs for it.                      *)
TicketState == {"unused", "valid", "expired", "swept", "lapsed", "deleted",
                "revoked"}

(* A server that has failed MaxFailureCount times is not pinged any more,  *)
(* but it fails once more in each round that has read it before that.      *)
ServerState ==
    [known : BOOLEAN, nextSeen : BOOLEAN,
     failures : 0..(MaxFailureCount - 1 + MaxRounds)]

Fresh == [known |-> TRUE, nextSeen |-> FALSE, failures |-> 0]
Unknown == [Fresh EXCEPT !.known = FALSE]

IdleOp == [pc |-> "idle"]

OpState ==
    {IdleOp}
    \cup [pc : {"save"}, user : Users, expired : BOOLEAN]
    \cup [pc : {"ping"}, server : Tickets]
    \cup [pc : {"boot"}, relays : SUBSET Relays]
    \cup [pc : {"listChat"}]
    \cup [pc : {"listServer"}, server : Tickets, onlyItSelf : BOOLEAN]
    \cup [pc : {"send"}, targets : SUBSET Tickets]

(* A server's inbound is for a user or a relay, a relay's for a user on    *)
(* the way to a server.                                                    *)
Passage == Users \cup Relays \cup (Users \X Servers)

FleetTypeOK ==
    /\ TypeOK
    /\ ticket \in [Users \cup Tickets -> TicketState]
    /\ server \in [Tickets -> ServerState]
    /\ snapshot \in [Goroutines -> SUBSET Passage]
    /\ installed \in [Tickets -> SUBSET Passage]
    /\ pinging \in [Tickets -> 0..MaxRounds]
    /\ op \in [Ops -> OpState]
    /\ unsynced \in [Tickets -> BOOLEAN]
    /\ putBack \subseteq Users
    /\ passedOver \subseteq Tickets

(* Every server has its ticket, none has registered yet.                   *)
FleetInit ==
    /\ Init
    /\ ticket = [x \in Users \cup Tickets |->
                   IF x \in Tickets \cup Members THEN "valid" ELSE "unused"]
    /\ server = [t \in Tickets |-> Unknown]
    /\ snapshot = [g \in Goroutines |-> {}]
    /\ installed = [t \in Tickets |-> {}]
    /\ pinging = [t \in Tickets |-> 0]
    /\ op = [o \in Ops |-> IdleOp]
    /\ unsynced = [t \in Tickets |-> FALSE]
    /\ putBack = {}
    /\ passedOver = {}

-----------------------------------------------------------------------------
(* Reads of the database.                                                  *)

Peers(t) == IF t \in Relays THEN Servers ELSE Relays

Alive(t) == server[t].known /\ server[t].failures < MaxFailureCount

(* GetPassagesByServer.                                                    *)
PassagesOf(t) ==
    LET users == {u \in Users : ticket[u] = "valid"}
        peers == {p \in Peers(t) : ticket[p] = "valid" /\ Alive(p)}
    IN  IF ticket[t] = "revoked" \/ ~server[t].known THEN {}
        ELSE IF t \in Relays THEN users \X peers ELSE users \cup peers

(* GetServersByChatIdentifier, relays included.                            *)
ServersOfChat == {t \in Tickets : ticket[t] = "valid" /\ server[t].known}

(* Requests pass over a server that is to be synced when it is seen next.  *)
Unflagged(ts) == {t \in ts : ~server[t].nextSeen}

(* Such a sync may be under way, with passages it has read before.         *)
PassOver(ts) ==
    /\ passedOver' = passedOver \cup
         {t \in ts : /\ server[t].nextSeen
                     /\ \E g \in Goroutines : /\ worker[g].ticket = t
                                              /\ worker[g].pc \in {"call", "record"}}
    /\ UNCHANGED <<unsynced, putBack>>

-----------------------------------------------------------------------------
(* Operations in flight.                                                   *)

Begin(v) ==
    \E o \in Ops : op[o] = IdleOp /\ op' = [op EXCEPT ![o] = v]

Send(targets) ==
    IF targets = {} THEN IdleOp ELSE [pc |-> "send", targets |-> targets]

(* ReqSyncPassagesByChatIdentifier reads the servers of the chat.          *)
ListChat(o) ==
    /\ op[o].pc = "listChat"
    /\ op' = [op EXCEPT ![o] = Send(Unflagged(ServersOfChat))]
    /\ PassOver(ServersOfChat)
    /\ UNCHANGED <<mailbox, db, snapshot, installed, pinging>>

(* ReqSyncPassagesByServer: the server and, unless onlyItSelf, its peers.  *)
ListServer(o) ==
    /\ op[o].pc = "listServer"
    /\ LET t == op[o].server
           peers == IF op[o].onlyItSelf THEN {} ELSE Peers(t) \cap ServersOfChat
       IN  IF ticket[t] = "valid"
           THEN /\ op' = [op EXCEPT ![o] = Send({t} \cup Unflagged(peers))]
                /\ PassOver(peers)
           ELSE /\ op' = [op EXCEPT ![o] = IdleOp]
                /\ UNCHANGED history
    /\ UNCHANGED <<mailbox, db, snapshot, installed, pinging>>

SendReqSync(o, t) ==
    /\ op[o].pc = "send"
    /\ t \in op[o].targets
    /\ ReqSync(t)
    /\ op' = [op EXCEPT ![o] = Send(@.targets \ {t})]
    /\ UNCHANGED <<db, snapshot, installed, pinging, history>>

-----------------------------------------------------------------------------
(* Tickets: the handlers, the bot's /revoke, time, and the cleaner.        *)

GetTicket(u) ==
    /\ ticket[u] = "unused"
    /\ ticket' = [ticket EXCEPT ![u] = "valid"]
    /\ Begin([pc |-> "listChat"])
    /\ UNCHANGED <<mailbox, server, snapshot, installed, pinging, history>>

(* PostRenew reads the ticket in one transaction ...                       *)
RenewRead(u) ==
    /\ ticket[u] \notin {"unused", "deleted", "revoked"}
    /\ Begin([pc |-> "save", user |-> u, expired |-> ticket[u] # "valid"])
    /\ UNCHANGED <<mailbox, db, snapshot, installed, pinging, history>>

(* Has what PostRenew has read expired when it saves the renewed ticket?   *)
(* If it has not, it may yet do so until PostRenew looks.                  *)
ReadHasExpired(o) ==
    op[o].expired \/ ticket[op[o].user] \notin {"valid", "revoked"}

(* Variant: a renewal never asks for a sync.                               *)
RenewSaveSilently(o) ==
    /\ op[o].pc = "save"
    /\ ticket' = [ticket EXCEPT ![op[o].user] = "valid"]
    /\ op' = [op EXCEPT ![o] = IdleOp]
    /\ UNCHANGED <<mailbox, server, snapshot, installed, pinging, history>>

(* ... puts a renewed one in another, whatever happened in between, and    *)
(* only then looks whether the one it has read has expired.                *)
RenewSave(o) ==
    /\ op[o].pc = "save"
    /\ ticket' = [ticket EXCEPT ![op[o].user] = "valid"]
    /\ \E expired \in BOOLEAN :
         /\ ReadHasExpired(o) => expired
         /\ op' = [op EXCEPT ![o] =
                      IF expired THEN [pc |-> "listChat"] ELSE IdleOp]
         /\ putBack' =
              IF expired THEN putBack \ {op[o].user}
              ELSE IF ticket[op[o].user] = "revoked"
                   THEN putBack \cup {op[o].user} ELSE putBack
    /\ UNCHANGED <<mailbox, server, snapshot, installed, pinging, unsynced,
                   passedOver>>

(* RevokeTicket deletes the server with its ticket, and syncs nothing.     *)
RevokeTicket(x) ==
    /\ ticket[x] = "valid"
    /\ ticket' = [ticket EXCEPT ![x] = "revoked"]
    /\ server' = [t \in Tickets |-> IF t = x THEN Unknown ELSE server[t]]
    /\ UNCHANGED <<mailbox, snapshot, installed, pinging, op, history>>

(* /revoke, with a ticket.                                                 *)
Revoke(params) == params # <<>> /\ RevokeTicket(params[1])

Expire(u) ==
    /\ ticket[u] = "valid"
    /\ ticket' = [ticket EXCEPT ![u] = "expired"]
    /\ UNCHANGED <<mailbox, server, snapshot, installed, pinging, op, history>>

(* Three hours pass; an hourly tick has fallen in them.                    *)
Lapse(u) ==
    /\ ticket[u] = "swept"
    /\ ticket' = [ticket EXCEPT ![u] = "lapsed"]
    /\ UNCHANGED <<mailbox, server, snapshot, installed, pinging, op, history>>

(* The hourly cleaner: old are the tickets expired for more than a week.   *)
(* It asks for the syncs inside its transaction.                           *)
(* Variant: it asks for them only if it has deleted a ticket.              *)
CleanTicketsLate(old) ==
    LET recent == {u \in Users : ticket[u] \in {"expired", "swept"}}
    IN  /\ old \subseteq {u \in Users : ticket[u] = "lapsed"}
        /\ recent \cup old # {}
        /\ ticket' = [x \in Users \cup Tickets |->
                        IF x \in old THEN "deleted"
                        ELSE IF x \in recent THEN "swept" ELSE ticket[x]]
        /\ IF old # {} THEN Begin(Send(Unflagged(ServersOfChat)))
           ELSE UNCHANGED op
        /\ PassOver(ServersOfChat)
        /\ UNCHANGED <<mailbox, server, snapshot, installed, pinging>>

CleanTickets(old) ==
    LET recent == {u \in Users : ticket[u] \in {"expired", "swept"}}
    IN  /\ old \subseteq {u \in Users : ticket[u] = "lapsed"}
        /\ recent \cup old # {}
        /\ ticket' = [x \in Users \cup Tickets |->
                        IF x \in old THEN "deleted"
                        ELSE IF x \in recent THEN "swept" ELSE ticket[x]]
        /\ Begin(Send(Unflagged(ServersOfChat)))
        /\ PassOver(ServersOfChat)
        /\ UNCHANGED <<mailbox, server, snapshot, installed, pinging>>

-----------------------------------------------------------------------------
(* Servers: registration, and the rounds of pings.                         *)

(* PostRegister: a server that has just started calls with a valid ticket, *)
(* is answered with its passages, and is pinged in the background.         *)
PostRegister(t) ==
    /\ ticket[t] = "valid"
    /\ installed' = [installed EXCEPT ![t] = PassagesOf(t)]
    /\ Begin([pc |-> "ping", server |-> t])
    /\ UNCHANGED <<mailbox, db, snapshot, pinging, history>>

(* Variant: a registration syncs only the server itself.                   *)
RegisterOnlyItSelf(o, reachable) ==
    /\ op[o].pc = "ping"
    /\ LET t == op[o].server
       IN  IF reachable
           THEN /\ server' = [server EXCEPT ![t] = Fresh]
                /\ op' = [op EXCEPT ![o] = [pc |-> "listServer", server |-> t,
                                            onlyItSelf |-> TRUE]]
           ELSE /\ op' = [op EXCEPT ![o] = IdleOp]
                /\ UNCHANGED server
    /\ UNCHANGED <<mailbox, ticket, snapshot, installed, pinging, history>>

(* The ping, and RegisterServer if it was answered.                        *)
RegisterServer(o, reachable) ==
    /\ op[o].pc = "ping"
    /\ LET t == op[o].server
       IN  IF reachable
           THEN /\ server' = [server EXCEPT ![t] = Fresh]
                /\ op' = [op EXCEPT ![o] = [pc |-> "listServer", server |-> t,
                                            onlyItSelf |-> FALSE]]
           ELSE /\ op' = [op EXCEPT ![o] = IdleOp]
                /\ UNCHANGED server
    /\ UNCHANGED <<mailbox, ticket, snapshot, installed, pinging, history>>

(* Variant: a server is pinged however often it has failed.                *)
PingStartAlways(t) ==
    /\ pinging[t] < MaxRounds
    /\ server[t].known
    /\ pinging' = [pinging EXCEPT ![t] = @ + 1]
    /\ UNCHANGED <<mailbox, db, snapshot, installed, op, history>>

(* A round reads the records and pings them, for at most 30 seconds each - *)
(* or longer: it waits for its slowest ping and for the writer lock, while *)
(* the ticker starts the next rounds.  The todos of a round are committed  *)
(* together; as each writes its own record only, they are taken one by one *)
(* here.                                                                   *)
PingStart(t) ==
    /\ pinging[t] < MaxRounds
    /\ Alive(t)
    /\ pinging' = [pinging EXCEPT ![t] = @ + 1]
    /\ UNCHANGED <<mailbox, db, snapshot, installed, op, history>>

(* The todo of a ping reads the record again, which may be gone, or have   *)
(* failed for good in another round.                                       *)
PingGone(t) ==
    /\ ~server[t].known
    /\ UNCHANGED <<server, op>>

PingFailed(t) ==
    LET f == server[t].failures
    IN  /\ server[t].known
        /\ server' = [server EXCEPT ![t].failures = f + 1]
        /\ IF f + 1 >= MaxFailureCount
           THEN Begin([pc |-> "listServer", server |-> t, onlyItSelf |-> FALSE])
           ELSE UNCHANGED op

(* Variant: a sync that has failed is not retried.                         *)
PingAnsweredOnly(t) ==
    LET reconnected == server[t].failures >= MaxFailureCount
    IN  /\ server[t].known
        /\ server' = [server EXCEPT ![t].failures = 0]
        /\ IF reconnected
           THEN Begin([pc |-> "listServer", server |-> t, onlyItSelf |-> FALSE])
           ELSE UNCHANGED op

PingAnswered(t) ==
    LET reconnected == server[t].failures >= MaxFailureCount
    IN  /\ server[t].known
        /\ server' = [server EXCEPT ![t].failures = 0]
        /\ IF server[t].nextSeen \/ reconnected
           THEN Begin([pc |-> "listServer", server |-> t,
                       onlyItSelf |-> ~reconnected])
           ELSE UNCHANGED op

PingDone(t) ==
    /\ pinging[t] > 0
    /\ pinging' = [pinging EXCEPT ![t] = @ - 1]
    /\ PingGone(t) \/ PingFailed(t) \/ PingAnswered(t)
    /\ UNCHANGED <<mailbox, ticket, snapshot, installed, history>>

-----------------------------------------------------------------------------
(* The sync of one server: SyncBox's goroutines with what they carry.  A   *)
(* manager can be made for any server with a record: it has been pinged by *)
(* one with the same arguments before it was registered.                   *)

GetServer(g) ==
    /\ WorkerGetServer(g, server[worker[g].ticket].known)
    /\ UNCHANGED <<db, snapshot, installed, pinging, op, history>>

GetPassages(g) ==
    /\ WorkerGetPassages(g)
    /\ snapshot' = [snapshot EXCEPT ![g] = PassagesOf(worker[g].ticket)]
    /\ passedOver' = passedOver \ {worker[g].ticket}
    /\ UNCHANGED <<db, installed, pinging, op, unsynced, putBack>>

(* A call that succeeds has replaced the passages on the server; one that  *)
(* fails may have, too.                                                    *)
SyncPassages(g, err) ==
    /\ WorkerCall(g, err)
    /\ \/ installed' = [installed EXCEPT ![worker[g].ticket] = snapshot[g]]
       \/ err # "nil" /\ UNCHANGED installed
    /\ snapshot' = [snapshot EXCEPT ![g] = {}]
    /\ unsynced' = [unsynced EXCEPT ![worker[g].ticket] = err = "failed"]
    /\ UNCHANGED <<db, pinging, op, putBack, passedOver>>

(* Variant: the outcome is recorded the wrong way round.                   *)
SetSyncNextSeenSwapped(g) ==
    /\ WorkerRecord(g)
    /\ LET t == worker[g].ticket
           failed == worker[g].err # "failed"
       IN  /\ server' = IF server[t].known
                        THEN [server EXCEPT ![t].nextSeen = failed]
                        ELSE server
           /\ passedOver' = IF failed THEN passedOver \ {t} ELSE passedOver
    /\ UNCHANGED <<ticket, snapshot, installed, pinging, op, unsynced, putBack>>

(* A sync that was late for a request is retried after all if it fails.    *)
SetSyncNextSeen(g) ==
    /\ WorkerRecord(g)
    /\ LET t == worker[g].ticket
           failed == worker[g].err = "failed"
       IN  /\ server' = IF server[t].known
                        THEN [server EXCEPT ![t].nextSeen = failed]
                        ELSE server
           /\ passedOver' = IF failed THEN passedOver \ {t} ELSE passedOver
    /\ UNCHANGED <<ticket, snapshot, installed, pinging, op, unsynced, putBack>>

Loop ==
    /\ Recv \/ Scan \/ WaitDone
    /\ UNCHANGED <<db, snapshot, installed, pinging, op, history>>

Finish(g) ==
    /\ WorkerExit(g) \/ WorkerDelete(g)
    /\ UNCHANGED <<db, snapshot, installed, pinging, op, history>>

-----------------------------------------------------------------------------
(* A crash loses what is in memory.  The next start runs SyncAll for the   *)
(* chats that have a ticket: it pings and registers again the relays it    *)
(* has read, then syncs the chat.                                          *)
GetValidTickets == {x \in DOMAIN ticket : ticket[x] = "valid"}

(* The chats of these, each once; there is one chat here.                  *)
Identifiers == {"chat" : x \in GetValidTickets}

Crash ==
    /\ box' = [t \in Tickets |-> FALSE]
    /\ waitingSync' = FALSE
    /\ syncCancel' = [t \in Tickets |-> None]
    /\ loop' = "recv"
    /\ worker' = [g \in Goroutines |-> Idle]
    /\ snapshot' = [g \in Goroutines |-> {}]
    /\ pinging' = [t \in Tickets |-> 0]
    /\ \E o \in Ops :
         op' = [p \in Ops |->
                  IF p # o \/ Identifiers = {} THEN IdleOp
                  ELSE [pc |-> "boot", relays |-> Relays \cap ServersOfChat]]
    /\ UNCHANGED <<db, installed, history>>

SyncAllRelay(o, r, reachable) ==
    /\ op[o].pc = "boot"
    /\ r \in op[o].relays
    /\ op' = [op EXCEPT ![o].relays = @ \ {r}]
    /\ server' = IF reachable THEN [server EXCEPT ![r] = Fresh] ELSE server
    /\ UNCHANGED <<mailbox, ticket, snapshot, installed, pinging, history>>

SyncAllChat(o) ==
    /\ op[o] = [pc |-> "boot", relays |-> {}]
    /\ op' = [op EXCEPT ![o] = [pc |-> "listChat"]]
    /\ UNCHANGED <<mailbox, db, snapshot, installed, pinging, history>>

-----------------------------------------------------------------------------
OpStep(o) ==
    \/ ListChat(o) \/ ListServer(o) \/ RenewSave(o) \/ SyncAllChat(o)
    \/ \E t \in Tickets : SendReqSync(o, t)
    \/ \E r \in BOOLEAN : RegisterServer(o, r)
    \/ \E t \in Relays, r \in BOOLEAN : SyncAllRelay(o, t, r)

SyncStep(g) ==
    \/ GetServer(g) \/ GetPassages(g) \/ SetSyncNextSeen(g) \/ Finish(g)
    \/ \E err \in Outcomes : SyncPassages(g, err)

Clean == \E old \in SUBSET Users : CleanTickets(old)

FleetNext ==
    \/ \E u \in Users \ Members :
         GetTicket(u) \/ RenewRead(u) \/ Expire(u) \/ Lapse(u)
    \/ \E params \in {<<>>} \cup {<<x>> : x \in (Users \ Members) \cup Tickets} :
         Revoke(params)
    \/ Clean
    \/ \E t \in Tickets : PostRegister(t) \/ PingStart(t) \/ PingDone(t)
    \/ \E o \in Ops : OpStep(o)
    \/ Loop
    \/ \E g \in Goroutines : SyncStep(g)
    \/ Crash

(* The program's own steps, the ticker's rounds included; what callers and *)
(* crashes do, and whether a server answers, is free.                      *)
FleetFairness ==
    /\ WF_fleetVars(Loop)
    /\ \A g \in Goroutines : WF_fleetVars(SyncStep(g))
    /\ \A o \in Ops : WF_fleetVars(OpStep(o))
    /\ \A t \in Tickets : WF_fleetVars(PingStart(t)) /\ WF_fleetVars(PingDone(t))
    /\ WF_fleetVars(Clean)
    /\ \A u \in Users : WF_fleetVars(Lapse(u))

FleetSpec == FleetInit /\ [][FleetNext]_fleetVars /\ FleetFairness

-----------------------------------------------------------------------------
(* Properties.                                                             *)

Syncing(t) ==
    \/ box[t]
    \/ \E g \in Goroutines : Active(g) /\ worker[g].ticket = t
    \/ \E o \in Ops : op[o].pc \in {"boot", "listChat", "listServer", "send"}

(* A registered server for which nothing is under way and no retry noted.  *)
Settled(t) ==
    t \in ServersOfChat /\ ~server[t].nextSeen /\ ~Syncing(t)

(* What a user's ticket opens on a server.                                 *)
Opens(u, passages) == u \in passages \/ \E s \in Servers : <<u, s>> \in passages

(* Left out are tickets that PostRenew has put back after they had been    *)
(* revoked, without a sync as they had not expired.                        *)
Served(t) ==
    \A p \in PassagesOf(t) \ installed[t] : \E u \in putBack : Opens(u, {p})

(* Nobody entitled to a server is missing from it once it has settled, in  *)
(* whatever order transactions, requests, failures, cancellations and      *)
(* crashes came - but for servers that a request has passed over.          *)
EntitledAreServed ==
    \A t \in Tickets \ passedOver : Settled(t) => Served(t)

(* "Retry the sync after seeing the server next time": a server passed     *)
(* over, as a retry of its sync was due, is retried.                       *)
PassedOverAreServed == \A t \in passedOver : Settled(t) => Served(t)

(* The cleaner disables a ticket that has expired: once it has swept it,   *)
(* no settled server accepts the ticket any more, but for servers that a   *)
(* request has passed over.                                                *)
ExpiredAreDisabled ==
    \A t \in Tickets \ passedOver, u \in Users :
        Settled(t) /\ ticket[u] \in {"swept", "lapsed"} =>
            ~Opens(u, installed[t])

(* A failed sync is never forgotten: it is flagged for when the server is  *)
(* seen next, or another one is on its way (after a crash, a cancellation, *)
(* a registration that resets the flag).                                   *)
FailureIsRetried ==
    \A t \in ServersOfChat : unsynced[t] => server[t].nextSeen \/ Syncing(t)

(* Expiry takes effect: when callers, crashes and failures give the        *)
(* program time, while rounds of pings go on, an expired ticket ends up    *)
(* opening no server that is seen, unless it is renewed or revoked - a     *)
(* server whose syncs have failed, and that requests therefore pass over,  *)
(* is synced when a ping sees it next.                                     *)
Fails ==
    \/ \E t \in Tickets : PingDone(t) /\ server'[t].failures > server[t].failures
    \/ \E g \in Goroutines : SyncPassages(g, "failed")

Disturbance ==
    \/ Crash
    \/ Fails
    \/ \E u \in Users : GetTicket(u) \/ RenewRead(u)
    \/ \E t \in Tickets : PostRegister(t)

ExpiryTakesEffect ==
    <>[][~Disturbance]_fleetVars =>
        \A u \in Users : ticket[u] = "expired" ~>
            \/ ticket[u] \in {"valid", "revoked"}
            \/ \A t \in ServersOfChat \ passedOver :
                 Alive(t) => ~Opens(u, installed[t])

(* README.md says of /revoke that it revokes a ticket immediately.         *)
RevokedAreDisabled ==
    \A t \in Tickets, u \in Users :
        Settled(t) /\ ticket[u] = "revoked" => ~Opens(u, installed[t])

(* ... and it stays revoked.                                               *)
RevokedStaysRevoked ==
    [][\A x \in Users \cup Tickets :
         ticket[x] = "revoked" => ticket'[x] = "revoked"]_fleetVars

=============================================================================
