------------------------------ MODULE Registry ------------------------------
(***************************************************************************)
(* The life of one server or relay in the database: its ticket, its record *)
(* in the server bucket, the rounds of pings that find out whether it is   *)
(* there, the feed that tells its chat so, and the two cleaners that       *)
(* forget it when it has not been seen for 35 days.                        *)
(***************************************************************************)
EXTENDS Naturals

CONSTANTS
    MaxFailureCount,    \* model.MaxFailureCount
    PingRounds,         \* slots for rounds of pings that overlap: a bound
    Requests            \* slots for registrations in flight: a bound

ASSUME RegistryAssumption == MaxFailureCount \in Nat \ {0}

VARIABLES
    up,                 \* the server answers (external)
    ticket,             \* its ticket is in the ticket bucket
    record,             \* its record in the server bucket
    unseen,             \* LastSeen is 35 days ago
    ping,               \* the ping of each round under way
    request,            \* registrations in flight
    feed                \* the last that the chat's feed says of it

vars == <<up, ticket, record, unseen, ping, request, feed>>

NoRecord == [known |-> FALSE, failures |-> 0]

Failed(r) == r.failures >= MaxFailureCount

(* The entries that tell whether a server is there.                        *)
ServerAction == {"Launch", "Reconnect", "Disconnect"}

TypeOK ==
    /\ up \in BOOLEAN
    /\ ticket \in BOOLEAN
    /\ record \in [known : BOOLEAN, failures : Nat]
    /\ unseen \in BOOLEAN
    /\ ping \in [PingRounds -> {"none", "asked", "answered", "failed"}]
    /\ request \in [Requests -> {"none", "ping", "save"}]
    /\ feed \in {"nothing"} \cup ServerAction

(* The ticket has been issued.                                             *)
Init ==
    /\ up \in BOOLEAN
    /\ ticket = TRUE
    /\ record = NoRecord
    /\ unseen = FALSE
    /\ ping = [r \in PingRounds |-> "none"]
    /\ request = [q \in Requests |-> "none"]
    /\ feed = "nothing"

-----------------------------------------------------------------------------
(* AddFeedServer: without a valid ticket it fails, which nobody minds.     *)
AddFeedServer(entry) == feed' = IF ticket THEN entry ELSE feed

(* The server appears or disappears.                                       *)
Turn ==
    /\ up' = ~up
    /\ UNCHANGED <<ticket, record, unseen, ping, request, feed>>

(* 35 days pass with a ping failing every minute, and no registration.     *)
FiveWeeks ==
    /\ record.known /\ Failed(record)
    /\ \A r \in PingRounds : ping[r] = "none"
    /\ \A q \in Requests : request[q] = "none"
    /\ unseen' = TRUE
    /\ UNCHANGED <<up, ticket, record, ping, request, feed>>

-----------------------------------------------------------------------------
(* Registration: PostRegister checks the ticket and goes on in the         *)
(* background.  SyncAll begins the same with the record it has read.       *)
PostRegister(q) ==
    /\ ticket /\ request[q] = "none"
    /\ request' = [request EXCEPT ![q] = "ping"]
    /\ UNCHANGED <<up, ticket, record, unseen, ping, feed>>

PingTest(q) ==
    /\ request[q] = "ping"
    /\ request' = [request EXCEPT ![q] = IF up THEN "save" ELSE "none"]
    /\ UNCHANGED <<up, ticket, record, unseen, ping, feed>>

(* Variant: the reconnection is not told.                                  *)
RegisterSilently(q) ==
    /\ request[q] = "save"
    /\ request' = [request EXCEPT ![q] = "none"]
    /\ record' = [known |-> TRUE, failures |-> 0]
    /\ unseen' = FALSE
    /\ IF ~record.known THEN AddFeedServer("Launch") ELSE UNCHANGED feed
    /\ UNCHANGED <<up, ticket, ping>>

(* RegisterServer puts the record, ticket or no ticket.                    *)
RegisterServer(q) ==
    /\ request[q] = "save"
    /\ request' = [request EXCEPT ![q] = "none"]
    /\ record' = [known |-> TRUE, failures |-> 0]
    /\ unseen' = FALSE
    /\ IF ~record.known THEN AddFeedServer("Launch")
       ELSE IF Failed(record) THEN AddFeedServer("Reconnect")
       ELSE UNCHANGED feed
    /\ UNCHANGED <<up, ticket, ping>>

RevokeTicket ==
    /\ ticket
    /\ ticket' = FALSE
    /\ record' = NoRecord
    /\ unseen' = FALSE
    /\ UNCHANGED <<up, ping, request, feed>>

-----------------------------------------------------------------------------
(* Variant: a server that has failed once is not asked again.              *)
PingStartHealthy(r) ==
    /\ ping[r] = "none"
    /\ record.known /\ record.failures = 0
    /\ ping' = [ping EXCEPT ![r] = "asked"]
    /\ UNCHANGED <<up, ticket, record, unseen, request, feed>>

(* The ticker starts a round, and nobody waits for it to end: the next     *)
(* ones begin while it still waits for other servers or for the lock.      *)
PingStart(r) ==
    /\ ping[r] = "none"
    /\ record.known /\ ~Failed(record)
    /\ ping' = [ping EXCEPT ![r] = "asked"]
    /\ UNCHANGED <<up, ticket, record, unseen, request, feed>>

Ping(r) ==
    /\ ping[r] = "asked"
    /\ ping' = [ping EXCEPT ![r] = IF up THEN "answered" ELSE "failed"]
    /\ UNCHANGED <<up, ticket, record, unseen, request, feed>>

(* The transaction at the end of a round finds whatever has become of the  *)
(* record: it may be gone, or have failed for good in another round.       *)
PingGone(r) ==
    /\ ping[r] \in {"answered", "failed"}
    /\ ~record.known
    /\ ping' = [ping EXCEPT ![r] = "none"]
    /\ UNCHANGED <<up, ticket, record, unseen, request, feed>>

PingFailed(r) ==
    /\ ping[r] = "failed"
    /\ record.known
    /\ ping' = [ping EXCEPT ![r] = "none"]
    /\ record' = [record EXCEPT !.failures = @ + 1]
    /\ IF Failed(record') THEN AddFeedServer("Disconnect") ELSE UNCHANGED feed
    /\ UNCHANGED <<up, ticket, unseen, request>>

PingAnswered(r) ==
    /\ ping[r] = "answered"
    /\ record.known
    /\ ping' = [ping EXCEPT ![r] = "none"]
    /\ record' = [record EXCEPT !.failures = 0]
    /\ unseen' = FALSE
    /\ IF Failed(record) THEN AddFeedServer("Reconnect") ELSE UNCHANGED feed
    /\ UNCHANGED <<up, ticket, request>>

PingDone(r) == PingGone(r) \/ PingFailed(r) \/ PingAnswered(r)

-----------------------------------------------------------------------------
(* The hourly cleaners of the ticket bucket and of the server bucket: each *)
(* asks the other bucket first.                                            *)
CleanTicket ==
    /\ ticket
    /\ record.known /\ unseen
    /\ ticket' = FALSE
    /\ UNCHANGED <<up, record, unseen, ping, request, feed>>

CleanServer ==
    /\ record.known /\ unseen
    /\ ticket
    /\ record' = NoRecord
    /\ unseen' = FALSE
    /\ UNCHANGED <<up, ticket, ping, request, feed>>

-----------------------------------------------------------------------------
RequestStep(q) == PingTest(q) \/ RegisterServer(q)

Next ==
    \/ Turn
    \/ FiveWeeks
    \/ \E q \in Requests : PostRegister(q) \/ RequestStep(q)
    \/ RevokeTicket
    \/ \E r \in PingRounds : PingStart(r) \/ Ping(r) \/ PingDone(r)
    \/ CleanTicket
    \/ CleanServer

(* Tickers tick, and what they start ends.                                 *)
Fairness ==
    /\ \A r \in PingRounds :
         WF_vars(PingStart(r)) /\ WF_vars(Ping(r)) /\ WF_vars(PingDone(r))
    /\ \A q \in Requests : WF_vars(RequestStep(q))
    /\ WF_vars(CleanTicket)
    /\ WF_vars(CleanServer)

Spec == Init /\ [][Next]_vars /\ Fairness

-----------------------------------------------------------------------------
(* The feed is true: as long as the ticket is valid, the last it says of a *)
(* server is that it is disconnected exactly if it has failed for good,    *)
(* however rounds of pings, registrations and cleaners overlap.  (That it  *)
(* is disconnected it may say more than once, for each round that finds    *)
(* so.)                                                                    *)
FeedIsTrue ==
    ticket /\ record.known => (feed = "Disconnect" <=> Failed(record))

IInv == TypeOK /\ FeedIsTrue

(* A server that has gone for good is found out, so that nobody is sent    *)
(* its way any more - unless its owner registers it over and over.         *)
DownIsNoticed ==
    <>[](~up) => <>[](record.known => Failed(record))

(* Tickets, and servers, "that have not been seen for a long time" are     *)
(* removed: both, unless the server comes back.                            *)
UnseenIsForgotten ==
    ticket /\ record.known /\ unseen ~>
        \/ ~ticket /\ ~record.known
        \/ record.known /\ ~unseen

=============================================================================
