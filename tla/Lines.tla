------------------------------- MODULE Lines -------------------------------
(***************************************************************************)
(* How GetSubscription fills in its answer: it counts the lines there may  *)
(* be, allocates them, and starts one goroutine per link, each with a line *)
(* of its own, since the name of a host may take long to resolve.  Which   *)
(* links work, and with which credentials, is Paths' business.             *)
(***************************************************************************)
EXTENDS Integers, SequencesExt

CONSTANTS
    Servers,            \* numbers: the order of their names
    Relays,             \* likewise
    HostsOf             \* the hosts of each, a sequence

ASSUME LinesAssumption ==
    /\ Servers \subseteq Int /\ IsFiniteSet(Servers)
    /\ Relays \subseteq Int /\ IsFiniteSet(Relays)
    /\ Servers \cap Relays = {}
    /\ \A s \in Servers \cup Relays : HostsOf[s] \in Seq(STRING)

VARIABLES
    ask,                \* what is asked for and what the database says
    linesPc,            \* "idle", "spawn", "served" or "refused"
    lines,              \* lines[0] is the alert
    loop,               \* links the loops have not come to yet
    cnt,                \* the next line to fill in
    goroutines          \* those that have not called wg.Done

linesVars == <<ask, linesPc, lines, loop, cnt, goroutines>>

Hosts == UNION {Range(HostsOf[s]) : s \in Servers \cup Relays}
Types == {"endpoint", "relay"}

Alert == [type |-> "alert"]
Empty == [type |-> "empty"]

(* A link to a server, through a relay or not, and whose host it has.      *)
Direct(svr, at) == [type |-> "endpoint", svr |-> svr, via |-> svr, at |-> at]
Via(relay, svr, at) == [type |-> "relay", svr |-> svr, via |-> relay, at |-> at]

HostOf(link) == HostsOf[link.via][link.at]

(* The types asked for, the servers that are neither disconnected nor      *)
(* without a ticket, and the hosts of the networks asked for.              *)
Asks ==
    {a \in [types : SUBSET Types \ {{}}, svrs : SUBSET Servers,
            relays : SUBSET Relays, noRelay : SUBSET Servers,
            valid : SUBSET Hosts] : a.noRelay \subseteq a.svrs}

NoAsk == [types |-> {}, svrs |-> {}, relays |-> {}, noRelay |-> {}, valid |-> {}]

LinesInit ==
    /\ ask = NoAsk
    /\ linesPc = "idle"
    /\ lines = <<>>
    /\ loop = {}
    /\ cnt = 1
    /\ goroutines = {}

-----------------------------------------------------------------------------
Relayed == ask.svrs \ ask.noRelay

(* The count, whatever types are asked for.                                *)
CountHosts(names) == FoldSet(LAMBDA s, n : n + Len(HostsOf[s]), 0, names)
MaxCnt == 1 + CountHosts(ask.svrs) + Cardinality(Relayed) * CountHosts(ask.relays)

(* What the two nests of loops come to.                                    *)
EndpointLoop ==
    UNION {{Direct(svr, at) : at \in DOMAIN HostsOf[svr]} : svr \in ask.svrs}

RelayLoop ==
    UNION {{Via(relay, svr, at) : svr \in Relayed, at \in DOMAIN HostsOf[relay]} :
            relay \in ask.relays}

Loops ==
    (IF "endpoint" \in ask.types THEN EndpointLoop ELSE {}) \cup
    (IF "relay" \in ask.types THEN RelayLoop ELSE {})

(* In the order of types, relays, servers, then as their hosts are listed. *)
Before(k, l) ==
    \/ k.type = "endpoint" /\ l.type = "relay"
    \/ /\ k.type = l.type
       /\ \/ k.via < l.via
          \/ k.via = l.via /\ k.svr < l.svr
          \/ k.via = l.via /\ k.svr = l.svr /\ k.at < l.at

Allocate(a) ==
    /\ linesPc = "idle"
    /\ ask' = a
    /\ linesPc' = "spawn"
    /\ lines' = [i \in 0..MaxCnt' - 1 |-> IF i = 0 THEN Alert ELSE Empty]
    /\ loop' = Loops'
    /\ cnt' = 1
    /\ UNCHANGED goroutines

(* An error looks like a server that is not there, in SIP008's format.     *)
SIP008Server(remarks) ==
    [type |-> "error", remarks |-> remarks, server |-> "127.0.0.1",
     password |-> "__SWEETLISA__"]

ResponseError(err) == [version |-> 1, servers |-> <<SIP008Server(err)>>]

(* A server's ticket gets no subscription.                                 *)
Refuse ==
    /\ linesPc = "idle"
    /\ linesPc' = "refused"
    /\ lines' = ResponseError("bad request").servers
    /\ UNCHANGED <<ask, loop, cnt, goroutines>>

Spawn(link) ==
    /\ linesPc = "spawn"
    /\ \A other \in loop \ {link} : Before(link, other)
    /\ loop' = loop \ {link}
    /\ goroutines' = goroutines \cup {[cnt |-> cnt, link |-> link]}
    /\ cnt' = cnt + 1
    /\ UNCHANGED <<ask, linesPc, lines>>

(* ValidNetwork.  Every protocol has a format: what GetUserArgument makes  *)
(* for one it does not know is for shadowsocks.                            *)
ValidHost(link) == HostOf(link) \in ask.valid

(* Variant: the count is the loop's, not the goroutine's.                  *)
RunLate(g) ==
    /\ lines' = IF ValidHost(g.link) THEN [lines EXCEPT ![cnt - 1] = g.link]
                                      ELSE lines
    /\ goroutines' = goroutines \ {g}
    /\ UNCHANGED <<ask, linesPc, loop, cnt>>

Run(g) ==
    /\ lines' = IF ValidHost(g.link) THEN [lines EXCEPT ![g.cnt] = g.link]
                                      ELSE lines
    /\ goroutines' = goroutines \ {g}
    /\ UNCHANGED <<ask, linesPc, loop, cnt>>

(* Lines that are not empty move up: each to the place that is the number  *)
(* of those not after it.                                                  *)
Remaining(all) ==
    LET full == {j \in DOMAIN all : all[j] # Empty}
        Place(j) == Cardinality({k \in full : k <= j})
    IN  [i \in 1..Cardinality(full) |-> all[CHOOSE j \in full : Place(j) = i]]

(* After wg.Wait.                                                          *)
Collect ==
    /\ linesPc = "spawn"
    /\ loop = {}
    /\ goroutines = {}
    /\ linesPc' = "served"
    /\ lines' = Remaining(lines)
    /\ UNCHANGED <<ask, loop, cnt, goroutines>>

Answered ==
    /\ linesPc \in {"served", "refused"}
    /\ ask' = NoAsk
    /\ linesPc' = "idle"
    /\ lines' = <<>>
    /\ cnt' = 1
    /\ UNCHANGED <<loop, goroutines>>

LinesNext ==
    \/ \E a \in Asks : Allocate(a)
    \/ Refuse
    \/ \E link \in loop : Spawn(link)
    \/ \E g \in goroutines : Run(g)
    \/ Collect
    \/ Answered

LinesSpec == LinesInit /\ [][LinesNext]_linesVars

-----------------------------------------------------------------------------
(* Every goroutine has a line of its own that exists and is still empty.   *)
SlotsAreOwn ==
    \A g \in goroutines :
        /\ g.cnt \in DOMAIN lines \ {0}
        /\ lines[g.cnt] = Empty
        /\ \A other \in goroutines : other.cnt = g.cnt => other = g

(* The links asked for.                                                    *)
Wanted ==
    LET Places == UNION {DOMAIN HostsOf[s] : s \in ask.svrs \cup ask.relays}
    IN  {link \in
            {Direct(s, at) : s \in ask.svrs, at \in Places} \cup
            {Via(r, s, at) : r \in ask.relays, s \in Relayed, at \in Places} :
                /\ link.type \in ask.types
                /\ link.at \in DOMAIN HostsOf[link.via]
                /\ HostOf(link) \in ask.valid}

(* The count made earlier agrees with the loops, for all flags, and in     *)
(* whatever order the goroutines end, the answer is the alert and every    *)
(* link asked for, once, in order.                                         *)
LinesAreComplete ==
    /\ SlotsAreOwn
    /\ linesPc = "served" =>
         /\ lines[1] = Alert
         /\ Range(Tail(lines)) = Wanted
         /\ \A i, j \in 2..Len(lines) : i < j => Before(lines[i], lines[j])

=============================================================================
