------------------------------ MODULE Records ------------------------------
(***************************************************************************)
(* The DNS records of servers that speak TLS.  PostRegister assigns one to *)
(* the first host, and meanwhile a goroutine waits for it, pings, and      *)
(* registers the server; RegisterServer removes the records of the host    *)
(* the server had before, in goroutines that nothing waits for.            *)
(*                                                                         *)
(* A server's first host is an IPv4 address, whose record is Sweet Lisa's, *)
(* an IPv6 address, which has none, or a name, whose record is not ours    *)
(* but may be in the same zone.                                            *)
(***************************************************************************)
EXTENDS Integers

CONSTANTS
    Addresses,          \* the IPv4 hosts
    OtherHosts,         \* IPv6 addresses and names: a subset of {"six", "name"}
    Arguments,          \* what InfoHash tells apart
    TLS,                \* the arguments of protocols with TLS
    NameserverName,     \* as configured, if at all
    SystemKnows,        \* hosts whose records the machine's own resolver gets
                        \* to see; another one asks public servers
    Applications        \* slots for registrations in flight: a bound

RecordsAssumption ==
    /\ TLS \subseteq Arguments
    /\ OtherHosts \subseteq {"six", "name"}
    /\ "" \notin Addresses
ASSUME RecordsAssumption

VARIABLES
    registered,         \* the server's record in the database
    apply,              \* registrations: the handler's and the goroutine's part
    dns,                \* the hosts that have a record (external)
    removing,           \* goroutines of RemoveRecords, by host
    stripped            \* history: hosts whose record RegisterServer has taken
                        \* away, or is taking away

recordsVars == <<registered, apply, dns, removing, stripped>>

FirstHosts == Addresses \cup OtherHosts
Unregistered == [known |-> FALSE]
Registrations == [known : {TRUE}, host : FirstHosts, arg : Arguments]
NotApplied == [pc |-> "none"]

RecordsTypeOK ==
    /\ registered \in {Unregistered} \cup Registrations
    /\ apply \in [Applications -> {NotApplied} \cup
         [pc : {"wait", "ping", "over"}, host : FirstHosts, arg : Arguments,
          assign : {"read", "create", "assigned", "failed", "none"}]]
    /\ dns \subseteq FirstHosts \ {"six"}
    /\ removing \subseteq dns
    /\ removing \subseteq stripped
    /\ stripped \subseteq FirstHosts

RecordsInit ==
    /\ registered = Unregistered
    /\ apply = [q \in Applications |-> NotApplied]
    /\ dns = OtherHosts \ {"six"}
    /\ removing = {}
    /\ stripped = {}

-----------------------------------------------------------------------------
(* The domain of a host, named for the host; an IPv6 address has none.     *)
HostToSNI(h) == IF h = "six" THEN "" ELSE h

(* What the system's resolver finds; what a public server, drawn at random,*)
(* does; and LookupHost, which asks the one, then the other.               *)
SystemResolver(domain) == {domain} \cap dns \cap SystemKnows
DefaultResolver(domain) == {domain} \cap dns

LookupHost(domain) ==
    IF SystemResolver(domain) # {} THEN SystemResolver(domain)
                                   ELSE DefaultResolver(domain)

(* A host of a registration is an address, or a name that resolves.        *)
HostValid(h) == h = "name" => SystemResolver(h) # {}

(* Cloudflare wants an active token.                                       *)
NewCloudflare == {"read", "failed"}
NewNameserver == IF NameserverName = "cloudflare" THEN NewCloudflare ELSE {"failed"}

(* Without a domain Assign fails, whatever the nameserver.                 *)
AssignSubDomain(h) == IF HostToSNI(h) = "" THEN {"failed"} ELSE NewNameserver

(* The handler checks the request, starts the goroutine, and assigns a     *)
(* record if a nameserver is configured and the host is an address.        *)
Apply(q, host, arg) ==
    /\ apply[q] = NotApplied
    /\ HostValid(host)
    /\ \E assign \in IF arg \notin TLS \/ host = "name" \/ NameserverName = ""
                     THEN {"none"} ELSE AssignSubDomain(host) :
         apply' = [apply EXCEPT ![q] =
           [pc |-> IF arg \in TLS THEN "wait" ELSE "ping",
            host |-> host, arg |-> arg, assign |-> assign]]
    /\ UNCHANGED <<registered, dns, removing, stripped>>

Becoming(q, assign) == apply' = [apply EXCEPT ![q].assign = assign]

(* Assign reads the records of the domain ...                              *)
AssignRead(q) ==
    /\ apply[q].pc # "none"
    /\ apply[q].assign = "read"
    /\ Becoming(q, IF apply[q].host \in dns THEN "assigned" ELSE "create")
    /\ UNCHANGED <<registered, dns, removing, stripped>>

(* Variant: a record is made of another name than is waited for.           *)
AssignElsewhere(q) ==
    /\ apply[q].pc # "none"
    /\ apply[q].assign = "create"
    /\ Becoming(q, "assigned")
    /\ UNCHANGED <<registered, dns, removing, stripped>>

(* ... and creates one if there was none; one made since is as good.       *)
AssignCreate(q) ==
    /\ apply[q].pc # "none"
    /\ apply[q].assign = "create"
    /\ Becoming(q, "assigned")
    /\ dns' = dns \cup {apply[q].host}
    /\ stripped' = IF apply[q].host \in dns THEN stripped
                                            ELSE stripped \ {apply[q].host}
    /\ UNCHANGED <<registered, removing>>

(* Each of its calls may fail; the handler says so in the log.             *)
AssignFail(q) ==
    /\ apply[q].pc # "none"
    /\ apply[q].assign \in {"read", "create"}
    /\ Becoming(q, "failed")
    /\ UNCHANGED <<registered, dns, removing, stripped>>

(* Variant: after a minute the goroutine goes on without a record.         *)
WaitAMinute(q) ==
    /\ apply[q].pc = "wait"
    /\ apply' = [apply EXCEPT ![q].pc = "ping"]
    /\ UNCHANGED <<registered, dns, removing, stripped>>

(* The goroutine looks up the domain every half second until it resolves.  *)
Wait(q) ==
    /\ apply[q].pc = "wait"
    /\ LookupHost(HostToSNI(apply[q].host)) # {}
    /\ apply' = [apply EXCEPT ![q].pc = "ping"]
    /\ UNCHANGED <<registered, dns, removing, stripped>>

PingRefused(q) ==
    /\ apply[q].pc = "ping"
    /\ apply' = [apply EXCEPT ![q].pc = "over"]
    /\ UNCHANGED <<registered, dns, removing, stripped>>

(* Variant: whatever the arguments.                                        *)
RemovesAlways(q) == registered.known

(* RegisterServer's removal: the arguments have changed, and the old ones  *)
(* had TLS, or the host has changed, too.                                  *)
Removes(q) ==
    /\ registered.known
    /\ registered.arg # apply[q].arg
    /\ registered.arg \in TLS \/ registered.host # apply[q].host

(* The records are listed and their removal started.                       *)
RemoveRecords(domain) ==
    /\ "read" \in NewNameserver
    /\ domain \in dns
    /\ removing' = removing \cup {domain}
    /\ stripped' = stripped \cup {domain}

(* A removal that fails is logged.                                         *)
PingAndRegister(q) ==
    /\ apply[q].pc = "ping"
    /\ registered' = [known |-> TRUE, host |-> apply[q].host, arg |-> apply[q].arg]
    /\ apply' = [apply EXCEPT ![q].pc = "over"]
    /\ \/ Removes(q) /\ RemoveRecords(HostToSNI(registered.host))
       \/ UNCHANGED <<removing, stripped>>
    /\ UNCHANGED dns

RemoveRecord(h) ==
    /\ h \in removing
    /\ removing' = removing \ {h}
    /\ \/ dns' = dns \ {h} /\ UNCHANGED stripped
       \/ stripped' = stripped \ {h} /\ UNCHANGED dns
    /\ UNCHANGED <<registered, apply>>

(* Handler and goroutine are over.                                         *)
Applied(q) ==
    /\ apply[q].pc = "over"
    /\ apply[q].assign \notin {"read", "create"}
    /\ apply' = [apply EXCEPT ![q] = NotApplied]
    /\ UNCHANGED <<registered, dns, removing, stripped>>

(* The program starts again: goroutines are gone, and those that wait for  *)
(* a record that never comes end in no other way.                          *)
Restart ==
    /\ apply' = [q \in Applications |-> NotApplied]
    /\ removing' = {}
    /\ stripped' = stripped \ removing
    /\ UNCHANGED <<registered, dns>>

Go(q) == Wait(q) \/ PingRefused(q) \/ PingAndRegister(q)

RecordsNext ==
    \/ \E q \in Applications :
         \/ \E host \in FirstHosts, arg \in Arguments : Apply(q, host, arg)
         \/ AssignRead(q) \/ AssignCreate(q) \/ AssignFail(q)
         \/ Go(q)
         \/ Applied(q)
    \/ \E h \in FirstHosts : RemoveRecord(h)
    \/ Restart

(* Goroutines run and calls end.                                           *)
RecordsFairness ==
    /\ \A q \in Applications :
         /\ WF_recordsVars(Go(q))
         /\ WF_recordsVars(AssignRead(q) \/ AssignCreate(q) \/ AssignFail(q))

RecordsSpec == RecordsInit /\ [][RecordsNext]_recordsVars /\ RecordsFairness

-----------------------------------------------------------------------------
(* A server that is registered with TLS has a DNS record: none is          *)
(* registered before its record exists, and none loses it but by           *)
(* RegisterServer's removal.                                               *)
RegisteredIsResolvable ==
    registered.known /\ registered.arg \in TLS =>
        registered.host \in dns \cup stripped

(* Re-registering with the same arguments takes no record away, nor does   *)
(* registering while records are made: only changes do.                    *)
OnlyChangesStrip ==
    [][\A h \in FirstHosts : h \in removing' \ removing =>
         /\ registered.arg # registered'.arg
         /\ registered.host = h]_recordsVars

(* A registration that has been given its record comes to an end, unless   *)
(* the record is taken away again.                                         *)
AssignedIsOver ==
    \A q \in Applications :
        apply[q].pc = "wait" /\ apply[q].assign = "assigned"
            ~> apply[q].pc # "wait" \/ apply[q].host \in stripped

=============================================================================
