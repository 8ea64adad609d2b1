------------------------------- MODULE Paths -------------------------------
(***************************************************************************)
(* Two sides of one chat that nothing but arithmetic on tickets holds      *)
(* together: the passages a server or relay accepts (GetPassagesByServer)  *)
(* and the links a subscription hands to a user (GetSubscription).  Each   *)
(* derives the credentials on its own, from the same tickets, at another   *)
(* time.                                                                   *)
(*                                                                         *)
(* Servers are taken to have the passages of the present state: when they  *)
(* get them is the matter of module Fleet.                                 *)
(***************************************************************************)
EXTENDS FiniteSets

CONSTANTS
    Users,          \* user tickets
    Servers,        \* tickets of endpoint servers
    Relays,         \* tickets of relays
    ChatOf,         \* ChatOf[x]: the chat a ticket was issued for
    Hosts,          \* addresses and domain names
    NetType,        \* ServerNetType: what kinds of address a host has
    Protocols,      \* the protocols in use
    Methods,        \* what a server may give as Argument.Method
    Passwords,      \* what a server may give as Argument.Password
    None            \* no ticket, no method, no way out

Nodes == Servers \cup Relays
Holders == Users \cup Relays        \* who may ask for a subscription
Tickets == Users \cup Nodes
Nets == {"4", "6"}
Types == {"endpoint", "relay"}

ASSUME PathsAssumption ==
    /\ Users \cap Nodes = {}
    /\ Servers \cap Relays = {}
    /\ None \notin Tickets \cup Methods
    /\ Tickets \cap Methods = {}
    /\ NetType \in [Hosts -> SUBSET Nets]
    /\ Protocols \subseteq {"shadowsocks", "vmess", "vmess+tls+grpc", "juicity"}

VARIABLES
    valid,          \* the tickets that are in the bucket and have not expired
    server,         \* the server bucket
    sub             \* a subscription somebody holds, who, and its links

vars == <<valid, server, sub>>

Argument == [protocol : Protocols, password : Passwords, method : Methods]

(* exhausted stands for BandwidthLimit.Exhausted() of module Bandwidth,    *)
(* alive for fewer than MaxFailureCount failures.                          *)
Record ==
    [known : BOOLEAN, alive : BOOLEAN, exhausted : BOOLEAN, noRelay : BOOLEAN,
     hosts : SUBSET Hosts, arg : Argument]

-----------------------------------------------------------------------------
(* Credentials.  A password is a digest (SHA-1, or a UUID of it) of two or *)
(* three tickets, all of one length; it is taken as those tickets.  So is  *)
(* the Username of Juicity, which says nothing more.                       *)

Digest(s, r, x) == [server |-> s, relay |-> r, user |-> x]

(* "serviceName=" and a digest of a ticket; what the server has chosen; a  *)
(* fixed cipher.                                                           *)
Method(arg, t) ==
    CASE arg.protocol = "shadowsocks" -> None
      [] arg.protocol \in {"vmess", "vmess+tls+grpc"} -> t
      [] arg.protocol = "juicity" -> arg.method

GetUserArgument(s, x, arg) ==
    [protocol |-> arg.protocol,
     password |-> Digest(s, None, x),
     method |-> Method(arg, s)]

(* Variant: whoever the user is, a server is one server to a relay.        *)
GetRelayUserArgumentShared(s, r, x, arg) ==
    [protocol |-> arg.protocol,
     password |-> Digest(s, r, None),
     method |-> Method(arg, r)]

GetRelayUserArgument(s, r, x, arg) ==
    [protocol |-> arg.protocol,
     password |-> Digest(s, r, x),
     method |-> Method(arg, r)]

-----------------------------------------------------------------------------
(* Passages.                                                               *)

Chatmates(t) == {x \in valid : ChatOf[x] = ChatOf[t]}

Usable(t) == server[t].known /\ server[t].alive /\ ~server[t].exhausted

(* user: for whom it is, which the code's Passage need not say - its       *)
(* argument alone tells.                                                   *)
Inbound(x, arg) ==
    [user |-> x, from |-> IF x \in Relays THEN x ELSE None, arg |-> arg,
     to |-> None, out |-> None]

(* Inbounds for users and for relays.                                      *)
ServerPassages(s) ==
    LET arg == server[s].arg
        users == Users \cap Chatmates(s)
        relays == IF server[s].noRelay THEN {}
                  ELSE {r \in Relays \cap Chatmates(s) : Usable(r)}
    IN  {Inbound(u, GetUserArgument(s, u, arg)) : u \in users}
        \cup {Inbound(r, GetUserArgument(s, r, arg)) : r \in relays}

(* Variant: the argument of the server at the end, not of the relay.       *)
RelayPassagesOfServer(r) ==
    LET users == Users \cap Chatmates(r)
        servers == {s \in Servers \cap Chatmates(r) :
                      Usable(s) /\ ~server[s].noRelay}
    IN  {[user |-> u, from |-> None,
          arg |-> GetRelayUserArgument(s, r, u, server[s].arg),
          to |-> s,
          out |-> GetUserArgument(s, r, server[s].arg)] :
            s \in servers, u \in users}

(* Inbounds for every user to every server, with the way out to it.        *)
RelayPassages(r) ==
    LET users == Users \cap Chatmates(r)
        servers == {s \in Servers \cap Chatmates(r) :
                      Usable(s) /\ ~server[s].noRelay}
    IN  {[user |-> u, from |-> None,
          arg |-> GetRelayUserArgument(s, r, u, server[r].arg),
          to |-> s,
          out |-> GetUserArgument(s, r, server[s].arg)] :
            s \in servers, u \in users}

(* Variant: exhausted or not.                                              *)
GetPassagesByServerAlways(t) ==
    IF t \notin valid \/ ~server[t].known
    THEN {}
    ELSE IF t \in Servers THEN ServerPassages(t) ELSE RelayPassages(t)

(* An exhausted relay keeps its passages; the servers do not let it in.    *)
GetPassagesByServer(t) ==
    IF \/ t \notin valid
       \/ ~server[t].known
       \/ t \in Servers /\ server[t].exhausted
    THEN {}
    ELSE IF t \in Servers THEN ServerPassages(t) ELSE RelayPassages(t)

-----------------------------------------------------------------------------
(* Subscriptions: links to the hosts that have an address of the kinds     *)
(* asked for.  Quotas only change their names.                             *)

ValidNetwork(t, nets) == {h \in server[t].hosts : NetType[h] \cap nets # {}}

(* In the chat of x, not disconnected.                                     *)
Listed(x, kind) ==
    {t \in kind \cap Chatmates(x) : server[t].known /\ server[t].alive}

Endpoints(x, nets) ==
    UNION {{[hop |-> s, to |-> s, host |-> h,
             arg |-> GetUserArgument(s, x, server[s].arg)] :
              h \in ValidNetwork(s, nets)} : s \in Listed(x, Servers)}

Relayed(x, nets) ==
    LET servers == {s \in Listed(x, Servers) : ~server[s].noRelay}
    IN  UNION {{[hop |-> r, to |-> s, host |-> h,
                 arg |-> GetRelayUserArgument(s, r, x, server[r].arg)] :
                  h \in ValidNetwork(r, nets)} :
                    r \in Listed(x, Relays), s \in servers}

Links(x, nets, types) ==
    (IF "endpoint" \in types THEN Endpoints(x, nets) ELSE {})
    \cup (IF "relay" \in types THEN Relayed(x, nets) ELSE {})

-----------------------------------------------------------------------------
Unknown(arg) ==
    [known |-> FALSE, alive |-> TRUE, exhausted |-> FALSE, noRelay |-> FALSE,
     hosts |-> {}, arg |-> arg]

Init ==
    /\ valid \in {Tickets}
    /\ \E arg \in Argument : server = [t \in Nodes |-> Unknown(arg)]
    /\ sub = [holder |-> None, links |-> {}]

(* The router looks at the ticket before it calls a handler.               *)
ValidTicket(x) == x \in valid

(* The parameters a server gives may all be new, and its own password is.  *)
RegisterServer(t, rec) ==
    /\ ValidTicket(t)
    /\ rec.known /\ rec.alive
    /\ rec.hosts # {}
    /\ server' = [server EXCEPT ![t] = rec]
    /\ UNCHANGED <<valid, sub>>

(* The last of MaxFailureCount pings has failed.                           *)
Disconnect(t) ==
    /\ server[t].known /\ server[t].alive
    /\ server' = [server EXCEPT ![t].alive = FALSE]
    /\ UNCHANGED <<valid, sub>>

(* A ping was answered: the limit is reached, or reset.                    *)
Account(t) ==
    /\ server[t].known /\ server[t].alive
    /\ server' = [server EXCEPT ![t].exhausted = ~@]
    /\ UNCHANGED <<valid, sub>>

(* Expiry of a user's ticket, or RevokeTicket of any.                      *)
RevokeTicket(x) ==
    /\ x \in valid
    /\ valid' = valid \ {x}
    /\ server' = [t \in Nodes |->
                    IF t = x THEN Unknown(server[t].arg) ELSE server[t]]
    /\ UNCHANGED sub

PostRenew(u) ==
    /\ u \notin valid
    /\ valid' = valid \cup {u}
    /\ UNCHANGED <<server, sub>>

GetSubscription(x, nets, types) ==
    /\ ValidTicket(x)
    /\ sub' = [holder |-> x, links |-> Links(x, nets, types)]
    /\ UNCHANGED <<valid, server>>

Next ==
    \/ \E t \in Nodes, rec \in Record : RegisterServer(t, rec)
    \/ \E t \in Nodes : Disconnect(t) \/ Account(t)
    \/ \E x \in Tickets : RevokeTicket(x)
    \/ \E u \in Users : PostRenew(u)
    \/ \E x \in Holders, nets \in SUBSET Nets \ {{}}, types \in SUBSET Types \ {{}} :
         GetSubscription(x, nets, types)

Spec == Init /\ [][Next]_vars

-----------------------------------------------------------------------------
Link == [hop : Nodes, to : Servers, host : Hosts,
         arg : [protocol : Protocols,
                password : [server : Servers, relay : Relays \cup {None},
                            user : Holders],
                method : Methods \cup Nodes \cup {None}]]

TypeOK ==
    /\ valid \subseteq Tickets
    /\ server \in [Nodes -> Record]
    /\ sub.holder \in Holders \cup {None}
    /\ sub.links \subseteq Link

(* The node at the first hop lets the holder of a link in and, if it is a  *)
(* relay, is itself let in where the link leads to.                        *)
Opens(link) ==
    \E p \in GetPassagesByServer(link.hop) :
        /\ p.arg = link.arg
        /\ link.hop \in Relays =>
             /\ p.to = link.to
             /\ \E q \in GetPassagesByServer(link.to) :
                    q.from = link.hop /\ q.arg = p.out

(* What a link says of its first hop is still so.                          *)
UpToDate(link) ==
    LET arg == server[link.hop].arg
    IN  arg.protocol = link.arg.protocol /\ Method(arg, link.hop) = link.arg.method

(* The links somebody holds were made from arguments a server once had.    *)
LinksAreMade ==
    \A link \in sub.links :
        /\ sub.holder \in Holders
        /\ link.to \in Servers
        /\ ChatOf[sub.holder] = ChatOf[link.hop]
        /\ ChatOf[sub.holder] = ChatOf[link.to]
        /\ \E arg \in Argument :
             \/ /\ link.hop = link.to
                /\ link.arg = GetUserArgument(link.to, sub.holder, arg)
             \/ /\ link.hop \in Relays
                /\ link.arg =
                     GetRelayUserArgument(link.to, link.hop, sub.holder, arg)

(* A user's subscription, however old, works as long as the servers and    *)
(* relays on the way can be used and speak the protocol they spoke then:   *)
(* neither a registration with a new password nor anything other tickets   *)
(* go through breaks it.                                                   *)
SubscriptionLasts ==
    \A link \in sub.links :
        LET way == {link.hop, link.to}
        IN  (/\ sub.holder \in Users
             /\ {sub.holder} \cup way \subseteq valid
             /\ \A t \in way : Usable(t)
             /\ link.hop \in Relays => ~server[link.to].noRelay
             /\ UpToDate(link)) => Opens(link)

(* ... and no longer than it should: not past the ticket of its holder,    *)
(* the limit of the server, or the server's wish to have no relay.         *)
AccessIsEntitled ==
    \A link \in sub.links : Opens(link) =>
        /\ sub.holder \in valid
        /\ ChatOf[sub.holder] = ChatOf[link.to]
        /\ ~server[link.to].exhausted
        /\ link.hop \in Relays => Usable(link.hop) /\ ~server[link.to].noRelay

(* A credential tells a server for whom it is and a relay, besides, where  *)
(* to: no two passages of a node share one.                                *)
CredentialsDiffer ==
    \A t \in Nodes : \A p, q \in GetPassagesByServer(t) : p.arg = q.arg => p = q

=============================================================================
