------------------------------- MODULE Links -------------------------------
(***************************************************************************)
(* What the links of a subscription say, each in the format of its         *)
(* protocol, and three that must agree on it without ever talking: the     *)
(* client that has a link, the server or relay it leads to, and Sweet      *)
(* Lisa's own managers.  Who may use a link is Paths' business; how links  *)
(* become lines, Lines'.                                                   *)
(*                                                                         *)
(* A text with separators is the sequence of its parts.  An                *)
(* Argument.Method has fields, and a field the parts between its "=";      *)
(* a certificate's hash in Base64 ends with an "=", or not.                *)
(***************************************************************************)
EXTENDS Integers, SequencesExt

CONSTANTS
    Server,             \* the ticket of a server
    RelayBefore,        \* that of a relay before it
    HostLists,          \* the hosts either may have, the first one first
    Ports,
    Passwords,          \* those a node may give Sweet Lisa
    Certificates        \* hashes of certificates, in parts

ASSUME LinksAssumption ==
    /\ Server # RelayBefore
    /\ HostLists \subseteq Seq(STRING) \ {<<>>}
    /\ Passwords \subseteq STRING
    /\ Certificates \subseteq Seq(STRING)

VARIABLES
    hop,                \* whose links these are: the server's or the relay's
    node,               \* its record, with its certificate
    held,               \* a link that somebody has
    given,              \* history: the record it was made from
    announced           \* history: its chat was told of a change since

linksVars == <<hop, node, held, given, announced>>

Protocols == {"shadowsocks", "vmess", "vmess+tls+grpc", "juicity"}
WithTLS == {"vmess+tls+grpc"}
Text(word) == <<word>>
NoText == <<>>
Unknown == [known |-> FALSE]
NoLink == [scheme |-> "none"]

-----------------------------------------------------------------------------
(* Helpers.                                                                *)

IsSix(host) == host = "::1"
IsName(host) == host = "example.org"

(* A name stands for itself, an IPv4 address becomes a name of its own.    *)
DomainOf(host) ==
    IF IsSix(host) THEN NoText
    ELSE IF IsName(host) THEN Text(host) ELSE <<host, "rootDomain">>

(* The value of the first field with that key, whatever it contains.       *)
SimplyGetParam(source, key) ==
    LET fields == {i \in DOMAIN source : Len(source[i]) > 1 /\ source[i][1] = key}
    IN  IF fields = {} THEN NoText ELSE Tail(source[Min(fields)])

(* A query has no empty values.                                            *)
SetValue(values, key, value) ==
    IF value = NoText THEN values ELSE values \cup {<<key, value>>}

QueryOf(values, key) ==
    LET pairs == {pair \in values : pair[1] = key}
    IN  IF pairs = {} THEN NoText ELSE (CHOOSE pair \in pairs : TRUE)[2]

(* The salted digest of some tickets, cut and grouped as a UUID.           *)
StringToUUID5(str) == <<"uuid", str>>

(* A digest of an argument but for its password, which is Sweet Lisa's and *)
(* mutable: of texts that nothing separates.                               *)
InfoHash(arg) == <<arg.protocol>> \o arg.username \o FlattenSeq(arg.method)

GetFirstHost(hosts) == Head(hosts)

-----------------------------------------------------------------------------
(* A node tells of itself.  It serves gRPC under the name it gives, and,   *)
(* with juicity, shows a certificate whose hash it gives.                  *)
OwnMethod(protocol, cert) ==
    CASE protocol = "juicity" ->
           << <<"congestion", "bbr">>, <<"pinned_certchain_sha256">> \o cert >>
      [] protocol \in {"vmess", "vmess+tls+grpc"} ->
           << <<"serviceName", "own">> >>
      [] OTHER -> <<Text("chacha20")>>

NodeRecord(protocol, hosts, port, password, cert) ==
    [known |-> TRUE, hosts |-> hosts, port |-> port, cert |-> cert,
     arg |-> [protocol |-> protocol, username |-> Text("own"),
              password |-> Text(password), method |-> OwnMethod(protocol, cert)]]

NodeRecords ==
    {NodeRecord("juicity", hosts, port, password, cert) :
        hosts \in HostLists, port \in Ports, password \in Passwords,
        cert \in Certificates} \cup
    {NodeRecord(protocol, hosts, port, password, NoText) :
        protocol \in Protocols \ {"juicity"}, hosts \in HostLists, port \in Ports,
        password \in Passwords}

(* What GetUserArgument, or GetRelayUserArgument, makes of the ticket that *)
(* asks, and those on its way; GetPassagesByServer does the same.          *)
UserArgument(arg) ==
    LET way == IF hop = Server THEN <<Server>> ELSE <<Server, hop>>
    IN  CASE arg.protocol = "shadowsocks" ->
               [protocol |-> arg.protocol, username |-> NoText,
                password |-> <<"base62", way>>, method |-> <<Text("chacha20")>>]
          [] arg.protocol = "juicity" ->
               [protocol |-> arg.protocol, username |-> StringToUUID5(<<"|uuid|", way>>),
                password |-> StringToUUID5(<<":", way>>), method |-> arg.method]
          [] OTHER ->
               [protocol |-> arg.protocol, username |-> NoText,
                password |-> StringToUUID5(<<":", way>>),
                method |-> << <<"serviceName", hop>> >>]

-----------------------------------------------------------------------------
(* The formats.                                                            *)

SIP002(host) ==
    LET arg == UserArgument(node.arg)
    IN  [scheme |-> "ss", user |-> <<arg.method, arg.password>>,
         host |-> host, port |-> node.port]

V2RayN(host) ==
    LET arg == UserArgument(node.arg)
    IN  [scheme |-> "vmess", add |-> host, port |-> node.port,
         id |-> arg.password, net |-> "tcp", tls |-> FALSE, sni |-> NoText,
         path |-> NoText]

(* Variant: each host has a name of its own.                               *)
V2RayNTLSOfHost(host) ==
    [V2RayN(host) EXCEPT
        !.net = "grpc", !.tls = TRUE, !.sni = DomainOf(host),
        !.path = SimplyGetParam(UserArgument(node.arg).method, "serviceName")]

(* With TLS, the name is that of the first host, whatever the host.        *)
V2RayNTLS(host) ==
    [V2RayN(host) EXCEPT
        !.net = "grpc", !.tls = TRUE, !.sni = DomainOf(node.hosts[1]),
        !.path = SimplyGetParam(UserArgument(node.arg).method, "serviceName")]

Juicity(host) ==
    LET arg == UserArgument(node.arg)
        sni == SetValue({}, "sni", Text("JuicityDomain"))
        cc == SetValue(sni, "congestion_control", Text("bbr"))
    IN  [scheme |-> "juicity", user |-> <<arg.username, arg.password>>,
         host |-> host, port |-> node.port,
         query |-> SetValue(cc, "pinned_certchain_sha256",
                     SimplyGetParam(node.arg.method, "pinned_certchain_sha256"))]

Link(host) ==
    CASE node.arg.protocol = "shadowsocks" -> SIP002(host)
      [] node.arg.protocol = "vmess" -> V2RayN(host)
      [] node.arg.protocol = "vmess+tls+grpc" -> V2RayNTLS(host)
      [] node.arg.protocol = "juicity" -> Juicity(host)

-----------------------------------------------------------------------------
(* A call: where to, and what is said and asked for there.                 *)
Dials(protocol, host, port, user, sni, service, pin) ==
    [protocol |-> protocol, host |-> host, port |-> port, user |-> user,
     sni |-> sni, service |-> service, pin |-> pin]

(* A client reads a link.                                                  *)
ClientDials(l) ==
    CASE l.scheme = "ss" ->
           Dials("shadowsocks", l.host, l.port, l.user, NoText, NoText, NoText)
      [] l.scheme = "vmess" ->
           Dials(IF l.tls THEN "vmess+tls+grpc" ELSE "vmess", l.add, l.port,
                 <<l.id>>, l.sni, l.path, NoText)
      [] l.scheme = "juicity" ->
           Dials("juicity", l.host, l.port, l.user, QueryOf(l.query, "sni"), NoText,
                 QueryOf(l.query, "pinned_certchain_sha256"))

(* What a user with that argument says, to be told from others.            *)
Credentials(arg) ==
    CASE arg.protocol = "shadowsocks" -> <<arg.method, arg.password>>
      [] arg.protocol = "juicity" -> <<arg.username, arg.password>>
      [] OTHER -> <<arg.password>>

(* A manager dials the first host, with the node's own argument.           *)
ManagerDials ==
    LET arg == node.arg
        host == GetFirstHost(node.hosts)
    IN  Dials(arg.protocol, host, node.port, Credentials(arg),
          CASE arg.protocol = "vmess+tls+grpc" -> DomainOf(host)
            [] arg.protocol = "juicity" -> Text("JuicityDomain")
            [] OTHER -> NoText,
          IF arg.protocol = "vmess+tls+grpc"
            THEN SimplyGetParam(arg.method, "serviceName") ELSE NoText,
          IF arg.protocol = "juicity"
            THEN SimplyGetParam(arg.method, "pinned_certchain_sha256") ELSE NoText)

(* What the users of a node have to say, by the passages it was given, and *)
(* what it has told Sweet Lisa to say.                                     *)
PassageUser == Credentials(UserArgument(node.arg))
OwnUser == Credentials(node.arg)

(* A node's side of it: its certificate under TLS is that of the name that *)
(* has the DNS record, and its service is the user's.                      *)
Accepts(call) ==
    LET protocol == node.arg.protocol
    IN  /\ call.protocol = protocol
        /\ call.host \in Range(node.hosts) /\ call.port = node.port
        /\ call.user \in {PassageUser, OwnUser}
        /\ protocol = "vmess+tls+grpc" =>
             /\ call.sni = DomainOf(Head(node.hosts))
             /\ call.service = Text(IF call.user = OwnUser THEN "own" ELSE hop)
        /\ protocol = "juicity" => call.pin = node.cert

-----------------------------------------------------------------------------
LinksInit ==
    /\ hop \in {Server, RelayBefore}
    /\ node = Unknown
    /\ held = NoLink
    /\ given = Unknown
    /\ announced = FALSE

(* The node is registered, for the first time or anew: what InfoHash tells *)
(* from what it was goes into the feed.  With TLS, its first host has a    *)
(* name, as PostRegister waits for the record of that name.                *)
RegisterNode(rec) ==
    /\ rec.arg.protocol \in WithTLS => DomainOf(Head(rec.hosts)) # NoText
    /\ node' = rec
    /\ announced' = \/ announced
                    \/ held # NoLink /\ InfoHash(node.arg) # InfoHash(rec.arg)
    /\ UNCHANGED <<hop, held, given>>

GetSubscription(host) ==
    /\ node.known
    /\ host \in Range(node.hosts)
    /\ held' = Link(host)
    /\ given' = node
    /\ announced' = FALSE
    /\ UNCHANGED <<hop, node>>

LinksNext ==
    \/ \E rec \in NodeRecords : RegisterNode(rec)
    \/ \E host \in UNION {Range(hosts) : hosts \in HostLists} : GetSubscription(host)

LinksSpec == LinksInit /\ [][LinksNext]_linksVars

-----------------------------------------------------------------------------
(* Sweet Lisa's managers get through to whatever has been registered.      *)
ManagerGetsThrough == node.known => Accepts(ManagerDials)

(* And so does who has a link, until the feed tells of a change, or the    *)
(* node moves to another port, gives up the host of the link or has        *)
(* another one first: what the client goes by is in the link, and what     *)
(* InfoHash leaves out does not matter to it.                              *)
LinkLasts ==
    /\ ManagerGetsThrough
    /\ held # NoLink /\ ~announced =>
         LET call == ClientDials(held)
         IN  (/\ node.port = given.port
              /\ call.host \in Range(node.hosts)
              /\ Head(node.hosts) = Head(given.hosts)) => Accepts(call)

=============================================================================
