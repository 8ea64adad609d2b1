---------------------------- MODULE MemberProofs ----------------------------
(***************************************************************************)
(* Proofs about what a member of a chat meets: the lines of a subscription *)
(* (module Lines) and its links (Links), the feed (Feed) and the codes     *)
(* that verify who may have a ticket (Verification).  They hold for any    *)
(* nodes and hosts, ports, certificates, rounds, codes, chats and requests *)
(* in flight.                                                              *)
(***************************************************************************)
EXTENDS Verification, Lines, Links, Feed, FiniteSetTheorems,
        WellFoundedInduction, SequenceTheorems, TLAPS

-----------------------------------------------------------------------------
(* Induction on finite sets: among bad subsets, there is a smallest one.   *)
LEMMA SmallestSubset ==
    ASSUME NEW S, IsFiniteSet(S), NEW Bad, Bad \subseteq SUBSET S, Bad # {}
    PROVE  \E s \in Bad : \A t \in SUBSET s : t # s => t \notin Bad
<1>1. IsWellFoundedOn(StrictSubsetOrdering(S), FiniteSubsetsOf(S))
  BY FS_StrictSubsetOrderingWellFounded
<1>2. Bad \subseteq FiniteSubsetsOf(S)
  BY FS_FiniteSubsetsOfFinite
<1>3. PICK s \in Bad : \A t \in Bad : ~(<<t, s>> \in StrictSubsetOrdering(S))
  BY <1>1, <1>2, WFMin
<1>4. \A t \in SUBSET s : t # s => t \notin Bad
  BY <1>3 DEF StrictSubsetOrdering
<1> QED
  BY <1>4

-----------------------------------------------------------------------------
(* Links.  What looking up an argument finds.                              *)
LEMMA ServiceOf ==
    ASSUME NEW x
    PROVE  SimplyGetParam(<< <<"serviceName", x>> >>, "serviceName") = <<x>>
<1> DEFINE source == << <<"serviceName", x>> >>
           fields == {i \in DOMAIN source :
                        Len(source[i]) > 1 /\ source[i][1] = "serviceName"}
<1>1. fields = {1}
  OBVIOUS
<1>2. Min(fields) = 1
  BY <1>1 DEF Min
<1>3. Tail(source[1]) = <<x>>
  OBVIOUS
<1> QED
  BY <1>1, <1>2, <1>3 DEF SimplyGetParam

LEMMA PinOf ==
    ASSUME NEW cert \in Seq(STRING)
    PROVE  SimplyGetParam(OwnMethod("juicity", cert), "pinned_certchain_sha256")
               = cert
<1> DEFINE pin == <<"pinned_certchain_sha256">> \o cert
           source == << <<"congestion", "bbr">>, pin >>
           fields == {i \in DOMAIN source :
                        /\ Len(source[i]) > 1
                        /\ source[i][1] = "pinned_certchain_sha256"}
<1>1. OwnMethod("juicity", cert) = source
  BY DEF OwnMethod
<1>2. /\ Len(pin) = 1 + Len(cert) /\ pin[1] = "pinned_certchain_sha256"
      /\ Len(cert) \in Nat /\ (Len(cert) = 0 <=> cert = <<>>)
  OBVIOUS
<1>3. Tail(pin) = cert
  OBVIOUS
<1> HIDE DEF pin
<1>4. DOMAIN source = {1, 2} /\ source[1] = <<"congestion", "bbr">> /\ source[2] = pin
  OBVIOUS
<1> HIDE DEF source
<1>5. fields = IF cert = <<>> THEN {} ELSE {2}
  BY <1>2, <1>4
<1>6. cert # <<>> => Min(fields) = 2
  BY <1>5 DEF Min
<1> QED
  BY <1>1, <1>3, <1>4, <1>5, <1>6 DEF SimplyGetParam, NoText

(* Texts of one part or two.                                               *)
LEMMA FlattenOne ==
    ASSUME NEW a
    PROVE  FlattenSeq(<<a>>) = a
<1> DEFINE seqs == <<a>>
<1>1. Len(seqs) = 1 /\ seqs[1] = a
  OBVIOUS
<1> QED
  BY <1>1 DEF FlattenSeq

LEMMA FlattenTwo ==
    ASSUME NEW a, NEW b
    PROVE  FlattenSeq(<<a, b>>) = a \o b
<1> DEFINE seqs == <<a, b>>
           IsFlatten(f) == f = [i \in 1..Len(seqs) |->
                                  IF i = 1 THEN seqs[i] ELSE f[i - 1] \o seqs[i]]
           both == [i \in 1..2 |-> IF i = 1 THEN a ELSE a \o b]
           flatten == CHOOSE f : IsFlatten(f)
<1>1. Len(seqs) = 2 /\ seqs[1] = a /\ seqs[2] = b
  OBVIOUS
<1> HIDE DEF seqs
<1>2. IsFlatten(both)
  BY <1>1
<1>3. IsFlatten(flatten)
  BY <1>2
<1> HIDE DEF flatten
<1>4. flatten[1] = a
  BY <1>1, <1>3
<1>5. flatten[2] = a \o b
  <2>1. 2 \in 1..Len(seqs) /\ 2 # 1 /\ 2 - 1 = 1
    BY <1>1
  <2>2. flatten[2] = flatten[2 - 1] \o seqs[2]
    BY <1>3, <2>1, Zenon
  <2> QED
    BY <1>1, <1>4, <2>1, <2>2, Zenon
<1>6. FlattenSeq(seqs) = flatten[Len(seqs)]
  BY <1>1 DEF FlattenSeq, flatten
<1> QED
  BY <1>1, <1>5, <1>6 DEF seqs

LEMMA NodeFields ==
    ASSUME NEW rec \in NodeRecords
    PROVE  /\ rec.known
           /\ rec.hosts \in Seq(STRING) /\ Len(rec.hosts) \in Nat \ {0}
           /\ rec.arg.protocol \in Protocols
           /\ rec.arg.username = Text("own")
           /\ \E password \in STRING : rec.arg.password = Text(password)
           /\ rec.arg.method = OwnMethod(rec.arg.protocol, rec.cert)
           /\ rec.cert \in Seq(STRING)
           /\ rec.arg.protocol # "juicity" => rec.cert = NoText
<1>1. PICK protocol \in Protocols, hosts \in HostLists, port \in Ports,
           password \in Passwords, cert \in Certificates \cup {NoText} :
        /\ rec = NodeRecord(protocol, hosts, port, password, cert)
        /\ protocol # "juicity" => cert = NoText
  BY DEF NodeRecords, Protocols
<1>2. hosts \in Seq(STRING) /\ Len(hosts) \in Nat \ {0}
  BY LinksAssumption
<1>3. cert \in Seq(STRING)
  <2>1. NoText \in Seq(STRING)
    BY DEF NoText
  <2> QED
    BY <2>1, LinksAssumption, Zenon
<1>4. password \in STRING
  BY LinksAssumption, Zenon
<1> QED
  BY <1>1, <1>2, <1>3, <1>4 DEF NodeRecord

(* What InfoHash goes through for juicity, by its places.                  *)
JuicityParts(protocol, cert) ==
    (<<protocol>> \o <<"own">>) \o
        (<<"congestion", "bbr">> \o (<<"pinned_certchain_sha256">> \o cert))

LEMMA JuicityHash ==
    ASSUME NEW p, NEW t \in Seq(STRING)
    PROVE  /\ JuicityParts(p, t)[1] = p
           /\ Len(JuicityParts(p, t)) = 5 + Len(t)
           /\ \A i \in 1..Len(t) : JuicityParts(p, t)[i + 5] = t[i]
<1> DEFINE o == "own"
           c == "congestion"
           d == "bbr"
           e == "pinned_certchain_sha256"
           Parts == STRING \cup {p, o, c, d, e}
           one == <<e>> \o t
           three == <<c, d>> \o one
           all == (<<p>> \o <<o>>) \o three
<1>1. t \in Seq(Parts) /\ Len(t) \in Nat
  OBVIOUS
<1>2. p \in Parts /\ o \in Parts /\ c \in Parts /\ d \in Parts /\ e \in Parts
  OBVIOUS
<1> HIDE DEF Parts
<1>3. /\ one \in Seq(Parts) /\ Len(one) = 1 + Len(t)
      /\ \A i \in 1..Len(t) : one[i + 1] = t[i]
  BY <1>1, <1>2
<1> HIDE DEF one
<1>4. /\ three \in Seq(Parts) /\ Len(three) = 2 + Len(one)
      /\ \A i \in 1..Len(one) : three[i + 2] = one[i]
  BY <1>2, <1>3
<1> HIDE DEF three
<1>5. /\ Len(all) = 2 + Len(three) /\ all[1] = p
      /\ \A i \in 1..Len(three) : all[i + 2] = three[i]
  BY <1>1, <1>2, <1>3, <1>4
<1> HIDE DEF all
<1>6. ASSUME NEW i \in 1..Len(t) PROVE all[i + 5] = t[i]
  <2>1. /\ i + 1 \in 1..Len(one) /\ i + 3 \in 1..Len(three)
        /\ (i + 1) + 2 = i + 3 /\ (i + 3) + 2 = i + 5
    BY <1>1, <1>3, <1>4
  <2>2. all[(i + 3) + 2] = three[i + 3] /\ three[(i + 1) + 2] = one[i + 1]
    BY <1>4, <1>5, <2>1
  <2> QED
    BY <1>3, <2>1, <2>2
<1> QED
  BY <1>1, <1>3, <1>4, <1>5, <1>6 DEF JuicityParts, all, three, one, o, c, d, e

(* What InfoHash goes through begins with the protocol and, with juicity,  *)
(* ends with the certificate.                                              *)
LEMMA HashParts ==
    ASSUME NEW rec \in NodeRecords
    PROVE  LET hash == InfoHash(rec.arg)
           IN  /\ hash[1] = rec.arg.protocol
               /\ rec.arg.protocol = "juicity" =>
                    /\ Len(hash) = 5 + Len(rec.cert)
                    /\ \A i \in 1..Len(rec.cert) : hash[i + 5] = rec.cert[i]
<1> DEFINE hash == InfoHash(rec.arg)
           front == <<rec.arg.protocol>> \o <<"own">>
           method == FlattenSeq(rec.arg.method)
<1>1. /\ hash = front \o method
      /\ rec.arg.method = OwnMethod(rec.arg.protocol, rec.cert)
      /\ rec.cert \in Seq(STRING) /\ rec.arg.protocol \in Protocols
  BY NodeFields DEF InfoHash, Text
<1>2. CASE rec.arg.protocol = "juicity"
  <2>1. method = <<"congestion", "bbr">> \o (<<"pinned_certchain_sha256">> \o rec.cert)
    BY <1>1, <1>2, FlattenTwo DEF OwnMethod
  <2>2. hash = JuicityParts(rec.arg.protocol, rec.cert)
    BY <1>1, <2>1 DEF JuicityParts
  <2>3. rec.cert \in Seq(STRING)
    BY <1>1
  <2>4. /\ JuicityParts(rec.arg.protocol, rec.cert)[1] = rec.arg.protocol
        /\ Len(JuicityParts(rec.arg.protocol, rec.cert)) = 5 + Len(rec.cert)
        /\ \A i \in 1..Len(rec.cert) :
             JuicityParts(rec.arg.protocol, rec.cert)[i + 5] = rec.cert[i]
    BY <2>3, JuicityHash
  <2> QED
    BY <2>2, <2>4
<1>3. CASE rec.arg.protocol \in {"vmess", "vmess+tls+grpc"}
  <2>1. method = <<"serviceName", "own">>
    BY <1>1, <1>3, FlattenOne DEF OwnMethod
  <2> QED
    BY <1>1, <1>3, <2>1
<1>4. CASE rec.arg.protocol = "shadowsocks"
  <2>1. method = <<"chacha20">>
    BY <1>1, <1>4, FlattenOne DEF OwnMethod, Text
  <2> QED
    BY <1>1, <1>4, <2>1
<1> QED
  BY <1>1, <1>2, <1>3, <1>4 DEF Protocols

(* So the feed is told of another protocol, and of another certificate.    *)
LEMMA HashTells ==
    ASSUME NEW rec \in NodeRecords, NEW old \in NodeRecords,
           InfoHash(rec.arg) = InfoHash(old.arg)
    PROVE  rec.arg.protocol = old.arg.protocol /\ rec.cert = old.cert
<1>1. rec.arg.protocol = old.arg.protocol
  BY HashParts
<1>2. /\ rec.cert \in Seq(STRING) /\ old.cert \in Seq(STRING)
      /\ Len(rec.cert) \in Nat /\ Len(old.cert) \in Nat
      /\ rec.arg.protocol # "juicity" => rec.cert = NoText
      /\ old.arg.protocol # "juicity" => old.cert = NoText
  BY NodeFields
<1>3. CASE rec.arg.protocol = "juicity"
  <2>1. Len(rec.cert) = Len(old.cert)
    BY <1>1, <1>2, <1>3, HashParts
  <2>2. \A i \in 1..Len(rec.cert) : rec.cert[i] = old.cert[i]
    BY <1>1, <1>3, <2>1, HashParts
  <2>3. rec.cert = old.cert
    BY <1>2, <2>1, <2>2, SeqEqual
  <2> QED
    BY <1>1, <2>3
<1> QED
  BY <1>1, <1>2, <1>3

(* How the users of a node are told apart, and the call each link leads    *)
(* to: by the record it was made from.                                     *)
UserOf(protocol) ==
    LET way == IF hop = Server THEN <<Server>> ELSE <<Server, hop>>
    IN  CASE protocol = "shadowsocks" -> << <<Text("chacha20")>>, <<"base62", way>> >>
          [] protocol = "juicity" ->
               << StringToUUID5(<<"|uuid|", way>>), StringToUUID5(<<":", way>>) >>
          [] OTHER -> << StringToUUID5(<<":", way>>) >>

CallOf(rec, host) ==
    Dials(rec.arg.protocol, host, rec.port, UserOf(rec.arg.protocol),
          CASE rec.arg.protocol = "vmess+tls+grpc" -> DomainOf(rec.hosts[1])
            [] rec.arg.protocol = "juicity" -> Text("JuicityDomain")
            [] OTHER -> NoText,
          IF rec.arg.protocol = "vmess+tls+grpc" THEN Text(hop) ELSE NoText,
          rec.cert)

LinksInv ==
    /\ node = Unknown \/ node \in NodeRecords
    /\ held # NoLink =>
         /\ node \in NodeRecords /\ given \in NodeRecords
         /\ \E host \in Range(given.hosts) : ClientDials(held) = CallOf(given, host)
         /\ ~announced => InfoHash(node.arg) = InfoHash(given.arg)

LEMMA OnePair ==
    ASSUME NEW values, NEW key, NEW x,
           {pair \in values : pair[1] = key} = {<<key, x>>}
    PROVE  QueryOf(values, key) = x
<1> DEFINE pairs == {pair \in values : pair[1] = key}
           found == CHOOSE pair \in pairs : TRUE
<1>1. pairs # {} /\ \A pair \in pairs : pair = <<key, x>>
  OBVIOUS
<1>2. found \in pairs
  BY <1>1
<1>3. found = <<key, x>>
  BY <1>1, <1>2
<1>4. QueryOf(values, key) = found[2]
  BY <1>1 DEF QueryOf
<1> HIDE DEF found
<1> QED
  BY <1>3, <1>4

(* The pin of a certificate gets through the query, and its absence too.   *)
LEMMA QueryPin ==
    ASSUME NEW cert
    PROVE  LET sni == SetValue({}, "sni", Text("JuicityDomain"))
               cc == SetValue(sni, "congestion_control", Text("bbr"))
               query == SetValue(cc, "pinned_certchain_sha256", cert)
           IN  /\ QueryOf(query, "sni") = Text("JuicityDomain")
               /\ QueryOf(query, "pinned_certchain_sha256") = cert
<1> DEFINE sni == {<<"sni", Text("JuicityDomain")>>}
           cc == sni \cup {<<"congestion_control", Text("bbr")>>}
           pin == <<"pinned_certchain_sha256", cert>>
           query == SetValue(cc, "pinned_certchain_sha256", cert)
<1>1. SetValue({}, "sni", Text("JuicityDomain")) = sni
  BY DEF SetValue, Text, NoText
<1>2. SetValue(sni, "congestion_control", Text("bbr")) = cc
  BY DEF SetValue, Text, NoText
<1>3. query = IF cert = NoText THEN cc ELSE cc \cup {pin}
  BY DEF SetValue
<1>4. {pair \in query : pair[1] = "sni"} = sni
  BY <1>3
<1>5. {pair \in query : pair[1] = "pinned_certchain_sha256"} =
        IF cert = NoText THEN {} ELSE {pin}
  BY <1>3
<1>6. QueryOf(query, "sni") = Text("JuicityDomain")
  BY <1>4, OnePair
<1>7. QueryOf(query, "pinned_certchain_sha256") = cert
  <2>1. CASE cert = NoText
    BY <1>5, <2>1 DEF QueryOf
  <2>2. CASE cert # NoText
    BY <1>5, <2>2, OnePair
  <2> QED
    BY <2>1, <2>2
<1> QED
  BY <1>1, <1>2, <1>6, <1>7

(* What users say to a node is what it was told of its passages.           *)
LEMMA UsersAreTold ==
    ASSUME node \in NodeRecords
    PROVE  PassageUser = UserOf(node.arg.protocol) /\ UserOf(node.arg.protocol) # OwnUser
<1>1. node.arg.protocol \in Protocols
  BY NodeFields
<1>2. PassageUser = UserOf(node.arg.protocol)
  BY <1>1 DEF PassageUser, Credentials, UserOf, UserArgument, Protocols
<1>3. UserOf(node.arg.protocol) # OwnUser
  <2>1. PICK password \in STRING : node.arg.password = Text(password)
    BY NodeFields
  <2>2. node.arg.username = Text("own")
    BY NodeFields
  <2> QED
    BY <1>1, <2>1, <2>2
       DEF UserOf, OwnUser, Credentials, Protocols, StringToUUID5, Text
<1> QED
  BY <1>2, <1>3

(* A client that reads a link makes the call the record has for its host.  *)
LEMMA LinkCalls ==
    ASSUME node \in NodeRecords, NEW host
    PROVE  Link(host) # NoLink /\ ClientDials(Link(host)) = CallOf(node, host)
<1>1. /\ node.arg.protocol \in Protocols /\ node.cert \in Seq(STRING)
      /\ node.arg.method = OwnMethod(node.arg.protocol, node.cert)
      /\ node.arg.protocol # "juicity" => node.cert = NoText
  BY NodeFields
<1>2. CASE node.arg.protocol = "shadowsocks"
  BY <1>1, <1>2 DEF Link, SIP002, ClientDials, CallOf, UserOf, UserArgument, NoLink
<1>3. CASE node.arg.protocol = "vmess"
  BY <1>1, <1>3 DEF Link, V2RayN, ClientDials, CallOf, UserOf, UserArgument, NoLink
<1>4. CASE node.arg.protocol = "vmess+tls+grpc"
  <2>1. SimplyGetParam(UserArgument(node.arg).method, "serviceName") = Text(hop)
    BY <1>4, ServiceOf DEF UserArgument, Text
  <2>2. Link(host) = V2RayNTLS(host)
    BY <1>4 DEF Link
  <2> QED
    BY <1>1, <1>4, <2>1, <2>2
       DEF V2RayNTLS, V2RayN, ClientDials, CallOf, UserOf, UserArgument, NoLink
<1>5. CASE node.arg.protocol = "juicity"
  <2>1. SimplyGetParam(node.arg.method, "pinned_certchain_sha256") = node.cert
    BY <1>1, <1>5, PinOf
  <2>2. Link(host) = Juicity(host)
    BY <1>5 DEF Link
  <2>3. /\ Juicity(host).scheme = "juicity" /\ Juicity(host).host = host
        /\ Juicity(host).port = node.port
        /\ Juicity(host).user = UserOf("juicity")
    BY <1>5 DEF Juicity, UserOf, UserArgument
  <2>4. /\ QueryOf(Juicity(host).query, "sni") = Text("JuicityDomain")
        /\ QueryOf(Juicity(host).query, "pinned_certchain_sha256") = node.cert
    BY <2>1, QueryPin DEF Juicity
  <2> HIDE DEF Juicity
  <2> QED
    BY <1>5, <2>2, <2>3, <2>4 DEF ClientDials, CallOf, NoLink
<1> QED
  BY <1>1, <1>2, <1>3, <1>4, <1>5 DEF Protocols

LEMMA LinksStep == LinksInv /\ [LinksNext]_linksVars => LinksInv'
<1> SUFFICES ASSUME LinksInv, [LinksNext]_linksVars PROVE LinksInv'
  OBVIOUS
<1>1. ASSUME NEW rec \in NodeRecords, RegisterNode(rec) PROVE LinksInv'
  <2>1. node' = rec /\ held' = held /\ given' = given /\ hop' = hop
    BY <1>1 DEF RegisterNode
  <2>2. held # NoLink /\ ~announced' =>
          ~announced /\ InfoHash(node.arg) = InfoHash(rec.arg)
    BY <1>1 DEF RegisterNode
  <2>3. \A host : CallOf(given, host)' = CallOf(given, host)
    BY <2>1 DEF CallOf, UserOf
  <2> QED
    BY <2>1, <2>2, <2>3 DEF LinksInv
<1>2. ASSUME NEW host, GetSubscription(host) PROVE LinksInv'
  <2>1. /\ node \in NodeRecords /\ host \in Range(node.hosts)
        /\ node' = node /\ given' = node /\ hop' = hop /\ held' = Link(host)
    BY <1>2 DEF GetSubscription, LinksInv, Unknown
  <2>2. CallOf(given, host)' = CallOf(node, host)
    BY <2>1 DEF CallOf, UserOf
  <2>3. ClientDials(held)' = CallOf(given, host)'
    BY <2>1, <2>2, LinkCalls
  <2> QED
    BY <2>1, <2>3 DEF LinksInv
<1>3. CASE UNCHANGED linksVars
  BY <1>3 DEF LinksInv, linksVars, CallOf, UserOf
<1> QED
  BY <1>1, <1>2, <1>3 DEF LinksNext

(* A node takes the calls of Sweet Lisa's managers.                        *)
LEMMA ManagersGetThrough ==
    ASSUME node \in NodeRecords
    PROVE  Accepts(ManagerDials)
<1> DEFINE call == ManagerDials
<1>1. /\ node.arg.protocol \in Protocols /\ node.cert \in Seq(STRING)
      /\ node.arg.method = OwnMethod(node.arg.protocol, node.cert)
      /\ node.arg.username = Text("own")
      /\ node.hosts \in Seq(STRING) /\ Len(node.hosts) \in Nat \ {0}
  BY NodeFields
<1>2. Head(node.hosts) = node.hosts[1] /\ node.hosts[1] \in Range(node.hosts)
  BY <1>1 DEF Range
<1>3. /\ call.protocol = node.arg.protocol /\ call.host = Head(node.hosts)
      /\ call.port = node.port /\ call.user = OwnUser
  BY <1>1 DEF ManagerDials, Dials, GetFirstHost, OwnUser
<1>4. ASSUME node.arg.protocol = "vmess+tls+grpc"
      PROVE  call.sni = DomainOf(Head(node.hosts)) /\ call.service = Text("own")
  <2>1. SimplyGetParam(node.arg.method, "serviceName") = Text("own")
    BY <1>1, <1>4, ServiceOf DEF OwnMethod, Text
  <2> QED
    BY <1>4, <2>1 DEF ManagerDials, Dials, GetFirstHost
<1>5. ASSUME node.arg.protocol = "juicity" PROVE call.pin = node.cert
  <2>1. SimplyGetParam(node.arg.method, "pinned_certchain_sha256") = node.cert
    BY <1>1, <1>5, PinOf
  <2> QED
    BY <1>5, <2>1 DEF ManagerDials, Dials
<1> HIDE DEF call
<1>6. Accepts(call)
  BY <1>2, <1>3, <1>4, <1>5 DEF Accepts
<1> QED
  BY <1>6 DEF call

(* So does it with the call of a link whose record tells of the same node. *)
LEMMA ClientsGetThrough ==
    ASSUME node \in NodeRecords, NEW rec \in NodeRecords,
           NEW host \in Range(node.hosts),
           InfoHash(node.arg) = InfoHash(rec.arg),
           node.port = rec.port, Head(node.hosts) = Head(rec.hosts)
    PROVE  Accepts(CallOf(rec, host))
<1> DEFINE call == CallOf(rec, host)
<1>1. node.arg.protocol = rec.arg.protocol /\ node.cert = rec.cert
  BY HashTells
<1>2. Head(rec.hosts) = rec.hosts[1]
  BY NodeFields
<1>3. /\ call.protocol = node.arg.protocol /\ call.host = host
      /\ call.port = node.port /\ call.pin = node.cert
      /\ call.user = UserOf(node.arg.protocol)
      /\ node.arg.protocol = "vmess+tls+grpc" =>
           call.sni = DomainOf(Head(node.hosts)) /\ call.service = Text(hop)
  BY <1>1, <1>2 DEF CallOf, Dials
<1>4. call.user = PassageUser /\ call.user # OwnUser
  BY <1>3, UsersAreTold
<1> HIDE DEF call
<1>5. Accepts(call)
  BY <1>3, <1>4 DEF Accepts
<1> QED
  BY <1>5 DEF call

(* For any hosts, ports and certificates a node accepts the calls of the   *)
(* managers, and those of a link until its chat is told of a change, or    *)
(* the port or a host that matters is another.                             *)
THEOREM LinksLast == LinksSpec => []LinkLasts
<1>1. LinksInit => LinksInv
  BY DEF LinksInit, LinksInv
<1>2. LinksInv => LinkLasts
  <2> SUFFICES ASSUME LinksInv PROVE LinkLasts
    OBVIOUS
  <2>1. ManagerGetsThrough
    BY ManagersGetThrough DEF LinksInv, ManagerGetsThrough, Unknown
  <2>2. ASSUME held # NoLink, ~announced, node.port = given.port,
               ClientDials(held).host \in Range(node.hosts),
               Head(node.hosts) = Head(given.hosts)
        PROVE  Accepts(ClientDials(held))
    <3>1. PICK host \in Range(given.hosts) : ClientDials(held) = CallOf(given, host)
      BY <2>2 DEF LinksInv
    <3>2. host \in Range(node.hosts)
      BY <2>2, <3>1 DEF CallOf, Dials
    <3> QED
      BY <2>2, <3>1, <3>2, ClientsGetThrough DEF LinksInv
  <2> QED
    BY <2>1, <2>2 DEF LinkLasts
<1> QED
  BY <1>1, <1>2, LinksStep, PTL DEF LinksSpec

-----------------------------------------------------------------------------
(* The feed.  A set of places has a last one.                              *)
LEMMA LastPlace ==
    ASSUME NEW n \in Nat, NEW P, P \subseteq 0..n, P # {}
    PROVE  Max(P) \in P /\ \A i \in P : i <= Max(P)
<1> DEFINE After(i) == {j \in P : j > i}
           Afters == {After(i) : i \in P}
<1>1. IsFiniteSet(P)
  <2>1. IsFiniteSet(0..n)
    BY FS_Interval
  <2> QED
    BY <2>1, FS_Subset
<1>2. Afters \subseteq SUBSET P /\ Afters # {}
  OBVIOUS
<1> HIDE DEF Afters
<1>3. PICK A \in Afters : \A B \in SUBSET A : B # A => B \notin Afters
  BY <1>1, <1>2, SmallestSubset
<1>4. PICK last \in P : A = After(last)
  BY DEF Afters
<1>5. \A i \in P : i <= last
  <2> SUFFICES ASSUME NEW i \in P, i > last
               PROVE  FALSE
    OBVIOUS
  <2>1. After(i) \subseteq After(last) /\ i \in After(last) /\ i \notin After(i)
    <3>1. \A j \in P : j \in Nat
      OBVIOUS
    <3>2. \A j \in P : j > i => j > last
      BY <3>1
    <3>3. ~(i > i)
      BY <3>1
    <3> QED
      BY <3>2, <3>3, Zenon
  <2>2. After(i) \in Afters
    BY DEF Afters
  <2> HIDE DEF After
  <2> QED
    BY <1>3, <1>4, <2>1, <2>2
<1> QED
  BY <1>5 DEF Max

-----------------------------------------------------------------------------
InOrder(entries) ==
    \A i, j \in DOMAIN entries : i < j => entries[i] <= entries[j]

OfAge(entries, a) == {i \in DOMAIN entries : entries[i] = a}

(* Sorting leaves what is in order as it is.                               *)
LEMMA SortKeeps ==
    ASSUME NEW s \in Seq(Ages), InOrder(s)
    PROVE  NewestFirst(s) = s
<1> DEFINE places == DOMAIN s
           NotAfter(i) ==
               {j \in places : s[j] < s[i] \/ (s[j] = s[i] /\ j <= i)}
           EntryAt(p) == CHOOSE i \in places : Cardinality(NotAfter(i)) = p
<1>1. /\ places = 1..Len(s) /\ Len(s) \in Nat
      /\ \A i \in places : s[i] \in Nat
  BY DEF Ages, Oldest, Keep, MaxLag
<1>2. ASSUME NEW i \in places PROVE Cardinality(NotAfter(i)) = i
  <2>1. \A j \in places :
          (s[j] < s[i] \/ (s[j] = s[i] /\ j <= i)) <=> j <= i
    BY <1>1 DEF InOrder
  <2>2. NotAfter(i) = 1..i
    BY <1>1, <2>1
  <2>3. i \in Int /\ 1 \in Int /\ ~(1 > i)
    BY <1>1
  <2>4. Cardinality(1..i) = i
    BY <2>3, FS_Interval
  <2> QED
    BY <2>2, <2>4
<1> HIDE DEF NotAfter
<1>3. \A p \in places : EntryAt(p) = p
  BY <1>2
<1>4. NewestFirst(s) = [p \in places |-> s[EntryAt(p)]]
  BY DEF NewestFirst, NotAfter
<1> HIDE DEF EntryAt
<1> QED
  BY <1>1, <1>3, <1>4

(* Dropping the tail keeps what is of the last two days.                   *)
LEMMA DropKeeps ==
    ASSUME NEW s \in Seq(Ages), InOrder(s), NEW ago \in 0..MaxLag
    PROVE  LET t == DropTail(s, ago)
           IN  /\ t \in Seq(Ages) /\ InOrder(t)
               /\ \A a \in 0..Keep :
                    Cardinality(OfAge(t, a)) = Cardinality(OfAge(s, a))
<1> DEFINE feed == NewestFirst(s)
           recent == {i \in DOMAIN feed : feed[i] - ago <= Keep}
           cut == Max(recent \cup {0})
           t == DropTail(s, ago)
<1>1. /\ feed \in Seq(Ages) /\ InOrder(feed)
      /\ \A a \in 0..Keep : Cardinality(OfAge(feed, a)) = Cardinality(OfAge(s, a))
  <2>1. 0..Keep \subseteq Ages
    BY DEF Ages, Oldest, Keep, MaxLag
  <2> QED
    BY <2>1, SortKeeps
<1>2. t = SubSeq(feed, 1, cut)
  BY DEF DropTail
<1> HIDE DEF feed, t
<1>3. DOMAIN feed = 1..Len(feed) /\ Len(feed) \in Nat
  BY <1>1
<1>4. cut \in recent \cup {0} /\ \A i \in recent : i <= cut
  <2>1. recent \cup {0} \subseteq 0..Len(feed)
    BY <1>3
  <2> QED
    BY <1>3, <2>1, LastPlace
<1>5. cut \in 0..Len(feed)
  BY <1>3, <1>4
<1> HIDE DEF cut
<1>6. /\ t \in Seq(Ages) /\ DOMAIN t = 1..cut
      /\ \A i \in 1..cut : t[i] = feed[i]
  BY <1>1, <1>2, <1>3, <1>5
<1>7. InOrder(t)
  BY <1>1, <1>3, <1>5, <1>6 DEF InOrder
<1>8. ASSUME NEW a \in 0..Keep PROVE OfAge(t, a) = OfAge(feed, a)
  <2>1. \A i \in OfAge(feed, a) : i \in recent
    BY DEF OfAge, Keep, MaxLag
  <2>2. \A i \in OfAge(feed, a) : i \in 1..cut
    BY <1>3, <1>4, <1>5, <2>1 DEF OfAge
  <2> QED
    BY <1>3, <1>5, <1>6, <2>2 DEF OfAge
<1> QED
  BY <1>1, <1>6, <1>7, <1>8 DEF t

(* A new entry is one more of age zero.                                    *)
LEMMA NewEntry ==
    ASSUME NEW s \in Seq(Ages), InOrder(s)
    PROVE  LET t == <<0>> \o s
           IN  /\ t \in Seq(Ages) /\ InOrder(t)
               /\ \A a \in Ages :
                    Cardinality(OfAge(t, a)) =
                        Cardinality(OfAge(s, a)) + (IF a = 0 THEN 1 ELSE 0)
<1> DEFINE t == <<0>> \o s
<1>1. /\ DOMAIN s = 1..Len(s) /\ Len(s) \in Nat
      /\ \A i \in DOMAIN s : s[i] \in Ages
  OBVIOUS
<1>2. /\ t \in Seq(Ages) /\ DOMAIN t = 1..Len(s) + 1
      /\ t[1] = 0 /\ \A i \in DOMAIN s : t[i + 1] = s[i]
  BY <1>1 DEF Ages, Oldest, Keep, MaxLag
<1> HIDE DEF t
<1>3. InOrder(t)
  <2> SUFFICES ASSUME NEW i \in DOMAIN t, NEW j \in DOMAIN t, i < j
               PROVE  t[i] <= t[j]
    BY DEF InOrder
  <2>1. j - 1 \in DOMAIN s /\ t[j] = s[j - 1] /\ s[j - 1] \in Nat
    BY <1>1, <1>2 DEF Ages, Oldest, Keep, MaxLag
  <2>2. CASE i = 1
    BY <1>2, <2>1, <2>2
  <2>3. CASE i # 1
    <3>1. i - 1 \in DOMAIN s /\ t[i] = s[i - 1]
      BY <1>1, <1>2, <2>3
    <3> QED
      BY <1>1, <2>1, <3>1 DEF InOrder
  <2> QED
    BY <2>2, <2>3
<1>4. ASSUME NEW a \in Ages
      PROVE  Cardinality(OfAge(t, a)) =
                 Cardinality(OfAge(s, a)) + (IF a = 0 THEN 1 ELSE 0)
  <2> DEFINE later == {i + 1 : i \in OfAge(s, a)}
             f == [i \in OfAge(s, a) |-> i + 1]
  <2>1. OfAge(s, a) \subseteq Nat \ {0} /\ IsFiniteSet(OfAge(s, a))
    <3>1. IsFiniteSet(1..Len(s))
      BY <1>1, FS_Interval
    <3>2. OfAge(s, a) \subseteq 1..Len(s)
      BY <1>1 DEF OfAge
    <3> QED
      BY <1>1, <3>1, <3>2, FS_Subset
  <2>2. f \in Bijection(OfAge(s, a), later)
    BY <2>1 DEF Bijection, Injection, Surjection, IsInjective
  <2>3. IsFiniteSet(later) /\ Cardinality(later) = Cardinality(OfAge(s, a))
    BY <2>1, <2>2, FS_Bijection DEF ExistsBijection
  <2>4. 1 \notin later
    BY <2>1
  <2>5. OfAge(t, a) = later \cup (IF a = 0 THEN {1} ELSE {})
    <3>1. ASSUME NEW i \in OfAge(t, a) PROVE i \in later \/ (a = 0 /\ i = 1)
      <4>1. CASE i = 1
        BY <1>2, <4>1 DEF OfAge
      <4>2. CASE i # 1
        <5>1. i - 1 \in OfAge(s, a) /\ i = (i - 1) + 1
          BY <1>1, <1>2, <4>2 DEF OfAge
        <5> QED
          BY <5>1
      <4> QED
        BY <4>1, <4>2
    <3>2. later \subseteq OfAge(t, a)
      BY <1>1, <1>2 DEF OfAge
    <3>3. a = 0 => 1 \in OfAge(t, a)
      BY <1>1, <1>2 DEF OfAge
    <3> QED
      BY <3>1, <3>2, <3>3
  <2>6. a = 0 => Cardinality(later \cup {1}) = Cardinality(later) + 1
    BY <2>3, <2>4, FS_AddElement
  <2> HIDE DEF later
  <2>7. CASE a = 0
    BY <2>3, <2>5, <2>6, <2>7
  <2>8. CASE a # 0
    <3>1. Cardinality(OfAge(s, a)) \in Nat
      BY <2>1, FS_CardinalityType
    <3> QED
      BY <2>3, <2>5, <2>8, <3>1
  <2> QED
    BY <2>7, <2>8
<1> QED
  BY <1>2, <1>3, <1>4 DEF t

-----------------------------------------------------------------------------
InFlight == [pc : {"viewed"}, ago : 0..MaxLag, copy : Seq(Ages)]

(* The inductive invariant: the feed is in order at all times, and has     *)
(* every entry of the last two days.                                       *)
FeedInv ==
    /\ chatFeed \in Seq(Ages) /\ InOrder(chatFeed)
    /\ added \in [Ages -> Nat]
    /\ \A a \in 0..Keep : Cardinality(OfAge(chatFeed, a)) = added[a]
    /\ cleaning \in [Rounds -> {NoRound} \cup InFlight]

LEMMA SomeAges == Ages = 0..4 /\ Keep = 2 /\ MaxLag = 1 /\ Oldest = 4
  BY DEF Ages, Oldest, Keep, MaxLag

LEMMA FeedInvInit == FeedInit => FeedInv
<1> SUFFICES ASSUME FeedInit PROVE FeedInv
  OBVIOUS
<1>1. /\ chatFeed \in Seq(Ages) /\ InOrder(chatFeed)
      /\ \A a : OfAge(chatFeed, a) = {}
  BY DEF FeedInit, OfAge, InOrder
<1>2. added = [a \in Ages |-> 0] /\ cleaning = [r \in Rounds |-> NoRound]
  BY DEF FeedInit
<1>3. \A a \in 0..Keep : Cardinality(OfAge(chatFeed, a)) = added[a]
  <2>1. \A a \in 0..Keep : a \in Ages
    BY SomeAges
  <2>2. Cardinality({}) = 0
    BY FS_EmptySet
  <2> QED
    BY <1>1, <1>2, <2>1, <2>2
<1> QED
  BY <1>1, <1>2, <1>3 DEF FeedInv

LEMMA AddFeedStep ==
    ASSUME FeedInv, AddFeed
    PROVE  FeedInv'
<1> DEFINE t == <<0>> \o chatFeed
<1>1. /\ t \in Seq(Ages) /\ InOrder(t)
      /\ \A a \in Ages :
           Cardinality(OfAge(t, a)) =
               Cardinality(OfAge(chatFeed, a)) + (IF a = 0 THEN 1 ELSE 0)
  BY NewEntry DEF FeedInv
<1>2. chatFeed' = NewestFirst(t)
  BY DEF AddFeed
<1> HIDE DEF t
<1>3. /\ chatFeed' \in Seq(Ages) /\ InOrder(chatFeed')
      /\ \A a \in Ages : Cardinality(OfAge(chatFeed', a)) = Cardinality(OfAge(t, a))
  BY <1>1, <1>2, SortKeeps
<1>4. added' \in [Ages -> Nat] /\ \A a \in Ages :
        added'[a] = added[a] + (IF a = 0 THEN 1 ELSE 0)
  BY SomeAges DEF FeedInv, AddFeed
<1>5. \A a \in 0..Keep : Cardinality(OfAge(chatFeed', a)) = added'[a]
  BY <1>1, <1>3, <1>4, SomeAges DEF FeedInv
<1> QED
  BY <1>3, <1>4, <1>5 DEF FeedInv, AddFeed, InOrder, OfAge

LEMMA UpdateFeedStep ==
    ASSUME FeedInv, NEW r \in Rounds, UpdateFeed(r)
    PROVE  FeedInv'
<1> DEFINE ago == cleaning[r].ago
<1>1. ago \in 0..MaxLag /\ chatFeed' = DropTail(chatFeed, ago)
  <2>1. cleaning[r] \in InFlight
    BY DEF FeedInv, UpdateFeed, NoRound
  <2> QED
    BY <2>1 DEF InFlight, UpdateFeed
<1> HIDE DEF ago
<1>2. /\ chatFeed' \in Seq(Ages) /\ InOrder(chatFeed')
      /\ \A a \in 0..Keep :
           Cardinality(OfAge(chatFeed', a)) = Cardinality(OfAge(chatFeed, a))
  BY <1>1, DropKeeps DEF FeedInv
<1>3. cleaning' \in [Rounds -> {NoRound} \cup InFlight]
  BY DEF FeedInv, UpdateFeed
<1> QED
  BY <1>2, <1>3 DEF FeedInv, UpdateFeed, InOrder, OfAge

LEMMA DayStep ==
    ASSUME FeedInv, Day
    PROVE  FeedInv'
<1> DEFINE Older(age) == IF age < Oldest THEN age + 1 ELSE age
<1>1. /\ DOMAIN chatFeed = 1..Len(chatFeed) /\ Len(chatFeed) \in Nat
      /\ \A i \in DOMAIN chatFeed : chatFeed[i] \in 0..4
  BY SomeAges DEF FeedInv
<1>2. chatFeed' = [i \in DOMAIN chatFeed |-> Older(chatFeed[i])]
  BY DEF Day
<1>3. \A i \in DOMAIN chatFeed : Older(chatFeed[i]) \in Ages
  BY <1>1, SomeAges
<1>4. chatFeed' \in Seq(Ages) /\ DOMAIN chatFeed' = DOMAIN chatFeed
  BY <1>1, <1>2, <1>3
<1>5. InOrder(chatFeed')
  <2>1. \A a, b \in 0..4 : a <= b => Older(a) <= Older(b)
    BY SomeAges
  <2>2. \A i, j \in DOMAIN chatFeed : i < j => chatFeed[i] <= chatFeed[j]
    BY DEF InOrder, FeedInv
  <2> HIDE DEF Older
  <2> QED
    BY <1>1, <1>2, <2>1, <2>2 DEF InOrder
<1>6. added' \in [Ages -> Nat]
      /\ \A a \in Ages : added'[a] = IF a = 0 \/ a = 4 THEN 0 ELSE added[a - 1]
  BY SomeAges DEF FeedInv, Day
<1>7. ASSUME NEW a \in 0..Keep
      PROVE  Cardinality(OfAge(chatFeed', a)) = added'[a]
  <2>1. CASE a = 0
    <3>1. OfAge(chatFeed', a) = {}
      BY <1>1, <1>2, <1>4, <2>1, SomeAges DEF OfAge
    <3> QED
      BY <1>6, <2>1, <3>1, FS_EmptySet, SomeAges
  <2>2. CASE a # 0
    <3>1. OfAge(chatFeed', a) = OfAge(chatFeed, a - 1)
      BY <1>1, <1>2, <1>4, <2>2, SomeAges DEF OfAge
    <3> QED
      BY <1>6, <2>2, <3>1, SomeAges DEF FeedInv
  <2> QED
    BY <2>1, <2>2
<1>8. ASSUME NEW r \in Rounds
      PROVE  cleaning'[r] \in {NoRound} \cup InFlight
  <2>1. cleaning'[r] = IF cleaning[r] = NoRound THEN NoRound
                       ELSE [cleaning[r] EXCEPT !.ago = @ + 1]
    BY DEF Day
  <2>2. ASSUME cleaning[r] # NoRound
        PROVE  [cleaning[r] EXCEPT !.ago = @ + 1] \in InFlight
    <3>1. cleaning[r] \in InFlight /\ cleaning[r].ago < MaxLag
      BY <2>2 DEF FeedInv, Day
    <3>2. cleaning[r].ago + 1 \in 0..MaxLag
      BY <3>1, SomeAges DEF InFlight
    <3> QED
      BY <3>1, <3>2 DEF InFlight
  <2> QED
    BY <2>1, <2>2
<1>9. cleaning' \in [Rounds -> {NoRound} \cup InFlight]
  BY <1>8 DEF Day
<1> QED
  BY <1>4, <1>5, <1>6, <1>7, <1>9 DEF FeedInv, InOrder, OfAge

LEMMA FeedInvNext == FeedInv /\ [FeedNext]_feedVars => FeedInv'
<1> SUFFICES ASSUME FeedInv, [FeedNext]_feedVars PROVE FeedInv'
  OBVIOUS
<1>1. CASE AddFeed
  BY <1>1, AddFeedStep
<1>2. ASSUME NEW r \in Rounds, ViewFeed(r) PROVE FeedInv'
  <2>1. [pc |-> "viewed", ago |-> 0, copy |-> chatFeed] \in InFlight
    BY SomeAges DEF FeedInv, InFlight
  <2> QED
    BY <1>2, <2>1 DEF ViewFeed, FeedInv, InOrder, OfAge
<1>3. ASSUME NEW r \in Rounds, UpdateFeed(r) PROVE FeedInv'
  BY <1>3, UpdateFeedStep
<1>4. CASE Day
  BY <1>4, DayStep
<1>5. CASE UNCHANGED feedVars
  BY <1>5 DEF feedVars, FeedInv, InOrder, OfAge
<1> QED
  BY <1>1, <1>2, <1>3, <1>4, <1>5 DEF FeedNext

(* Whatever is entered while rounds are under way, one or several, the     *)
(* feed that is served has all entries of the last two days, in order, in  *)
(* every format, for any number of entries and rounds in flight.           *)
THEOREM Recent == FeedSpec => []FeedIsRecent
<1>1. FeedInv => FeedIsRecent
  <2> SUFFICES ASSUME FeedInv, NEW ext \in DOMAIN Lower,
                      RouteChat(ext).format \in Formats
               PROVE  LET page == RouteChat(ext)
                          Count(a) == Cardinality({i \in DOMAIN page.items :
                                                    page.items[i] = a})
                      IN  /\ \A a \in 0..Keep : Count(a) = added[a]
                          /\ \A i, j \in DOMAIN page.items :
                               i < j => page.items[i] <= page.items[j]
    BY DEF FeedIsRecent
  <2> DEFINE items == NewestFirst(chatFeed)
  <2>1. RouteChat(ext).items = items
    <3>1. Page.format \notin Formats /\ BadRequest.format \notin Formats
      BY DEF Page, BadRequest, Response, Formats
    <3>2. RouteChat(ext) \in {Page, BadRequest, ServeFeed("RSS"),
                              ServeFeed("Atom"), ServeFeed("JSON")}
      BY DEF RouteChat, GetChat, GetChatFeed
    <3> QED
      BY <3>1, <3>2 DEF ServeFeed
  <2>2. /\ InOrder(items)
        /\ \A a \in Ages : Cardinality(OfAge(items, a)) = Cardinality(OfAge(chatFeed, a))
    BY SortKeeps DEF FeedInv
  <2> HIDE DEF items
  <2> QED
    BY <2>1, <2>2, SomeAges DEF FeedInv, InOrder, OfAge
<1> QED
  BY <1>1, FeedInvInit, FeedInvNext, PTL DEF FeedSpec

-----------------------------------------------------------------------------
(* Codes.  What a code's record v, the times p it was posted, and the time *)
(* s it was shown have to do with one another.  Only the chat of a code    *)
(* that has passed has seen it lately.                                     *)
IsWaiting(v, p, s) ==
    /\ v.progress = "Waiting"
    /\ v.left >= 0 => v.left <= WaitingLife /\ s = WaitingLife - v.left
    /\ \A ch \in Chats : p[ch] > DoneLife

IsDone(v, p, s) ==
    /\ v.progress = "Done"
    /\ v.left >= 0 => p[v.chat] = DoneLife - v.left
    /\ v.left < 0 => p[v.chat] > DoneLife
    /\ s <= p[v.chat] + WaitingLife
    /\ \A ch \in Chats \ {v.chat} : p[ch] > DoneLife

CodeInv(v, p, s) ==
    /\ v \in {Gone} \cup Verifications
    /\ p \in [Chats -> 0..LongAgo]
    /\ s \in 0..LongAgo
    /\ v # Gone => IsWaiting(v, p, s) \/ IsDone(v, p, s)
    /\ v = Gone => \A ch \in Chats : p[ch] > DoneLife

FormInv(x) ==
    \/ x = Blank
    \/ x \in [pc : {"save"}, chat : Chats, posted : 0..DoneLife]

VerificationInv ==
    /\ verification = [c \in Codes |-> verification[c]]
    /\ posted = [c \in Codes |-> posted[c]]
    /\ shown = [c \in Codes |-> shown[c]]
    /\ form = [f \in Forms |-> form[f]]
    /\ \A c \in Codes : CodeInv(verification[c], posted[c], shown[c])
    /\ \A f \in Forms : FormInv(form[f])

USE DEF WaitingLife, DoneLife, LongAgo

-----------------------------------------------------------------------------
(* A record that is known has all of its fields.                           *)
LEMMA KnownRecord ==
    ASSUME NEW v \in {Gone} \cup Verifications, v # Gone
    PROVE  /\ v \in Verifications
           /\ v.chat \in Chats /\ v.progress \in {"Waiting", "Done"}
           /\ v.left \in -1..2
BY DEF Gone, Verifications

LEMMA CodeType ==
    ASSUME NEW v, NEW p, NEW s, CodeInv(v, p, s)
    PROVE  v \in {Gone} \cup Verifications /\ p \in [Chats -> 0..4] /\ s \in 0..4
<1>1. WaitingLife + DoneLife + 1 = 4
  OBVIOUS
<1> QED
  BY ONLY <1>1, CodeInv(v, p, s), LongAgo = WaitingLife + DoneLife + 1 DEF CodeInv

LEMMA NewCode ==
    ASSUME NEW v, NEW p, NEW s, CodeInv(v, p, s), v = Gone, NEW ch \in Chats
    PROVE  CodeInv([chat |-> ch, progress |-> "Waiting", left |-> 1],
                   p, 0)
BY DEF CodeInv, IsWaiting, Verifications

(* Posting a code that waits, in its own chat.                             *)
LEMMA PostedCode ==
    ASSUME NEW v, NEW p, NEW s, CodeInv(v, p, s),
           v # Gone, ~Expired(v), v.progress = "Waiting"
    PROVE  CodeInv([v EXCEPT !.progress = "Done", !.left = 2],
                   [p EXCEPT ![v.chat] = 0], s)
<1> DEFINE w == [v EXCEPT !.progress = "Done", !.left = 2]
           q == [p EXCEPT ![v.chat] = 0]
<1>1. v \in Verifications /\ v.chat \in Chats /\ v.left \in -1..2
  BY KnownRecord DEF CodeInv
<1>2. /\ w \in Verifications /\ w # Gone /\ w.progress = "Done"
      /\ w.left = 2 /\ w.chat = v.chat
  <2> DEFINE u == [v EXCEPT !.progress = "Done"]
  <2>1. u \in Verifications /\ u.progress = "Done" /\ u.chat = v.chat
    BY <1>1 DEF Verifications
  <2>2. w = [u EXCEPT !.left = 2]
    OBVIOUS
  <2> HIDE DEF u, w
  <2> QED
    BY <2>1, <2>2 DEF Gone, Verifications
<1>3. p \in [Chats -> 0..4] /\ s \in 0..4 /\ IsWaiting(v, p, s)
  BY DEF CodeInv, IsDone
<1>4. v.left >= 0
  BY <1>1 DEF Expired
<1>5. s <= 1
  BY <1>1, <1>3, <1>4 DEF IsWaiting
<1>6. q \in [Chats -> 0..4] /\ q[v.chat] = 0
  BY <1>1, <1>3
<1>7. \A ch \in Chats \ {v.chat} : q[ch] > 2
  BY <1>1, <1>3 DEF IsWaiting
<1>8. IsDone(w, q, s)
  BY <1>2, <1>3, <1>5, <1>6, <1>7 DEF IsDone
<1> HIDE DEF w, q
<1>9. CodeInv(w, q, s)
  BY <1>2, <1>3, <1>6, <1>8 DEF CodeInv
<1> QED
  BY <1>9 DEF w, q

LEMMA CleanedCode ==
    ASSUME NEW v, NEW p, NEW s, CodeInv(v, p, s), v # Gone, Expired(v)
    PROVE  CodeInv(Gone, p, s)
<1>1. v.chat \in Chats /\ v.left < 0 /\ v.left \in -1..2
  BY KnownRecord DEF CodeInv, Expired
<1>2. \A ch \in Chats : p[ch] > 2
  BY <1>1 DEF CodeInv, IsWaiting, IsDone
<1> QED
  BY <1>2 DEF CodeInv, Gone

LEMMA OlderCode ==
    ASSUME NEW v, NEW p, NEW s, CodeInv(v, p, s)
    PROVE  CodeInv(IF v # Gone /\ ~Expired(v) THEN [v EXCEPT !.left = @ - 1] ELSE v,
                   [ch \in Chats |-> Later(p[ch])], Later(s))
<1> DEFINE w == IF v # Gone /\ ~Expired(v) THEN [v EXCEPT !.left = @ - 1] ELSE v
           q == [ch \in Chats |-> Later(p[ch])]
<1>1. /\ p \in [Chats -> 0..4] /\ s \in 0..4
      /\ \A ch \in Chats : p[ch] \in 0..4
  BY DEF CodeInv
<1>2. /\ q \in [Chats -> 0..4] /\ Later(s) \in 0..4
      /\ Later(s) <= s + 1
      /\ s < 4 => Later(s) = s + 1
      /\ \A ch \in Chats : /\ q[ch] \in 0..4 /\ q[ch] >= p[ch]
                           /\ p[ch] < 4 => q[ch] = p[ch] + 1
  BY <1>1 DEF Later
<1>3. CASE v = Gone
  <2>1. w = v
    BY <1>3
  <2> QED
    BY <1>1, <1>2, <1>3, <2>1 DEF CodeInv
<1>4. CASE v # Gone /\ Expired(v)
  <2>1. w = v /\ v \in Verifications /\ v.chat \in Chats /\ v.left \in -1..2
    BY <1>4, KnownRecord DEF CodeInv
  <2>2. v.left < 0
    BY <1>4 DEF Expired
  <2>3. IsWaiting(v, p, s) => IsWaiting(v, q, Later(s))
    BY <1>1, <1>2, <2>1, <2>2 DEF IsWaiting
  <2>4. IsDone(v, p, s) => IsDone(v, q, Later(s))
    <3> SUFFICES ASSUME IsDone(v, p, s) PROVE IsDone(v, q, Later(s))
      OBVIOUS
    <3>1. p[v.chat] > 2 /\ s <= p[v.chat] + 1
      BY <2>2 DEF IsDone
    <3>2. q[v.chat] > 2 /\ Later(s) <= q[v.chat] + 1
      BY <1>1, <1>2, <2>1, <3>1
    <3> QED
      BY <1>1, <1>2, <2>1, <2>2, <3>2 DEF IsDone
  <2> QED
    BY <1>2, <1>4, <2>1, <2>3, <2>4 DEF CodeInv
<1>5. CASE v # Gone /\ ~Expired(v)
  <2>1. v \in Verifications /\ v.chat \in Chats /\ v.left \in 0..2
    BY <1>5, KnownRecord DEF CodeInv, Expired
  <2>2. w = [v EXCEPT !.left = @ - 1]
    BY <1>5
  <2>3. /\ w \in Verifications /\ w # Gone /\ w.left = v.left - 1
        /\ w.chat = v.chat /\ w.progress = v.progress
    BY <2>1, <2>2 DEF Gone, Verifications
  <2> HIDE DEF w, q
  <2>4. IsWaiting(v, p, s) => IsWaiting(w, q, Later(s))
    BY <1>1, <1>2, <2>1, <2>3 DEF IsWaiting
  <2>5. IsDone(v, p, s) => IsDone(w, q, Later(s))
    <3> SUFFICES ASSUME IsDone(v, p, s) PROVE IsDone(w, q, Later(s))
      OBVIOUS
    <3>1. p[v.chat] = 2 - v.left /\ s <= p[v.chat] + 1
      BY <2>1 DEF IsDone
    <3>2. q[v.chat] = 3 - v.left /\ Later(s) <= q[v.chat] + 1
      BY <1>1, <1>2, <2>1, <3>1
    <3> QED
      BY <1>1, <1>2, <2>1, <2>3, <3>2 DEF IsDone
  <2>6. IsWaiting(v, p, s) \/ IsDone(v, p, s)
    BY <1>5 DEF CodeInv
  <2>7. CodeInv(w, q, Later(s))
    BY <1>2, <2>3, <2>4, <2>5, <2>6 DEF CodeInv
  <2> QED
    BY <2>7 DEF w, q
<1> QED
  BY <1>3, <1>4, <1>5

-----------------------------------------------------------------------------
LEMMA InitVerificationInv == VerificationInit => VerificationInv
BY DEF VerificationInit, VerificationInv, CodeInv, FormInv, Gone

LEMMA NextVerificationInv ==
    VerificationInv /\ [VerificationNext]_verificationVars => VerificationInv'
<1> SUFFICES ASSUME VerificationInv, [VerificationNext]_verificationVars
             PROVE  VerificationInv'
  OBVIOUS
<1>1. ASSUME NEW c \in Codes, NEW ch \in Chats, NewVerification(c, ch)
      PROVE  VerificationInv'
  <2>1. CodeInv([chat |-> ch, progress |-> "Waiting", left |-> 1],
                posted[c], 0)
    BY <1>1, NewCode DEF VerificationInv, NewVerification
  <2> QED
    BY <1>1, <2>1 DEF VerificationInv, NewVerification, New
<1>2. ASSUME NEW m \in Posts, OnChannelPost(m)
      PROVE  VerificationInv'
  <2> DEFINE c == m.params[1]
             ch == ChatIdentifier(m.channel)
  <2>0. c \in Codes /\ ch \in Chats /\ Verify(c, ch)
    <3>1. m.params # <<>> /\ Verify(c, ch)
      BY <1>2 DEF OnChannelPost, Handle, VerifyCommand
    <3>2. m.channel \in Channels /\ m.params \in {<<>>} \cup {<<d>> : d \in Codes}
      BY DEF Posts
    <3> QED
      BY <3>1, <3>2 DEF Chats
  <2>1. CodeInv([verification[c] EXCEPT !.progress = "Done", !.left = 2],
                [posted[c] EXCEPT ![ch] = 0], shown[c])
    BY <2>0, PostedCode DEF VerificationInv, Verify
  <2>2. /\ verification' = [verification EXCEPT ![c] =
                [verification[c] EXCEPT !.progress = "Done", !.left = 2]]
        /\ posted' = [posted EXCEPT ![c] = [posted[c] EXCEPT ![ch] = 0]]
        /\ UNCHANGED <<form, shown>>
    BY <1>2, <2>0 DEF OnChannelPost, Handle, VerifyCommand, Verify, Pass, VerificationInv
  <2> HIDE DEF c, ch
  <2> QED
    BY <2>0, <2>1, <2>2 DEF VerificationInv
<1>3. ASSUME NEW c \in Codes, NEW ch \in Chats, NEW f \in Forms, AskTicket(f, c, ch)
      PROVE  VerificationInv'
  <2>1. verification[c] # Gone /\ verification[c].chat = ch
        /\ ~Expired(verification[c]) /\ verification[c].progress = "Done"
    BY <1>3 DEF AskTicket, Verified
  <2>2. CodeInv(verification[c], posted[c], shown[c])
    BY DEF VerificationInv
  <2>3. verification[c].left \in 0..2
    BY <2>1, <2>2, KnownRecord DEF CodeInv, Expired
  <2>4. posted[c][ch] \in 0..2
    BY <2>1, <2>2, <2>3 DEF CodeInv, IsDone, IsWaiting
  <2>5. FormInv([pc |-> "save", chat |-> ch, posted |-> posted[c][ch]])
    BY <2>4 DEF FormInv
  <2> QED
    BY <1>3, <2>5 DEF VerificationInv, AskTicket
<1>4. ASSUME NEW f \in Forms, SaveTicket(f)
      PROVE  VerificationInv'
  BY <1>4 DEF VerificationInv, SaveTicket, FormInv
<1>5. ASSUME CleanVerifications
      PROVE  VerificationInv'
  <2>1. /\ verification' = [c \in Codes |->
               IF verification[c] # Gone /\ Expired(verification[c]) THEN Gone
               ELSE verification[c]]
        /\ UNCHANGED <<form, posted, shown>>
    BY <1>5 DEF CleanVerifications
  <2>2. \A c \in Codes : CodeInv(verification'[c], posted[c], shown[c])
    BY <2>1, CleanedCode DEF VerificationInv
  <2> QED
    BY <2>1, <2>2 DEF VerificationInv
<1>6. ASSUME Minute
      PROVE  VerificationInv'
  <2>1. \A c \in Codes : CodeInv(verification'[c], posted'[c], shown'[c])
    <3> TAKE c \in Codes
    <3>1. verification'[c] = IF verification[c] # Gone /\ ~Expired(verification[c])
                             THEN [verification[c] EXCEPT !.left = @ - 1]
                             ELSE verification[c]
      BY <1>6 DEF Minute
    <3>2. posted'[c] = [ch \in Chats |-> Later(posted[c][ch])]
      BY <1>6 DEF Minute
    <3>3. shown'[c] = Later(shown[c])
      BY <1>6 DEF Minute
    <3>4. CodeInv(verification[c], posted[c], shown[c])
      BY DEF VerificationInv
    <3> QED
      BY <3>1, <3>2, <3>3, <3>4, OlderCode
  <2> QED
    BY <1>6, <2>1 DEF VerificationInv, Minute
<1>7. CASE UNCHANGED verificationVars
  BY <1>7 DEF VerificationInv, verificationVars
<1> QED
  BY <1>1, <1>2, <1>3, <1>4, <1>5, <1>6, <1>7 DEF VerificationNext, GetVerification

LEMMA Implied ==
    VerificationInv => /\ VerificationTypeOK
                       /\ TicketIsVouched
                       /\ PassedIsValid
                       /\ CodesAreShortLived
<1> SUFFICES ASSUME VerificationInv
             PROVE  /\ VerificationTypeOK /\ TicketIsVouched
                    /\ PassedIsValid /\ CodesAreShortLived
  OBVIOUS
<1>1. VerificationTypeOK
  <2>1. \A c \in Codes : /\ verification[c] \in {Gone} \cup Verifications
                         /\ posted[c] \in [Chats -> 0..4]
                         /\ shown[c] \in 0..4
    BY CodeType DEF VerificationInv
  <2>2. \A f \in Forms : form[f] \in {Blank} \cup
                           [pc : {"save"}, chat : Chats, posted : 0..4]
    BY DEF VerificationInv, FormInv
  <2> QED
    BY <2>1, <2>2 DEF VerificationTypeOK, VerificationInv
<1>2. TicketIsVouched
  BY DEF VerificationInv, FormInv, TicketIsVouched, Blank
<1>3. ASSUME NEW c \in Codes, NEW ch \in Chats, posted[c][ch] <= 2
      PROVE  Verified(c, ch)
  <2>1. CodeInv(verification[c], posted[c], shown[c]) /\ posted[c][ch] \in 0..4
    BY DEF VerificationInv, CodeInv
  <2>2. verification[c] # Gone /\ IsDone(verification[c], posted[c], shown[c])
    BY <1>3, <2>1 DEF CodeInv, IsWaiting
  <2>3. verification[c].chat = ch
    BY <1>3, <2>1, <2>2 DEF IsDone
  <2>4. verification[c].left \in -1..2
    BY <2>1, <2>2, KnownRecord DEF CodeInv
  <2>5. ~(verification[c].left < 0)
    BY <1>3, <2>1, <2>2, <2>3, <2>4 DEF IsDone
  <2> QED
    BY <2>2, <2>3, <2>5 DEF Verified, IsDone, Expired
<1>4. ASSUME NEW c \in Codes, verification[c] # Gone, ~Expired(verification[c])
      PROVE  shown[c] <= 3
  <2>1. CodeInv(verification[c], posted[c], shown[c])
    BY DEF VerificationInv
  <2>2. verification[c].left \in 0..2 /\ verification[c].chat \in Chats
    BY <1>4, <2>1, KnownRecord DEF CodeInv, Expired
  <2>3. CASE IsWaiting(verification[c], posted[c], shown[c])
    BY <2>2, <2>3 DEF IsWaiting
  <2>4. CASE IsDone(verification[c], posted[c], shown[c])
    BY <2>1, <2>2, <2>4 DEF IsDone, CodeInv
  <2> QED
    BY <1>4, <2>1, <2>3, <2>4 DEF CodeInv
<1> QED
  BY <1>1, <1>2, <1>3, <1>4 DEF PassedIsValid, CodesAreShortLived

-----------------------------------------------------------------------------
(* Whoever gets a ticket has posted a code in its chat shortly before, for *)
(* any codes, chats and requests: nothing that is saved, cleaned or shown  *)
(* again in between (NewVerification, Verify, ExpireCleanBackground) gets  *)
(* a ticket otherwise.                                                     *)
THEOREM Vouched == VerificationSpec => []TicketIsVouched
<1>1. VerificationInv => TicketIsVouched
  BY Implied
<1> QED
  BY <1>1, InitVerificationInv, NextVerificationInv, PTL DEF VerificationSpec

(* A member whose code has passed may use it for two minutes.              *)
THEOREM Passed == VerificationSpec => []PassedIsValid
<1>1. VerificationInv => PassedIsValid
  BY Implied
<1> QED
  BY <1>1, InitVerificationInv, NextVerificationInv, PTL DEF VerificationSpec

(* No code outlives its two lives; and the bucket is type correct.         *)
THEOREM ShortLived == VerificationSpec => [](VerificationTypeOK /\ CodesAreShortLived)
<1>1. VerificationInv => VerificationTypeOK /\ CodesAreShortLived
  BY Implied
<1> QED
  BY <1>1, InitVerificationInv, NextVerificationInv, PTL DEF VerificationSpec

-----------------------------------------------------------------------------
(* Lines.  The hosts of some nodes, each with whose it is.                 *)
HostsOfAll(names) == UNION {{<<s, at>> : at \in DOMAIN HostsOf[s]} : s \in names}

LEMMA OneMore ==
    ASSUME NEW s, s \subseteq Servers \cup Relays, NEW x \in s,
           IsFiniteSet(HostsOfAll(s \ {x}))
    PROVE  /\ IsFiniteSet(HostsOfAll(s))
           /\ Cardinality(HostsOfAll(s)) =
                Cardinality(HostsOfAll(s \ {x})) + Len(HostsOf[x])
<1> DEFINE own == {<<x, at>> : at \in DOMAIN HostsOf[x]}
           rest == HostsOfAll(s \ {x})
           f == [at \in 1..Len(HostsOf[x]) |-> <<x, at>>]
<1>1. HostsOf[x] \in Seq(STRING)
  BY LinesAssumption
<1>2. Len(HostsOf[x]) \in Nat /\ DOMAIN HostsOf[x] = 1..Len(HostsOf[x])
  BY <1>1, LenProperties
<1>3. HostsOfAll(s) = rest \cup own /\ rest \cap own = {}
  BY DEF HostsOfAll
<1>4. f \in Bijection(1..Len(HostsOf[x]), own)
  BY <1>2 DEF Bijection, Injection, Surjection, IsInjective
<1>5. IsFiniteSet(1..Len(HostsOf[x])) /\ Cardinality(1..Len(HostsOf[x])) = Len(HostsOf[x])
  BY <1>2, FS_Interval
<1>6. IsFiniteSet(own) /\ Cardinality(own) = Len(HostsOf[x])
  BY <1>4, <1>5, FS_Bijection DEF ExistsBijection
<1> HIDE DEF own, rest
<1>7. Cardinality(rest \cap own) = 0 /\ IsFiniteSet(rest)
  BY <1>3, FS_EmptySet DEF rest
<1>8. Cardinality(rest) \in Nat
  BY <1>7, FS_CardinalityType
<1>9. /\ IsFiniteSet(rest \cup own)
      /\ Cardinality(rest \cup own) = Cardinality(rest) + Cardinality(own) - Cardinality(rest \cap own)
  BY <1>6, <1>7, FS_Union
<1> QED
  BY <1>2, <1>3, <1>6, <1>7, <1>8, <1>9 DEF rest

(* What the first loops count.                                             *)
LEMMA HostsAreCounted ==
    ASSUME NEW names, names \subseteq Servers \cup Relays, IsFiniteSet(names)
    PROVE  /\ IsFiniteSet(HostsOfAll(names))
           /\ CountHosts(names) = Cardinality(HostsOfAll(names))
<1> DEFINE first(s) == CHOOSE x \in s : TRUE
           Counts(f) == f = [s \in SUBSET names |->
                               IF s = {} THEN 0
                               ELSE LET x == first(s)
                                    IN  f[s \ {x}] + Len(HostsOf[x])]
           iter == CHOOSE f : Counts(f)
           count == [s \in SUBSET names |-> Cardinality(HostsOfAll(s))]
           Infinite == {s \in SUBSET names : ~IsFiniteSet(HostsOfAll(s))}
           Wrong == {s \in SUBSET names : iter[s] # count[s]}
<1>1. HostsOfAll({}) = {}
  BY DEF HostsOfAll
<1>2. \A s : s # {} => first(s) \in s
  OBVIOUS
<1> HIDE DEF first
<1>3. Infinite = {}
  <2> SUFFICES ASSUME Infinite # {} PROVE FALSE
    OBVIOUS
  <2>1. PICK s \in Infinite : \A t \in SUBSET s : t # s => t \notin Infinite
    <3>1. Infinite \subseteq SUBSET names
      OBVIOUS
    <3> HIDE DEF Infinite
    <3> QED
      BY <3>1, SmallestSubset
  <2>2. s # {}
    BY <1>1, <2>1, FS_EmptySet
  <2>3. IsFiniteSet(HostsOfAll(s \ {first(s)}))
    BY <1>2, <2>1, <2>2
  <2>4. first(s) \in s /\ s \subseteq Servers \cup Relays
    BY <1>2, <2>2
  <2> QED
    BY <2>1, <2>3, <2>4, OneMore
<1>4. ASSUME NEW s \in SUBSET names, s # {}
      PROVE  Cardinality(HostsOfAll(s)) =
               Cardinality(HostsOfAll(s \ {first(s)})) + Len(HostsOf[first(s)])
  <2>1. IsFiniteSet(HostsOfAll(s \ {first(s)}))
    BY <1>3
  <2>2. first(s) \in s /\ s \subseteq Servers \cup Relays
    BY <1>2, <1>4
  <2> QED
    BY <2>1, <2>2, OneMore
<1>5. Counts(count)
  <2>1. count[{}] = 0
    BY <1>1, FS_EmptySet
  <2>2. \A s \in SUBSET names : s # {} => count[s] = count[s \ {first(s)}] + Len(HostsOf[first(s)])
    BY <1>4
  <2> HIDE DEF count
  <2>3. count = [s \in SUBSET names |-> count[s]]
    BY DEF count
  <2> QED
    BY <2>1, <2>2, <2>3
<1>6. Counts(iter)
  BY <1>5
<1>7. CountHosts(names) = iter[names]
  BY DEF CountHosts, FoldSet, MapThenFoldSet, first
<1> HIDE DEF iter
<1>8. Wrong = {}
  <2> SUFFICES ASSUME Wrong # {} PROVE FALSE
    OBVIOUS
  <2>1. PICK s \in Wrong : \A t \in SUBSET s : t # s => t \notin Wrong
    <3>1. Wrong \subseteq SUBSET names
      OBVIOUS
    <3> HIDE DEF Wrong
    <3> QED
      BY <3>1, SmallestSubset
  <2>2. s # {}
    BY <1>5, <1>6, <2>1
  <2>3. iter[s \ {first(s)}] = count[s \ {first(s)}]
    BY <1>2, <2>1, <2>2
  <2>4. iter[s] = iter[s \ {first(s)}] + Len(HostsOf[first(s)])
    BY <1>6, <2>1, <2>2
  <2>5. count[s] = count[s \ {first(s)}] + Len(HostsOf[first(s)])
    BY <1>4, <2>1, <2>2
  <2> QED
    BY <2>1, <2>3, <2>4, <2>5
<1> QED
  BY <1>3, <1>7, <1>8


-----------------------------------------------------------------------------
(* Lines for all the loops come to.                                        *)
LEMMA AskTypes ==
    ASSUME ask \in Asks
    PROVE  /\ ask.svrs \subseteq Servers /\ IsFiniteSet(ask.svrs)
           /\ ask.relays \subseteq Relays /\ IsFiniteSet(ask.relays)
           /\ Relayed \subseteq Servers /\ IsFiniteSet(Relayed)
           /\ ask.types \subseteq Types
<1>1. /\ ask.svrs \subseteq Servers /\ ask.relays \subseteq Relays
      /\ ask.types \subseteq Types
  BY DEF Asks
<1>2. Relayed \subseteq Servers
  BY <1>1 DEF Relayed
<1> QED
  BY <1>1, <1>2, LinesAssumption, FS_Subset

LEMMA LoopsFit ==
    ASSUME ask \in Asks
    PROVE  /\ IsFiniteSet(Loops) /\ MaxCnt \in Nat \ {0}
           /\ Cardinality(Loops) \in Nat /\ Cardinality(Loops) < MaxCnt
<1> DEFINE svrHosts == HostsOfAll(ask.svrs)
           relayHosts == HostsOfAll(ask.relays)
           pairs == Relayed \X relayHosts
           direct == [p \in svrHosts |-> Direct(p[1], p[2])]
           via == [p \in pairs |-> Via(p[2][1], p[1], p[2][2])]
<1>1. /\ IsFiniteSet(svrHosts) /\ CountHosts(ask.svrs) = Cardinality(svrHosts)
      /\ IsFiniteSet(relayHosts) /\ CountHosts(ask.relays) = Cardinality(relayHosts)
  BY AskTypes, HostsAreCounted
<1>2. IsFiniteSet(pairs) /\ Cardinality(pairs) = Cardinality(Relayed) * Cardinality(relayHosts)
  BY <1>1, AskTypes, FS_Product
<1>3. direct \in Surjection(svrHosts, EndpointLoop)
  <2>1. \A p \in svrHosts : direct[p] \in EndpointLoop
    BY DEF HostsOfAll, EndpointLoop
  <2>2. ASSUME NEW l \in EndpointLoop PROVE \E p \in svrHosts : direct[p] = l
    <3>1. PICK svr \in ask.svrs : l \in {Direct(svr, at) : at \in DOMAIN HostsOf[svr]}
      BY DEF EndpointLoop
    <3>2. PICK at \in DOMAIN HostsOf[svr] : l = Direct(svr, at)
      BY <3>1
    <3>3. <<svr, at>> \in svrHosts
      BY DEF HostsOfAll
    <3> QED
      BY <3>2, <3>3
  <2> QED
    BY <2>1, <2>2 DEF Surjection
<1>4. via \in Surjection(pairs, RelayLoop)
  <2>1. \A p \in pairs : via[p] \in RelayLoop
    BY DEF HostsOfAll, RelayLoop
  <2>2. ASSUME NEW l \in RelayLoop PROVE \E p \in pairs : via[p] = l
    <3>1. PICK relay \in ask.relays :
            l \in {Via(relay, svr, at) : svr \in Relayed, at \in DOMAIN HostsOf[relay]}
      BY DEF RelayLoop
    <3>2. PICK svr \in Relayed, at \in DOMAIN HostsOf[relay] : l = Via(relay, svr, at)
      BY <3>1
    <3>3. <<svr, <<relay, at>>>> \in pairs
      BY DEF HostsOfAll
    <3> QED
      BY <3>2, <3>3
  <2> QED
    BY <2>1, <2>2 DEF Surjection
<1> HIDE DEF svrHosts, relayHosts, pairs, direct, via
<1>5. IsFiniteSet(EndpointLoop) /\ Cardinality(EndpointLoop) <= Cardinality(svrHosts)
  BY <1>1, <1>3, FS_Surjection
<1>6. IsFiniteSet(RelayLoop) /\ Cardinality(RelayLoop) <= Cardinality(pairs)
  BY <1>2, <1>4, FS_Surjection
<1> DEFINE both == EndpointLoop \cup RelayLoop
<1>7. /\ IsFiniteSet(both)
      /\ Cardinality(both) = Cardinality(EndpointLoop) + Cardinality(RelayLoop)
                               - Cardinality(EndpointLoop \cap RelayLoop)
  BY <1>5, <1>6, FS_Union
<1>8. IsFiniteSet(EndpointLoop \cap RelayLoop)
  BY <1>5, FS_Intersection
<1>9. Loops \subseteq both
  BY DEF Loops
<1> HIDE DEF both
<1>10. IsFiniteSet(Loops) /\ Cardinality(Loops) <= Cardinality(both)
  BY <1>7, <1>9, FS_Subset
<1>11. /\ Cardinality(svrHosts) \in Nat /\ Cardinality(pairs) \in Nat
       /\ Cardinality(EndpointLoop) \in Nat /\ Cardinality(RelayLoop) \in Nat
       /\ Cardinality(EndpointLoop \cap RelayLoop) \in Nat
       /\ Cardinality(Loops) \in Nat
  BY <1>1, <1>2, <1>5, <1>6, <1>8, <1>10, FS_CardinalityType
<1>12. MaxCnt = 1 + Cardinality(svrHosts) + Cardinality(pairs)
  BY <1>1, <1>2 DEF MaxCnt
<1> QED
  BY <1>5, <1>6, <1>7, <1>10, <1>11, <1>12

(* The loops come to one link after the other.                             *)
IsLink(l) ==
    /\ l = [type |-> l.type, svr |-> l.svr, via |-> l.via, at |-> l.at]
    /\ l.type \in Types /\ l.svr \in Int /\ l.via \in Int /\ l.at \in Nat \ {0}

LEMMA LoopsType ==
    ASSUME ask \in Asks, NEW l \in Loops
    PROVE  IsLink(l) /\ l # Empty /\ l # Alert
<1>1. PICK type \in Types, svr \in Int, via \in Servers \cup Relays :
        \E at \in DOMAIN HostsOf[via] :
            l = [type |-> type, svr |-> svr, via |-> via, at |-> at]
  <2>1. CASE l \in EndpointLoop
    BY <2>1, AskTypes, LinesAssumption DEF EndpointLoop, Direct, Types
  <2>2. CASE l \in RelayLoop
    <3>1. PICK relay \in ask.relays :
            l \in {Via(relay, svr, at) : svr \in Relayed, at \in DOMAIN HostsOf[relay]}
      BY <2>2 DEF RelayLoop
    <3>2. PICK svr \in Relayed, at \in DOMAIN HostsOf[relay] : l = Via(relay, svr, at)
      BY <3>1
    <3>3. svr \in Int /\ relay \in Servers \cup Relays
      BY AskTypes, LinesAssumption
    <3> QED
      BY <3>2, <3>3 DEF Via, Types
  <2> QED
    BY <2>1, <2>2 DEF Loops
<1>2. PICK at \in DOMAIN HostsOf[via] :
        l = [type |-> type, svr |-> svr, via |-> via, at |-> at]
  BY <1>1
<1>3. HostsOf[via] \in Seq(STRING)
  BY LinesAssumption
<1>4. at \in Nat \ {0} /\ via \in Int
  BY <1>3, LinesAssumption
<1> QED
  BY <1>2, <1>4 DEF IsLink, Types, Empty, Alert

LEMMA BeforeOrders ==
    ASSUME NEW k, IsLink(k), NEW l, IsLink(l), NEW m, IsLink(m)
    PROVE  /\ ~Before(k, k)
           /\ k # l => Before(k, l) \/ Before(l, k)
           /\ Before(k, l) /\ Before(l, m) => Before(k, m)
<1>1. ~Before(k, k)
  BY DEF Before, IsLink, Types
<1>2. k # l => Before(k, l) \/ Before(l, k)
  BY DEF Before, IsLink, Types
<1>3. Before(k, l) /\ Before(l, m) => Before(k, m)
  BY DEF Before, IsLink, Types
<1> QED
  BY <1>1, <1>2, <1>3

(* The line that a link has is the number of those not after it.           *)
Prior(l) == {k \in Loops : Before(k, l)}
Slot(l) == 1 + Cardinality(Prior(l))

LEMMA SlotsAreOrdered ==
    ASSUME ask \in Asks, NEW k \in Loops, NEW l \in Loops
    PROVE  /\ Slot(l) \in 1..MaxCnt - 1
           /\ Before(k, l) => Slot(k) < Slot(l)
           /\ k # l => Slot(k) # Slot(l)
<1>1. IsFiniteSet(Loops) /\ Cardinality(Loops) \in Nat
      /\ MaxCnt \in Nat /\ Cardinality(Loops) < MaxCnt
  BY LoopsFit
<1>2. \A m \in Loops : Prior(m) \subseteq Loops /\ m \notin Prior(m)
  BY LoopsType, BeforeOrders DEF Prior
<1>3. \A m \in Loops : IsFiniteSet(Prior(m)) /\ Cardinality(Prior(m)) \in Nat
  BY <1>1, <1>2, FS_Subset, FS_CardinalityType
<1>4. \A m \in Loops : Cardinality(Prior(m)) < Cardinality(Loops)
  <2> SUFFICES ASSUME NEW m \in Loops PROVE Cardinality(Prior(m)) < Cardinality(Loops)
    OBVIOUS
  <2>1. /\ Cardinality(Prior(m)) <= Cardinality(Loops)
        /\ Cardinality(Loops) = Cardinality(Prior(m)) => Loops = Prior(m)
    BY <1>1, <1>2, FS_Subset
  <2> QED
    BY <1>1, <1>2, <1>3, <2>1
<1>5. ASSUME NEW m \in Loops, NEW n \in Loops, Before(m, n)
      PROVE  Cardinality(Prior(m)) < Cardinality(Prior(n))
  <2>1. Prior(m) \subseteq Prior(n)
    <3>1. ASSUME NEW x \in Prior(m) PROVE Before(x, n)
      BY <1>5, LoopsType, BeforeOrders DEF Prior
    <3> QED
      BY <3>1 DEF Prior
  <2>2. m \in Prior(n) /\ m \notin Prior(m)
    BY <1>2, <1>5 DEF Prior
  <2>3. /\ Cardinality(Prior(m)) <= Cardinality(Prior(n))
        /\ Cardinality(Prior(n)) = Cardinality(Prior(m)) => Prior(n) = Prior(m)
    BY <1>3, <2>1, FS_Subset
  <2> QED
    BY <1>3, <2>2, <2>3
<1>6. k # l => Before(k, l) \/ Before(l, k)
  BY LoopsType, BeforeOrders
<1> QED
  BY <1>1, <1>3, <1>4, <1>5, <1>6 DEF Slot

-----------------------------------------------------------------------------
(* What is collected: every line that is not empty, in the order they are. *)
FullLines(all) == {j \in DOMAIN all : all[j] # Empty}

LEMMA FullLinesRemain ==
    ASSUME NEW n \in Nat, NEW all, DOMAIN all = 0..n,
           NEW out, out = Remaining(all),
           NEW full, full = FullLines(all), NEW size, size = Cardinality(full)
    PROVE  /\ size \in Nat /\ out = [i \in 1..size |-> out[i]]
           /\ \E from \in [1..size -> full] :
                /\ \A i \in 1..size : out[i] = all[from[i]]
                /\ \A i, j \in 1..size : i < j => from[i] < from[j]
                /\ \A j \in full : \E i \in 1..size : from[i] = j
<1> DEFINE upTo(j) == {k \in full : k <= j}
           place == [j \in full |-> Cardinality(upTo(j))]
           from == [i \in 1..size |-> CHOOSE j \in full : Cardinality(upTo(j)) = i]
<1>1. full \subseteq 0..n
  BY DEF FullLines
<1>2. out = [i \in 1..size |-> all[CHOOSE j \in full : Cardinality(upTo(j)) = i]]
  BY DEF Remaining, FullLines
<1>3. IsFiniteSet(full) /\ size \in Nat
  <2>1. IsFiniteSet(0..n)
    BY FS_Interval
  <2> QED
    BY <1>1, <2>1, FS_Subset, FS_CardinalityType
<1>4. ASSUME NEW j \in full
      PROVE  /\ IsFiniteSet(upTo(j)) /\ upTo(j) \subseteq full /\ j \in upTo(j)
             /\ place[j] \in 1..size /\ place[j] = Cardinality(upTo(j))
  <2>1. IsFiniteSet(upTo(j)) /\ Cardinality(upTo(j)) <= size
    BY <1>3, FS_Subset
  <2>2. j \in upTo(j)
    BY <1>1
  <2>3. Cardinality(upTo(j)) \in Nat /\ Cardinality(upTo(j)) # 0
    BY <2>1, <2>2, FS_CardinalityType, FS_EmptySet
  <2> QED
    BY <1>3, <2>1, <2>2, <2>3
<1> HIDE DEF upTo, place
<1>5. ASSUME NEW j \in full, NEW k \in full, j < k PROVE place[j] < place[k]
  <2>1. upTo(j) \subseteq upTo(k) /\ k \notin upTo(j)
    <3>1. j \in Int /\ k \in Int /\ \A x \in full : x \in Int
      BY <1>1
    <3>2. ~(k <= j) /\ \A x \in full : x <= j => x <= k
      BY <1>5, <3>1
    <3> QED
      BY <3>2 DEF upTo
  <2>2. /\ Cardinality(upTo(j)) <= Cardinality(upTo(k))
        /\ Cardinality(upTo(k)) = Cardinality(upTo(j)) => upTo(k) = upTo(j)
    BY <1>4, <2>1, FS_Subset
  <2>3. upTo(k) # upTo(j)
    BY <1>4, <2>1
  <2>4. /\ place[j] = Cardinality(upTo(j)) /\ place[k] = Cardinality(upTo(k))
        /\ place[j] \in Int /\ place[k] \in Int
    BY <1>3, <1>4
  <2> QED
    BY <2>2, <2>3, <2>4
<1>6. \A j, k \in full : place[j] = place[k] => j = k
  <2> SUFFICES ASSUME NEW j \in full, NEW k \in full, j # k PROVE place[j] # place[k]
    OBVIOUS
  <2>1. j < k \/ k < j
    BY <1>1
  <2>2. place[j] \in Int /\ place[k] \in Int
    BY <1>3, <1>4
  <2>3. place[j] < place[k] \/ place[k] < place[j]
    BY <1>5, <2>1
  <2> QED
    BY <2>2, <2>3
<1>7. \A i \in 1..size : \E j \in full : place[j] = i
  <2> DEFINE places == {place[j] : j \in full}
  <2>1. place \in Bijection(full, places)
    BY <1>6 DEF Bijection, Injection, Surjection, IsInjective, place
  <2>2. Cardinality(places) = size
    BY <1>3, <2>1, FS_Bijection DEF ExistsBijection
  <2>3. places \subseteq 1..size
    BY <1>4
  <2>4. IsFiniteSet(1..size) /\ Cardinality(1..size) = size
    BY <1>3, FS_Interval
  <2>5. places = 1..size
    BY <2>2, <2>3, <2>4, FS_Subset
  <2> QED
    BY <2>5
<1>8. ASSUME NEW i \in 1..size PROVE from[i] \in full /\ place[from[i]] = i
  <2>1. \E j \in full : Cardinality(upTo(j)) = i
    BY <1>4, <1>7
  <2> QED
    BY <1>4, <2>1
<1>9. from \in [1..size -> full]
  BY <1>8
<1>10. \A i \in 1..size : out[i] = all[from[i]]
  BY <1>2
<1> HIDE DEF from
<1>11. ASSUME NEW i \in 1..size, NEW j \in 1..size, i < j PROVE from[i] < from[j]
  <2>1. from[i] # from[j] /\ ~(from[j] < from[i])
    BY <1>3, <1>5, <1>8, <1>11
  <2>2. from[i] \in 0..n /\ from[j] \in 0..n
    BY <1>1, <1>8
  <2> QED
    BY <2>1, <2>2
<1>12. ASSUME NEW j \in full PROVE \E i \in 1..size : from[i] = j
  BY <1>4, <1>6, <1>8
<1>13. out = [i \in 1..size |-> out[i]]
  BY <1>2
<1> QED
  BY <1>3, <1>9, <1>10, <1>11, <1>12, <1>13

-----------------------------------------------------------------------------
(* The inductive invariant.  While the loops go on, they have come to the  *)
(* first links; each of them has the line that is its place in the order,  *)
(* and it is filled in unless its goroutine has yet to do so.              *)
Started == Loops \ loop
Goroutine(l) == [cnt |-> Slot(l), link |-> l]
Line(l) == IF ValidHost(l) THEN l ELSE Empty

SpawnInv ==
    /\ ask \in Asks
    /\ loop \subseteq Loops
    /\ \A k \in Started, l \in loop : Before(k, l)
    /\ cnt = 1 + Cardinality(Started)
    /\ DOMAIN lines = 0..MaxCnt - 1
    /\ 0 \in DOMAIN lines => lines[0] = Alert
    /\ goroutines \subseteq {Goroutine(l) : l \in Started}
    /\ \A l \in Started :
         lines[Slot(l)] = IF Goroutine(l) \in goroutines THEN Empty ELSE Line(l)
    /\ \A i \in 1..MaxCnt - 1 : (\A l \in Started : Slot(l) # i) => lines[i] = Empty

AnswerIsComplete ==
    /\ lines[1] = Alert
    /\ Range(Tail(lines)) = Wanted
    /\ \A i, j \in 2..Len(lines) : i < j => Before(lines[i], lines[j])

LinesInv ==
    /\ linesPc \in {"idle", "spawn", "served", "refused"}
    /\ linesPc # "spawn" => loop = {} /\ goroutines = {}
    /\ linesPc = "spawn" => SpawnInv
    /\ linesPc = "served" => AnswerIsComplete

LEMMA AllocateStep ==
    ASSUME LinesInv, NEW a \in Asks, Allocate(a)
    PROVE  LinesInv'
<1>1. /\ linesPc' = "spawn" /\ ask' = a /\ loop' = Loops' /\ cnt' = 1
      /\ goroutines' = {}
      /\ lines' = [i \in 0..MaxCnt' - 1 |-> IF i = 0 THEN Alert ELSE Empty]
  BY DEF Allocate, LinesInv
<1>2. Started' = {}
  BY <1>1 DEF Started
<1>3. Cardinality(Started') = 0
  BY <1>2, FS_EmptySet
<1> QED
  BY <1>1, <1>2, <1>3 DEF LinesInv, SpawnInv

(* The next link has the next line.                                        *)
LEMMA SpawnStep ==
    ASSUME LinesInv, NEW link \in loop, Spawn(link)
    PROVE  LinesInv'
<1>1. /\ SpawnInv /\ linesPc' = "spawn"
      /\ \A other \in loop \ {link} : Before(link, other)
      /\ loop' = loop \ {link} /\ goroutines' = goroutines \cup {[cnt |-> cnt, link |-> link]}
      /\ cnt' = cnt + 1 /\ ask' = ask /\ lines' = lines
  BY DEF Spawn, LinesInv
<1>2. ask \in Asks /\ loop \subseteq Loops /\ link \in Loops /\ link \notin Started
  BY <1>1 DEF SpawnInv, Started
<1>3. /\ Loops' = Loops /\ MaxCnt' = MaxCnt
      /\ \A l : Slot(l)' = Slot(l) /\ Line(l)' = Line(l) /\ Goroutine(l)' = Goroutine(l)
  BY <1>1 DEF Loops, EndpointLoop, RelayLoop, Relayed, MaxCnt, Slot, Prior, Line, ValidHost,
              Goroutine
<1>4. Started' = Started \cup {link}
  BY <1>1, <1>2, <1>3 DEF Started
<1>5. Prior(link) = Started
  <2>1. \A l \in Loops : IsLink(l)
    BY <1>2, LoopsType
  <2>2. ASSUME NEW l \in Started PROVE Before(l, link)
    BY <1>1 DEF SpawnInv
  <2>3. ASSUME NEW l \in loop PROVE ~Before(l, link)
    <3>1. CASE l = link
      BY <1>2, <2>1, <3>1, BeforeOrders
    <3>2. CASE l # link
      BY <1>1, <1>2, <2>1, <3>2, BeforeOrders
    <3> QED
      BY <3>1, <3>2
  <2> QED
    BY <1>2, <2>2, <2>3 DEF Prior, Started
<1>6. Slot(link) = cnt
  BY <1>1, <1>5 DEF Slot, SpawnInv
<1>7. Cardinality(Started') = Cardinality(Started) + 1 /\ Cardinality(Started) \in Nat
  <2>1. IsFiniteSet(Started)
    BY <1>2, LoopsFit, FS_Subset DEF Started
  <2> QED
    BY <1>2, <1>4, <2>1, FS_AddElement, FS_CardinalityType
<1>8. Slot(link) \in 1..MaxCnt - 1 /\ \A l \in Started : Slot(l) # Slot(link)
  BY <1>2, SlotsAreOrdered DEF Started
<1>9. goroutines' = goroutines \cup {Goroutine(link)}
  BY <1>1, <1>6 DEF Goroutine
<1>10. /\ loop' \subseteq Loops'
       /\ cnt' = 1 + Cardinality(Started')
       /\ DOMAIN lines' = 0..MaxCnt' - 1
       /\ 0 \in DOMAIN lines' => lines'[0] = Alert
       /\ goroutines' \subseteq {Goroutine(l)' : l \in Started'}
  BY <1>1, <1>3, <1>4, <1>7, <1>9 DEF SpawnInv
<1>11. \A k \in Started', l \in loop' : Before(k, l)
  BY <1>1, <1>4 DEF SpawnInv
<1>12. ASSUME NEW l \in Started'
       PROVE  lines'[Slot(l)'] = IF Goroutine(l)' \in goroutines' THEN Empty ELSE Line(l)'
  <2>1. CASE l = link
    BY <1>1, <1>3, <1>8, <1>9, <2>1 DEF SpawnInv
  <2>2. CASE l # link
    <3>1. l \in Started /\ Goroutine(l) # Goroutine(link)
      BY <1>4, <2>2 DEF Goroutine
    <3> QED
      BY <1>1, <1>3, <1>9, <3>1 DEF SpawnInv
  <2> QED
    BY <2>1, <2>2
<1>13. \A i \in 1..MaxCnt' - 1 : (\A l \in Started' : Slot(l)' # i) => lines'[i] = Empty
  BY <1>1, <1>3, <1>4 DEF SpawnInv
<1>14. SpawnInv'
  BY <1>1, <1>2, <1>10, <1>11, <1>12, <1>13 DEF SpawnInv
<1> QED
  BY <1>1, <1>14 DEF LinesInv

LEMMA RunStep ==
    ASSUME LinesInv, NEW g \in goroutines, Run(g)
    PROVE  LinesInv'
<1>1. SpawnInv /\ linesPc = "spawn"
  BY DEF LinesInv
<1>2. PICK link \in Started : g = Goroutine(link)
  BY <1>1 DEF SpawnInv
<1>3. /\ ask \in Asks /\ link \in Loops /\ Started \subseteq Loops
      /\ g.cnt = Slot(link) /\ g.link = link
  BY <1>1, <1>2 DEF SpawnInv, Started, Goroutine
<1>4. /\ linesPc' = linesPc /\ ask' = ask /\ loop' = loop /\ cnt' = cnt
      /\ goroutines' = goroutines \ {g}
      /\ lines' = IF ValidHost(link) THEN [lines EXCEPT ![Slot(link)] = link] ELSE lines
  BY <1>3 DEF Run
<1>5. /\ Loops' = Loops /\ MaxCnt' = MaxCnt /\ Started' = Started
      /\ \A l : Slot(l)' = Slot(l) /\ Line(l)' = Line(l) /\ Goroutine(l)' = Goroutine(l)
  BY <1>4 DEF Loops, EndpointLoop, RelayLoop, Relayed, MaxCnt, Slot, Prior, Line, ValidHost,
              Goroutine, Started
<1>6. /\ Slot(link) \in 1..MaxCnt - 1 /\ Slot(link) # 0 /\ MaxCnt \in Nat
      /\ \A l \in Started : l # link => Slot(l) # Slot(link)
      /\ \A l \in Started : Slot(l) \in 1..MaxCnt - 1
  BY <1>3, SlotsAreOrdered, LoopsFit
<1>7. /\ DOMAIN lines' = 0..MaxCnt - 1
      /\ lines'[Slot(link)] = Line(link)
      /\ \A i \in 0..MaxCnt - 1 : i # Slot(link) => lines'[i] = lines[i]
  <2>1. DOMAIN lines = 0..MaxCnt - 1 /\ Slot(link) \in DOMAIN lines
    BY <1>1, <1>6 DEF SpawnInv
  <2>2. lines[Slot(link)] = Empty
    BY <1>1, <1>2 DEF SpawnInv
  <2> QED
    BY <1>4, <2>1, <2>2 DEF Line
<1>8. 0 \in DOMAIN lines' => lines'[0] = Alert
  BY <1>1, <1>6, <1>7 DEF SpawnInv
<1>9. ASSUME NEW l \in Started
      PROVE  lines'[Slot(l)] = IF Goroutine(l) \in goroutines' THEN Empty ELSE Line(l)
  <2>1. CASE l = link
    BY <1>2, <1>4, <1>7, <2>1
  <2>2. CASE l # link
    <3>1. lines'[Slot(l)] = lines[Slot(l)]
      BY <1>6, <1>7, <2>2
    <3>2. Goroutine(l) # g
      BY <1>2, <2>2 DEF Goroutine
    <3> QED
      BY <1>1, <1>4, <3>1, <3>2 DEF SpawnInv
  <2> QED
    BY <2>1, <2>2
<1>10. ASSUME NEW i \in 1..MaxCnt - 1, \A l \in Started : Slot(l) # i
       PROVE  lines'[i] = Empty
  BY <1>1, <1>6, <1>7, <1>10 DEF SpawnInv
<1>11. goroutines' \subseteq {Goroutine(l) : l \in Started}
  BY <1>1, <1>4 DEF SpawnInv
<1>12. SpawnInv'
  BY <1>1, <1>4, <1>5, <1>7, <1>8, <1>9, <1>10, <1>11 DEF SpawnInv
<1> QED
  BY <1>1, <1>4, <1>12 DEF LinesInv

(* The property says what the loops should come to in words of its own.    *)
LEMMA WantedAreValid ==
    ASSUME ask \in Asks
    PROVE  Wanted = {l \in Loops : ValidHost(l)}
<1> DEFINE Places == UNION {DOMAIN HostsOf[s] : s \in ask.svrs \cup ask.relays}
<1>1. ask.types \subseteq {"endpoint", "relay"}
  BY AskTypes DEF Types
<1>2. ASSUME NEW l \in Wanted PROVE l \in Loops /\ ValidHost(l)
  <2>1. /\ l.type \in ask.types /\ l.at \in DOMAIN HostsOf[l.via] /\ ValidHost(l)
        /\ \/ \E s \in ask.svrs, at \in Places : l = Direct(s, at)
           \/ \E r \in ask.relays, s \in Relayed, at \in Places : l = Via(r, s, at)
    BY DEF Wanted, ValidHost
  <2>2. ASSUME NEW s \in ask.svrs, NEW at \in Places, l = Direct(s, at) PROVE l \in Loops
    <3>1. at \in DOMAIN HostsOf[s] /\ "endpoint" \in ask.types
      BY <2>1, <2>2 DEF Direct
    <3> QED
      BY <2>2, <3>1 DEF Loops, EndpointLoop
  <2>3. ASSUME NEW r \in ask.relays, NEW s \in Relayed, NEW at \in Places, l = Via(r, s, at)
        PROVE  l \in Loops
    <3>1. at \in DOMAIN HostsOf[r] /\ "relay" \in ask.types
      BY <2>1, <2>3 DEF Via
    <3> QED
      BY <2>3, <3>1 DEF Loops, RelayLoop
  <2> QED
    BY <2>1, <2>2, <2>3
<1>3. ASSUME NEW l \in Loops, ValidHost(l) PROVE l \in Wanted
  <2>1. CASE l \in EndpointLoop /\ "endpoint" \in ask.types
    <3>1. PICK s \in ask.svrs : l \in {Direct(s, at) : at \in DOMAIN HostsOf[s]}
      BY <2>1 DEF EndpointLoop
    <3>2. PICK at \in DOMAIN HostsOf[s] : l = Direct(s, at)
      BY <3>1
    <3>3. at \in Places /\ l.type = "endpoint" /\ l.at = at /\ l.via = s
      BY <3>2 DEF Direct
    <3> QED
      BY <1>3, <2>1, <3>2, <3>3 DEF Wanted, ValidHost
  <2>2. CASE l \in RelayLoop /\ "relay" \in ask.types
    <3>1. PICK r \in ask.relays :
            l \in {Via(r, s, at) : s \in Relayed, at \in DOMAIN HostsOf[r]}
      BY <2>2 DEF RelayLoop
    <3>2. PICK s \in Relayed, at \in DOMAIN HostsOf[r] : l = Via(r, s, at)
      BY <3>1
    <3>3. at \in Places /\ l.type = "relay" /\ l.at = at /\ l.via = r
      BY <3>2 DEF Via
    <3> QED
      BY <1>3, <2>2, <3>2, <3>3 DEF Wanted, ValidHost
  <2> QED
    BY <2>1, <2>2 DEF Loops
<1> QED
  BY <1>2, <1>3

LEMMA CollectStep ==
    ASSUME LinesInv, Collect
    PROVE  LinesInv'
<1> DEFINE full == FullLines(lines)
           size == Cardinality(full)
           valid == {l \in Loops : ValidHost(l)}
<1>1. /\ SpawnInv /\ Started = Loops /\ goroutines = {}
      /\ linesPc' = "served" /\ lines' = Remaining(lines)
      /\ ask' = ask /\ loop' = {} /\ goroutines' = {}
  BY DEF Collect, LinesInv, Started
<1>2. /\ ask \in Asks /\ MaxCnt \in Nat \ {0} /\ MaxCnt - 1 \in Nat
      /\ DOMAIN lines = 0..MaxCnt - 1
  BY <1>1, LoopsFit DEF SpawnInv
<1>3. lines[0] = Alert /\ 0 \in full
  BY <1>1, <1>2 DEF SpawnInv, Alert, Empty, FullLines
<1>4. ASSUME NEW l \in Loops
      PROVE  Slot(l) \in 1..MaxCnt - 1 /\ lines[Slot(l)] = Line(l) /\ l # Empty
  BY <1>1, <1>2, SlotsAreOrdered, LoopsType DEF SpawnInv
<1>5. full = {0} \cup {Slot(l) : l \in valid}
  <2>1. ASSUME NEW j \in full, j # 0 PROVE \E l \in valid : j = Slot(l)
    <3>1. j \in 1..MaxCnt - 1 /\ lines[j] # Empty
      BY <1>2, <2>1 DEF FullLines
    <3>2. PICK l \in Loops : Slot(l) = j
      BY <1>1, <3>1 DEF SpawnInv
    <3>3. ValidHost(l)
      BY <1>4, <3>1, <3>2 DEF Line
    <3> QED
      BY <3>2, <3>3
  <2>2. ASSUME NEW l \in valid PROVE Slot(l) \in full
    BY <1>2, <1>4 DEF Line, FullLines
  <2> QED
    BY <1>3, <2>1, <2>2
<1>6. /\ size \in Nat /\ lines' = [i \in 1..size |-> lines'[i]]
      /\ \E from \in [1..size -> full] :
           /\ \A i \in 1..size : lines'[i] = lines[from[i]]
           /\ \A i, j \in 1..size : i < j => from[i] < from[j]
           /\ \A j \in full : \E i \in 1..size : from[i] = j
  <2> DEFINE n == MaxCnt - 1
  <2>1. /\ n \in Nat /\ DOMAIN lines = 0..n /\ lines' = Remaining(lines)
        /\ full = FullLines(lines) /\ size = Cardinality(full)
    BY <1>1, <1>2
  <2> HIDE DEF n, full, size
  <2> QED
    BY <2>1, FullLinesRemain
<1> HIDE DEF full, size, valid
<1>7. PICK from \in [1..size -> full] :
        /\ \A i \in 1..size : lines'[i] = lines[from[i]]
        /\ \A i, j \in 1..size : i < j => from[i] < from[j]
        /\ \A j \in full : \E i \in 1..size : from[i] = j
  BY <1>6
<1>8. \A j \in full : j \in Nat
  BY <1>2 DEF full, FullLines
<1>9. 1 \in 1..size /\ from[1] = 0
  <2>1. PICK i \in 1..size : from[i] = 0
    BY <1>3, <1>7
  <2>2. 1 \in 1..size /\ (i = 1 \/ 1 < i)
    BY <1>6, <2>1
  <2>3. from[1] \in Nat /\ ~(from[1] < 0)
    BY <1>7, <1>8, <2>2
  <2> QED
    BY <1>7, <2>1, <2>2, <2>3
<1>10. lines'[1] = Alert
  BY <1>3, <1>7, <1>9
<1>11. ASSUME NEW i \in 2..size
       PROVE  lines'[i] \in valid /\ from[i] = Slot(lines'[i])
  <2>1. 1 < i /\ i \in 1..size
    BY <1>6
  <2>2. from[i] \in full /\ from[i] # 0
    BY <1>7, <1>8, <1>9, <2>1
  <2>3. PICK l \in valid : from[i] = Slot(l)
    BY <1>5, <2>2
  <2>4. lines'[i] = l
    BY <1>4, <1>7, <2>1, <2>3 DEF Line, valid
  <2> QED
    BY <2>3, <2>4
<1>12. ASSUME NEW l \in valid PROVE \E i \in 2..size : lines'[i] = l
  <2>1. PICK i \in 1..size : from[i] = Slot(l)
    BY <1>5, <1>7
  <2>2. l \in Loops /\ ValidHost(l)
    BY DEF valid
  <2>3. Slot(l) \in 1..MaxCnt - 1 /\ lines[Slot(l)] = l
    BY <1>4, <2>2 DEF Line
  <2>4. i # 1
    BY <1>9, <2>1, <2>3
  <2>5. i \in 2..size
    BY <1>6, <2>1, <2>4
  <2>6. lines'[i] = l
    BY <1>7, <2>1, <2>3
  <2> QED
    BY <2>5, <2>6
<1>13. Len(lines') = size /\ Range(Tail(lines')) = {lines'[i] : i \in 2..size}
  <2> DEFINE S == {Alert} \cup valid
             out == lines'
  <2>1. \A i \in 1..size : out[i] \in S
    <3> SUFFICES ASSUME NEW i \in 1..size PROVE out[i] \in S
      OBVIOUS
    <3>1. i = 1 \/ i \in 2..size
      BY <1>6
    <3> QED
      BY <1>10, <1>11, <3>1
  <2> HIDE DEF S, out
  <2>2. out = [i \in 1..size |-> out[i]]
    BY <1>6 DEF out
  <2>3. out \in Seq(S) /\ Len(out) = size /\ out # <<>>
    <3>1. size \in Nat /\ size # 0
      BY <1>6, <1>9
    <3>2. out \in [1..size -> S]
      BY <2>1, <2>2
    <3>3. out \in Seq(S)
      BY <3>1, <3>2, IsASeq
    <3>4. Len(out) \in Nat /\ DOMAIN out = 1..Len(out)
      BY <3>3, LenProperties
    <3>5. DOMAIN out = 1..size
      BY <3>2
    <3> DEFINE len == Len(out)
    <3>6. len \in Nat /\ 1..len = 1..size
      BY <3>4, <3>5
    <3> HIDE DEF len
    <3>7. size \in 1..len /\ len \in 1..size
      BY <3>1, <3>6
    <3>8. len = size
      BY <3>1, <3>6, <3>7
    <3> QED
      BY <3>1, <3>3, <3>8 DEF len
  <2>4. /\ Len(Tail(out)) = size - 1 /\ DOMAIN Tail(out) = 1..size - 1
        /\ \A i \in 1..size - 1 : Tail(out)[i] = out[i + 1]
    BY <1>6, <1>9, <2>3
  <2>5. ASSUME NEW i \in 2..size PROVE i - 1 \in 1..size - 1 /\ (i - 1) + 1 = i
    BY <1>6
  <2>6. ASSUME NEW i \in 1..size - 1 PROVE i + 1 \in 2..size
    BY <1>6
  <2>7. Range(Tail(out)) = {Tail(out)[i] : i \in 1..size - 1}
    BY <2>4 DEF Range
  <2> HIDE DEF out
  <2>8. {Tail(out)[i] : i \in 1..size - 1} = {out[i] : i \in 2..size}
    BY <2>4, <2>5, <2>6
  <2> QED
    BY <2>3, <2>7, <2>8 DEF out
<1>14. Wanted' = valid
  <2>1. Wanted' = Wanted
    BY <1>1 DEF Wanted, Relayed, HostOf
  <2> QED
    BY <1>2, <2>1, WantedAreValid DEF valid
<1>15. Range(Tail(lines')) = Wanted'
  <2>1. {lines'[i] : i \in 2..size} = valid
    BY <1>11, <1>12
  <2> QED
    BY <1>13, <1>14, <2>1
<1>16. ASSUME NEW i \in 2..size, NEW j \in 2..size, i < j
       PROVE  Before(lines'[i], lines'[j])
  <2>1. from[i] < from[j]
    BY <1>6, <1>7, <1>16
  <2>2. Slot(lines'[i]) < Slot(lines'[j]) /\ lines'[i] \in Loops /\ lines'[j] \in Loops
    BY <1>11, <2>1 DEF valid
  <2>3. Slot(lines'[i]) \in Nat /\ Slot(lines'[j]) \in Nat
    BY <1>4, <2>2
  <2>4. lines'[i] # lines'[j] /\ ~Before(lines'[j], lines'[i])
    BY <1>2, <2>2, <2>3, SlotsAreOrdered
  <2> QED
    BY <1>2, <2>2, <2>4, LoopsType, BeforeOrders
<1>17. AnswerIsComplete'
  BY <1>10, <1>13, <1>15, <1>16 DEF AnswerIsComplete
<1> QED
  BY <1>1, <1>17 DEF LinesInv

LEMMA LinesStep == LinesInv /\ [LinesNext]_linesVars => LinesInv'
<1> SUFFICES ASSUME LinesInv, [LinesNext]_linesVars PROVE LinesInv'
  OBVIOUS
<1>1. CASE Refuse
  BY <1>1 DEF Refuse, LinesInv
<1>2. CASE Answered
  BY <1>2 DEF Answered, LinesInv
<1>3. CASE UNCHANGED linesVars
  <2>1. /\ ask' = ask /\ linesPc' = linesPc /\ lines' = lines /\ loop' = loop
        /\ cnt' = cnt /\ goroutines' = goroutines
    BY <1>3 DEF linesVars
  <2>2. /\ Loops' = Loops /\ MaxCnt' = MaxCnt /\ Started' = Started
        /\ \A l : Slot(l)' = Slot(l) /\ Line(l)' = Line(l) /\ Goroutine(l)' = Goroutine(l)
    BY <2>1 DEF Loops, EndpointLoop, RelayLoop, Relayed, MaxCnt, Slot, Prior, Line,
                ValidHost, Goroutine, Started
  <2>3. Wanted' = Wanted
    BY <2>1 DEF Wanted, Relayed, HostOf
  <2>4. SpawnInv => SpawnInv'
    BY <2>1, <2>2 DEF SpawnInv
  <2>5. AnswerIsComplete => AnswerIsComplete'
    BY <2>1, <2>3 DEF AnswerIsComplete
  <2> QED
    BY <2>1, <2>4, <2>5 DEF LinesInv
<1> QED
  BY <1>1, <1>2, <1>3, AllocateStep, SpawnStep, RunStep, CollectStep DEF LinesNext

(* For any servers, relays and hosts, and whatever is asked for: no two    *)
(* goroutines that GetSubscription starts share a line, none has one past  *)
(* the end of what was allocated, and the answer has every link, in order. *)
THEOREM LinesComplete == LinesSpec => []LinesAreComplete
<1>1. LinesInit => LinesInv
  BY DEF LinesInit, LinesInv
<1>2. LinesInv => LinesAreComplete
  <2> SUFFICES ASSUME LinesInv PROVE LinesAreComplete
    OBVIOUS
  <2>1. CASE linesPc # "spawn"
    BY <2>1 DEF LinesInv, LinesAreComplete, SlotsAreOwn, AnswerIsComplete
  <2>2. CASE linesPc = "spawn"
    <3>1. SpawnInv /\ ask \in Asks /\ Started \subseteq Loops
      BY <2>2 DEF LinesInv, SpawnInv, Started
    <3>2. ASSUME NEW g \in goroutines
          PROVE  /\ g.cnt \in DOMAIN lines \ {0} /\ lines[g.cnt] = Empty
                 /\ \A other \in goroutines : other.cnt = g.cnt => other = g
      <4>1. PICK l \in Started : g = Goroutine(l)
        BY <3>1 DEF SpawnInv
      <4>2. g.cnt = Slot(l) /\ Slot(l) \in 1..MaxCnt - 1 /\ MaxCnt \in Nat
        BY <3>1, <4>1, SlotsAreOrdered, LoopsFit DEF Goroutine
      <4>3. lines[g.cnt] = Empty /\ g.cnt \in DOMAIN lines \ {0}
        BY <3>1, <4>1, <4>2 DEF SpawnInv
      <4>4. ASSUME NEW other \in goroutines, other.cnt = g.cnt PROVE other = g
        <5>1. PICK k \in Started : other = Goroutine(k)
          BY <3>1 DEF SpawnInv
        <5>2. Slot(k) = Slot(l)
          BY <4>2, <4>4, <5>1 DEF Goroutine
        <5> QED
          BY <3>1, <4>1, <5>1, <5>2, SlotsAreOrdered
      <4> QED
        BY <4>3, <4>4
    <3> QED
      BY <2>2, <3>2 DEF LinesAreComplete, SlotsAreOwn
  <2> QED
    BY <2>1, <2>2
<1> QED
  BY <1>1, <1>2, LinesStep, PTL DEF LinesSpec

=============================================================================
