---------------------------- MODULE PathsProofs ----------------------------
(***************************************************************************)
(* Proofs about module Paths, for any set of users, servers and relays in  *)
(* any chats: a subscription works as long as it should, and no longer.    *)
(***************************************************************************)
EXTENDS Paths, TLAPS

IInv == TypeOK /\ LinksAreMade

(* What can be read off the passages of a server: a user of the chat, or a *)
(* relay of the chat that is let in.                                       *)
LEMMA OfServer ==
    ASSUME NEW s \in Servers, NEW p \in GetPassagesByServer(s)
    PROVE  /\ s \in valid /\ server[s].known /\ ~server[s].exhausted
           /\ \E x \in Chatmates(s) :
                /\ p.arg = GetUserArgument(s, x, server[s].arg)
                /\ \/ x \in Users /\ p.from = None
                   \/ /\ x \in Relays /\ p.from = x
                      /\ Usable(x) /\ ~server[s].noRelay
  <1>1. s \notin Relays
    BY PathsAssumption
  <1>2. /\ s \in valid /\ server[s].known /\ ~server[s].exhausted
        /\ p \in ServerPassages(s)
    <2> DEFINE none == s \notin valid \/ ~server[s].known \/ server[s].exhausted
    <2>1. p \in IF none THEN {} ELSE ServerPassages(s)
      BY DEF GetPassagesByServer
    <2>2. ~none
      BY <2>1
    <2> QED
      BY <2>1, <2>2
  <1>3. CASE \E u \in Users \cap Chatmates(s) :
               p = Inbound(u, GetUserArgument(s, u, server[s].arg))
    <2>1. Users \cap Relays = {}
      BY PathsAssumption DEF Nodes
    <2> QED
      BY <1>2, <1>3, <2>1 DEF Inbound
  <1>4. CASE \E r \in {r \in Relays \cap Chatmates(s) : Usable(r)} :
               /\ ~server[s].noRelay
               /\ p = Inbound(r, GetUserArgument(s, r, server[s].arg))
    BY <1>2, <1>4 DEF Inbound
  <1>5. \/ \E u \in Users \cap Chatmates(s) :
               p = Inbound(u, GetUserArgument(s, u, server[s].arg))
        \/ \E r \in {r \in Relays \cap Chatmates(s) : Usable(r)} :
               /\ ~server[s].noRelay
               /\ p = Inbound(r, GetUserArgument(s, r, server[s].arg))
    <2>1. CASE server[s].noRelay
      BY <1>2, <2>1 DEF ServerPassages
    <2>2. CASE ~server[s].noRelay
      BY <1>2, <2>2 DEF ServerPassages
    <2> QED
      BY <2>1, <2>2
  <1> QED
    BY <1>2, <1>3, <1>4, <1>5

(* ... and off those of a relay.                                           *)
LEMMA OfRelay ==
    ASSUME NEW r \in Relays, NEW p \in GetPassagesByServer(r)
    PROVE  \E s \in Servers \cap Chatmates(r), u \in Users \cap Chatmates(r) :
                /\ Usable(s) /\ ~server[s].noRelay
                /\ p.arg = GetRelayUserArgument(s, r, u, server[r].arg)
                /\ p.to = s
                /\ p.out = GetUserArgument(s, r, server[s].arg)
  <1>1. r \notin Servers
    BY PathsAssumption
  <1>2. p \in RelayPassages(r)
    BY <1>1 DEF GetPassagesByServer
  <1> QED
    BY <1>2 DEF RelayPassages

(* What a server lets in.                                                  *)
LEMMA ToServer ==
    ASSUME NEW s \in Servers, s \in valid, Usable(s),
           NEW x \in Chatmates(s),
           \/ x \in Users
           \/ x \in Relays /\ Usable(x) /\ ~server[s].noRelay
    PROVE  Inbound(x, GetUserArgument(s, x, server[s].arg))
             \in GetPassagesByServer(s)
  <1>1. s \notin Relays /\ (x \in Relays => x \notin Users)
    BY PathsAssumption DEF Nodes
  <1>2. GetPassagesByServer(s) = ServerPassages(s)
    BY <1>1 DEF GetPassagesByServer, Usable
  <1>3. CASE x \in Users
    BY <1>2, <1>3 DEF ServerPassages
  <1>4. CASE x \in Relays /\ Usable(x) /\ ~server[s].noRelay
    BY <1>1, <1>2, <1>4 DEF ServerPassages
  <1> QED
    BY <1>3, <1>4

(* ... and a relay, on to a server.                                        *)
LEMMA ToRelay ==
    ASSUME NEW r \in Relays, r \in valid, Usable(r),
           NEW s \in Servers \cap Chatmates(r), Usable(s), ~server[s].noRelay,
           NEW u \in Users \cap Chatmates(r)
    PROVE  [user |-> u, from |-> None,
            arg |-> GetRelayUserArgument(s, r, u, server[r].arg),
            to |-> s,
            out |-> GetUserArgument(s, r, server[s].arg)]
             \in GetPassagesByServer(r)
  <1>1. r \notin Servers
    BY PathsAssumption
  <1>2. GetPassagesByServer(r) = RelayPassages(r)
    BY <1>1 DEF GetPassagesByServer, Usable
  <1> QED
    BY <1>2 DEF RelayPassages

(* The links of a subscription.                                            *)
LEMMA OfLinks ==
    ASSUME TypeOK, NEW x \in Holders, NEW nets, NEW types,
           NEW link \in Links(x, nets, types)
    PROVE  /\ link.to \in Servers
           /\ ChatOf[x] = ChatOf[link.hop]
           /\ ChatOf[x] = ChatOf[link.to]
           /\ \E arg \in Argument :
                \/ link.hop = link.to /\ link.arg = GetUserArgument(link.to, x, arg)
                \/ /\ link.hop \in Relays
                   /\ link.arg = GetRelayUserArgument(link.to, link.hop, x, arg)
  <1>1. \A t \in Nodes : server[t].arg \in Argument
    BY DEF TypeOK, Record
  <1>2. CASE link \in Endpoints(x, nets)
    <2>1. PICK s \in Listed(x, Servers) : \E h \in Hosts :
            link = [hop |-> s, to |-> s, host |-> h,
                    arg |-> GetUserArgument(s, x, server[s].arg)]
      BY <1>2 DEF Endpoints, ValidNetwork, TypeOK, Record, Listed, Nodes
    <2>2. s \in Servers /\ ChatOf[s] = ChatOf[x]
      BY DEF Listed, Chatmates
    <2> QED
      BY <1>1, <2>1, <2>2 DEF Nodes
  <1>3. CASE link \in Relayed(x, nets)
    <2>1. PICK r \in Listed(x, Relays), s \in Listed(x, Servers) :
          \E h \in Hosts :
            link = [hop |-> r, to |-> s, host |-> h,
                    arg |-> GetRelayUserArgument(s, r, x, server[r].arg)]
      BY <1>3 DEF Relayed, ValidNetwork, TypeOK, Record, Listed, Nodes
    <2>2. /\ s \in Servers /\ ChatOf[s] = ChatOf[x]
          /\ r \in Relays /\ ChatOf[r] = ChatOf[x]
      BY DEF Listed, Chatmates
    <2> QED
      BY <1>1, <2>1, <2>2 DEF Nodes
  <1> QED
    BY <1>2, <1>3 DEF Links

-----------------------------------------------------------------------------
(* The inductive invariant: links stay what they were made, and a record   *)
(* always has arguments of a server.                                       *)
LEMMA InitIInv == Init => IInv
  <1> SUFFICES ASSUME Init PROVE IInv
    OBVIOUS
  <1>1. PICK arg \in Argument : server = [t \in Nodes |-> Unknown(arg)]
    BY DEF Init
  <1>2. Unknown(arg) \in Record
    BY DEF Unknown, Record
  <1> QED
    BY <1>1, <1>2 DEF Init, IInv, TypeOK, LinksAreMade

LEMMA LinksHaveType ==
    ASSUME TypeOK, NEW x \in Holders, NEW nets, NEW types
    PROVE  Links(x, nets, types) \subseteq Link
  <1> SUFFICES ASSUME NEW link \in Links(x, nets, types)
               PROVE  link \in Link
    OBVIOUS
  <1>1. \A t \in Nodes, y \in Nodes :
          /\ server[t].arg.protocol \in Protocols
          /\ Method(server[t].arg, y) \in Methods \cup Nodes \cup {None}
    <2> SUFFICES ASSUME NEW t \in Nodes, NEW y \in Nodes
                 PROVE  /\ server[t].arg.protocol \in Protocols
                        /\ Method(server[t].arg, y) \in Methods \cup Nodes \cup {None}
      OBVIOUS
    <2>1. server[t].arg \in Argument
      BY DEF TypeOK, Record
    <2>2. server[t].arg.protocol \in
            {"shadowsocks", "vmess", "vmess+tls+grpc", "juicity"}
      BY <2>1, PathsAssumption DEF Argument
    <2> QED
      BY <2>1, <2>2 DEF Argument, Method
  <1>2. CASE link \in Endpoints(x, nets)
    <2>1. PICK s \in Listed(x, Servers) : \E h \in Hosts :
            link = [hop |-> s, to |-> s, host |-> h,
                    arg |-> GetUserArgument(s, x, server[s].arg)]
      BY <1>2 DEF Endpoints, ValidNetwork, TypeOK, Record, Listed, Nodes
    <2>2. s \in Servers /\ s \in Nodes
      BY DEF Listed, Nodes
    <2> QED
      BY <1>1, <2>1, <2>2 DEF GetUserArgument, Digest, Link
  <1>3. CASE link \in Relayed(x, nets)
    <2>1. PICK r \in Listed(x, Relays), s \in Listed(x, Servers) :
          \E h \in Hosts :
            link = [hop |-> r, to |-> s, host |-> h,
                    arg |-> GetRelayUserArgument(s, r, x, server[r].arg)]
      BY <1>3 DEF Relayed, ValidNetwork, TypeOK, Record, Listed, Nodes
    <2>2. s \in Servers /\ r \in Relays /\ r \in Nodes
      BY DEF Listed, Nodes
    <2> QED
      BY <1>1, <2>1, <2>2 DEF GetRelayUserArgument, Digest, Link
  <1> QED
    BY <1>2, <1>3 DEF Links

LEMMA NextIInv == IInv /\ [Next]_vars => IInv'
  <1> SUFFICES ASSUME IInv, [Next]_vars PROVE IInv'
    OBVIOUS
  <1> USE DEF IInv
  <1>1. ASSUME NEW t \in Nodes, NEW rec \in Record, RegisterServer(t, rec)
        PROVE  IInv'
    BY <1>1 DEF RegisterServer, TypeOK, LinksAreMade
  <1>2. ASSUME NEW t \in Nodes, Disconnect(t)
        PROVE  IInv'
    BY <1>2 DEF Disconnect, TypeOK, LinksAreMade, Record
  <1>3. ASSUME NEW t \in Nodes, Account(t)
        PROVE  IInv'
    BY <1>3 DEF Account, TypeOK, LinksAreMade, Record
  <1>4. ASSUME NEW x \in Tickets, RevokeTicket(x)
        PROVE  IInv'
    <2>1. \A t \in Nodes : Unknown(server[t].arg) \in Record
      BY DEF TypeOK, Unknown, Record
    <2> QED
      BY <1>4, <2>1 DEF RevokeTicket, TypeOK, LinksAreMade
  <1>5. ASSUME NEW u \in Users, PostRenew(u)
        PROVE  IInv'
    BY <1>5 DEF PostRenew, TypeOK, LinksAreMade, Tickets
  <1>6. ASSUME NEW x \in Holders, NEW nets, NEW types,
               GetSubscription(x, nets, types)
        PROVE  IInv'
    <2>1. TypeOK'
      BY <1>6, LinksHaveType DEF GetSubscription, TypeOK
    <2>2. sub'.holder = x /\ sub'.links = Links(x, nets, types)
      BY <1>6 DEF GetSubscription
    <2>3. LinksAreMade'
      BY <2>2, OfLinks DEF LinksAreMade
    <2> QED
      BY <2>1, <2>3
  <1>7. CASE UNCHANGED vars
    BY <1>7 DEF vars, TypeOK, LinksAreMade
  <1> QED
    BY <1>1, <1>2, <1>3, <1>4, <1>5, <1>6, <1>7 DEF Next

(* Type correctness, and where links come from.                            *)
THEOREM Inductive == Spec => []IInv
  BY InitIInv, NextIInv, PTL DEF Spec

-----------------------------------------------------------------------------
(* Method() is all of an argument, but for the protocol, that shows.       *)
LEMMA SameArgument ==
    ASSUME NEW s, NEW r, NEW x, NEW a, NEW b, a.protocol = b.protocol
    PROVE  /\ Method(a, s) = Method(b, s) =>
                GetUserArgument(s, x, a) = GetUserArgument(s, x, b)
           /\ Method(a, r) = Method(b, r) =>
                GetRelayUserArgument(s, r, x, a) = GetRelayUserArgument(s, r, x, b)
  BY DEF GetUserArgument, GetRelayUserArgument

(* A subscription lasts: the case of a server, then that of a relay, whose *)
(* way out must be a way in at the server.                                 *)
LEMMA Lasting == IInv => SubscriptionLasts
  <1> SUFFICES ASSUME IInv, NEW link \in sub.links,
                      sub.holder \in Users,
                      sub.holder \in valid, link.hop \in valid, link.to \in valid,
                      Usable(link.hop), Usable(link.to),
                      link.hop \in Relays => ~server[link.to].noRelay,
                      UpToDate(link)
               PROVE  Opens(link)
    BY DEF SubscriptionLasts
  <1> DEFINE s == link.to  r == link.hop  u == sub.holder
  <1>1. /\ s \in Servers
        /\ u \in Users \cap Chatmates(s) /\ u \in Users \cap Chatmates(r)
        /\ s \in Servers \cap Chatmates(r)
    BY DEF IInv, LinksAreMade, Chatmates
  <1>2. PICK arg \in Argument :
          \/ r = s /\ link.arg = GetUserArgument(s, u, arg)
          \/ r \in Relays /\ link.arg = GetRelayUserArgument(s, r, u, arg)
    BY DEF IInv, LinksAreMade
  <1>3. CASE r = s /\ link.arg = GetUserArgument(s, u, arg)
    <2>1. server[s].arg.protocol = arg.protocol
          /\ Method(server[s].arg, s) = Method(arg, s)
      BY <1>3 DEF UpToDate, GetUserArgument
    <2>2. link.arg = GetUserArgument(s, u, server[s].arg)
      BY <1>3, <2>1, SameArgument
    <2>3. Inbound(u, GetUserArgument(s, u, server[s].arg))
            \in GetPassagesByServer(s)
      BY <1>1, ToServer
    <2>4. s \notin Relays
      BY <1>1, PathsAssumption
    <2> QED
      BY <1>3, <2>2, <2>3, <2>4 DEF Opens, Inbound
  <1>4. CASE r \in Relays /\ link.arg = GetRelayUserArgument(s, r, u, arg)
    <2>1. server[r].arg.protocol = arg.protocol
          /\ Method(server[r].arg, r) = Method(arg, r)
      BY <1>4 DEF UpToDate, GetRelayUserArgument
    <2>2. link.arg = GetRelayUserArgument(s, r, u, server[r].arg)
      BY <1>4, <2>1, SameArgument
    <2> DEFINE p == [user |-> u, from |-> None,
                     arg |-> GetRelayUserArgument(s, r, u, server[r].arg),
                     to |-> s,
                     out |-> GetUserArgument(s, r, server[s].arg)]
    <2>3. p \in GetPassagesByServer(r)
      BY <1>1, <1>4, ToRelay
    <2>4. r \notin Users /\ r \in Chatmates(s)
      BY <1>1, <1>4, PathsAssumption DEF Chatmates, Nodes
    <2>5. Inbound(r, GetUserArgument(s, r, server[s].arg))
            \in GetPassagesByServer(s)
      BY <1>1, <1>4, <2>4, ToServer
    <2> QED
      BY <2>2, <2>3, <2>5 DEF Opens, Inbound
  <1> QED
    BY <1>2, <1>3, <1>4

(* Access is entitled: a digest names its tickets, so that a passage that  *)
(* fits a link was made for the holder of the link.                        *)
LEMMA Entitled == IInv => AccessIsEntitled
  <1> SUFFICES ASSUME IInv, NEW link \in sub.links, Opens(link)
               PROVE  /\ sub.holder \in valid
                      /\ ChatOf[sub.holder] = ChatOf[link.to]
                      /\ ~server[link.to].exhausted
                      /\ link.hop \in Relays =>
                           Usable(link.hop) /\ ~server[link.to].noRelay
    BY DEF AccessIsEntitled
  <1> DEFINE s == link.to  r == link.hop  x == sub.holder
  <1>1. s \in Servers /\ s \notin Relays /\ ChatOf[x] = ChatOf[s]
    BY PathsAssumption DEF IInv, LinksAreMade
  <1>2. PICK p \in GetPassagesByServer(r) :
          /\ p.arg = link.arg
          /\ r \in Relays =>
               /\ p.to = s
               /\ \E q \in GetPassagesByServer(s) : q.from = r /\ q.arg = p.out
    BY DEF Opens
  <1>3. PICK arg \in Argument :
          \/ r = s /\ link.arg = GetUserArgument(s, x, arg)
          \/ r \in Relays /\ link.arg = GetRelayUserArgument(s, r, x, arg)
    BY DEF IInv, LinksAreMade
  <1>4. CASE r = s /\ link.arg = GetUserArgument(s, x, arg)
    <2>1. /\ ~server[s].exhausted
          /\ \E y \in Chatmates(s) : p.arg = GetUserArgument(s, y, server[s].arg)
      BY <1>1, <1>2, <1>4, OfServer
    <2>2. x \in Chatmates(s)
      BY <1>2, <1>4, <2>1 DEF GetUserArgument, Digest
    <2> QED
      BY <1>1, <1>4, <2>1, <2>2 DEF Chatmates
  <1>5. CASE r \in Relays /\ link.arg = GetRelayUserArgument(s, r, x, arg)
    <2>1. \E y \in Chatmates(r), t \in Servers :
            p.arg = GetRelayUserArgument(t, r, y, server[r].arg)
      BY <1>2, <1>5, OfRelay
    <2>2. x \in valid
      BY <1>2, <1>5, <2>1 DEF GetRelayUserArgument, Digest, Chatmates
    <2>3. PICK q \in GetPassagesByServer(s) : q.from = r
      BY <1>2, <1>5
    <2>4. r # None
      BY <1>5, PathsAssumption DEF Tickets, Nodes
    <2>5. ~server[s].exhausted /\ Usable(r) /\ ~server[s].noRelay
      BY <1>1, <2>3, <2>4, OfServer
    <2> QED
      BY <1>1, <2>2, <2>5
  <1> QED
    BY <1>3, <1>4, <1>5

(* No two passages of a node share a credential.                           *)
LEMMA Different == IInv => CredentialsDiffer
  <1> SUFFICES ASSUME NEW t \in Nodes,
                      NEW p \in GetPassagesByServer(t),
                      NEW q \in GetPassagesByServer(t),
                      p.arg = q.arg
               PROVE  p = q
    BY DEF CredentialsDiffer
  <1>1. CASE t \in Servers
    <2>1. /\ t \notin Relays
          /\ GetPassagesByServer(t) = ServerPassages(t)
      BY <1>1, PathsAssumption DEF GetPassagesByServer
    <2>2. \A x \in GetPassagesByServer(t) : \E y \in Chatmates(t) :
            /\ x = Inbound(y, GetUserArgument(t, y, server[t].arg))
      <3>1. \A y \in Relays : y \notin Users
        BY PathsAssumption DEF Nodes
      <3>2. CASE server[t].noRelay
        BY <2>1, <3>2 DEF ServerPassages
      <3>3. CASE ~server[t].noRelay
        BY <2>1, <3>1, <3>3 DEF ServerPassages
      <3> QED
        BY <3>2, <3>3
    <2>3. PICK y \in Chatmates(t) :
            p = Inbound(y, GetUserArgument(t, y, server[t].arg))
      BY <2>2
    <2>4. PICK z \in Chatmates(t) :
            q = Inbound(z, GetUserArgument(t, z, server[t].arg))
      BY <2>2
    <2>5. y = z
      BY <2>3, <2>4 DEF Inbound, GetUserArgument, Digest
    <2> QED
      BY <2>3, <2>4, <2>5
  <1>2. CASE t \in Relays
    <2> DEFINE P(s, u) == [user |-> u, from |-> None,
                           arg |-> GetRelayUserArgument(s, t, u, server[t].arg),
                           to |-> s,
                           out |-> GetUserArgument(s, t, server[s].arg)]
    <2>1. GetPassagesByServer(t) = {} \/ GetPassagesByServer(t) = RelayPassages(t)
      BY <1>2, PathsAssumption DEF GetPassagesByServer
    <2>2. \A x \in GetPassagesByServer(t) : \E s \in Servers, u \in Users :
            x = P(s, u)
      BY <2>1 DEF RelayPassages
    <2>3. PICK s1 \in Servers, u1 \in Users : p = P(s1, u1)
      BY <2>2
    <2>4. PICK s2 \in Servers, u2 \in Users : q = P(s2, u2)
      BY <2>2
    <2>5. s1 = s2 /\ u1 = u2
      BY <2>3, <2>4 DEF GetRelayUserArgument, Digest
    <2> QED
      BY <2>3, <2>4, <2>5
  <1> QED
    BY <1>1, <1>2 DEF Nodes

-----------------------------------------------------------------------------
(* A user's subscription works as long as what it goes through is usable   *)
(* and speaks the protocol it spoke when the subscription was made.        *)
THEOREM Lasts == Spec => []SubscriptionLasts
  BY Inductive, Lasting, PTL

(* A link opens nothing to a ticket that is not valid, in another chat, to *)
(* an exhausted server or through a relay the server does not want.        *)
THEOREM Access == Spec => []AccessIsEntitled
  BY Inductive, Entitled, PTL

(* No two passages of a server or relay share a credential.                *)
THEOREM Credentials == Spec => []CredentialsDiffer
  BY Inductive, Different, PTL

=============================================================================
