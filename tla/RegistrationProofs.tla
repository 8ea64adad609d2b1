------------------------- MODULE RegistrationProofs -------------------------
(***************************************************************************)
(* What registrations leave in the database and in the DNS (modules        *)
(* Registry and Records), for any hosts, arguments and MaxFailureCount and *)
(* however many registrations are in flight.                               *)
(***************************************************************************)
EXTENDS Registry, Records, TLAPS

-----------------------------------------------------------------------------
(* Registry.  The feed tells the truth; with its types that is inductive:  *)
(* whoever changes what it speaks of enters it in the same transaction,    *)
(* and finds there what the other rounds of pings have done.               *)

(* A record without failures is a proper one, and connected.               *)
LEMMA Fresh ==
    /\ MaxFailureCount \in Nat
    /\ ~(0 >= MaxFailureCount)
    /\ 0 \in Nat
  BY RegistryAssumption

LEMMA InitIInv == Init => IInv
  <1> SUFFICES ASSUME Init PROVE IInv
    OBVIOUS
  <1>1. record.known = FALSE /\ record.failures = 0
    BY DEF Init, NoRecord
  <1>2. TypeOK
    BY Fresh DEF Init, TypeOK, NoRecord, ServerAction
  <1> QED
    BY <1>1, <1>2 DEF IInv, FeedIsTrue

LEMMA NextIInv == IInv /\ [Next]_vars => IInv'
  <1> SUFFICES ASSUME IInv, [Next]_vars PROVE IInv'
    OBVIOUS
  <1> USE Fresh
          DEF IInv, TypeOK, FeedIsTrue, Failed, ServerAction
  <1>1. CASE Turn
    BY <1>1 DEF Turn
  <1>2. CASE FiveWeeks
    BY <1>2 DEF FiveWeeks
  <1>3. ASSUME NEW q \in Requests, PostRegister(q)
        PROVE  IInv'
    BY <1>3 DEF PostRegister
  <1>4. ASSUME NEW q \in Requests, PingTest(q)
        PROVE  IInv'
    BY <1>4 DEF PingTest
  <1>5. ASSUME NEW q \in Requests, RegisterServer(q)
        PROVE  IInv'
    BY <1>5 DEF RegisterServer, AddFeedServer
  <1>6. CASE RevokeTicket
    BY <1>6 DEF RevokeTicket, NoRecord
  <1>7. ASSUME NEW r \in PingRounds, PingStart(r)
        PROVE  IInv'
    BY <1>7 DEF PingStart
  <1>8. ASSUME NEW r \in PingRounds, Ping(r)
        PROVE  IInv'
    BY <1>8 DEF Ping
  <1>9. ASSUME NEW r \in PingRounds, PingGone(r)
        PROVE  IInv'
    BY <1>9 DEF PingGone
  <1>10. ASSUME NEW r \in PingRounds, PingFailed(r)
         PROVE  IInv'
    <2>1. record'.failures = record.failures + 1 /\ record'.known = record.known
      BY <1>10 DEF PingFailed
    <2>2. /\ record' \in [known : BOOLEAN, failures : Nat]
          /\ ping' \in [PingRounds -> {"none", "asked", "answered", "failed"}]
      BY <1>10 DEF PingFailed
    <2>3. CASE Failed(record')
      BY <1>10, <2>1, <2>2, <2>3 DEF PingFailed, AddFeedServer
    <2>4. CASE ~Failed(record')
      BY <1>10, <2>1, <2>2, <2>4 DEF PingFailed
    <2> QED
      BY <2>3, <2>4
  <1>11. ASSUME NEW r \in PingRounds, PingAnswered(r)
         PROVE  IInv'
    BY <1>11 DEF PingAnswered, AddFeedServer
  <1>12. CASE CleanTicket
    BY <1>12 DEF CleanTicket
  <1>13. CASE CleanServer
    BY <1>13 DEF CleanServer, NoRecord
  <1>14. CASE UNCHANGED vars
    BY <1>14 DEF vars
  <1> QED
    BY <1>1, <1>2, <1>3, <1>4, <1>5, <1>6, <1>7, <1>8, <1>9, <1>10, <1>11,
       <1>12, <1>13, <1>14 DEF Next, RequestStep, PingDone

(* Type correctness; the last Disconnect, Reconnect or Launch in the feed  *)
(* tells whether a server with a valid ticket has failed for good.         *)
THEOREM Truth == Spec => [](TypeOK /\ FeedIsTrue)
  <1>1. IInv => TypeOK /\ FeedIsTrue
    BY DEF IInv
  <1> QED
    BY InitIInv, NextIInv, <1>1, PTL DEF Spec

-----------------------------------------------------------------------------
(* Records.                                                                *)

(* Who no longer waits for its record, or has been given it, has one, or   *)
(* has lost it since; only hosts with a domain are assigned one.           *)
ApplicationInv(x) ==
    x # NotApplied =>
        /\ x.pc = "ping" /\ x.arg \in TLS => x.host \in dns \cup stripped
        /\ x.assign \in {"read", "create"} => x.host # "six"
        /\ x.assign = "assigned" => x.host \in dns \cup stripped

RecordsInv ==
    /\ RecordsTypeOK
    /\ RegisteredIsResolvable
    /\ \A q \in Applications : ApplicationInv(apply[q])

Application ==
    [pc : {"wait", "ping", "over"}, host : FirstHosts, arg : Arguments,
     assign : {"read", "create", "assigned", "failed", "none"}]

-----------------------------------------------------------------------------
(* A registration under way has all of its fields.                         *)
LEMMA ApplicationFields ==
    ASSUME NEW x \in {NotApplied} \cup Application, x.pc # "none"
    PROVE  /\ x \in Application /\ x # NotApplied
           /\ x.host \in FirstHosts /\ x.arg \in Arguments
BY DEF NotApplied, Application

(* An empty name is nobody's.                                              *)
LEMMA NoEmptyHost == "" \notin FirstHosts
BY RecordsAssumption DEF RecordsAssumption, FirstHosts

(* Wherever a registration resolves, its host has a record.                *)
LEMMA ResolvesItself ==
    ASSUME RecordsTypeOK, NEW h \in FirstHosts, LookupHost(HostToSNI(h)) # {}
    PROVE  h \in dns
BY NoEmptyHost
   DEF RecordsTypeOK, LookupHost, SystemResolver, DefaultResolver, HostToSNI

(* A step that changes one registration only, and no record of a host that *)
(* has one, keeps the invariant if it keeps the registration's part of it. *)
LEMMA OneApplication ==
    ASSUME RecordsInv, NEW q \in Applications, NEW x \in {NotApplied} \cup Application,
           apply' = [apply EXCEPT ![q] = x],
           ApplicationInv(x),
           UNCHANGED <<registered, dns, removing, stripped>>
    PROVE  RecordsInv'
<1>1. RecordsTypeOK'
  BY DEF RecordsInv, RecordsTypeOK, Application
<1>2. RegisteredIsResolvable'
  BY DEF RecordsInv, RegisteredIsResolvable
<1>3. \A p \in Applications : apply'[p] = IF p = q THEN x ELSE apply[p]
  BY DEF RecordsInv, RecordsTypeOK
<1>4. \A p \in Applications : ApplicationInv(apply[p])'
  BY <1>3 DEF RecordsInv, ApplicationInv
<1> QED
  BY <1>1, <1>2, <1>4 DEF RecordsInv

(* A step that leaves the registrations alone, and lets no record go but   *)
(* among those stripped.                                                   *)
LEMMA RecordsKept ==
    ASSUME RecordsInv,
           dns \cup stripped \subseteq dns' \cup stripped',
           RecordsTypeOK', RegisteredIsResolvable',
           NEW q \in Applications, apply'[q] = apply[q]
    PROVE  ApplicationInv(apply[q])'
BY DEF RecordsInv, ApplicationInv

-----------------------------------------------------------------------------
LEMMA RecordsBegin == RecordsInit => RecordsInv
BY RecordsAssumption
   DEF RecordsInit, RecordsInv, RecordsTypeOK, RegisteredIsResolvable,
       ApplicationInv, FirstHosts, Unregistered, NotApplied

LEMMA ApplyStep ==
    ASSUME RecordsInv, NEW q \in Applications, NEW host \in FirstHosts,
           NEW arg \in Arguments, Apply(q, host, arg)
    PROVE  RecordsInv'
<1>0. PICK assign \in {"none", "failed", "read"} :
        /\ apply' = [apply EXCEPT ![q] =
              [pc |-> IF arg \in TLS THEN "wait" ELSE "ping",
               host |-> host, arg |-> arg, assign |-> assign]]
        /\ assign = "read" => host # "name" /\ HostToSNI(host) # ""
  BY DEF Apply, AssignSubDomain, NewNameserver, NewCloudflare
<1> DEFINE x == [pc |-> IF arg \in TLS THEN "wait" ELSE "ping",
                 host |-> host, arg |-> arg, assign |-> assign]
<1>1. x \in Application
  BY DEF Application
<1>2. ApplicationInv(x)
  BY <1>0 DEF ApplicationInv, HostToSNI
<1>3. apply' = [apply EXCEPT ![q] = x] /\ UNCHANGED <<registered, dns, removing, stripped>>
  BY <1>0 DEF Apply
<1> QED
  BY <1>1, <1>2, <1>3, OneApplication

LEMMA AssignStep ==
    ASSUME RecordsInv, NEW q \in Applications, AssignRead(q) \/ AssignFail(q)
    PROVE  RecordsInv'
<1>1. apply[q] \in Application /\ apply[q] # NotApplied
  BY ApplicationFields
     DEF RecordsInv, RecordsTypeOK, AssignRead, AssignFail, Application
<1>2. PICK a \in {"create", "assigned", "failed"} :
          /\ apply' = [apply EXCEPT ![q] = [apply[q] EXCEPT !.assign = a]]
          /\ apply[q].assign \in {"read", "create"}
          /\ a = "assigned" => apply[q].host \in dns
          /\ UNCHANGED <<registered, dns, removing, stripped>>
  BY DEF AssignRead, AssignFail, Becoming
<1> DEFINE x == [apply[q] EXCEPT !.assign = a]
<1>3. x \in Application
  BY <1>1 DEF Application
<1>4. ApplicationInv(x)
  BY <1>1, <1>2 DEF RecordsInv, ApplicationInv, Application
<1> QED
  BY <1>2, <1>3, <1>4, OneApplication

LEMMA AssignCreateStep ==
    ASSUME RecordsInv, NEW q \in Applications, AssignCreate(q)
    PROVE  RecordsInv'
<1>1. apply[q] \in Application /\ apply[q] # NotApplied /\ apply[q].host \in FirstHosts
  BY ApplicationFields
     DEF RecordsInv, RecordsTypeOK, AssignCreate, Application
<1>2. apply[q].host # "six"
  BY <1>1 DEF RecordsInv, ApplicationInv, AssignCreate
<1> DEFINE x == [apply[q] EXCEPT !.assign = "assigned"]
<1>3. x \in Application /\ x.pc = apply[q].pc /\ x.host = apply[q].host
                        /\ x.arg = apply[q].arg /\ x.assign = "assigned"
  BY <1>1 DEF Application
<1>4. apply' = [apply EXCEPT ![q] = x]
  BY DEF AssignCreate, Becoming
<1> HIDE DEF x
<1>5. dns \cup stripped \subseteq dns' \cup stripped'
  BY DEF AssignCreate
<1>6. RecordsTypeOK'
  BY <1>1, <1>2, <1>3, <1>4 DEF RecordsInv, RecordsTypeOK, AssignCreate, Application
<1>7. RegisteredIsResolvable'
  BY <1>5 DEF RecordsInv, RegisteredIsResolvable, AssignCreate
<1>8. apply \in [Applications -> {NotApplied} \cup Application]
  BY DEF RecordsInv, RecordsTypeOK, Application
<1>9. ASSUME NEW p \in Applications PROVE ApplicationInv(apply[p])'
  <2>1. CASE p = q
    <3>1. apply'[p] = x
      BY <1>4, <1>8, <2>1
    <3>2. ApplicationInv(apply[q])
      BY DEF RecordsInv
    <3>3. apply[q].host \in dns'
      BY DEF AssignCreate
    <3> QED
      BY <1>1, <1>3, <1>5, <3>1, <3>2, <3>3 DEF ApplicationInv
  <2>2. CASE p # q
    BY <1>4, <1>5, <1>6, <1>7, <1>8, <2>2, RecordsKept
  <2> QED
    BY <2>1, <2>2
<1> QED
  BY <1>6, <1>7, <1>9 DEF RecordsInv

LEMMA WaitStep ==
    ASSUME RecordsInv, NEW q \in Applications, Wait(q)
    PROVE  RecordsInv'
<1>1. apply[q] \in Application /\ apply[q] # NotApplied /\ apply[q].host \in FirstHosts
  BY ApplicationFields DEF RecordsInv, RecordsTypeOK, Wait, Application
<1>2. apply[q].host \in dns
  BY <1>1, ResolvesItself DEF RecordsInv, Wait
<1> DEFINE x == [apply[q] EXCEPT !.pc = "ping"]
<1>3. x \in Application /\ x.host = apply[q].host /\ x.assign = apply[q].assign
  BY <1>1 DEF Application
<1>4. ApplicationInv(x)
  BY <1>1, <1>2, <1>3 DEF RecordsInv, ApplicationInv
<1>5. apply' = [apply EXCEPT ![q] = x] /\ UNCHANGED <<registered, dns, removing, stripped>>
  BY DEF Wait
<1> QED
  BY <1>3, <1>4, <1>5, OneApplication

LEMMA RefusedStep ==
    ASSUME RecordsInv, NEW q \in Applications, PingRefused(q)
    PROVE  RecordsInv'
<1>1. apply[q] \in Application /\ apply[q] # NotApplied
  BY ApplicationFields DEF RecordsInv, RecordsTypeOK, PingRefused, Application
<1> DEFINE x == [apply[q] EXCEPT !.pc = "over"]
<1>2. x \in Application /\ x.host = apply[q].host /\ x.assign = apply[q].assign
        /\ x.pc = "over"
  BY <1>1 DEF Application
<1>3. ApplicationInv(x)
  BY <1>1, <1>2 DEF RecordsInv, ApplicationInv
<1>4. apply' = [apply EXCEPT ![q] = x] /\ UNCHANGED <<registered, dns, removing, stripped>>
  BY DEF PingRefused
<1> QED
  BY <1>2, <1>3, <1>4, OneApplication

(* RegisterServer, with or without a removal.                              *)
LEMMA RegisterStep ==
    ASSUME RecordsInv, NEW q \in Applications, PingAndRegister(q)
    PROVE  RecordsInv'
<1>1. /\ apply[q] \in Application /\ apply[q] # NotApplied
      /\ apply[q].host \in FirstHosts /\ apply[q].arg \in Arguments
  BY ApplicationFields DEF RecordsInv, RecordsTypeOK, PingAndRegister, Application
<1> DEFINE x == [apply[q] EXCEPT !.pc = "over"]
           r == [known |-> TRUE, host |-> apply[q].host, arg |-> apply[q].arg]
<1>2. x \in Application /\ x.host = apply[q].host /\ x.assign = apply[q].assign
        /\ x.pc = "over"
  BY <1>1 DEF Application
<1>3. r \in Registrations /\ r.host = apply[q].host /\ r.arg = apply[q].arg
  BY <1>1 DEF Registrations
<1>4. apply' = [apply EXCEPT ![q] = x] /\ registered' = r /\ dns' = dns
  BY DEF PingAndRegister
<1>5. \/ UNCHANGED <<removing, stripped>>
      \/ \E h \in dns : removing' = removing \cup {h} /\ stripped' = stripped \cup {h}
  BY DEF PingAndRegister, RemoveRecords
<1> HIDE DEF x, r
<1>6. dns \cup stripped \subseteq dns' \cup stripped'
  BY <1>4, <1>5
<1>7. apply \in [Applications -> {NotApplied} \cup Application]
  BY DEF RecordsInv, RecordsTypeOK, Application
<1>8. RecordsTypeOK'
  <2>1. apply' \in [Applications -> {NotApplied} \cup Application]
    BY <1>2, <1>4, <1>7
  <2>2. /\ dns' \subseteq FirstHosts \ {"six"} /\ removing' \subseteq dns'
        /\ removing' \subseteq stripped' /\ stripped' \subseteq FirstHosts
    BY <1>4, <1>5 DEF RecordsInv, RecordsTypeOK
  <2> QED
    BY <1>3, <1>4, <2>1, <2>2 DEF RecordsTypeOK, Application
<1>9. RegisteredIsResolvable'
  <2>1. apply[q].arg \in TLS => apply[q].host \in dns \cup stripped
    BY <1>1 DEF RecordsInv, ApplicationInv, PingAndRegister
  <2> QED
    BY <1>3, <1>4, <1>6, <2>1 DEF RegisteredIsResolvable
<1>10. ASSUME NEW p \in Applications PROVE ApplicationInv(apply[p])'
  <2>1. CASE p = q
    <3>1. apply'[p] = x
      BY <1>4, <1>7, <2>1
    <3>2. ApplicationInv(apply[q])
      BY DEF RecordsInv
    <3> QED
      BY <1>1, <1>2, <1>6, <3>1, <3>2 DEF ApplicationInv
  <2>2. CASE p # q
    BY <1>4, <1>6, <1>7, <1>8, <1>9, <2>2, RecordsKept
  <2> QED
    BY <2>1, <2>2
<1> QED
  BY <1>8, <1>9, <1>10 DEF RecordsInv

(* A removal ends: what it takes away has been counted as stripped.        *)
LEMMA RemoveStep ==
    ASSUME RecordsInv, NEW h \in FirstHosts, RemoveRecord(h)
    PROVE  RecordsInv'
<1>1. removing \subseteq dns /\ removing \subseteq stripped
  BY DEF RecordsInv, RecordsTypeOK
<1>2. dns \cup stripped \subseteq dns' \cup stripped'
  BY <1>1 DEF RemoveRecord
<1>3. RecordsTypeOK'
  BY <1>1 DEF RecordsInv, RecordsTypeOK, RemoveRecord
<1>4. RegisteredIsResolvable'
  BY <1>2 DEF RecordsInv, RegisteredIsResolvable, RemoveRecord
<1>5. \A q \in Applications : ApplicationInv(apply[q])'
  BY <1>2, <1>3, <1>4, RecordsKept DEF RemoveRecord
<1> QED
  BY <1>3, <1>4, <1>5 DEF RecordsInv

LEMMA AppliedStep ==
    ASSUME RecordsInv, NEW q \in Applications, Applied(q)
    PROVE  RecordsInv'
<1>1. ApplicationInv(NotApplied)
  BY DEF ApplicationInv
<1> QED
  BY <1>1, OneApplication DEF Applied

LEMMA RestartStep ==
    ASSUME RecordsInv, Restart
    PROVE  RecordsInv'
<1>1. removing \subseteq dns
  BY DEF RecordsInv, RecordsTypeOK
<1>2. dns \cup stripped \subseteq dns' \cup stripped'
  BY <1>1 DEF Restart
<1>3. RecordsTypeOK'
  BY DEF RecordsInv, RecordsTypeOK, Restart
<1>4. RegisteredIsResolvable'
  BY <1>2 DEF RecordsInv, RegisteredIsResolvable, Restart
<1>5. \A q \in Applications : ApplicationInv(apply[q])'
  BY DEF ApplicationInv, Restart
<1> QED
  BY <1>3, <1>4, <1>5 DEF RecordsInv

LEMMA RecordsStep == RecordsInv /\ [RecordsNext]_recordsVars => RecordsInv'
<1> SUFFICES ASSUME RecordsInv, [RecordsNext]_recordsVars
             PROVE  RecordsInv'
  OBVIOUS
<1>1. CASE UNCHANGED recordsVars
  BY <1>1 DEF recordsVars, RecordsInv, RecordsTypeOK, RegisteredIsResolvable,
              ApplicationInv
<1>2. ASSUME NEW q \in Applications,
             \/ \E host \in FirstHosts, arg \in Arguments : Apply(q, host, arg)
             \/ AssignRead(q) \/ AssignCreate(q) \/ AssignFail(q)
             \/ Go(q)
             \/ Applied(q)
      PROVE  RecordsInv'
  BY <1>2, ApplyStep, AssignStep, AssignCreateStep, WaitStep, RefusedStep,
     RegisterStep, AppliedStep DEF Go
<1>3. ASSUME NEW h \in FirstHosts, RemoveRecord(h) PROVE RecordsInv'
  BY <1>3, RemoveStep
<1> QED
  BY <1>1, <1>2, <1>3, RestartStep DEF RecordsNext

-----------------------------------------------------------------------------
(* A server registered with TLS has a DNS record, or RegisterServer took   *)
(* it away, however many registrations run at once and whatever they ask;  *)
(* and the state is type correct.                                          *)
THEOREM Resolvable == RecordsSpec => [](RecordsTypeOK /\ RegisteredIsResolvable)
<1>1. RecordsInv => RecordsTypeOK /\ RegisteredIsResolvable
  BY DEF RecordsInv
<1> QED
  BY RecordsBegin, RecordsStep, <1>1, PTL DEF RecordsSpec

(* Nothing but a registration with other arguments begins the removal of a *)
(* record, and then of the record of the host that was registered.         *)
THEOREM Strips == RecordsSpec => OnlyChangesStrip
<1>1. ASSUME RecordsInv, [RecordsNext]_recordsVars
      PROVE  [\A h \in FirstHosts : h \in removing' \ removing =>
                /\ registered.arg # registered'.arg
                /\ registered.host = h]_recordsVars
  <2> SUFFICES ASSUME NEW h \in FirstHosts, h \in removing', h \notin removing,
                      RecordsNext
               PROVE  registered.arg # registered'.arg /\ registered.host = h
    BY <1>1
  <2>1. PICK q \in Applications : PingAndRegister(q)
    BY DEF RecordsNext, Apply, AssignRead, AssignCreate, AssignFail, Go, Wait,
           PingRefused, Applied, RemoveRecord, Restart
  <2>2. Removes(q) /\ RemoveRecords(HostToSNI(registered.host))
    BY <2>1 DEF PingAndRegister
  <2>3. h = HostToSNI(registered.host)
    BY <2>2 DEF RemoveRecords
  <2>4. registered.host = h
    BY <2>3, NoEmptyHost DEF HostToSNI
  <2>5. registered'.arg = apply[q].arg
    BY <2>1 DEF PingAndRegister
  <2> QED
    BY <2>2, <2>4, <2>5 DEF Removes
<1> QED
  BY RecordsBegin, RecordsStep, <1>1, PTL DEF RecordsSpec, OnlyChangesStrip

(* Whoever has been given its record and waits for it finds it, with the   *)
(* system's resolver or a public one, unless it has been stripped since:   *)
(* the record is made of the very domain that is looked up.                *)
THEOREM AssignedGoesOn ==
    RecordsSpec =>
        [](\A q \in Applications :
             apply[q].pc = "wait" /\ apply[q].assign = "assigned" =>
                 apply[q].host \in stripped \/ LookupHost(HostToSNI(apply[q].host)) # {})
<1>1. RecordsInv =>
        \A q \in Applications :
            apply[q].pc = "wait" /\ apply[q].assign = "assigned" =>
                apply[q].host \in stripped \/ LookupHost(HostToSNI(apply[q].host)) # {}
  <2> SUFFICES ASSUME RecordsInv, NEW q \in Applications,
                      apply[q].pc = "wait", apply[q].assign = "assigned",
                      apply[q].host \notin stripped
               PROVE  LookupHost(HostToSNI(apply[q].host)) # {}
    OBVIOUS
  <2>1. apply[q] # NotApplied
    BY DEF NotApplied
  <2>2. apply[q].host \in dns /\ apply[q].host # "six"
    BY <2>1 DEF RecordsInv, RecordsTypeOK, ApplicationInv
  <2> QED
    BY <2>2 DEF LookupHost, SystemResolver, DefaultResolver, HostToSNI
<1> QED
  BY RecordsBegin, RecordsStep, <1>1, PTL DEF RecordsSpec

=============================================================================
