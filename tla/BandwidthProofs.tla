-------------------------- MODULE BandwidthProofs --------------------------
(***************************************************************************)
(* Accounting of bandwidth (module Bandwidth), for counters of any size,   *)
(* any calendar and any configurations, and any number of reports that are *)
(* under way at a time.                                                    *)
(***************************************************************************)
EXTENDS Bandwidth, TLAPS

(* The types that the accounts rest on.                                    *)
Account == [config : Config, month : Int, kib : [Dir -> Nat],
            initial : [Dir -> Int]]

AccountOK ==
    /\ limit \in Account
    /\ host \in [config : Configs, kib : [Dir -> Nat]]
    /\ reports \subseteq Report
    /\ since \in Moment /\ last \in Moment
    /\ now.month \in Int
    /\ outdated \in BOOLEAN
    /\ \A d \in Dir : limit.initial[d] <= limit.kib[d]

-----------------------------------------------------------------------------
(* What is known of the server's counters at different moments: by the     *)
(* reports, by its record, and by itself.                                  *)
Stored == [config |-> limit.config, kib |-> limit.kib, at |-> last]
Current == [config |-> host.config, kib |-> host.kib, at |-> since]

Trail == reports \cup {Stored, Current}

(* From one moment to a later one counters grow by no more than what has   *)
(* been sent, and by just that if no boot lies between.                    *)
Follows(x, y) ==
    Earlier(x.at, y.at) =>
      \A d \in Dir :
        /\ y.kib[d] - x.kib[d] <= y.at.used[d] - x.at.used[d]
        /\ x.at.boots = y.at.boots =>
             y.kib[d] - x.kib[d] = y.at.used[d] - x.at.used[d]

(* Nothing is known before it happens, and what has been known since the   *)
(* last start knows the configuration.                                     *)
TrailOK(T, s, c) ==
    /\ \A x \in T : /\ Earlier(x.at, s)
                    /\ x.at.starts = s.starts => x.config = c
    /\ \A x, y \in T : Follows(x, y)

TrailInv == TrailOK(Trail, since, host.config)

(* The record is not charged for more than what was sent until the report  *)
(* that it has been brought up to date with.                               *)
Charged ==
    /\ \A d \in Dir : limit.kib[d] - limit.initial[d] <= last.used[d]
    /\ last.boots >= 0

ChargeInv == AccountOK /\ TrailInv /\ (~outdated => Charged)

LEMMA TrailType ==
    ASSUME AccountOK
    PROVE  \A x \in Trail : /\ x.config \in Config
                            /\ x.kib \in [Dir -> Nat]
                            /\ x.at \in Moment
BY BandwidthAssumption DEF AccountOK, Trail, Stored, Current, Report, Account

LEMMA MomentType ==
    ASSUME NEW m \in Moment
    PROVE  /\ \A d \in Dir : m.used[d] \in Int
           /\ m.starts \in Int /\ m.boots \in Int
           /\ m.used \in [Dir -> Int]
           /\ m = [used |-> m.used, starts |-> m.starts, boots |-> m.boots]
BY DEF Moment

LEMMA FromType ==
    ASSUME NEW m \in Moment, NEW n \in Moment
    PROVE  /\ From(m, n) \in Moment
           /\ \A d \in Dir : From(m, n).used[d] = m.used[d] - n.used[d]
           /\ From(m, n).starts = m.starts - n.starts
           /\ From(m, n).boots = m.boots - n.boots
<1>1. \A d \in Dir : m.used[d] \in Int /\ n.used[d] \in Int
  BY MomentType
<1>2. [d \in Dir |-> m.used[d] - n.used[d]] \in [Dir -> Int]
  BY <1>1
<1>3. m.starts - n.starts \in Int /\ m.boots - n.boots \in Int
  BY MomentType
<1> QED
  BY <1>2, <1>3 DEF From, Moment

LEMMA BeginType ==
    /\ Begin \in Moment
    /\ \A d \in Dir : Begin.used[d] = 0
    /\ Begin.starts = 0 /\ Begin.boots = 0
BY DEF Begin, Moment

LEMMA FromSame ==
    ASSUME NEW m \in Moment
    PROVE  From(m, m) = Begin /\ From(m, Begin) = m
<1>1. \A d \in Dir : m.used[d] - m.used[d] = 0 /\ m.used[d] - 0 = m.used[d]
  BY MomentType
<1>2. [d \in Dir |-> m.used[d] - m.used[d]] = [d \in Dir |-> 0]
  BY <1>1
<1>3. [d \in Dir |-> m.used[d] - Begin.used[d]] = m.used
  <2>1. \A d \in Dir : m.used[d] - Begin.used[d] = m.used[d]
    BY <1>1, BeginType
  <2>2. m.used \in [Dir -> Int]
    BY MomentType
  <2> QED
    BY <2>1, <2>2
<1>4. /\ m.starts - m.starts = 0 /\ m.boots - m.boots = 0
      /\ m.starts - Begin.starts = m.starts /\ m.boots - Begin.boots = m.boots
  BY MomentType, BeginType
<1> QED
  BY <1>2, <1>3, <1>4, MomentType DEF From, Begin

(* What is known stays right when no more than that is known afterwards,   *)
(* and when a new cycle begins.                                            *)
LEMMA TrailMoved ==
    ASSUME NEW T, \A x \in T : x.at \in Moment /\ x.kib \in [Dir -> Nat],
           NEW U, NEW s \in Moment, NEW m \in Moment, NEW c,
           TrailOK(T, s, c),
           \A x \in U : \E y \in T : /\ x.kib = y.kib
                                   /\ x.config = y.config
                                   /\ x.at = From(y.at, m)
    PROVE  TrailOK(U, From(s, m), c)
<1>1. ASSUME NEW x \in U
      PROVE  /\ Earlier(x.at, From(s, m))
             /\ x.at.starts = From(s, m).starts => x.config = c
  <2>1. PICK y \in T : x.config = y.config /\ x.at = From(y.at, m)
    BY <1>1
  <2>2. Earlier(y.at, s) /\ (y.at.starts = s.starts => y.config = c)
    BY DEF TrailOK
  <2>3. y.at \in Moment
    OBVIOUS
  <2>4. /\ \A d \in Dir : /\ x.at.used[d] = y.at.used[d] - m.used[d]
                         /\ From(s, m).used[d] = s.used[d] - m.used[d]
        /\ x.at.starts = y.at.starts - m.starts
        /\ From(s, m).starts = s.starts - m.starts
        /\ x.at.boots = y.at.boots - m.boots
        /\ From(s, m).boots = s.boots - m.boots
    BY <2>1, <2>3, FromType
  <2>5. /\ \A d \in Dir : y.at.used[d] \in Int /\ m.used[d] \in Int /\ s.used[d] \in Int
        /\ y.at.starts \in Int /\ m.starts \in Int /\ s.starts \in Int
        /\ y.at.boots \in Int /\ m.boots \in Int /\ s.boots \in Int
    BY <2>3, MomentType
  <2>6. Earlier(x.at, From(s, m))
    BY <2>2, <2>4, <2>5 DEF Earlier
  <2>7. ASSUME x.at.starts = From(s, m).starts
        PROVE  y.at.starts = s.starts
    <3>1. y.at.starts - m.starts = s.starts - m.starts
      BY <2>4, <2>7
    <3> QED
      BY <2>5, <3>1
  <2> QED
    BY <2>1, <2>2, <2>6, <2>7
<1>2. ASSUME NEW x \in U, NEW y \in U
      PROVE  Follows(x, y)
  <2>1. PICK v \in T : x.kib = v.kib /\ x.at = From(v.at, m)
    BY <1>2
  <2>2. PICK w \in T : y.kib = w.kib /\ y.at = From(w.at, m)
    BY <1>2
  <2>3. Follows(v, w)
    BY DEF TrailOK
  <2>4. v.at \in Moment /\ w.at \in Moment
    OBVIOUS
  <2>5. /\ \A d \in Dir : /\ x.at.used[d] = v.at.used[d] - m.used[d]
                         /\ y.at.used[d] = w.at.used[d] - m.used[d]
        /\ x.at.starts = v.at.starts - m.starts
        /\ y.at.starts = w.at.starts - m.starts
        /\ x.at.boots = v.at.boots - m.boots
        /\ y.at.boots = w.at.boots - m.boots
    BY <2>1, <2>2, <2>4, FromType
  <2>6. /\ \A d \in Dir : v.at.used[d] \in Int /\ m.used[d] \in Int /\ w.at.used[d] \in Int
        /\ v.at.starts \in Int /\ m.starts \in Int /\ w.at.starts \in Int
        /\ v.at.boots \in Int /\ m.boots \in Int /\ w.at.boots \in Int
    BY <2>4, MomentType
  <2>7. Earlier(x.at, y.at) => Earlier(v.at, w.at)
    BY <2>5, <2>6 DEF Earlier
  <2>8. x.at.boots = y.at.boots => v.at.boots = w.at.boots
    BY <2>5, <2>6
  <2>9. \A d \in Dir : y.at.used[d] - x.at.used[d] = w.at.used[d] - v.at.used[d]
    BY <2>5, <2>6
  <2> QED
    BY <2>1, <2>2, <2>3, <2>7, <2>8, <2>9 DEF Follows
<1> QED
  BY <1>1, <1>2 DEF TrailOK

-----------------------------------------------------------------------------
(* What Update makes of an account: it takes over the reported counters,   *)
(* and the usage either starts from zero or does not decrease.             *)
LEMMA UpdateAccount ==
    ASSUME NEW l \in Account, NEW r, r.config \in Config,
           r.kib \in [Dir -> Nat]
    PROVE  /\ Update(l, r) \in Account
           /\ Update(l, r).kib = r.kib
           /\ Update(l, r).config = r.config
           /\ \A d \in Dir :
                \/ /\ l.config.resetDay = Zero
                   /\ Update(l, r).initial[d] = r.kib[d]
                \/ /\ l.config.resetDay # Zero
                   /\ r.kib[d] >= l.kib[d]
                   /\ Update(l, r).initial[d] = l.initial[d]
                \/ /\ l.config.resetDay # Zero
                   /\ r.kib[d] < l.kib[d]
                   /\ Update(l, r).initial[d]
                        = r.kib[d] - (l.kib[d] - l.initial[d])
           /\ l.config.resetDay # Zero => Update(l, r).month = l.month
<1>1. CASE l.config.resetDay = Zero
  <2>1. Update(l, r) = [config |-> r.config, month |-> -1,
                        kib |-> r.kib, initial |-> r.kib]
    BY <1>1 DEF Update
  <2>2. r.kib \in [Dir -> Int]
    OBVIOUS
  <2> QED
    BY <1>1, <2>1, <2>2 DEF Account
<1>2. CASE l.config.resetDay # Zero
  <2> DEFINE i == [d \in Dir |-> IF r.kib[d] < l.kib[d]
                                 THEN r.kib[d] - Usage(l, d)
                                 ELSE l.initial[d]]
  <2>1. Update(l, r) = [config |-> r.config, month |-> l.month,
                        kib |-> r.kib, initial |-> i]
    BY <1>2 DEF Update
  <2>2. \A d \in Dir : /\ l.kib[d] \in Nat /\ r.kib[d] \in Nat
                       /\ l.initial[d] \in Int
    BY DEF Account
  <2>3. i \in [Dir -> Int]
    BY <2>2 DEF Usage
  <2>4. \A d \in Dir :
          \/ r.kib[d] >= l.kib[d] /\ i[d] = l.initial[d]
          \/ r.kib[d] < l.kib[d] /\ i[d] = r.kib[d] - (l.kib[d] - l.initial[d])
    BY <2>2 DEF Usage
  <2>5. l.month \in Int
    BY DEF Account
  <2> HIDE DEF i
  <2>6. /\ Update(l, r).initial = i
        /\ Update(l, r) \in Account
        /\ Update(l, r).kib = r.kib
        /\ Update(l, r).config = r.config
        /\ Update(l, r).month = l.month
    BY <2>1, <2>3, <2>5 DEF Account
  <2> QED
    BY <1>2, <2>4, <2>6
<1> QED
  BY <1>1, <1>2

(* Usage is not negative, and Update keeps it so.                          *)
LEMMA UpdateUsage ==
    ASSUME NEW l \in Account, \A d \in Dir : l.initial[d] <= l.kib[d],
           NEW r, r.config \in Config, r.kib \in [Dir -> Nat]
    PROVE  \A d \in Dir : Update(l, r).initial[d] <= r.kib[d]
<1>1. \A d \in Dir : /\ l.kib[d] \in Nat /\ r.kib[d] \in Nat
                     /\ l.initial[d] \in Int
  BY DEF Account
<1> DEFINE n == Update(l, r)
<1>2. \A d \in Dir :
        \/ n.initial[d] = r.kib[d]
        \/ r.kib[d] >= l.kib[d] /\ n.initial[d] = l.initial[d]
        \/ n.initial[d] = r.kib[d] - (l.kib[d] - l.initial[d])
  BY UpdateAccount
<1> HIDE DEF n
<1>3. \A d \in Dir : n.initial[d] <= r.kib[d]
  BY <1>1, <1>2
<1> QED
  BY <1>3 DEF n

LEMMA ResetAccount ==
    ASSUME NEW l \in Account, now.month \in Int
    PROVE  /\ Reset(l) \in Account
           /\ Reset(l).kib = l.kib
           /\ Reset(l).initial = l.kib
           /\ Reset(l).month = now.month
           /\ Reset(l).config = l.config
<1>1. Reset(l) = [config |-> l.config, month |-> now.month,
                  kib |-> l.kib, initial |-> l.kib]
  BY DEF Reset, Account
<1> QED
  BY <1>1 DEF Account

(* What a step does to record, server and what is under way: the server    *)
(* goes on or starts anew, a report is taken or ends, the record takes one *)
(* over, or begins a cycle with one.                                       *)
Knows ==
    /\ UNCHANGED <<limit, host, since, last, outdated>>
    /\ \A x \in reports' :
         \/ x \in reports
         \/ /\ x.kind \in {"request", "answer"}
            /\ \E y \in {Stored, Current} :
                 x = [kind |-> x.kind, config |-> y.config, kib |-> y.kib,
                      at |-> y.at]

Takes(r) ==
    /\ limit' = Update(limit, r)
    /\ last' = r.at
    /\ outdated' = (outdated \/ Late(r))
    /\ UNCHANGED <<host, since, reports>>

Cycles(r) ==
    /\ IsTimeToReset(limit)
    /\ limit' = Reset(Update(limit, r))
    /\ since' = From(since, r.at)
    /\ last' = Begin
    /\ reports' = {[q EXCEPT !.at = From(@, r.at)] : q \in reports}
    /\ outdated' = \/ Late(r)
                   \/ outdated /\ r.at.starts # since.starts
    /\ UNCHANGED host

LEMMA StepKinds ==
    ASSUME [Next]_vars
    PROVE  \/ \E d \in Dir : Traffic(d)
           \/ \E c \in Configs, reboot \in BOOLEAN : Restart(c, reboot)
           \/ Knows
           \/ \E r \in reports : Takes(r)
           \/ \E r \in reports : Cycles(r)
<1>1. CASE PostRegister
  BY <1>1 DEF PostRegister, Send, history, Knows, Current
<1>2. CASE PingAnswer
  BY <1>2 DEF PingAnswer, Send, history, Knows, Current
<1>3. CASE SyncAllRead
  BY <1>3 DEF SyncAllRead, Send, history, Knows, Stored
<1>4. CASE \E r \in reports : RegisterServer(r)
  BY <1>4 DEF RegisterServer, Takes
<1>5. ASSUME NEW r \in reports, PingTodo(r)
      PROVE  Takes(r) \/ Cycles(r)
  BY <1>5 DEF PingTodo, PingReset, PingUpdate, PingExhausted, Taken, Takes, Cycles
<1>6. CASE \E r \in reports : End(r)
  BY <1>6 DEF End, history, Knows
<1>7. CASE NextDay
  BY <1>7 DEF NextDay, history, Knows
<1>8. CASE UNCHANGED vars
  BY <1>8 DEF vars, history, Knows
<1> QED
  BY <1>1, <1>2, <1>3, <1>4, <1>5, <1>6, <1>7, <1>8 DEF Next

LEMMA SameTrail ==
    ASSUME NEW T, \A x \in T : x.at \in Moment /\ x.kib \in [Dir -> Nat],
           NEW U, NEW s \in Moment, NEW c,
           TrailOK(T, s, c),
           \A x \in U : \E y \in T : /\ x.kib = y.kib
                                   /\ x.config = y.config
                                   /\ x.at = y.at
    PROVE  TrailOK(U, s, c)
<1>1. \A x \in U : \E y \in T : /\ x.kib = y.kib
                               /\ x.config = y.config
                               /\ x.at = From(y.at, Begin)
  BY FromSame
<1>2. TrailOK(U, From(s, Begin), c)
  BY <1>1, TrailMoved, BeginType
<1> QED
  BY <1>2, FromSame

(* Nothing has been known of the server when it goes on.                   *)
LEMMA TrailGrown ==
    ASSUME NEW T, \A x \in T : x.at \in Moment /\ x.kib \in [Dir -> Nat],
           NEW s \in Moment, NEW c,
           TrailOK(T, s, c),
           NEW z, z.at \in Moment, z.kib \in [Dir -> Nat],
           Earlier(s, z.at), z.at # s,
           \A x \in T : /\ x.at.starts = z.at.starts => x.config = z.config
                        /\ Earlier(x.at, z.at) => Follows(x, z)
    PROVE  TrailOK(T \cup {z}, z.at, z.config)
<1>1. ASSUME NEW x \in T
      PROVE  Earlier(x.at, z.at)
  <2>1. Earlier(x.at, s)
    BY DEF TrailOK
  <2>2. /\ \A d \in Dir : x.at.used[d] \in Int /\ s.used[d] \in Int /\ z.at.used[d] \in Int
        /\ x.at.starts \in Int /\ s.starts \in Int /\ z.at.starts \in Int
        /\ x.at.boots \in Int /\ s.boots \in Int /\ z.at.boots \in Int
    BY MomentType
  <2> QED
    BY <2>1, <2>2 DEF Earlier
<1>2. ASSUME NEW x \in T
      PROVE  ~Earlier(z.at, x.at)
  <2>1. SUFFICES ASSUME Earlier(z.at, x.at)
                 PROVE  FALSE
    OBVIOUS
  <2>2. Earlier(x.at, s)
    BY DEF TrailOK
  <2>3. /\ \A d \in Dir : x.at.used[d] \in Int /\ s.used[d] \in Int /\ z.at.used[d] \in Int
        /\ x.at.starts \in Int /\ s.starts \in Int /\ z.at.starts \in Int
        /\ x.at.boots \in Int /\ s.boots \in Int /\ z.at.boots \in Int
    BY MomentType
  <2>4. /\ \A d \in Dir : z.at.used[d] = s.used[d]
        /\ z.at.starts = s.starts /\ z.at.boots = s.boots
    BY <2>1, <2>2, <2>3 DEF Earlier
  <2>5. z.at.used = s.used
    BY <2>4, MomentType
  <2> QED
    BY <2>4, <2>5, MomentType
<1>3. /\ Earlier(z.at, z.at) /\ Follows(z, z)
  <2>1. /\ \A d \in Dir : z.at.used[d] \in Int /\ z.kib[d] \in Nat
        /\ z.at.starts \in Int /\ z.at.boots \in Int
    BY MomentType
  <2> QED
    BY <2>1 DEF Earlier, Follows
<1>4. \A x, y \in T \cup {z} : Follows(x, y)
  <2> TAKE x, y \in T \cup {z}
  <2>1. CASE x \in T /\ y \in T
    BY <2>1 DEF TrailOK
  <2>2. CASE x \in T /\ y = z
    BY <1>1, <2>2
  <2>3. CASE x = z /\ y \in T
    BY <1>2, <2>3 DEF Follows
  <2>4. CASE x = z /\ y = z
    BY <1>3, <2>4
  <2> QED
    BY <2>1, <2>2, <2>3, <2>4
<1> QED
  BY <1>1, <1>3, <1>4 DEF TrailOK

LEMMA InitCharge == Init => ChargeInv
<1> SUFFICES ASSUME Init PROVE ChargeInv
  OBVIOUS
<1> USE BandwidthAssumption
<1>1. /\ host \in [config : Configs, kib : [Dir -> Nat]]
      /\ host.config \in Config
      /\ \A d \in Dir : host.kib[d] = 0
  BY DEF Init
<1>2. Unset \in Account /\ Unset.config.resetDay = Zero
  BY DEF Unset, Account, Config, Zero
<1>3. /\ limit \in Account /\ limit.kib = host.kib
      /\ limit.config = host.config
      /\ \A d \in Dir : limit.initial[d] = host.kib[d]
  BY <1>1, <1>2, UpdateAccount DEF Init
<1>4. /\ since = Begin /\ last = Begin /\ reports = {}
      /\ now.month \in Int
  BY DEF Init, Months
<1>5. AccountOK
  <2>1. outdated \in BOOLEAN
    BY Zenon DEF Init
  <2>2. \A d \in Dir : limit.initial[d] <= limit.kib[d]
    BY <1>1, <1>3
  <2> QED
    BY <1>1, <1>3, <1>4, <2>1, <2>2, BeginType DEF AccountOK
<1>6. TrailInv
  <2>1. \A x \in Trail : /\ x.at = Begin /\ x.config = host.config
                         /\ x.kib = host.kib
    BY <1>3, <1>4 DEF Trail, Stored, Current
  <2>2. Earlier(Begin, Begin)
    BY BeginType DEF Earlier
  <2>3. \A x, y \in Trail : Follows(x, y)
    BY <1>1, <2>1, BeginType DEF Follows
  <2> QED
    BY <1>4, <2>1, <2>2, <2>3 DEF TrailInv, TrailOK
<1>7. Charged
  BY <1>1, <1>3, <1>4, BeginType DEF Charged
<1> QED
  BY <1>5, <1>6, <1>7 DEF ChargeInv

LEMMA TrafficStep ==
    ASSUME AccountOK, NEW d \in Dir, Traffic(d)
    PROVE  /\ UNCHANGED <<limit, reports, last, outdated, now>>
           /\ host' \in [config : Configs, kib : [Dir -> Nat]]
           /\ host'.config = host.config
           /\ \A e \in Dir : host'.kib[e] = IF e = d THEN host.kib[e] + 1 ELSE host.kib[e]
           /\ since' \in Moment
           /\ \A e \in Dir : since'.used[e]
                               = IF e = d THEN since.used[e] + 1 ELSE since.used[e]
           /\ since'.starts = since.starts /\ since'.boots = since.boots
<1>1. /\ \A e \in Dir : host.kib[e] \in Nat /\ since.used[e] \in Int
      /\ host.kib \in [Dir -> Nat] /\ since.used \in [Dir -> Int]
  BY DEF AccountOK, Moment
<1>2. host' = [config |-> host.config, kib |-> [host.kib EXCEPT ![d] = @ + 1]]
  BY DEF Traffic, AccountOK
<1>3. since' = [used |-> [since.used EXCEPT ![d] = @ + 1],
                starts |-> since.starts, boots |-> since.boots]
  BY DEF Traffic, AccountOK, Moment
<1> QED
  BY <1>1, <1>2, <1>3 DEF Traffic, AccountOK, Moment

LEMMA RestartStep ==
    ASSUME AccountOK, NEW c \in Configs, NEW reboot \in BOOLEAN,
           Restart(c, reboot)
    PROVE  /\ UNCHANGED <<limit, reports, last, outdated, now>>
           /\ host' \in [config : Configs, kib : [Dir -> Nat]]
           /\ host'.config = c
           /\ host'.kib = host.kib \/ \A d \in Dir : host'.kib[d] = 0
           /\ since' \in Moment
           /\ since'.used = since.used
           /\ since'.starts = since.starts + 1
           /\ \/ since'.boots = since.boots /\ host'.kib = host.kib
              \/ since'.boots = since.boots + 1
<1>1. since' = [used |-> since.used, starts |-> since.starts + 1,
                boots |-> IF reboot THEN since.boots + 1 ELSE since.boots]
  BY DEF Restart, AccountOK, Moment
<1>2. since.starts \in Int /\ since.boots \in Int /\ since.used \in [Dir -> Int]
  BY DEF AccountOK, Moment
<1>3. since' \in Moment
  BY <1>1, <1>2 DEF Moment
<1> QED
  BY <1>1, <1>2, <1>3 DEF Restart, AccountOK

(* Every step keeps the types.                                             *)
LEMMA NextAccount ==
    ASSUME AccountOK, [Next]_vars
    PROVE  AccountOK'
<1> USE BandwidthAssumption
<1>1. now'.month \in Int
  <2>1. CASE NextDay
    BY <2>1 DEF NextDay, Months, AccountOK
  <2>2. CASE UNCHANGED now
    BY <2>2 DEF AccountOK
  <2> QED
    BY <2>1, <2>2
    DEF Next, vars, Traffic, Restart, PostRegister, SyncAllRead, PingAnswer, Send,
        RegisterServer, PingTodo, End
<1>2. CASE \E d \in Dir : Traffic(d)
  BY <1>1, <1>2, TrafficStep DEF AccountOK
<1>3. CASE \E c \in Configs, reboot \in BOOLEAN : Restart(c, reboot)
  BY <1>1, <1>3, RestartStep DEF AccountOK
<1>4. CASE Knows
  <2>1. ASSUME NEW x \in reports'
        PROVE  x \in Report
    <3>1. CASE x \in reports
      BY <3>1 DEF AccountOK
    <3>2. CASE x \notin reports
      <4>1. PICK y \in {Stored, Current} :
              /\ x.kind \in {"request", "answer"}
              /\ x = [kind |-> x.kind, config |-> y.config, kib |-> y.kib,
                      at |-> y.at]
        BY <1>4, <2>1, <3>2 DEF Knows
      <4>2. y.config \in Config /\ y.kib \in [Dir -> Nat] /\ y.at \in Moment
        BY TrailType DEF Trail
      <4> QED
        BY <4>1, <4>2 DEF Report
    <3> QED
      BY <3>1, <3>2
  <2> QED
    BY <1>1, <1>4, <2>1 DEF Knows, AccountOK
<1>5. ASSUME NEW r \in reports
      PROVE  /\ r.config \in Config /\ r.kib \in [Dir -> Nat] /\ r.at \in Moment
             /\ Update(limit, r) \in Account
             /\ Update(limit, r).kib = r.kib
             /\ \A d \in Dir : Update(limit, r).initial[d] <= r.kib[d]
  <2>1. r.config \in Config /\ r.kib \in [Dir -> Nat] /\ r.at \in Moment
    BY DEF AccountOK, Report
  <2> QED
    BY <2>1, UpdateAccount, UpdateUsage DEF AccountOK
<1>6. ASSUME NEW r \in reports, Takes(r)
      PROVE  AccountOK'
  BY <1>1, <1>5, <1>6 DEF Takes, AccountOK, Late
<1>7. ASSUME NEW r \in reports, Cycles(r)
      PROVE  AccountOK'
  <2> DEFINE l == Update(limit, r)
  <2>1. /\ l \in Account /\ l.kib \in [Dir -> Nat] /\ now.month \in Int
    BY <1>5 DEF AccountOK
  <2>2. limit' = Reset(l)
    BY <1>7 DEF Cycles
  <2> HIDE DEF l
  <2>3. /\ limit' \in Account
        /\ limit'.kib = l.kib /\ limit'.initial = l.kib
    BY <2>1, <2>2, ResetAccount
  <2>4. \A d \in Dir : limit'.initial[d] <= limit'.kib[d]
    BY <2>1, <2>3
  <2>5. since' \in Moment /\ last' \in Moment /\ outdated' \in BOOLEAN
    BY <1>5, <1>7, FromType, BeginType DEF Cycles, AccountOK, Late
  <2>6. ASSUME NEW q \in reports
        PROVE  [q EXCEPT !.at = From(@, r.at)] \in Report
    <3>1. From(q.at, r.at) \in Moment
      BY <1>5, FromType DEF AccountOK, Report
    <3> QED
      BY <3>1 DEF AccountOK, Report
  <2>7. reports' \subseteq Report
    BY <1>7, <2>6 DEF Cycles
  <2> QED
    BY <1>1, <1>7, <2>3, <2>4, <2>5, <2>7 DEF Cycles, AccountOK
<1> QED
  BY <1>2, <1>3, <1>4, <1>6, <1>7, StepKinds

(* Every step keeps what is known right.                                   *)
LEMMA NextTrail ==
    ASSUME AccountOK, TrailInv, [Next]_vars
    PROVE  TrailInv'
<1>1. /\ \A x \in Trail : /\ x.at \in Moment /\ x.kib \in [Dir -> Nat]
                          /\ Earlier(x.at, since)
                          /\ Follows(x, Current)
                          /\ x.at.starts = since.starts => x.config = host.config
      /\ since \in Moment
      /\ Current.at = since /\ Current.kib = host.kib
  BY TrailType DEF TrailInv, TrailOK, Trail, Current, AccountOK
<1>2. /\ \A x \in Trail, d \in Dir : /\ x.kib[d] \in Nat /\ x.at.used[d] \in Int
                                     /\ x.at.starts \in Int /\ x.at.boots \in Int
      /\ \A d \in Dir : host.kib[d] \in Nat /\ since.used[d] \in Int
      /\ since.starts \in Int /\ since.boots \in Int
  BY <1>1, MomentType DEF AccountOK
<1>3. ASSUME UNCHANGED <<limit, reports, last>>,
             AccountOK',
             Earlier(since, since'), since' # since,
             \A x \in Trail : /\ x.at.starts = since'.starts => x.config = host'.config
                              /\ Follows(x, Current')
      PROVE  TrailInv'
  <2> DEFINE z == Current'
  <2>1. /\ z.at = since' /\ z.config = host'.config /\ z.kib = host'.kib
        /\ since' \in Moment /\ host'.kib \in [Dir -> Nat]
    BY <1>3 DEF Current, AccountOK
  <2>2. Trail' = reports \cup {Stored, z}
    BY <1>3 DEF Trail, Stored
  <2>3. \A x \in Trail : /\ x.at.starts = z.at.starts => x.config = z.config
                         /\ Follows(x, z)
    BY <1>3, <2>1
  <2> HIDE DEF z
  <2>4. TrailOK(Trail, since, host.config)
    BY DEF TrailInv
  <2>5. TrailOK(Trail \cup {z}, z.at, z.config)
    BY <1>1, <1>3, <2>1, <2>3, <2>4, TrailGrown
  <2>6. \A x \in Trail' : x \in Trail \cup {z}
    BY <2>2 DEF Trail
  <2>7. TrailOK(Trail', z.at, z.config)
    BY <2>5, <2>6 DEF TrailOK
  <2> QED
    BY <2>1, <2>7 DEF TrailInv
<1>4. AccountOK'
  BY NextAccount
<1>5. ASSUME NEW d \in Dir, Traffic(d)
      PROVE  TrailInv'
  <2>1. /\ UNCHANGED <<limit, reports, last>>
        /\ host'.config = host.config
        /\ \A e \in Dir : /\ host'.kib[e] = IF e = d THEN host.kib[e] + 1 ELSE host.kib[e]
                          /\ since'.used[e] = IF e = d THEN since.used[e] + 1
                                                       ELSE since.used[e]
        /\ since'.starts = since.starts /\ since'.boots = since.boots
    BY <1>5, TrafficStep
  <2>2. Earlier(since, since')
    BY <1>2, <2>1 DEF Earlier
  <2>3. since' # since
    BY <1>2, <2>1
  <2>4. ASSUME NEW x \in Trail
        PROVE  Follows(x, Current')
    <3>1. \A e \in Dir :
            /\ host.kib[e] - x.kib[e] <= since.used[e] - x.at.used[e]
            /\ x.at.boots = since.boots =>
                 host.kib[e] - x.kib[e] = since.used[e] - x.at.used[e]
      BY <1>1 DEF Follows
    <3>2. Current'.at = since' /\ Current'.kib = host'.kib
      BY DEF Current
    <3>3. \A e \in Dir :
            /\ host'.kib[e] - x.kib[e] <= since'.used[e] - x.at.used[e]
            /\ x.at.boots = since'.boots =>
                 host'.kib[e] - x.kib[e] = since'.used[e] - x.at.used[e]
      BY <1>2, <2>1, <3>1
    <3> QED
      BY <3>2, <3>3 DEF Follows
  <2> QED
    BY <1>1, <1>3, <1>4, <2>1, <2>2, <2>3, <2>4
<1>6. ASSUME NEW c \in Configs, NEW reboot \in BOOLEAN, Restart(c, reboot)
      PROVE  TrailInv'
  <2>1. /\ UNCHANGED <<limit, reports, last>>
        /\ host'.kib = host.kib \/ \A d \in Dir : host'.kib[d] = 0
        /\ since'.used = since.used
        /\ since'.starts = since.starts + 1
        /\ \/ since'.boots = since.boots /\ host'.kib = host.kib
           \/ since'.boots = since.boots + 1
    BY <1>6, RestartStep
  <2>2. Earlier(since, since') /\ since' # since
    BY <1>2, <2>1 DEF Earlier
  <2>3. ASSUME NEW x \in Trail
        PROVE  x.at.starts # since'.starts
    BY <1>1, <1>2, <2>1 DEF Earlier
  <2>4. ASSUME NEW x \in Trail
        PROVE  Follows(x, Current')
    <3>1. \A e \in Dir :
            /\ host.kib[e] - x.kib[e] <= since.used[e] - x.at.used[e]
            /\ x.at.boots = since.boots =>
                 host.kib[e] - x.kib[e] = since.used[e] - x.at.used[e]
            /\ x.at.used[e] <= since.used[e]
      BY <1>1 DEF Follows, Earlier
    <3>2. x.at.boots <= since.boots
      BY <1>1 DEF Earlier
    <3>3. Current'.at = since' /\ Current'.kib = host'.kib
      BY DEF Current
    <3>4. x.at.boots = since'.boots =>
            x.at.boots = since.boots /\ host'.kib = host.kib
      BY <1>2, <2>1, <3>2
    <3>5. \A e \in Dir :
            /\ host'.kib[e] - x.kib[e] <= since'.used[e] - x.at.used[e]
            /\ x.at.boots = since'.boots =>
                 host'.kib[e] - x.kib[e] = since'.used[e] - x.at.used[e]
      BY <1>2, <2>1, <3>1, <3>4
    <3> QED
      BY <3>3, <3>5 DEF Follows
  <2> QED
    BY <1>1, <1>3, <1>4, <2>1, <2>2, <2>3, <2>4
<1>7. TrailOK(Trail, since, host.config)
  BY DEF TrailInv
<1>8. CASE Knows
  <2>1. \A x \in Trail' : \E y \in Trail : /\ x.kib = y.kib
                                          /\ x.config = y.config
                                          /\ x.at = y.at
    <3> TAKE x \in Trail'
    <3>1. Stored' = Stored /\ Current' = Current
      BY <1>8 DEF Knows, Stored, Current
    <3>2. CASE x \in Trail
      BY <3>2
    <3>3. CASE x \notin Trail
      <4>1. x \in reports' /\ x \notin reports
        BY <3>1, <3>3 DEF Trail
      <4>2. PICK y \in {Stored, Current} :
              x = [kind |-> x.kind, config |-> y.config, kib |-> y.kib,
                   at |-> y.at]
        BY <1>8, <4>1 DEF Knows
      <4>3. x.config = y.config /\ x.kib = y.kib /\ x.at = y.at
        BY <4>2
      <4>4. y \in Trail
        BY DEF Trail
      <4> QED
        BY <4>3, <4>4
    <3> QED
      BY <3>2, <3>3
  <2>2. TrailOK(Trail', since, host.config)
    BY <1>1, <1>7, <2>1, SameTrail
  <2> QED
    BY <1>8, <2>2 DEF Knows, TrailInv
<1>9. ASSUME NEW r \in reports
      PROVE  /\ r \in Trail
             /\ Update(limit, r) \in Account
             /\ Update(limit, r).kib = r.kib
             /\ Update(limit, r).config = r.config
  <2>1. r.config \in Config /\ r.kib \in [Dir -> Nat]
    BY DEF AccountOK, Report
  <2> QED
    BY <2>1, UpdateAccount DEF AccountOK, Trail
<1>10. ASSUME NEW r \in reports, Takes(r)
       PROVE  TrailInv'
  <2>1. \A x \in Trail' : \E y \in Trail : /\ x.kib = y.kib
                                          /\ x.config = y.config
                                          /\ x.at = y.at
    <3> TAKE x \in Trail'
    <3>1. Current' = Current /\ reports' = reports
      BY <1>10 DEF Takes, Current
    <3>2. Stored'.kib = r.kib /\ Stored'.config = r.config /\ Stored'.at = r.at
      BY <1>9, <1>10 DEF Takes, Stored
    <3>3. CASE x = Stored'
      BY <1>9, <3>2, <3>3
    <3>4. CASE x # Stored'
      BY <3>1, <3>4 DEF Trail
    <3> QED
      BY <3>3, <3>4
  <2>2. TrailOK(Trail', since, host.config)
    BY <1>1, <1>7, <2>1, SameTrail
  <2> QED
    BY <1>10, <2>2 DEF Takes, TrailInv
<1>11. ASSUME NEW r \in reports, Cycles(r)
       PROVE  TrailInv'
  <2>1. r \in Trail /\ r.at \in Moment
    BY <1>1, <1>9
  <2>2. \A x \in Trail' : \E y \in Trail : /\ x.kib = y.kib
                                          /\ x.config = y.config
                                          /\ x.at = From(y.at, r.at)
    <3> TAKE x \in Trail'
    <3>1. CASE x = Current'
      <4>1. /\ Current'.kib = Current.kib /\ Current'.config = Current.config
            /\ Current'.at = From(Current.at, r.at)
        BY <1>11 DEF Cycles, Current
      <4> QED
        BY <3>1, <4>1 DEF Trail
    <3>2. CASE x = Stored'
      <4> DEFINE l == Update(limit, r)
      <4>1. /\ l \in Account /\ l.kib = r.kib /\ l.config = r.config
            /\ limit' = Reset(l) /\ now.month \in Int
        BY <1>9, <1>11 DEF Cycles, AccountOK
      <4> HIDE DEF l
      <4>2. limit'.kib = r.kib /\ limit'.config = r.config
        BY <4>1, ResetAccount
      <4>3. Stored'.at = From(r.at, r.at)
        BY <1>11, <2>1, FromSame DEF Cycles, Stored
      <4> QED
        BY <2>1, <3>2, <4>2, <4>3 DEF Stored
    <3>3. CASE x \in reports'
      <4>1. PICK q \in reports : x = [q EXCEPT !.at = From(@, r.at)]
        BY <1>11, <3>3 DEF Cycles
      <4>2. x.kib = q.kib /\ x.config = q.config /\ x.at = From(q.at, r.at)
        BY <4>1 DEF AccountOK, Report
      <4> QED
        BY <4>2 DEF Trail
    <3> QED
      BY <3>1, <3>2, <3>3 DEF Trail
  <2>3. TrailOK(Trail', From(since, r.at), host.config)
    BY <1>1, <1>7, <2>1, <2>2, TrailMoved
  <2> QED
    BY <1>11, <2>3 DEF Cycles, TrailInv
<1> QED
  BY <1>5, <1>6, <1>8, <1>10, <1>11, StepKinds

(* What lies between the record and a report that is not late, and between *)
(* the record and the server.                                              *)
LEMMA Between ==
    ASSUME AccountOK, TrailInv, NEW r \in reports, ~Late(r)
    PROVE  /\ \A d \in Dir :
                /\ r.kib[d] - limit.kib[d] <= r.at.used[d] - last.used[d]
                /\ last.boots = r.at.boots =>
                     r.kib[d] - limit.kib[d] = r.at.used[d] - last.used[d]
                /\ last.used[d] <= r.at.used[d]
           /\ last.boots <= r.at.boots /\ last.starts <= r.at.starts
           /\ r.at.starts <= since.starts
           /\ r.at.starts = since.starts => r.config = host.config
<1>1. r \in Trail /\ Stored \in Trail
  BY DEF Trail
<1>2. Follows(Stored, r) /\ Earlier(r.at, since)
  BY <1>1 DEF TrailInv, TrailOK
<1>3. Earlier(last, r.at)
  BY DEF Late
<1>4. r.at.starts = since.starts => r.config = host.config
  BY <1>1 DEF TrailInv, TrailOK
<1> QED
  BY <1>2, <1>3, <1>4 DEF Follows, Stored, Earlier

LEMMA RecordBehind ==
    ASSUME AccountOK, TrailInv
    PROVE  /\ \A d \in Dir :
                /\ last.used[d] <= since.used[d]
                /\ last.boots = since.boots =>
                     host.kib[d] - limit.kib[d] = since.used[d] - last.used[d]
           /\ last.boots <= since.boots /\ last.starts <= since.starts
           /\ last.starts = since.starts => limit.config = host.config
<1>1. Stored \in Trail /\ Current \in Trail
  BY DEF Trail
<1>2. Earlier(last, since) /\ Follows(Stored, Current)
  BY <1>1 DEF TrailInv, TrailOK, Stored
<1>3. last.starts = since.starts => limit.config = host.config
  BY <1>1 DEF TrailInv, TrailOK, Stored
<1> QED
  BY <1>2, <1>3 DEF Follows, Stored, Current, Earlier

(* Every step keeps the accounts right.                                    *)
LEMMA NextCharge ==
    ASSUME ChargeInv, [Next]_vars
    PROVE  ChargeInv'
<1>1. AccountOK /\ TrailInv /\ AccountOK' /\ TrailInv'
  BY NextAccount, NextTrail DEF ChargeInv
<1>2. /\ \A d \in Dir : /\ limit.kib[d] \in Nat /\ limit.initial[d] \in Int
                       /\ last.used[d] \in Int /\ limit.initial[d] <= limit.kib[d]
      /\ last.boots \in Int
  BY <1>1, MomentType DEF AccountOK, Account
<1>3. SUFFICES ASSUME ~outdated'
               PROVE  Charged'
  BY <1>1 DEF ChargeInv
<1>4. CASE UNCHANGED <<limit, last, outdated>>
  BY <1>3, <1>4 DEF ChargeInv, Charged
<1>5. CASE (\E d \in Dir : Traffic(d)) \/ Knows
           \/ (\E c \in Configs, reboot \in BOOLEAN : Restart(c, reboot))
  BY <1>1, <1>4, <1>5, TrafficStep, RestartStep DEF Knows
<1>6. ASSUME NEW r \in reports, Takes(r)
      PROVE  Charged'
  <2>1. ~outdated /\ ~Late(r) /\ Charged
    BY <1>3, <1>6 DEF Takes, ChargeInv, AccountOK
  <2>2. /\ \A d \in Dir : /\ r.kib[d] - limit.kib[d] <= r.at.used[d] - last.used[d]
                         /\ last.used[d] <= r.at.used[d]
        /\ last.boots <= r.at.boots
    BY <1>1, <2>1, Between
  <2>3. /\ r.config \in Config /\ r.kib \in [Dir -> Nat] /\ r.at \in Moment
    BY <1>1 DEF AccountOK, Report
  <2> DEFINE n == Update(limit, r)
  <2>4. /\ n.kib = r.kib
        /\ \A d \in Dir :
             \/ n.initial[d] = r.kib[d]
             \/ n.initial[d] = limit.initial[d]
             \/ n.initial[d] = r.kib[d] - (limit.kib[d] - limit.initial[d])
    BY <1>1, <2>3, UpdateAccount DEF AccountOK
  <2>5. limit' = n /\ last' = r.at
    BY <1>6 DEF Takes
  <2> HIDE DEF n
  <2>6. \A d \in Dir : r.kib[d] \in Nat /\ r.at.used[d] \in Int /\ r.at.boots \in Int
    BY <2>3, MomentType
  <2>7. \A d \in Dir : n.kib[d] - n.initial[d] <= r.at.used[d]
    BY <1>2, <2>1, <2>2, <2>4, <2>6 DEF Charged
  <2>8. r.at.boots >= 0
    BY <1>2, <2>1, <2>2, <2>3, MomentType DEF Charged
  <2> QED
    BY <2>5, <2>7, <2>8 DEF Charged
<1>7. ASSUME NEW r \in reports, Cycles(r)
      PROVE  Charged'
  <2> DEFINE l == Update(limit, r)
  <2>1. l \in Account /\ now.month \in Int /\ l.kib \in [Dir -> Nat]
    BY <1>1, UpdateAccount DEF AccountOK, Report
  <2>2. limit' = Reset(l) /\ last' = Begin
    BY <1>7 DEF Cycles
  <2> HIDE DEF l
  <2>3. limit'.kib = l.kib /\ limit'.initial = l.kib
    BY <2>1, <2>2, ResetAccount
  <2>4. \A d \in Dir : limit'.kib[d] - limit'.initial[d] <= 0
    BY <2>1, <2>3
  <2> QED
    BY <2>2, <2>4, BeginType DEF Charged
<1>8. \/ \E r \in reports : Takes(r)
      \/ \E r \in reports : Cycles(r)
      \/ (\E d \in Dir : Traffic(d)) \/ Knows
           \/ (\E c \in Configs, reboot \in BOOLEAN : Restart(c, reboot))
  BY StepKinds
<1> QED
  BY <1>5, <1>6, <1>7, <1>8

(* A server is never charged for traffic it has not sent, whatever its     *)
(* counters do and however requests and answers to pings overtake each     *)
(* other, until one comes to the record after a newer one.                 *)
THEOREM FairCharge == Spec => []NeverOvercharged
<1>1. Init => ChargeInv
  BY InitCharge
<1>2. ChargeInv /\ [Next]_vars => ChargeInv'
  BY NextCharge
<1>3. ChargeInv => NeverOvercharged
  <2> SUFFICES ASSUME ChargeInv, ~outdated, NEW d \in Dir
               PROVE  Usage(limit, d) <= since.used[d]
    BY DEF NeverOvercharged
  <2>1. /\ limit.kib[d] - limit.initial[d] <= last.used[d]
        /\ last.used[d] <= since.used[d]
    BY RecordBehind DEF ChargeInv, Charged
  <2>2. /\ limit.kib[d] \in Nat /\ limit.initial[d] \in Int
        /\ last.used[d] \in Int /\ since.used[d] \in Int
    BY MomentType DEF ChargeInv, AccountOK, Account
  <2> QED
    BY <2>1, <2>2 DEF Usage
<1> QED
  BY <1>1, <1>2, <1>3, PTL DEF Spec

-----------------------------------------------------------------------------
(* The theorems below are about servers that always have a reset day.      *)
AlwaysReset == \A c \in Configs : c.resetDay # Zero

(* Every configuration that is stored or under way is one of the server's. *)
ResetInv ==
    /\ ChargeInv
    /\ \A x \in Trail : x.config \in Configs

LEMMA ResetInit ==
    ASSUME Init
    PROVE  ResetInv
<1>1. ChargeInv
  BY InitCharge
<1>2. Unset \in Account
  BY DEF Unset, Account, Config, Zero
<1>3. host.config \in Configs /\ host.kib \in [Dir -> Nat]
  BY <1>1 DEF ChargeInv, AccountOK
<1>4. limit.config = host.config
  BY <1>2, <1>3, UpdateAccount, BandwidthAssumption DEF Init
<1>5. reports = {}
  BY DEF Init
<1> QED
  BY <1>1, <1>3, <1>4, <1>5 DEF ResetInv, Trail, Stored, Current

LEMMA ResetTypes ==
    ASSUME ResetInv
    PROVE  /\ limit \in Account /\ limit.config \in Configs
           /\ now.month \in Int
           /\ host.config \in Configs
           /\ \A r \in reports : /\ r.config \in Configs
                                 /\ r.kib \in [Dir -> Nat]
                                 /\ r.at \in Moment
           /\ AlwaysReset => limit.config.resetDay # Zero
<1>1. AccountOK /\ \A x \in Trail : x.config \in Configs
  BY DEF ResetInv, ChargeInv
<1>2. /\ limit \in Account /\ now.month \in Int /\ host.config \in Configs
      /\ \A r \in reports : r.kib \in [Dir -> Nat] /\ r.at \in Moment
  BY <1>1 DEF AccountOK, Report
<1>3. Stored.config \in Configs /\ \A r \in reports : r.config \in Configs
  BY <1>1 DEF Trail
<1>4. limit.config \in Configs
  BY <1>3 DEF Stored
<1> QED
  BY <1>2, <1>3, <1>4 DEF AlwaysReset

(* What a step of the program makes of the limit: nothing, an Update, or   *)
(* an Update and a Reset.                                                  *)
LEMMA LimitStep ==
    ASSUME [Next]_vars
    PROVE  \/ UNCHANGED limit
           \/ \E r \in reports :
                \/ limit' = Update(limit, r)
                \/ /\ IsTimeToReset(limit)
                   /\ limit' = Reset(Update(limit, r))
<1>1. CASE \/ \E d \in Dir : Traffic(d)
           \/ \E c \in Configs, reboot \in BOOLEAN : Restart(c, reboot)
           \/ Knows
  BY <1>1 DEF Traffic, Restart, Knows
<1>2. CASE (\E r \in reports : Takes(r)) \/ (\E r \in reports : Cycles(r))
  BY <1>2 DEF Takes, Cycles
<1> QED
  BY <1>1, <1>2, StepKinds

LEMMA ResetNext ==
    ASSUME ResetInv, [Next]_vars
    PROVE  ResetInv'
<1>1. ChargeInv'
  BY NextCharge DEF ResetInv
<1>2. AccountOK
  BY DEF ResetInv, ChargeInv
<1>3. limit'.config \in Configs
  <2>1. CASE UNCHANGED limit
    BY <2>1, ResetTypes
  <2>2. CASE ~UNCHANGED limit
    <3>1. PICK r \in reports : \/ limit' = Update(limit, r)
                               \/ limit' = Reset(Update(limit, r))
      BY <2>2, LimitStep
    <3> DEFINE l == Update(limit, r)
    <3>2. l \in Account /\ l.config = r.config /\ r.config \in Configs
      BY ResetTypes, UpdateAccount, BandwidthAssumption
    <3>3. Reset(l).config = l.config
      BY <1>2, <3>2, ResetAccount DEF AccountOK
    <3> QED
      BY <3>1, <3>2, <3>3
  <2> QED
    BY <2>1, <2>2
<1>4. host'.config \in Configs
  BY <1>1 DEF ChargeInv, AccountOK
<1>5. \A x \in reports' : x.config \in Configs
  <2>1. CASE UNCHANGED reports
    BY <2>1, ResetTypes
  <2>2. CASE Knows
    <3> TAKE x \in reports'
    <3>1. CASE x \in reports
      BY <3>1, ResetTypes
    <3>2. CASE x \notin reports
      <4>1. PICK y \in {Stored, Current} :
              x = [kind |-> x.kind, config |-> y.config, kib |-> y.kib,
                   at |-> y.at]
        BY <2>2, <3>2 DEF Knows
      <4>2. x.config = y.config /\ y.config \in Configs
        BY <4>1 DEF ResetInv, Trail
      <4> QED
        BY <4>2
    <3> QED
      BY <3>1, <3>2
  <2>3. ASSUME NEW r \in reports, Cycles(r)
        PROVE  \A x \in reports' : x.config \in Configs
    <3> TAKE x \in reports'
    <3>1. PICK q \in reports : x = [q EXCEPT !.at = From(@, r.at)]
      BY <2>3 DEF Cycles
    <3>2. x.config = q.config
      BY <1>2, <3>1 DEF AccountOK, Report
    <3> QED
      BY <3>2, ResetTypes
  <2> QED
    BY <2>1, <2>2, <2>3, StepKinds DEF Traffic, Restart, Takes
<1> QED
  BY <1>1, <1>3, <1>4, <1>5 DEF ResetInv, Trail, Stored, Current

(* With a reset day Update forgets no usage: it stays, or grows.           *)
LEMMA UpdateKeeps ==
    ASSUME NEW l \in Account, l.config.resetDay # Zero,
           NEW r, r.config \in Config, r.kib \in [Dir -> Nat]
    PROVE  /\ \A d \in Dir : Usage(Update(l, r), d) >= Usage(l, d)
           /\ Update(l, r).month = l.month
<1>1. \A d \in Dir : /\ l.kib[d] \in Nat /\ r.kib[d] \in Nat
                     /\ l.initial[d] \in Int
  BY DEF Account
<1> DEFINE n == Update(l, r)
<1>2. /\ n.kib = r.kib
      /\ n.month = l.month
      /\ \A d \in Dir :
           \/ r.kib[d] >= l.kib[d] /\ n.initial[d] = l.initial[d]
           \/ n.initial[d] = r.kib[d] - (l.kib[d] - l.initial[d])
  BY UpdateAccount
<1> HIDE DEF n
<1>3. \A d \in Dir : n.kib[d] - n.initial[d] >= l.kib[d] - l.initial[d]
  BY <1>1, <1>2
<1> QED
  BY <1>2, <1>3 DEF n, Usage

(* No usage is forgotten before its cycle is over, whatever restarts, lost *)
(* counters and late reports come.                                         *)
THEOREM UsageLasts ==
    ASSUME AlwaysReset
    PROVE  Spec => UsageIsKept
<1>1. ResetInv /\ [Next]_vars =>
        [limit.month = limit'.month =>
           \A d \in Dir : Usage(limit', d) >= Usage(limit, d)]_vars
  <2> SUFFICES ASSUME ResetInv, [Next]_vars, limit.month = limit'.month,
                      NEW d \in Dir
               PROVE  Usage(limit', d) >= Usage(limit, d)
    OBVIOUS
  <2>1. /\ limit \in Account /\ now.month \in Int
        /\ limit.kib[d] \in Nat /\ limit.initial[d] \in Int
        /\ limit.config.resetDay # Zero
    BY ResetTypes DEF Account
  <2>2. CASE UNCHANGED limit
    BY <2>1, <2>2 DEF Usage
  <2>3. CASE ~UNCHANGED limit
    <3>1. PICK r \in reports : \/ limit' = Update(limit, r)
                               \/ /\ IsTimeToReset(limit)
                                  /\ limit' = Reset(Update(limit, r))
      BY <2>3, LimitStep
    <3>2. r.config \in Config /\ r.kib \in [Dir -> Nat]
      BY ResetTypes, BandwidthAssumption
    <3> DEFINE l == Update(limit, r)
    <3>3. l \in Account
      BY <2>1, <3>2, UpdateAccount
    <3>4. limit' # Reset(l) \/ ~IsTimeToReset(limit)
      BY <2>1, <3>3, ResetAccount DEF IsTimeToReset
    <3>5. limit' = l
      BY <3>1, <3>4
    <3> QED
      BY <2>1, <3>2, <3>5, UpdateKeeps
  <2> QED
    BY <2>2, <2>3
<1>2. Init => ResetInv
  BY ResetInit
<1>3. ResetInv /\ [Next]_vars => ResetInv'
  BY ResetNext
<1> QED
  BY <1>1, <1>2, <1>3, PTL DEF Spec, UsageIsKept

-----------------------------------------------------------------------------
(* Since the server has registered the record has its configuration, and   *)
(* servers and relays know whether it is exhausted.                        *)
ToldInv ==
    ~outdated /\ ~starting =>
        /\ told = Exhausted(limit)
        /\ last.starts = since.starts

(* A limit that is reached stays reached while usage is not forgotten.     *)
LEMMA ExhaustedStays ==
    ASSUME NEW l \in Account, NEW m \in Account, m.config = l.config,
           \A d \in Dir : Usage(m, d) >= Usage(l, d),
           Exhausted(l)
    PROVE  Exhausted(m)
<1>1. /\ l.config.up \in Nat /\ l.config.down \in Nat /\ l.config.total \in Nat
      /\ \A d \in Dir : Usage(m, d) \in Int /\ Usage(l, d) \in Int
  BY DEF Account, Config, Usage
<1>2. /\ Usage(m, "up") >= Usage(l, "up")
      /\ Usage(m, "down") >= Usage(l, "down")
      /\ Usage(m, "up") + Usage(m, "down") >= Usage(l, "up") + Usage(l, "down")
  BY <1>1 DEF Dir
<1>3. ASSUME NEW u \in Int, NEW v \in Int, NEW gib \in Nat, v >= u,
             Exceeds(u, gib)
      PROVE  Exceeds(v, gib)
  <2> DEFINE k == KiBPerGiB * gib
  <2>1. k \in Int
    BY BandwidthAssumption
  <2>2. gib > 0 /\ u >= k
    BY <1>3 DEF Exceeds
  <2> HIDE DEF k
  <2>3. v >= k
    BY <1>3, <2>1, <2>2
  <2> QED
    BY <2>2, <2>3 DEF Exceeds, k
<1>4. /\ Usage(m, "up") \in Int /\ Usage(m, "down") \in Int
      /\ Usage(m, "up") + Usage(m, "down") \in Int
      /\ Usage(l, "up") \in Int /\ Usage(l, "down") \in Int
      /\ Usage(l, "up") + Usage(l, "down") \in Int
  BY <1>1 DEF Dir
<1>5. \/ Exceeds(Usage(l, "down"), l.config.down)
      \/ Exceeds(Usage(l, "up"), l.config.up)
      \/ Exceeds(Usage(l, "up") + Usage(l, "down"), l.config.total)
  BY DEF Exhausted, Over
<1>6. \/ Exceeds(Usage(m, "down"), l.config.down)
      \/ Exceeds(Usage(m, "up"), l.config.up)
      \/ Exceeds(Usage(m, "up") + Usage(m, "down"), l.config.total)
  BY <1>1, <1>2, <1>3, <1>4, <1>5
<1> QED
  BY <1>6 DEF Exhausted, Over

(* A server that has just booted has used nothing.                         *)
LEMMA ToldInit ==
    ASSUME Init
    PROVE  ToldInv
<1>1. /\ host.config \in Config
      /\ host.kib \in [Dir -> Nat]
      /\ Unset \in Account /\ Unset.config.resetDay = Zero
  BY BandwidthAssumption DEF Init, Unset, Account, Config, Zero
<1>2. /\ limit \in Account
      /\ limit.config = host.config
      /\ \A d \in Dir : Usage(limit, d) = 0
  BY <1>1, UpdateAccount DEF Init, Account, Usage
<1>3. \A gib \in Nat : ~Exceeds(0, gib)
  <2> SUFFICES ASSUME NEW gib \in Nat, gib > 0
               PROVE  ~(0 >= KiBPerGiB * gib)
    BY DEF Exceeds
  <2> QED
    BY BandwidthAssumption
<1>4. ~Exhausted(limit)
  BY <1>1, <1>2, <1>3 DEF Exhausted, Over, Config, Dir
<1>5. told = Exhausted(limit)
  <2>1. told = FALSE
    BY Zenon DEF Init
  <2>2. Exhausted(limit) \in BOOLEAN
    BY DEF Exhausted, Over
  <2> QED
    BY <1>4, <2>1, <2>2
<1>6. last.starts = since.starts
  BY DEF Init
<1> QED
  BY <1>5, <1>6 DEF ToldInv

LEMMA ToldNext ==
    ASSUME AlwaysReset, ResetInv, ToldInv, [Next]_vars
    PROVE  ToldInv'
<1>1. /\ AccountOK /\ TrailInv
      /\ limit \in Account /\ limit.config.resetDay # Zero
      /\ now.month \in Int
      /\ last.starts \in Int /\ since.starts \in Int
      /\ outdated \in BOOLEAN
  BY ResetTypes, MomentType DEF ResetInv, ChargeInv, AccountOK
<1>2. ASSUME NEW r \in reports
      PROVE  /\ r.config \in Config /\ r.kib \in [Dir -> Nat]
             /\ r.at \in Moment /\ r.at.starts \in Int
             /\ Update(limit, r) \in Account
             /\ Update(limit, r).config = r.config
  BY <1>1, ResetTypes, UpdateAccount, MomentType, BandwidthAssumption
<1>3. CASE \E d \in Dir : Traffic(d)
  BY <1>1, <1>3, TrafficStep DEF Traffic, ToldInv, Exhausted, Usage
<1>4. CASE \E c \in Configs, reboot \in BOOLEAN : Restart(c, reboot)
  BY <1>4 DEF Restart, ToldInv
<1>5. CASE \/ PostRegister \/ SyncAllRead \/ PingAnswer
           \/ (\E r \in reports : End(r)) \/ NextDay \/ UNCHANGED vars
  BY <1>5
  DEF PostRegister, SyncAllRead, PingAnswer, Send, End, NextDay, vars, history,
      ToldInv, Exhausted, Usage
<1>6. ASSUME NEW r \in reports, ~Late(r), last.starts = since.starts
      PROVE  /\ r.at.starts = since.starts
             /\ r.config = host.config /\ limit.config = host.config
  <2>1. /\ last.starts <= r.at.starts /\ r.at.starts <= since.starts
        /\ r.at.starts = since.starts => r.config = host.config
    BY <1>1, <1>6, Between
  <2>2. limit.config = host.config
    BY <1>1, <1>6, RecordBehind
  <2> QED
    BY <1>1, <1>2, <1>6, <2>1, <2>2
<1>7. ASSUME NEW r \in reports, RegisterServer(r)
      PROVE  ToldInv'
  <2>1. /\ told' = Exhausted(limit') /\ last' = r.at /\ since' = since
        /\ outdated' = (outdated \/ Late(r))
        /\ starting' = (starting /\ r.at.starts # since.starts)
    BY <1>7 DEF RegisterServer
  <2>2. SUFFICES ASSUME ~outdated', ~starting'
                 PROVE  r.at.starts = since.starts
    BY <2>1 DEF ToldInv
  <2>3. ~outdated /\ ~Late(r) /\ (~starting \/ r.at.starts = since.starts)
    BY <2>1, <2>2
  <2> QED
    BY <1>6, <2>3 DEF ToldInv
<1>8. ASSUME NEW r \in reports, PingTodo(r)
      PROVE  ToldInv'
  <2>0. starting' = starting
    BY <1>8 DEF PingTodo
  <2>1. CASE PingReset(r)
    <3>1. /\ told' = Exhausted(limit') /\ last' = Begin
          /\ since' = From(since, r.at)
          /\ outdated' = (Late(r) \/ (outdated /\ r.at.starts # since.starts))
      BY <2>1 DEF PingReset
    <3>2. From(since, r.at).starts = since.starts - r.at.starts
      BY <1>1, <1>2, FromType DEF AccountOK
    <3>3. SUFFICES ASSUME ~outdated', ~starting
                   PROVE  r.at.starts = since.starts
      BY <1>1, <1>2, <2>0, <3>1, <3>2, BeginType DEF ToldInv
    <3>4. CASE outdated
      BY <3>1, <3>3, <3>4
    <3>5. CASE ~outdated
      BY <1>6, <3>1, <3>3, <3>5 DEF ToldInv
    <3> QED
      BY <3>4, <3>5
  <2>2. ASSUME Taken(r)
        PROVE  /\ last' = r.at /\ since' = since
               /\ ~outdated' /\ ~starting' =>
                    /\ told = Exhausted(limit)
                    /\ r.at.starts = since.starts
                    /\ r.config = limit.config
    <3>1. /\ last' = r.at /\ since' = since
          /\ outdated' = (outdated \/ Late(r))
      BY <2>2 DEF Taken
    <3> QED
      BY <1>6, <2>0, <3>1 DEF ToldInv
  <2>3. CASE PingUpdate(r)
    <3>1. /\ ~Exhausted(limit) /\ Taken(r)
          /\ told' = IF Exhausted(limit') THEN TRUE ELSE told
      BY <2>3 DEF PingUpdate
    <3>2. /\ Exhausted(limit) \in BOOLEAN /\ Exhausted(limit') \in BOOLEAN
      BY DEF Exhausted, Over
    <3>3. told = Exhausted(limit) => told' = Exhausted(limit')
      BY <3>1, <3>2
    <3> QED
      BY <2>2, <3>1, <3>3 DEF ToldInv
  <2>4. CASE PingExhausted(r)
    <3>1. /\ Exhausted(limit) /\ Taken(r) /\ limit' = Update(limit, r)
          /\ told' = told
      BY <2>4 DEF PingExhausted
    <3>2. r.config = limit.config => Exhausted(limit')
      BY <1>1, <1>2, <3>1, UpdateKeeps, ExhaustedStays
    <3>3. Exhausted(limit') \in BOOLEAN /\ Exhausted(limit) \in BOOLEAN
      BY DEF Exhausted, Over
    <3>4. r.config = limit.config => Exhausted(limit') = Exhausted(limit)
      BY <3>1, <3>2, <3>3
    <3> QED
      BY <2>2, <3>1, <3>4 DEF ToldInv
  <2> QED
    BY <1>8, <2>1, <2>3, <2>4 DEF PingTodo
<1> QED
  BY <1>3, <1>4, <1>5, <1>7, <1>8 DEF Next

(* A server that runs out of bandwidth, or has it again, is never so       *)
(* without servers and relays having been synced for it since, once it has *)
(* registered, unless a late report is taken over.                         *)
THEOREM Told ==
    ASSUME AlwaysReset
    PROVE  Spec => []PeersAreTold
<1>1. Init => ResetInv /\ ToldInv
  BY ResetInit, ToldInit
<1>2. ResetInv /\ ToldInv /\ [Next]_vars => (ResetInv /\ ToldInv)'
  BY ResetNext, ToldNext
<1>3. ToldInv => PeersAreTold
  BY DEF ToldInv, PeersAreTold
<1> QED
  BY <1>1, <1>2, <1>3, PTL DEF Spec

-----------------------------------------------------------------------------
(* As long as no counters are lost and no late report is taken over, the   *)
(* account is that of the report it has been brought up to date with: what *)
(* the server had sent by then in the cycle.                               *)
ExactInv ==
    ~outdated /\ last.boots = 0 =>
        \A d \in Dir : limit.kib[d] - limit.initial[d] = last.used[d]

LEMMA ExactInit ==
    ASSUME Init
    PROVE  ExactInv
<1>1. /\ Unset \in Account /\ Unset.config.resetDay = Zero
      /\ host.config \in Config
      /\ host.kib \in [Dir -> Nat] /\ \A d \in Dir : host.kib[d] = 0
  BY BandwidthAssumption DEF Init, Unset, Account, Config, Zero
<1>2. /\ limit.kib = host.kib
      /\ \A d \in Dir : limit.initial[d] = host.kib[d]
  BY <1>1, UpdateAccount DEF Init
<1> QED
  BY <1>1, <1>2, BeginType DEF ExactInv, Init

(* Counters that have not decreased are taken over as they are.            *)
LEMMA UpdateExact ==
    ASSUME NEW l \in Account, l.config.resetDay # Zero,
           NEW r, r.config \in Config, r.kib \in [Dir -> Nat],
           \A d \in Dir : l.kib[d] <= r.kib[d]
    PROVE  /\ Update(l, r).kib = r.kib
           /\ \A d \in Dir : Update(l, r).initial[d] = l.initial[d]
<1>1. \A d \in Dir : l.kib[d] \in Nat /\ r.kib[d] \in Nat
  BY DEF Account
<1>2. \A d \in Dir : ~(r.kib[d] < l.kib[d])
  BY <1>1
<1> QED
  BY <1>2, UpdateAccount

LEMMA ExactNext ==
    ASSUME AlwaysReset, ResetInv, ExactInv, [Next]_vars
    PROVE  ExactInv'
<1>1. /\ AccountOK /\ TrailInv
      /\ limit \in Account /\ limit.config.resetDay # Zero
      /\ now.month \in Int
      /\ last.boots \in Int
      /\ outdated \in BOOLEAN
      /\ ~outdated => last.boots >= 0
  BY ResetTypes, MomentType DEF ResetInv, ChargeInv, Charged, AccountOK
<1>2. \A d \in Dir : /\ limit.kib[d] \in Nat /\ limit.initial[d] \in Int
                     /\ last.used[d] \in Int
  BY <1>1, MomentType DEF Account, AccountOK
<1>3. CASE UNCHANGED <<limit, last, outdated>>
  BY <1>3 DEF ExactInv
<1>4. CASE (\E d \in Dir : Traffic(d)) \/ Knows
           \/ (\E c \in Configs, reboot \in BOOLEAN : Restart(c, reboot))
  BY <1>1, <1>3, <1>4, TrafficStep, RestartStep DEF Knows
<1>5. ASSUME NEW r \in reports, Takes(r)
      PROVE  ExactInv'
  <2>1. limit' = Update(limit, r) /\ last' = r.at /\ outdated' = (outdated \/ Late(r))
    BY <1>5 DEF Takes
  <2>2. SUFFICES ASSUME ~outdated, ~Late(r), r.at.boots = 0
                 PROVE  \A d \in Dir : limit'.kib[d] - limit'.initial[d] = r.at.used[d]
    BY <2>1 DEF ExactInv
  <2>3. /\ r.config \in Config /\ r.kib \in [Dir -> Nat] /\ r.at \in Moment
    BY ResetTypes, BandwidthAssumption
  <2>4. /\ \A d \in Dir : /\ last.boots = r.at.boots =>
                               r.kib[d] - limit.kib[d] = r.at.used[d] - last.used[d]
                          /\ last.used[d] <= r.at.used[d]
        /\ last.boots <= r.at.boots
    BY <1>1, <2>2, Between
  <2>5. last.boots = 0 /\ last.boots = r.at.boots
    BY <1>1, <2>2, <2>4
  <2>6. \A d \in Dir : /\ r.kib[d] \in Nat /\ r.at.used[d] \in Int
                       /\ r.kib[d] - limit.kib[d] = r.at.used[d] - last.used[d]
                       /\ limit.kib[d] - limit.initial[d] = last.used[d]
    BY <2>2, <2>3, <2>4, <2>5, MomentType DEF ExactInv
  <2>7. \A d \in Dir : limit.kib[d] <= r.kib[d]
    BY <1>2, <2>4, <2>6
  <2>8. /\ limit'.kib = r.kib
        /\ \A d \in Dir : limit'.initial[d] = limit.initial[d]
    BY <1>1, <2>1, <2>3, <2>7, UpdateExact
  <2> QED
    BY <1>2, <2>6, <2>8
<1>6. ASSUME NEW r \in reports, Cycles(r)
      PROVE  ExactInv'
  <2> DEFINE l == Update(limit, r)
  <2>1. l \in Account /\ now.month \in Int /\ l.kib \in [Dir -> Nat]
    BY <1>1, ResetTypes, UpdateAccount, BandwidthAssumption DEF Account
  <2>2. limit' = Reset(l) /\ last' = Begin
    BY <1>6 DEF Cycles
  <2> HIDE DEF l
  <2>3. limit'.kib = l.kib /\ limit'.initial = l.kib
    BY <2>1, <2>2, ResetAccount
  <2>4. \A d \in Dir : limit'.kib[d] - limit'.initial[d] = 0
    BY <2>1, <2>3
  <2> QED
    BY <2>2, <2>4, BeginType DEF ExactInv
<1> QED
  BY <1>4, <1>5, <1>6, StepKinds

(* Whole units, as the limits are configured, against the finer units of   *)
(* the counters: to round the traffic down first makes no difference.      *)
LEMMA Times ==
    ASSUME NEW k \in Nat, NEW a \in Nat, NEW b \in Nat, a <= b
    PROVE  k * a <= k * b
<1> DEFINE d == b - a
<1>1. d \in Nat /\ b = a + d
  OBVIOUS
<1> HIDE DEF d
<1>2. k * b = k * a + k * d
  BY <1>1
<1>3. k * d \in Nat /\ k * a \in Nat
  BY <1>1
<1> QED
  BY <1>2, <1>3

LEMMA WholeUnits ==
    ASSUME NEW x \in Nat, NEW gib \in Nat
    PROVE  x \div KiBPerGiB >= gib <=> x >= KiBPerGiB * gib
<1> DEFINE k == KiBPerGiB
           q == x \div k
<1>1. k \in Nat /\ k > 0
  BY BandwidthAssumption
<1>2. q \in Nat /\ k * q <= x /\ x < k * q + k
  BY <1>1
<1> HIDE DEF q
<1>3. ASSUME q >= gib
      PROVE  x >= k * gib
  <2>1. k * gib <= k * q
    BY <1>1, <1>2, <1>3, Times
  <2>2. k * gib \in Nat /\ k * q \in Nat
    BY <1>1, <1>2
  <2> HIDE DEF k
  <2> QED
    BY <1>2, <2>1, <2>2
<1>4. ASSUME ~(q >= gib)
      PROVE  ~(x >= k * gib)
  <2>1. q + 1 \in Nat /\ q + 1 <= gib
    BY <1>2, <1>4
  <2>2. k * (q + 1) <= k * gib
    BY <1>1, <2>1, Times
  <2>3. k * (q + 1) = k * q + k
    BY <1>1, <1>2
  <2>4. k * gib \in Nat /\ k * q \in Nat
    BY <1>1, <1>2
  <2> HIDE DEF k
  <2> QED
    BY <1>1, <1>2, <2>2, <2>3, <2>4
<1> QED
  BY <1>3, <1>4 DEF q

(* A server whose record is up to date is cut off exactly when it has sent *)
(* what its configuration allows in the cycle, up, down or both together:  *)
(* not before and not later, however many reports are under way, unless    *)
(* its counters are lost or a late report is taken over.                   *)
THEOREM Enforced ==
    ASSUME AlwaysReset
    PROVE  Spec => []LimitIsEnforced
<1>1. Init => ResetInv /\ ExactInv
  BY ResetInit, ExactInit
<1>2. ResetInv /\ ExactInv /\ [Next]_vars => (ResetInv /\ ExactInv)'
  BY ResetNext, ExactNext
<1>3. ResetInv /\ ExactInv => LimitIsEnforced
  <2> SUFFICES ASSUME ResetInv, ExactInv,
                      limit.kib = host.kib, limit.config = host.config,
                      since.boots = 0, ~outdated
               PROVE  Exhausted(limit) <=> LimitReached
    BY DEF LimitIsEnforced
  <2> DEFINE used == since.used
  <2>1. /\ AccountOK /\ TrailInv /\ Charged
        /\ host.config \in Config
    BY ResetTypes, BandwidthAssumption DEF ResetInv, ChargeInv
  <2>2. /\ last.boots \in Int /\ last.boots >= 0
        /\ \A d \in Dir : /\ last.used[d] \in Int /\ used[d] \in Int
                          /\ limit.kib[d] \in Nat /\ limit.initial[d] \in Int
                          /\ limit.initial[d] <= limit.kib[d]
                          /\ host.kib[d] \in Nat
    BY <2>1, MomentType DEF AccountOK, Account, Charged
  <2>3. last.boots = 0
    BY <2>1, <2>2, RecordBehind
  <2>4. \A d \in Dir : /\ host.kib[d] - limit.kib[d] = used[d] - last.used[d]
                       /\ limit.kib[d] - limit.initial[d] = last.used[d]
    BY <2>1, <2>3, RecordBehind DEF ExactInv
  <2>5. \A d \in Dir : used[d] \in Nat /\ limit.kib[d] - limit.initial[d] = used[d]
    BY <2>2, <2>4
  <2>6. /\ used["up"] \in Nat /\ used["down"] \in Nat
        /\ Usage(limit, "up") = used["up"] /\ Usage(limit, "down") = used["down"]
    BY <2>5 DEF Usage, Dir
  <2> HIDE DEF used
  <2>7. \A x \in Nat, gib \in Nat :
          Exceeds(x, gib) <=> gib # 0 /\ x \div KiBPerGiB >= gib
    <3> TAKE x \in Nat, gib \in Nat
    <3>1. gib > 0 <=> gib # 0
      OBVIOUS
    <3> QED
      BY <3>1, WholeUnits DEF Exceeds
  <2>8. /\ host.config.up \in Nat /\ host.config.down \in Nat
        /\ host.config.total \in Nat
        /\ used["up"] + used["down"] \in Nat
    BY <2>1, <2>6 DEF Config
  <2>9. /\ Exceeds(used["up"], host.config.up)
             <=> /\ host.config.up # 0
                 /\ used["up"] \div KiBPerGiB >= host.config.up
        /\ Exceeds(used["down"], host.config.down)
             <=> /\ host.config.down # 0
                 /\ used["down"] \div KiBPerGiB >= host.config.down
        /\ Exceeds(used["up"] + used["down"], host.config.total)
             <=> /\ host.config.total # 0
                 /\ (used["up"] + used["down"]) \div KiBPerGiB >= host.config.total
    BY <2>6, <2>7, <2>8
  <2>10. Exhausted(limit) <=> \/ Exceeds(used["down"], host.config.down)
                              \/ Exceeds(used["up"], host.config.up)
                              \/ Exceeds(used["up"] + used["down"], host.config.total)
    BY <2>6 DEF Exhausted, Over
  <2>11. LimitReached <=>
          \/ /\ host.config.up # 0
             /\ used["up"] \div KiBPerGiB >= host.config.up
          \/ /\ host.config.down # 0
             /\ used["down"] \div KiBPerGiB >= host.config.down
          \/ /\ host.config.total # 0
             /\ (used["up"] + used["down"]) \div KiBPerGiB >= host.config.total
    BY DEF LimitReached, used
  <2> QED
    BY <2>9, <2>10, <2>11
<1> QED
  BY <1>1, <1>2, <1>3, PTL DEF Spec

-----------------------------------------------------------------------------
(* A subscription shows no bandwidth left only of a server that is cut     *)
(* off: what remains of the total, or of both directions together, is used *)
(* up only if a limit of its own is.                                       *)
THEOREM ShownLeft == Spec => []NothingLeftIsExhausted
<1>1. Init => ChargeInv
  BY InitCharge
<1>2. ChargeInv /\ [Next]_vars => ChargeInv'
  BY NextCharge
<1>3. ChargeInv => NothingLeftIsExhausted
  <2> SUFFICES ASSUME ChargeInv, NEW r \in Remaining(limit), r <= 0
               PROVE  Exhausted(limit)
    BY DEF NothingLeftIsExhausted, ShowsNothingLeft
  <2> DEFINE c == limit.config
             u == Usage(limit, "up")
             v == Usage(limit, "down")
             Of(gib, d) == IF gib > 0 THEN KiBPerGiB * gib - Usage(limit, d) ELSE 0
  <2>1. /\ c.up \in Nat /\ c.down \in Nat /\ c.total \in Nat
        /\ u \in Int /\ v \in Int
    BY DEF ChargeInv, AccountOK, Account, Config, Usage, Dir
  <2>2. /\ KiBPerGiB * c.up \in Int /\ KiBPerGiB * c.down \in Int
        /\ KiBPerGiB * c.total \in Int
    BY <2>1, BandwidthAssumption
  <2>3. \/ c.total > 0 /\ r = KiBPerGiB * c.total - (u + v)
        \/ c.up + c.down > 0 /\ r = Of(c.up, "up") + Of(c.down, "down")
    BY DEF Remaining
  <2>4. Exhausted(limit) <=>
          \/ c.down > 0 /\ v >= KiBPerGiB * c.down
          \/ c.up > 0 /\ u >= KiBPerGiB * c.up
          \/ c.total > 0 /\ u + v >= KiBPerGiB * c.total
    BY DEF Exhausted, Over, Exceeds
  <2>5. /\ Of(c.up, "up") = IF c.up > 0 THEN KiBPerGiB * c.up - u ELSE 0
        /\ Of(c.down, "down") = IF c.down > 0 THEN KiBPerGiB * c.down - v ELSE 0
    OBVIOUS
  <2> DEFINE ku == KiBPerGiB * c.up
             kd == KiBPerGiB * c.down
             kt == KiBPerGiB * c.total
  <2>6. /\ ku \in Int /\ kd \in Int /\ kt \in Int
        /\ \/ c.total > 0 /\ r = kt - (u + v)
           \/ /\ c.up + c.down > 0
              /\ r = (IF c.up > 0 THEN ku - u ELSE 0)
                       + (IF c.down > 0 THEN kd - v ELSE 0)
        /\ Exhausted(limit) <=> \/ c.down > 0 /\ v >= kd
                                \/ c.up > 0 /\ u >= ku
                                \/ c.total > 0 /\ u + v >= kt
    BY <2>2, <2>3, <2>4, <2>5
  <2> HIDE DEF ku, kd, kt, u, v, c, Of
  <2> QED
    BY <2>1, <2>6
<1> QED
  BY <1>1, <1>2, <1>3, PTL DEF Spec

-----------------------------------------------------------------------------
(* Every month has the reset days that servers are configured with.        *)
DayInEveryMonth == \A c \in Configs, m \in Months : c.resetDay <= MonthDays[m]

(* A ping that was answered on the last day of a month has found the limit *)
(* reset in this month, or has reset it.                                   *)
MonthInv ==
    /\ now \in [month : Months, day : Nat]
    /\ pinged /\ now.day >= MonthDays[now.month] => limit.month = now.month

LEMMA MonthInit ==
    ASSUME Init
    PROVE  MonthInv
BY DEF Init, MonthInv, Months

LEMMA MonthNext ==
    ASSUME AlwaysReset, DayInEveryMonth, ResetInv, MonthInv, [Next]_vars
    PROVE  MonthInv'
<1>1. /\ limit \in Account /\ limit.config \in Configs
      /\ limit.config.resetDay # Zero /\ limit.config.resetDay \in Nat
      /\ now.month \in Int
  BY ResetTypes, BandwidthAssumption DEF Config
<1>2. CASE UNCHANGED <<limit, now, pinged>>
  BY <1>2 DEF MonthInv
<1>3. CASE \E r \in reports : RegisterServer(r)
  BY <1>3 DEF MonthInv, RegisterServer
<1>4. ASSUME NEW r \in reports, PingTodo(r)
      PROVE  MonthInv'
  <2>1. /\ Update(limit, r) \in Account
        /\ Update(limit, r).month = limit.month
    BY <1>1, ResetTypes, UpdateAccount, BandwidthAssumption
  <2>2. now' = now /\ (PingReset(r) \/ PingUpdate(r) \/ PingExhausted(r))
    BY <1>4 DEF PingTodo
  <2>3. CASE PingReset(r)
    <3>1. limit'.month = now.month
      BY <1>1, <2>1, <2>3, ResetAccount DEF PingReset
    <3> QED
      BY <2>2, <3>1 DEF MonthInv
  <2>4. CASE PingUpdate(r) \/ PingExhausted(r)
    <3>1. ~IsTimeToReset(limit) /\ limit'.month = limit.month
      BY <2>1, <2>4 DEF PingUpdate, PingExhausted
    <3>2. ASSUME now.day >= MonthDays[now.month]
          PROVE  limit.month = now.month
      <4>1. /\ limit.config.resetDay <= MonthDays[now.month]
            /\ MonthDays[now.month] \in Nat
            /\ now.day \in Nat
        BY <1>1, BandwidthAssumption DEF DayInEveryMonth, MonthInv, Months
      <4>2. now.day >= limit.config.resetDay
        BY <1>1, <3>2, <4>1
      <4> QED
        BY <1>1, <3>1, <4>2 DEF IsTimeToReset
    <3> QED
      BY <2>2, <3>1, <3>2 DEF MonthInv
  <2> QED
    BY <2>2, <2>3, <2>4
<1>5. CASE NextDay
  <2>1. ~pinged'
    BY <1>5 DEF NextDay
  <2>2. now' \in [month : Months, day : Nat]
    BY <1>5, BandwidthAssumption DEF NextDay, MonthInv, Months
  <2> QED
    BY <2>1, <2>2 DEF MonthInv
<1> QED
  BY <1>2, <1>3, <1>4, <1>5
  DEF Next, vars, Traffic, Restart, PostRegister, SyncAllRead, PingAnswer, Send, End

(* No month ends without a reset of the limit, if every month has the day, *)
(* however late the answers come that are taken over.                      *)
THEOREM MonthlyReset ==
    ASSUME AlwaysReset, DayInEveryMonth
    PROVE  Spec => ResetEveryMonth
<1>1. Init => ResetInv /\ MonthInv
  BY ResetInit, MonthInit
<1>2. ResetInv /\ MonthInv /\ [Next]_vars => (ResetInv /\ MonthInv)'
  BY ResetNext, MonthNext
<1>3. ResetInv /\ MonthInv /\ [Next]_vars =>
        [now'.month # now.month /\ limit.config.resetDay # Zero =>
           limit.month = now.month]_vars
  <2> SUFFICES ASSUME MonthInv, [Next]_vars, now'.month # now.month
               PROVE  limit.month = now.month
    OBVIOUS
  <2>1. NextDay
    BY DEF Next, vars, history, Traffic, Restart, PostRegister, SyncAllRead,
           PingAnswer, Send, RegisterServer, PingTodo, End
  <2>2. ~(now.day < MonthDays[now.month])
    <3>1. SUFFICES ASSUME now.day < MonthDays[now.month]
                   PROVE  FALSE
      OBVIOUS
    <3>2. now' = [now EXCEPT !.day = @ + 1]
      BY <2>1, <3>1 DEF NextDay
    <3> QED
      BY <3>2 DEF MonthInv
  <2>3. pinged /\ now.day \in Nat /\ MonthDays[now.month] \in Nat
    BY <2>1, BandwidthAssumption DEF NextDay, MonthInv, Months
  <2> QED
    BY <2>2, <2>3 DEF MonthInv
<1> QED
  BY <1>1, <1>2, <1>3, PTL DEF Spec, ResetEveryMonth

-----------------------------------------------------------------------------
(* What AccountOK and MonthInv leave of the types.                         *)
CalendarInv ==
    /\ limit.month \in Months \cup {-1, 0}
    /\ host.kib \in [Dir -> 0..MaxKiB]
    /\ now \in [month : Months, day : Nat \ {0}]
    /\ now.day <= MonthDays[now.month]
    /\ told \in BOOLEAN /\ starting \in BOOLEAN /\ pinged \in BOOLEAN

LEMMA CalendarInit ==
    ASSUME Init
    PROVE  CalendarInv
<1>1. /\ Unset \in Account /\ Unset.config.resetDay = Zero
      /\ host.config \in Config /\ host.kib \in [Dir -> Nat]
  BY BandwidthAssumption DEF Init, Unset, Account, Config, Zero
<1>2. limit.month = -1
  BY <1>1 DEF Init, Update
<1>3. host.kib \in [Dir -> 0..MaxKiB]
  BY BandwidthAssumption DEF Init
<1>4. now \in [month : Months, day : Nat \ {0}] /\ now.day <= MonthDays[now.month]
  BY BandwidthAssumption DEF Init, Months
<1>5. told \in BOOLEAN /\ starting \in BOOLEAN /\ pinged \in BOOLEAN
  BY Zenon DEF Init
<1> QED
  BY <1>2, <1>3, <1>4, <1>5 DEF CalendarInv

LEMMA UpdateMonth ==
    ASSUME NEW l \in Account, NEW r
    PROVE  Update(l, r).month \in {-1, l.month}
BY DEF Update

LEMMA CalendarNext ==
    ASSUME ChargeInv, CalendarInv, [Next]_vars
    PROVE  CalendarInv'
<1>1. limit \in Account /\ now.month \in Months /\ now.month \in Int
  BY DEF ChargeInv, AccountOK, CalendarInv
<1>2. Exhausted(limit) \in BOOLEAN /\ Exhausted(limit') \in BOOLEAN
  BY DEF Exhausted, Over
<1>3. limit'.month \in Months \cup {-1, 0}
  <2>1. CASE UNCHANGED limit
    BY <2>1 DEF CalendarInv
  <2>2. CASE \E r \in reports : limit' = Update(limit, r)
    BY <1>1, <2>2, UpdateMonth DEF CalendarInv
  <2>3. CASE \E r \in reports : limit' = Reset(Update(limit, r))
    BY <1>1, <2>3 DEF Reset
  <2> QED
    BY <2>1, <2>2, <2>3, LimitStep
<1>4. host'.kib \in [Dir -> 0..MaxKiB]
  <2>1. CASE \E d \in Dir : Traffic(d)
    <3>1. PICK d \in Dir : Traffic(d)
      BY <2>1
    <3>2. host'.kib = [host.kib EXCEPT ![d] = @ + 1]
      BY <3>1 DEF Traffic, ChargeInv, AccountOK
    <3>3. host.kib[d] + 1 \in 0..MaxKiB
      BY <3>1, BandwidthAssumption DEF Traffic, TrafficBound, CalendarInv
    <3> QED
      BY <3>2, <3>3 DEF CalendarInv
  <2>2. CASE \E c \in Configs, reboot \in BOOLEAN : Restart(c, reboot)
    BY <2>2, BandwidthAssumption DEF Restart, CalendarInv
  <2>3. CASE UNCHANGED host
    BY <2>3 DEF CalendarInv
  <2> QED
    BY <2>1, <2>2, <2>3, StepKinds DEF Knows, Takes, Cycles
<1>5. now' \in [month : Months, day : Nat \ {0}] /\ now'.day <= MonthDays[now'.month]
  <2>1. CASE NextDay
    <3>1. /\ \A m \in Months : MonthDays[m] \in Nat \ {0}
          /\ 1 \in Months /\ now.day \in Nat \ {0}
      BY BandwidthAssumption DEF Months, CalendarInv
    <3>2. CASE now.day < MonthDays[now.month]
      BY <1>1, <2>1, <3>1, <3>2 DEF NextDay, CalendarInv
    <3>3. CASE ~(now.day < MonthDays[now.month])
      <4>1. PICK m \in Months : now' = [month |-> m, day |-> 1]
        BY <2>1, <3>1, <3>3 DEF NextDay
      <4> QED
        BY <3>1, <4>1
    <3> QED
      BY <3>2, <3>3
  <2>2. CASE UNCHANGED now
    BY <2>2 DEF CalendarInv
  <2> QED
    BY <2>1, <2>2
    DEF Next, vars, Traffic, Restart, PostRegister, SyncAllRead, PingAnswer, Send,
        RegisterServer, PingTodo, End
<1>6. told' \in BOOLEAN
  <2>1. told' \in {told, TRUE, Exhausted(limit')}
    BY DEF Next, vars, Traffic, Restart, PostRegister, SyncAllRead, PingAnswer,
           Send, RegisterServer, PingTodo, PingReset, PingUpdate, PingExhausted,
           End, NextDay
  <2> QED
    BY <1>2, <2>1 DEF CalendarInv
<1>7. starting' \in BOOLEAN /\ pinged' \in BOOLEAN
  BY DEF CalendarInv, Next, vars, Traffic, Restart, PostRegister, SyncAllRead,
         PingAnswer, Send, RegisterServer, PingTodo, End, NextDay
<1> QED
  BY <1>3, <1>4, <1>5, <1>6, <1>7 DEF CalendarInv

(* The accounts, the calendar and what is under way have their types:      *)
(* months are those of the year or "none yet", days those of their month,  *)
(* and the moments of reports may lie before the cycle.                    *)
THEOREM AccountTyping == Spec => []TypeOK
<1>1. Init => ChargeInv /\ CalendarInv
  BY InitCharge, CalendarInit
<1>2. ChargeInv /\ CalendarInv /\ [Next]_vars => (ChargeInv /\ CalendarInv)'
  BY NextCharge, CalendarNext
<1>3. ChargeInv /\ CalendarInv => TypeOK
  BY DEF ChargeInv, AccountOK, CalendarInv, TypeOK, Account
<1> QED
  BY <1>1, <1>2, <1>3, PTL DEF Spec

=============================================================================
