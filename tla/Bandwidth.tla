----------------------------- MODULE Bandwidth -----------------------------
(***************************************************************************)
(* The bandwidth limit of one server (model.BandwidthLimit): the traffic   *)
(* counters it reports, the usage accounted to the current cycle, and the  *)
(* monthly reset, as RegisterServer and the rounds of pings update them.   *)
(* The server is a relay; for a server that is not, SyncAll does not occur.*)
(***************************************************************************)
EXTENDS Integers, FiniteSets

CONSTANTS
    KiBPerGiB,      \* 1000*1000 in the code
    Configs,        \* what a server may be configured with
    MonthDays,      \* MonthDays[m]: the days of month m of the year
    MaxKiB,         \* bound on the server's counters
    MaxUsed,        \* bound on the traffic that reports and the cycle span, in
                    \* either direction, and on what late reports add to
    MaxStarts,      \* bound on the starts of the server that they span
    MaxReports      \* bound on the different reports under way

Dir == {"up", "down"}

(* The zero time.Time of a ResetDay that is not set.                       *)
Zero == 0

Config == [resetDay : Nat, up : Nat, down : Nat, total : Nat]

ASSUME BandwidthAssumption ==
    /\ KiBPerGiB \in Nat \ {0}
    /\ MaxKiB \in Nat
    /\ MaxUsed \in Nat
    /\ MaxStarts \in Nat
    /\ MaxReports \in Nat
    /\ Configs \subseteq Config
    /\ DOMAIN MonthDays \subseteq Nat \ {0}
    /\ 1 \in DOMAIN MonthDays
    /\ \A m \in DOMAIN MonthDays : MonthDays[m] \in Nat \ {0}

VARIABLES
    limit,          \* the BandwidthLimit in the server's record
    told,           \* what the last requested sync made of Exhausted()
    host,           \* the server: its configuration and counters (external)
    starting,       \* the server has restarted and not registered since
    reports,        \* requests to register and answers to pings under way
    now,            \* the month and the day
    pinged,         \* an answer was taken over today, after any registration
    since,          \* history: what became of the server since the cycle began
    last,           \* history: the same, up to the report in the record
    outdated        \* history: a late report has been taken over since then

history == <<since, last, outdated>>
vars == <<limit, told, host, starting, reports, now, pinged, history>>

Unset == [config |-> [resetDay |-> Zero, up |-> 0, down |-> 0, total |-> 0],
          month |-> 0,
          kib |-> [d \in Dir |-> 0],
          initial |-> [d \in Dir |-> 0]]

(* A moment: the traffic, the starts of the program and the boots of the   *)
(* machine until then, counted from where the cycle begins.                *)
Moment == [used : [Dir -> Int], starts : Int, boots : Int]

Begin == [used |-> [d \in Dir |-> 0], starts |-> 0, boots |-> 0]

(* What is under way of a server: a request that PostRegister has, or      *)
(* SyncAll, to register it with these counters, or its answer to a ping.   *)
(* A report stands for any number of equal ones.                           *)
Report == [kind : {"request", "answer"}, config : Config, kib : [Dir -> Nat],
           at : Moment]

Earlier(m, n) ==
    /\ \A d \in Dir : m.used[d] <= n.used[d]
    /\ m.starts <= n.starts
    /\ m.boots <= n.boots

(* The moment as counted from another one, where a new cycle begins.       *)
From(m, n) == [used |-> [d \in Dir |-> m.used[d] - n.used[d]],
               starts |-> m.starts - n.starts,
               boots |-> m.boots - n.boots]

(* The record has been brought up to date with a newer report.             *)
Late(r) == ~Earlier(last, r.at)

Months == DOMAIN MonthDays

TypeOK ==
    /\ limit \in [config : Config, month : Months \cup {-1, 0},
                  kib : [Dir -> Nat], initial : [Dir -> Int]]
    /\ told \in BOOLEAN
    /\ host \in [config : Configs, kib : [Dir -> 0..MaxKiB]]
    /\ starting \in BOOLEAN
    /\ reports \subseteq Report
    /\ now \in [month : Months, day : Nat \ {0}]
    /\ now.day <= MonthDays[now.month]
    /\ pinged \in BOOLEAN
    /\ since \in Moment /\ last \in Moment
    /\ outdated \in BOOLEAN

-----------------------------------------------------------------------------
(* The methods of BandwidthLimit.                                          *)

Usage(l, d) == l.kib[d] - l.initial[d]

(* Variant: the limit itself may still be used up.                         *)
ExceedsStrictly(usage, gib) == gib > 0 /\ usage > KiBPerGiB * gib

(* Exceeds: a limit of zero is no limit.                                   *)
Exceeds(usage, gib) == gib > 0 /\ usage >= KiBPerGiB * gib

Over(c, up, down) ==
    \/ Exceeds(down, c.down)
    \/ Exceeds(up, c.up)
    \/ Exceeds(up + down, c.total)

Exhausted(l) == Over(l.config, Usage(l, "up"), Usage(l, "down"))

(* Variant: what the counters had when the cycle began is not taken off.   *)
RemainingOfCounters(l) ==
    LET OfTotal == KiBPerGiB * l.config.total - (l.kib["up"] + l.kib["down"])
        Of(gib, d) == IF gib > 0 THEN KiBPerGiB * gib - l.kib[d] ELSE 0
    IN  {r \in {OfTotal} : l.config.total > 0}
          \cup {r \in {Of(l.config.up, "up") + Of(l.config.down, "down")} :
                  l.config.up + l.config.down > 0}

(* What NameToShow has to choose the least of: what remains of the total,  *)
(* and of uplink and downlink together.                                    *)
Remaining(l) ==
    LET OfTotal == KiBPerGiB * l.config.total - (Usage(l, "up") + Usage(l, "down"))
        Of(gib, d) == IF gib > 0 THEN KiBPerGiB * gib - Usage(l, d) ELSE 0
    IN  {r \in {OfTotal} : l.config.total > 0}
          \cup {r \in {Of(l.config.up, "up") + Of(l.config.down, "down")} :
                  l.config.up + l.config.down > 0}

(* NameToShow: a link is named with the bandwidth left to the server, or   *)
(* without any if it has no limits.                                        *)
ShowsNothingLeft(l) == \E r \in Remaining(l) : r <= 0

(* Variant: counters never decrease.                                       *)
UpdateMonotonic(l, r) ==
    IF l.config.resetDay = Zero
    THEN [config |-> r.config, month |-> -1, kib |-> r.kib, initial |-> r.kib]
    ELSE [l EXCEPT !.config = r.config, !.kib = r.kib]

(* Update(r): without a reset day the limit is initiated again; otherwise  *)
(* a counter that has decreased keeps the usage it stood for.              *)
Update(l, r) ==
    IF l.config.resetDay = Zero
    THEN [config |-> r.config, month |-> -1, kib |-> r.kib, initial |-> r.kib]
    ELSE [config |-> r.config, month |-> l.month, kib |-> r.kib,
          initial |-> [d \in Dir |-> IF r.kib[d] < l.kib[d]
                                     THEN r.kib[d] - Usage(l, d)
                                     ELSE l.initial[d]]]

(* Variant: the reset day is over before it is time.                       *)
IsTimeToResetAfter(l) ==
    /\ l.config.resetDay # Zero
    /\ l.month # now.month
    /\ now.day > l.config.resetDay

IsTimeToReset(l) ==
    /\ l.config.resetDay # Zero
    /\ l.month # now.month
    /\ now.day >= l.config.resetDay

(* Variant: the counters are not taken over.                               *)
ResetMonthOnly(l) == [l EXCEPT !.month = now.month]

Reset(l) ==
    [config |-> l.config, month |-> now.month, kib |-> l.kib, initial |-> l.kib]

-----------------------------------------------------------------------------
(* The first RegisterServer of a server that has just booted.              *)
Init ==
    /\ host \in [config : Configs, kib : {[d \in Dir |-> 0]}]
    /\ limit = Update(Unset, host)
    /\ told = FALSE
    /\ starting = FALSE
    /\ reports = {}
    /\ now \in {[month |-> m, day |-> 1] : m \in Months}
    /\ pinged = FALSE
    /\ since = Begin
    /\ last = Begin
    /\ outdated = FALSE

(* Bounds: how far the record, a report or the cycle lies back.            *)
Moments == {Begin, last} \cup {r.at : r \in reports}

TrafficBound(d) ==
    /\ host.kib[d] < MaxKiB
    /\ \A m \in Moments : since.used[d] - m.used[d] < MaxUsed

StartsBound == \A m \in Moments : since.starts - m.starts < MaxStarts

Traffic(d) ==
    /\ TrafficBound(d)
    /\ host' = [host EXCEPT !.kib[d] = @ + 1]
    /\ since' = [since EXCEPT !.used[d] = @ + 1]
    /\ UNCHANGED <<limit, told, starting, reports, now, pinged, last, outdated>>

(* The server program starts again, maybe configured anew; if the machine  *)
(* does, too, its counters start from zero.                                *)
Restart(c, reboot) ==
    /\ StartsBound
    /\ host' = [config |-> c,
                kib |-> IF reboot THEN [d \in Dir |-> 0] ELSE host.kib]
    /\ starting' = TRUE
    /\ since' = [since EXCEPT !.starts = @ + 1,
                              !.boots = IF reboot THEN @ + 1 ELSE @]
    /\ UNCHANGED <<limit, told, reports, now, pinged, last, outdated>>

-----------------------------------------------------------------------------
(* A report is taken in one step and comes to the record in a later one.   *)
Send(r) ==
    /\ Cardinality(reports \cup {r}) <= MaxReports
    /\ reports' = reports \cup {r}
    /\ UNCHANGED <<limit, told, host, starting, now, pinged, history>>

(* PostRegister has bound the request; it waits for a DNS record, sleeps   *)
(* for five seconds and pings the server before it registers it.           *)
PostRegister ==
    Send([kind |-> "request", config |-> host.config, kib |-> host.kib,
          at |-> since])

(* SyncAll, when the program starts, has read the record of a relay, which *)
(* it pings before it registers the relay with it.                         *)
SyncAllRead ==
    Send([kind |-> "request", config |-> limit.config, kib |-> limit.kib,
          at |-> last])

(* The server answers a ping; the round waits for all its pings and for    *)
(* the write transaction before it comes to the todo.  Rounds overlap.     *)
PingAnswer ==
    Send([kind |-> "answer", config |-> host.config, kib |-> host.kib,
          at |-> since])

(* The last of these is over, taken over or refused: the ping test of the  *)
(* registration has failed, or the transaction.                            *)
End(r) ==
    /\ reports' = reports \ {r}
    /\ UNCHANGED <<limit, told, host, starting, now, pinged, history>>

(* Bound: one late report in a cycle, for each may charge the server again *)
(* for as much as the record's counters are ahead of it.                   *)
LateBound(r) == ~(outdated /\ Late(r))

(* RegisterServer carries the accounts of the old record over; a sync of   *)
(* the server and its peers is requested.                                  *)
RegisterServer(r) ==
    /\ r.kind = "request"
    /\ LateBound(r)
    /\ limit' = Update(limit, r)
    /\ told' = Exhausted(limit')
    /\ starting' = (starting /\ r.at.starts # since.starts)
    /\ pinged' = FALSE
    /\ last' = r.at
    /\ outdated' = (outdated \/ Late(r))
    /\ UNCHANGED <<host, reports, now, since>>

(* The todo of an answered ping, its three branches.  A reset begins the   *)
(* cycle where the answer was given; what a late report did is over if the *)
(* answer is not late and the server has not started again since.          *)
PingReset(r) ==
    /\ IsTimeToReset(limit)
    /\ limit' = Reset(Update(limit, r))
    /\ told' = Exhausted(limit')
    /\ since' = From(since, r.at)
    /\ last' = Begin
    /\ reports' = {[q EXCEPT !.at = From(@, r.at)] : q \in reports}
    /\ outdated' = \/ Late(r)
                   \/ outdated /\ r.at.starts # since.starts

Taken(r) ==
    /\ last' = r.at
    /\ outdated' = (outdated \/ Late(r))
    /\ UNCHANGED <<since, reports>>

(* Variant: the server is cut off without a sync.                          *)
PingUpdateSilently(r) ==
    /\ ~IsTimeToReset(limit)
    /\ ~Exhausted(limit)
    /\ limit' = Update(limit, r)
    /\ Taken(r)
    /\ UNCHANGED told

PingUpdate(r) ==
    /\ ~IsTimeToReset(limit)
    /\ ~Exhausted(limit)
    /\ limit' = Update(limit, r)
    /\ told' = IF Exhausted(limit') THEN TRUE ELSE told
    /\ Taken(r)

PingExhausted(r) ==
    /\ ~IsTimeToReset(limit)
    /\ Exhausted(limit)
    /\ limit' = Update(limit, r)
    /\ Taken(r)
    /\ UNCHANGED told

PingTodo(r) ==
    /\ r.kind = "answer"
    /\ LateBound(r)
    /\ PingReset(r) \/ PingUpdate(r) \/ PingExhausted(r)
    /\ pinged' = TRUE
    /\ UNCHANGED <<host, starting, now>>

(* No day ends without a ping: the server stays reachable.                 *)
NextDay ==
    /\ pinged
    /\ pinged' = FALSE
    /\ now' = IF now.day < MonthDays[now.month]
              THEN [now EXCEPT !.day = @ + 1]
              ELSE [month |-> IF now.month + 1 \in Months THEN now.month + 1 ELSE 1,
                    day |-> 1]
    /\ UNCHANGED <<limit, told, host, starting, reports, history>>

Next ==
    \/ \E d \in Dir : Traffic(d)
    \/ \E c \in Configs, reboot \in BOOLEAN : Restart(c, reboot)
    \/ PostRegister
    \/ SyncAllRead
    \/ PingAnswer
    \/ \E r \in reports : RegisterServer(r)
    \/ \E r \in reports : PingTodo(r)
    \/ \E r \in reports : End(r)
    \/ NextDay

Spec == Init /\ [][Next]_vars

-----------------------------------------------------------------------------
(* A server is never charged for more than it has sent in the cycle, so    *)
(* that it is never cut off early, whatever its counters did and whatever  *)
(* reports wait; this, the exact limit and the syncs are lost when a late  *)
(* report, one that is older than what the record has, is taken over,      *)
(* until a reset with a newer one.                                         *)
NeverOvercharged ==
    ~outdated => \A d \in Dir : Usage(limit, d) <= since.used[d]

(* What a server has used is not forgotten in the middle of a cycle, even  *)
(* if its counters start again from zero.                                  *)
UsageIsKept ==
    [][limit.month = limit'.month =>
         \A d \in Dir : Usage(limit', d) >= Usage(limit, d)]_vars

(* What the server has sent in the cycle is as much as it may.             *)
LimitReached ==
    LET Reached(kib, gib) == gib # 0 /\ kib \div KiBPerGiB >= gib
    IN  \/ Reached(since.used["up"], host.config.up)
        \/ Reached(since.used["down"], host.config.down)
        \/ Reached(since.used["up"] + since.used["down"], host.config.total)

(* The limit is enforced exactly, as long as no counters are lost and no   *)
(* late report is taken over.                                              *)
LimitIsEnforced ==
    /\ limit.kib = host.kib
    /\ limit.config = host.config
    /\ since.boots = 0
    /\ ~outdated
    => (Exhausted(limit) <=> LimitReached)

(* A subscription says that nothing is left only of a server that is cut   *)
(* off.  (The converse fails: what is left uplink makes up for a downlink  *)
(* that is used up.)                                                       *)
NothingLeftIsExhausted == ShowsNothingLeft(limit) => Exhausted(limit)

(* Whenever Exhausted() changes, servers and relays are synced for it, at  *)
(* the latest when a server that has restarted registers, though answers   *)
(* from before and after the restart are under way.                        *)
PeersAreTold == ~starting /\ ~outdated => told = Exhausted(limit)

(* "ResetDay is the day of every month to reset the limit of bandwidth":   *)
(* no month that has the day ends without a reset.                         *)
ResetEveryMonth ==
    [][now'.month # now.month /\ limit.config.resetDay # Zero =>
         limit.month = now.month]_vars

=============================================================================
