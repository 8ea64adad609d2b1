# A verification project for SweetLisa

SweetLisa is the control plane of a fleet of proxy servers shared by the
members of a Telegram chat.  Members get *tickets*; servers and relays register
with tickets of their own; the program tells every server which tickets to let
in (its *passages*), pings it, accounts its bandwidth, and hands each member a
*subscription*, a list of links to all of them.

This directory holds TLA+ modules translated from the code in `src/`, TLC
configurations that check them on small instances, and proofs that TLAPS checks
for every value of the constants.

## 1. Inventory: the system's parts

| Part (source) | State | Operations | Where |
|---|---|---|---|
| Sync mailbox (`service/sync.go`) | one channel of capacity 1 per ticket, one shared wake-up channel, the map `syncCancel` under a mutex | `ReqSync`, `SyncBackground` with a goroutine per pending ticket and round | `SyncBox`, `SyncPromise` |
| Tickets (`service/ticket.go`, `controller/ticket.go`, `command_handler/revoke.go`) | bucket `ticket` | issue, renew, revoke, expiry, hourly cleaner | `Fleet` |
| Registration and pings (`controller/register.go`, `service/server.go`, `background.go`) | bucket `server`: `FailureCount`, `SyncNextSeen`, `LastSeen` | `PostRegister`, `RegisterServer`, a round of pings per minute, 35-day cleaners | `Fleet`, `Registry`, `Records`, `Dialer` |
| Requests for syncs (`service/sync.go`) | none | `ReqSyncPassagesByServer`, `ReqSyncPassagesByChatIdentifier` | `Fleet` |
| Passages and credentials (`service/passage.go`, `model/server.go`) | derived from the buckets | `GetPassagesByServer`, `GetUserArgument`, `GetRelayUserArgument` | `Paths` |
| Subscriptions (`controller/subscription.go`, `model/sharing_link`) | derived from the buckets; the lines of an answer, filled in by goroutines | `GetSubscription`, the links of each protocol | `Paths`, `Lines`, `Links` |
| Bandwidth limits (`model/server.go`) | `BandwidthLimit` of a server's record | `Update`, `Exhausted`, `IsTimeToReset`, `Reset` | `Bandwidth` |
| Start (`main.go`, `SyncAll`) | none | ping and register relays, sync the chat | `Fleet`, `Bandwidth` |
| Chat feed (`service/feed.go`, `controller/feed.go`, `controller/chat.go`) | bucket `feed` | `AddFeedServer`, `AddFeed`, an hourly round that drops what is old, the feed's URLs | `Registry` (what is entered), `Feed` (the list) |
| Verifications (`service/verify.go`) and bot (`bot/`) | bucket `verification` | new code, `/verify`, use for tickets, ten-second cleaner | `Verification` |
| DNS records (`pkg/nameserver`, `pkg/resolver`) | records at Cloudflare | assign and wait in `PostRegister`, remove in `RegisterServer` | `Records` |
| Managers and dialer (`manager/`, `service/ping.go`) | connections, contexts, a goroutine per dial | `NewManager`, `DialContext`, `Ping`, `SyncPassages` | `Dialer`, `Deadline`; outcomes in `Fleet`; what is said in `Links` |
| Locks and transactions (`db/`, bolt) | bolt's locks, the mailbox's mutex | `View`, `Update` and what they enclose | `Transactions` |
| List of Chinese networks, proxy (`pkg/ipip`, `pkg/proxy_http`, `ChooseDialer`) | the list in use | a download every five days, lookups | `CNList` |
| Router (`webserver/router`) | none | a chat's page or feed, the check of a ticket | `Feed`, `Paths` |
| Configuration, logging | none that matters | | not modelled |

How they interact.  HTTP handlers, bot commands, tickers and goroutines all run
at once and share the bolt database, one transaction at a time.  Almost nothing
spans transactions: a handler reads, lets go, and later writes; a round of pings
reads all records, waits for every answer and for bolt's writer lock, and applies
what it has to the records as they are by then.  Nobody waits for a round: the
next one begins a minute later, and may overlap it.  After a change commits, its author lists the
servers concerned and calls `ReqSync` for each, unless `SyncNextSeen` says a
later ping will do so.  The mailbox cancels an older sync and starts a new one,
which reads the passages, pushes them to the server, and records in yet another
transaction whether it failed.

Hard behaviours, and what makes each part correct:

* *Mailbox*: both channels drop tokens when full, cancel functions are stored and
  deleted by different goroutines, and rounds wait for their goroutines.  No
  request may be stranded; a sync that a request has made obsolete must be
  cancelled; every request must be followed by a sync that begins after it.
* *Tickets, registration, syncs*: any operation may be overtaken between two of
  its transactions, or die in a crash between commit and `ReqSync`.  Once things
  have calmed down each server must let in exactly the tickets it should.
* *Bandwidth*: counters that a server reports start again after a reboot,
  configurations change, resets are due once a month and only noticed by pings;
  and what is reported may come to the record late, after something newer.
  A server must be charged for all it has sent in a cycle and no more.
* *Passages and subscriptions*: both sides derive credentials from tickets on
  their own, at different times, through changes of protocol and password.
* *The record of a server*: late pings of overlapping rounds, double registrations, revocations and two
  cleaners meet on it.  The feed must tell the truth, and dead servers be found out.
* *Verifications*: codes have two lives, one after the other, are cleaned every ten
  seconds, and may be given out again.  Nobody may get a ticket of a chat without
  having posted in it shortly before.
* *DNS records*: made by a handler, waited for by a goroutine, taken away by other
  goroutines that nobody waits for.
* *Calls*: every call to a server may hang at any of its steps, and a round of pings
  waits for all of its calls.  They must end when their context does, and leave no
  connection behind.
* *Locks*: the cleaner looks at the database and requests syncs from within its own
  write transaction.  Nothing may wait in a circle, nor be lost because a sync has
  read what is not committed yet.
* *Subscriptions*: one goroutine per link fills in a slice allocated by another
  count; links say in four formats what nodes must agree with a month later.

`PROJECT.json` lists these hazards at their lines, with the properties aimed at
each, and a note where no property reaches it or where one leaves something out.

## 2. Modules, and how they correspond to the code

**SyncBox** is `ServerSyncBox`.  `box[t]` and `waitingSync` are channels of
capacity one and hence Booleans; `syncCancel[t]` names the goroutine whose
cancel function is stored.  `ReqSync` is one action: it holds the mutex for all
its effects on `syncCancel`, and its two sends never block.  The loop of
`SyncBackground` is `Recv`, `Scan` (one critical section: take all tokens, start
a goroutine for each) and `WaitDone`.  A goroutine is in turn at `get`
(`GetServerByTicket`), `read` (`GetPassagesByServer`), `call` (`SyncPassages`),
`record` (`setSyncNextSeen`), `exit` (the `select` on `ctx.Done()`) and `delete`.
*SyncPromise* is what it promises: for each ticket a request may be *owed*, a sync
that starts pays it and is *current*, and a new request ends its being current.

**Fleet** extends SyncBox with one chat around it.  A bolt transaction is one
action; what an operation does after its commit (`listChat`, `listServer`, `send`)
is kept in a slot of `op`, which others interleave with and a crash empties.
`snapshot` is what a goroutine has read; `installed` what the server holds.  A
server whose sync succeeds has the snapshot; one whose sync is cancelled or fails
may or may not have it.  `Crash` empties everything but the database and the
servers, and begins `SyncAll`.  A round of pings is one ping per server, taken one
by one although the code commits their todos together: each todo writes only its
own record, so this allows a few interleavings more than the code does, and none
fewer.  Rounds overlap: `pinging[t]` counts the pings of `t` under way, which carry
nothing but their outcome.  So a ping may be answered, or fail, after another has
brought the record to `MaxFailureCount`: the one comes to the branch that
reconnects the server, the other enters another disconnection.  `PostRenew`
(`RenewRead`, `RenewSave`) reads the ticket in one transaction and saves it in another; whether
the ticket it has read has expired it asks the clock after saving
(`ReadHasExpired`), so that one that expires in between is synced, too.  A sync can
always make its manager (`GetServer`): the same manager has pinged the server
before it was registered.

History variables, which no action reads except to update them: `unsynced` (the
last call to a server failed), `putBack` (tickets put
back by a renewal after they had been revoked, without a sync), `passedOver` (servers skipped because
of `SyncNextSeen` while an older sync was under way).

**Paths** takes the database as it is and derives the passages of every server
and the links of a subscription, the way `GetPassagesByServer` and
`GetSubscription` do.  A password (a digest of two or three tickets) is taken as
those tickets, which amounts to digests without collisions and tickets of one
length.  Servers are taken to hold the passages of the present state; when they
get them is the matter of Fleet.

**Bandwidth** follows the record of one server through traffic, restarts,
reboots, changed configurations, registrations, pings, days and months, and
`SyncAll`.  `host` is the server.  A report (a request to register, of `PostRegister`
or `SyncAll`, or the answer to a ping) carries the counters and the configuration of the
moment it is made (`PostRegister`, `SyncAllRead`, `PingAnswer`), and comes to the record in a
step of its own (`RegisterServer`, `PingTodo`), or never (`End`); meanwhile it is among
`reports`, with others, and they are taken in any order.  History: `since` (what the
server has sent, and how often it has started, in this cycle), `last` (the same, when
the report in the record was made), `outdated` (a late report, one from before
`last`, has been taken over in this cycle).

**Registry** follows the record, the ticket and the last feed entry of one server
through registrations in two steps, revocation, both 35-day cleaners, and pings in
three steps (started, answered or failed, and taken over), of several rounds at once
(`PingRounds`).

**Verification** follows the codes.  `left` counts the minutes a verification has to
live, one while it waits, two when it has passed.  `GetVerification` and the bot's
`OnChannelPost` (posts, which must be anonymous; the command mapper; `/verify`) are
one transaction each; a request for a ticket checks the code in one (`AskTicket`)
and saves the ticket in another (`SaveTicket`).  History: `posted` (how long ago a
code was posted in a chat) and `shown` (how long ago it was given out).

**Feed** is the list of one chat's entries, each standing for its age in days.  The
hourly round has two transactions, `ViewFeed` and `UpdateFeed`, with days passing
and other rounds in between.  The routes (`RouteChat`, `GetChat`, `GetChatFeed`) are
operators, and the property looks at the feed through them.  History: `added`.

**Lines** is one subscription: the count (`MaxCnt`), the loops that start goroutines
(`Spawn`), the goroutines (`Run`) in any order, and the collection of what is not
empty.  `loop` is the set of links that the loops have not come to; they take them
in the order `Before`: types, relays, servers, then the hosts as they are listed,
among which a link has the place `at`.  **Links** is what a link says in the format of its protocol (`SIP002`, `V2RayN`,
`V2RayNTLS`, `Juicity`), what a client makes of it (`ClientDials`), what Sweet Lisa's
own managers say (`ManagerDials`), and whether the node lets that in (`Accepts`).  Who is
calling is told by what the protocol authenticates with (`Credentials`: method and
password, the password, or username and password).
The last three but `ManagerDials` are external: they follow from the formats' meaning.
A text is the sequence of its parts.  History: `given` and `announced`.

**Records** follows the DNS record of a server's first host: an IPv4 address, an IPv6
address, or a name.  `apply[q]` is a registration in flight: the handler's part
(`assign`: reading, creating, done, failed) and the goroutine's (`pc`: wait, ping,
over).  `LookupHost` asks the system's resolver, then a public one.  RegisterServer
puts the record and may start `removing`, whose goroutines `RemoveRecord` ends any
time later.  History: `stripped`.

**Transactions** has four threads (cleaner, handler, visitor, sync) and the places
where they wait.  `writer` is bolt's writer lock; `readers` and `growing` are its
mapping lock, which a reader holds while it reads and a writer needs when the file
has grown; `mu` is the mailbox's mutex.  `draft` is what the writer has changed and
not committed; `passages` what the sync has read.  bolt is external: it is modelled
by what it does with its locks.

**Dialer** is a round of calls.  A call's `pc` is the caller's place, `dial` that of the
goroutine of `DialContext`.  The two share `c` and `err`, and a load or a store of one
of them is a step: the code has a data race here, and the model all its outcomes.
`Watch` is the goroutine that sets the deadline once the context has ended; `Talk` is
writing and reading, which ends any time, or never without a deadline.  vmess's and
juicity's outer dialers, and the converter of softwind that `ChooseDialer` wraps its
dialers in, are external and taken to behave like `DialerConverter`.
**Deadline** is what a call promises: it ends once its context has ended.

**CNList** is the list of networks: a download (`Get`, `Read` line by line, `EndOfFile`,
`BadLine`) builds a new list beside the one in use; `ChooseDialer` says which dialers
a host may get meanwhile, and `GetCNProxyDialer` what becomes of the scheme of the
proxy: HTTP ones are of `pkg/proxy_http`, SOCKS5 ones (`Native`) of the library.  History: `torn` (the list in use had come short).

**MC\*** modules give constants their values for TLC.  **MCParts** runs the eight modules
that share no state side by side: `part` says which of them moves in a behaviour, so
their states add up instead of multiplying.  ***Proofs** modules hold the theorems.

Definitions marked *Variant* are deliberately broken forms of the definition
after them.  No specification uses them: putting one in place of the right
definition must make a property fail, which shows that the property can.

## 3. Runs

| Run | Configuration | What it shows |
|---|---|---|
| `syncbox` | 2 servers, 3 goroutines | All safety properties of the mailbox; under fairness it drains (`QuietSettles`) and implements `SyncPromise` (`KeepsPromise`) |
| `fleet_server` | 1 server, 1 user, 2 operations in flight, 2 rounds of pings, syncs may fail; 2.7 million states | `EntitledAreServed`, `ExpiredAreDisabled`, `FailureIsRetried` |
| `fleet_relay` | 1 server, 1 relay, 1 user at rest, 1 operation, 2 rounds; 2.4 million states | `EntitledAreServed` for relay paths, on both ends |
| `fleet_expiry` | 1 server, 1 user, 1 operation, 2 rounds, syncs and pings may fail; 380 thousand states | `ExpiryTakesEffect` (liveness) |
| `bandwidth` | 2 configurations, 2 months, counters up to 2 KiB, 2 reports under way, 1 KiB between them and per direction | all of `Bandwidth` |
| `paths` | 1 server, 1 relay, 3 users of two chats, 2 protocols, 2 passwords | all of `Paths` |
| `parts` | see below; 73 thousand states, two minutes | all of `Verification`, `Lines`, `Links`, `Feed`, `Registry`, `Records`, `Transactions`, `CNList` |
| `calls` | a round of 2 calls, each by one of 3 protocols, directly or through the proxy; 250 thousand states | all of `Dialer`, with the refinement of `Deadline` |
| `fleet_lost_sync`, `fleet_revoke`, `fleet_renew_race`, `registry_unseen` | | the code departs from what its documentation says, see section 6 |

The properties in words (each is commented in its module):

* `NoLostWakeup`, `OneWorkerPerTicket`, `PendingPreempts`: a token always has a
  wake-up on its way; no server is synced twice at a time; a pending request has
  cancelled the sync that it makes obsolete.  (`CancelIsLive`, a stored cancel
  function belongs to the sync under way, is proved with the last.)
* `FleetTypeOK`: records and operations have their shapes; `failures` exceeds
  `MaxFailureCount` by less than the rounds that overlap.
* `EntitledAreServed`: a registered server with nothing under way and no retry
  noted holds every passage it should.  Exempt are servers in `passedOver` and
  tickets in `putBack`: the two races of section 6.
* `ExpiredAreDisabled`, `ExpiryTakesEffect`: an expired ticket that the cleaner has
  seen opens no settled server; and it gets that far at every server that syncs of the
  chat reach, though the server may have been unreachable or flagged when the
  cleaner swept the ticket.
* `FailureIsRetried`: a failed sync is flagged in the record or about to be redone.
* `NeverOvercharged`, `UsageIsKept`, `LimitIsEnforced`, `PeersAreTold`,
  `ResetEveryMonth`: usage is never more than what was sent, never forgotten in a
  cycle, exactly what the limit is compared with as long as no counters are lost;
  every change of `Exhausted()` is followed by syncs; and no month passes without
  its reset.  The first, the third and the fourth are lost when a late report is taken over
  (`outdated`), until a reset with a newer one: section 6.  `NothingLeftIsExhausted`: a server whose links say that nothing is left
  is exhausted.
* `SubscriptionLasts`, `AccessIsEntitled`, `CredentialsDiffer`: an old link works as
  long as all it goes through is usable and has kept its protocol and method; it
  opens nothing past the ticket, the limit, the chat or `NoRelay`; no two passages
  of a server share a credential.
* `FeedIsTrue`, `DownIsNoticed`: the last feed entry is Disconnect exactly if the
  server has failed for good, though rounds of pings overlap; a server gone for ever
  gets there.
* `TicketIsVouched`, `PassedIsValid`, `CodesAreShortLived`, `OldIsCleaned`: a ticket's
  code was posted anonymously in the channel of its chat, two minutes before at
  most; a member whose code has passed may use it for two minutes; no code outlives
  its two lives; codes and old feed entries do not stay for ever.
* `FeedIsRecent`: at whatever URL, the feed has every entry of the last two days,
  newest first, though rounds overlap each other and new entries.
* `LinesAreComplete`: in whatever order goroutines end, the answer is the alert and
  every link asked for, once, in order.  `LinkLasts`: the manager's call and a link's
  are let in, the link's until the feed tells of a change, or the port, the link's
  host or the first host change.
* `RegisteredIsResolvable`, `OnlyChangesStrip`, `AssignedIsOver`: a server registered
  with TLS has its DNS record, or RegisterServer took it away; only changed arguments
  make it do so; a registration that was given its record ends.
* `NoCircularWait`, `SettledIsCurrent`, `WritersEnd`: no threads wait for one another;
  with no sync wanted or under way, the server has the tickets that are good and none
  that is gone; every writer ends, unless it waits for Cloudflare.
* `NoConnectionLeaks`, `ConnectedOrError`, `RoundIsCommitted`, `KeepsDeadline`: a
  connection is closed when its call and its dial are over; who has no error has an
  open connection; both exempt calls whose dial ended while their context did
  (`raced`, section 6); a round is committed however many servers hang; calls end.
* `ProxyIsForChina`: lookups see the lines of one edition, from the first on, and a
  host with no address in China is not dialled through the proxy.

One module's type invariant is checked in a run, Fleet's, as records and operations
change their shape there; SyncBox, Registry, Verification and Records have theirs
proved; the others define or imply it.

### Bounds, and why they are enough

* *Goroutines*: a round has at most one per ticket, so two suffice for two tickets;
  `syncbox` has a third, to show a wrong reuse.
* *Operations in flight* (`Ops`): one operation can be overtaken by another only if
  there are two; `fleet_server` has two, and the ping and the sync are actors of
  their own besides.  With relays one slot has to do; the mailbox still interleaves.
* *Users*: passages of different users never depend on each other in Fleet, so one
  is enough; in Paths two are, to collide, and one of another chat.
* `MaxFailureCount` (10 in the code) is 1 to 3: enough to be reached, and in
  `fleet_server`, `fleet_expiry` and `parts` to be missed once.  `Truth` is proved for any.
* *Rounds of pings* (`MaxRounds`, `PingRounds`): two, so that one can overtake the other and
  both can pass the maximum; one in the three Fleet runs that show a departure of
  the code in which pings have no part.  The proofs are for any number.
* *Bandwidth*: a KiBPerGiB of 1 makes a limit of 1 reachable at and above equality, the
  latter with late reports and with up- and downlink together; `MaxKiB` bounds the
  counters of the server, `MaxUsed` and `MaxStarts` the traffic and the starts between
  the oldest report, the record and now, `MaxReports` the different reports under
  way: two can overtake each other.  `LateBound` allows one late report in a cycle.
  Months of 2 and 3 days, reset days 1 and 2.  The theorems have no such bounds
  but those in the guards, which are arbitrary there.
* *Codes and chats*: two of each, to mix them up; one request at a time, as requests
  only read; time stops counting one minute past both lives.
* *Feed*: three entries and two rounds in flight, each at most a day late (`MaxLag`).
* *Lines*: two servers and a relay, of one and two hosts, with all flags.  *Links*: three
  lists of hosts, which begin with an IPv4 address, an IPv6 address and a name; all
  protocols; two passwords, so that one can change; hashes with a Base64 pad and without.
* *Records*: an IPv4 address, an IPv6 address and a name; arguments with TLS and
  without; two registrations in flight.  `NameserverName` is "cloudflare": without one
  no record is ever assigned, and registrations with TLS wait for one made by hand.
  `SystemKnows` only the name, so that assigned records are found by the public
  resolver alone.
* *Transactions*: one user ticket, as tickets do not interact there (two give the same
  verdicts with 114 thousand states); one thread of each kind, as bolt admits one
  writer and the mailbox has one loop.  The proofs are for any number of users.
* *CNList*: three editions of three lines, so that a list can come short or be read
  while another is in use.
* *Dialer*: two calls, as a round only waits for the last; every protocol, and the proxy
  with the one whose dial has most steps.
* *Symmetry* is declared for goroutines, operations and users in safety runs, and in
  no run with a liveness property.

No run turns deadlock checking off.

### Fairness

The loop of `SyncBackground` and its goroutines are weakly fair: Go runs every
runnable goroutine, and every call has a deadline.  So are the steps of operations
in flight, which nothing but a crash stops; the tickers' work (`Clean`, and
`PingStart(t)` and `PingDone(t)` for each server, the 35-day cleaners), as tickers go on ticking and
a round ends when its calls do; and, for `Lapse`, time.  That every round ends assumes that
no dial hangs for ever, and that no writer keeps bolt's lock for ever (hazards at
`dialer.go:21` and `service/server.go:143`); `RoundIsCommitted` and `WritersEnd` say what is true without.
Nothing that callers or servers do is fair, and neither are crashes.  That calls have
a deadline is not taken on trust: it is `KeepsDeadline`.

In Dialer, goroutines run and contexts end (`EndContext`: every context has a timeout);
that a dial, the proxy or a server answers is not assumed, except that QUIC's own limits
end juicity's dial; what is written or read after a deadline fails at once.  In Feed
and Verification tickers tick and time passes.  In Records goroutines run, and calls to
Cloudflare's API made with a timeout end; that removals end is not assumed.  In
Transactions threads are strongly fair: locks are free again and again, and Go's
mutexes are fair to who waits; the call to Cloudflare, made inside a write transaction
with no timeout, is not assumed to end, which `WritersEnd` allows for.

`ExpiryTakesEffect` assumes that disturbances end some day: crashes, requests for
tickets, renewals, registrations, pings that fail and syncs that fail.  Rounds of pings
go on, and what has failed before must be made up for.  `DownIsNoticed` assumes that
the server stays away.

## 4. Proofs

TLAPS checks, for all values of the constants that satisfy the named assumption
of each module, whatever the bounds of the runs:

* **SyncBoxProofs**: `Typing`, `Inductive`, `Wakeup`, `Exclusion`, `Preemption`,
  `Refinement`.  The inductive invariant `IInv` joins the safety properties with
  three facts that none of them gives: a goroutine that nobody has cancelled can
  still be found through `syncCancel` (`UncanceledIsRegistered`, without which
  `ReqSync` might miss it); goroutines carry tickets (`ActiveHasTicket`); between
  rounds there are none (`RoundsAreSeparate`, which is what `wg.Wait()` buys and
  what `OneWorkerPerTicket` rests on).  `Refinement` maps every step to a step of
  `SyncPromise` or a stutter, with `owed <- box` and `current <- syncCancel # None`.
  `Drains` and `NeverStuck` are what `QuietSettles` rests on beside fairness.  A step
  that is not a request lowers `Rank`: the tokens come first, then where the loop is,
  then how many steps its goroutines have left, each weighed by all of the next.  And
  until all is silent the guard of some step holds: `NoLostWakeup` is why the loop
  does not sleep on a token.
* **FleetProofs**: `FleetTyping` (`FleetTypeOK`), `FleetMailbox`, `Retries`
  (`FailureIsRetried`), `Entitlement` (`EntitledAreServed`), `Disabling`
  (`ExpiredAreDisabled`), `FleetPromise`, from `FleetInductive`.  The properties speak
  of servers that are settled; the invariant `FleetIInv` says what holds of all of them
  meanwhile, place by place.  `Awaited(t)`: `t` is in the box, or an operation in flight
  will request a sync of it once it gets there (`OpAwaits`: it is among its targets, or
  will be when it lists them).  `PassagesAreAwaited`: a server is awaited, or up to date:
  what its sync has read, what a call that may have succeeded has installed, and, if
  none is at work and `SyncNextSeen` does not ask for one, what it holds, all fit the
  database (`Fits`).  They fit up to passages for a peer whose own announcement is
  still on its way (`Announced`) and users who were put back; tickets that have expired
  open nothing without exception, which is what `Disabling` needs and why a sync
  may be late but never early.  `FailureIsAwaited` is the same for the flag of failed
  syncs; it rests on `RecordIsOutcome` (what a sync records is the outcome of
  the server's last call, as there is one goroutine per server) and on
  `CanceledIsPending` (a goroutine that a request has cancelled records nothing, but
  its server is in the box).  `FailuresAreBounded`: a server's failures and the pings of it
  under way are together no more than `MaxFailureCount - 1 + MaxRounds`, as no ping
  of a server that has failed for good starts, but those under way go on.  All of it has to hold
  across `Crash`, which empties box and operations: `SyncAll` (`boot`) awaits every
  server at once.  `FleetPromise`: handlers, bot, cleaner, pings and the mailbox together
  take only steps of `SyncPromise`, and a crash goes back to its initial state.
* **BandwidthProofs**: `FairCharge` (`NeverOvercharged`), from `ChargeInv`, for any number of
  reports under way.  The reports, the record and the server itself each know the
  counters and the configuration of a moment (`Trail`); from one moment to a later one
  counters grow by no more than what was sent, and by just that if no boot lies between
  (`Follows`).  So a report that is not late adds to the usage at most what was sent
  since the last one taken over (`Charged`).  `UsageLasts` (`UsageIsKept`) and `Told` (`PeersAreTold`) need that every
  configuration has a reset day (`AlwaysReset`), which `LimitStep` turns into: the
  record changes only by `Update`, or by `Reset` in another month; `Told` also that a limit
  that is reached stays reached while nothing is forgotten and the configuration stays
  (`ToldInv`, `ExhaustedStays`).  `Enforced`
  (`LimitIsEnforced`) needs it too, and an equality where `FairCharge` has a bound: until
  counters are lost or a late report is taken over, the start of the record's account
  is where the cycle began (`ExactInv`), so that a record that is up to date has used
  what the server has sent.  `ShownLeft` (`NothingLeftIsExhausted`) is about rounding: what
  is left is computed from sums of KiB, `Exhausted()` from GiB rounded down (`WholeUnits`).
  `MonthlyReset` (`ResetEveryMonth`) also needs `DayInEveryMonth`: the code compares days and
  never moves a 31st to the end of a shorter month, in which such a server is not
  reset.  `AccountTyping` is `TypeOK`.
* **PathsProofs**: `Lasts`, `Access`, `Credentials`.  The inductive invariant says that
  every link somebody holds was made from an argument that a server once had
  (`LinksAreMade`); the rest is comparing the two derivations.
* **RegistrationProofs**: `Truth` (`FeedIsTrue`), which is inductive with the types: whatever a
  ping finds when it is taken over, the count and the last entry change together.
  `Resolvable`, `Strips`: who pings under TLS has found a record, and keeps it unless it
  is stripped, through the assignments, removals and registrations of others
  (`ApplicationInv`); and only hosts that have a domain are assigned one.
  `AssignedGoesOn` is the safety in `AssignedIsOver`: who has been given its record finds
  it, whichever resolver answers, unless it is stripped.
* **MemberProofs**: `Vouched`, `Passed`, `ShortLived`.  The invariant `CodeInv` relates,
  for each code, its progress and what it has left to how long ago it was posted and
  shown: a code that has passed was posted exactly `DoneLife - left` ago in its chat,
  and in no other chat within a code's life; that is what makes it safe to clean codes
  and to give them out again.
  `LinksLast` (`LinkLasts`): a client that reads a link makes the call that the record has
  for its host (`LinkCalls`, `CallOf`), whatever the format does with it on the way; and
  though `InfoHash` goes through texts that nothing separates, those of nodes differ in
  protocol or certificate only if their sequences do (`HashTells`).  `Recent`
  (`FeedIsRecent`): in `FeedInv` the list is in order and has each age as often as entries
  of it were made.  Sorting is a permutation of places (`SortKeeps`), so neither it nor
  what a round drops loses an entry of two days, as a round is at most a day late.
  `LinesComplete` (`LinesAreComplete`): in `LinesInv` every goroutine started for a link
  has the line of its place in the order `Before` (`SpawnInv`), so no two share one;
  that none is past the last needs that the count, made by adding up lengths,
  is the number of links the loops come to (`LoopsFit`), which goes by induction on the
  sets of servers and relays (`HostsAreCounted`); and selecting what is not empty
  keeps the order and drops nothing, as every line but the spare ones has been filled
  in when the last goroutine is done (`FullLinesRemain`).
* **TransactionsProofs**: `Ordered`, `Current`.  `LocksInv`: where a thread is says which locks
  it has.  So there is an order of waiting: who reads waits for nobody, a writer that
  wants the file mapped anew for readers, others for such a writer, for a scan of the
  mailbox, or for the writer; and every set of threads has one that waits for none of
  the others.  `DraftInv`: what a writer
  has not committed differs by deletions of expired tickets or one new ticket.
  `ServedInv`: unless a sync is wanted or about to read, what the server has, or is about
  to be given, is what it should, before and after the cleaner commits; the cleaner
  deletes only tickets that had expired before, which a sync leaves out either way.
  `ThreadsDrain` and `SomeoneGoesOn` are what `WritersEnd` rests on beside fairness: what
  a thread has begun it ends in finitely many steps (`AllLeft` falls), and the next
  lock of one of them is free, unless all are idle or wait for Cloudflare, or to write
  behind the one that does.
* **DialerProofs**: `DialerTyping`, `NoLeaks` (`NoConnectionLeaks`), `Connected`
  (`ConnectedOrError`), `DeadlineRefinement`, from `DialerInductive`.  `Sound` says, for every
  pair of places of caller and dialling goroutine, whether there is a connection, an
  error, and who will close what; it is what two writers of `c` and `err` break, so
  it is claimed only of calls in which the dial has not ended while the context did
  (`Races`, which the history variable `raced` records).  Calls share nothing but the
  round, so each step is a `Turn` of one call.  `DeadlineRefinement` maps each turn to a step
  of Deadline or a stutter.  `RoundDrains` is what `RoundIsCommitted` rests on: each turn
  leaves its call fewer steps (`Left`), so that a round lasts only as long as a dial or a
  server that hangs.  `ChinaOnly` (`ProxyIsForChina`): what has been read of a
  download is always its first lines, so what is installed is one edition, whole or
  cut short, whenever a lookup comes.

What the assumptions ask beyond types: tickets, users and goroutines are told apart
(Fleet also has pairs of a user and a server as passages of relays, which are neither
users nor servers); there are enough goroutines for a round; a year has a month;
some protocol can be dialled; a node has a host, and its certificate's hash is a text;
in Lines there are finitely many servers and relays, told apart and in an order, and
their hosts are lists.  `Drains` and `RoundDrains` are about finitely many goroutines and
calls.
Fleet has at least one round of pings, Registry any set of them.
`AlwaysReset` and `DayInEveryMonth` are hypotheses of single
theorems; both hold in `bandwidth`'s run.

Every safety property of a passing run has a theorem.  Only model-checked is liveness
under fairness, which is out of TLAPS's reach: `QuietSettles`, the liveness halves of
`KeepsPromise` and `KeepsDeadline`, `ExpiryTakesEffect`, `DownIsNoticed`, `OldIsCleaned`,
`AssignedIsOver`, `WritersEnd`, `RoundIsCommitted`.  For `QuietSettles`, `WritersEnd`,
`AssignedIsOver` and `RoundIsCommitted` the theorems above say what is left to fairness: that
steps whose guards hold, or hold again and again, are taken.  These guards are spelled
out (`CanGoOn`), as ENABLED is out of reach, too.  The theorems do not imply the
properties: in Transactions a thread may have to wait while others begin anew, which
is why its fairness is strong.

## 5. Plan

Done, in this order: SyncBox, as everything else relies on it, Fleet on top of it,
Bandwidth, Paths and Registry beside it; then Dialer with Deadline, Records,
Verification, Lines, Feed, Transactions, and CNList and Links, with the proofs of
section 4.

Left to prove: what the remaining liveness properties have of safety, above all
`ExpiryTakesEffect`, whose steps go through all of Fleet.

Left to model: a push that takes effect after a later one has begun; failures of pushes
in Transactions (Fleet has them, with coarser steps); the cache of name lookups in
subscriptions.

## 6. Where the code departs from its documentation

Shown by runs, each with a counterexample:

* `fleet_lost_sync`: a request passes over a server with `SyncNextSeen` set; an older
  sync in flight succeeds and clears the flag; the change is never pushed.
* `fleet_revoke`: `/revoke` deletes a ticket "immediately", and tells no server.
* `fleet_renew_race`: a revocation between the two transactions of `PostRenew` is undone.
* `registry_unseen`: the cleaners for tickets and for records each need what the other
  deletes, so one of the two stays for ever.

Known limits that no run is spent on:

* A `ResetDay` of 29, 30 or 31 is skipped in months without that day
  (`model/server.go:120`).
* What a server reports is captured early and taken over late: by `SyncAll`, which reads the
  record before a ping (`background.go:254`), by `PostRegister`, which waits, sleeps and
  pings (`controller/register.go:51`), and by a round of pings, which waits for its slowest
  (`background.go:356`).  If something newer was stored meanwhile, the counters look
  decreased, the next report charges the difference twice, and `Exhausted()` may change
  in a branch that requests no sync.  `outdated` marks these states, which last
  until the next reset.
* Rounds of pings overlap (`background.go:318`): two that both fail at
  `MaxFailureCount - 1` each enter a disconnection, and leave `FailureCount` above the maximum.
* A ticket that is revoked before it expires and put back by `PostRenew` is synced by nobody
  (`controller/ticket.go:80`): the renewal looks at the expiry of what it read.  `putBack` marks it.
* The DNS record of a server outlives its ticket: `background.go:192` has a FIXME for it.
* A ticket revoked while its server registers leaves a record without a ticket, which
  is pinged for ever and never cleaned (`service/server.go:101`, `background.go:87`).
* A relay's ticket may ask for a subscription, too; `SubscriptionLasts` is about users,
  as a relay has passages of its own to servers only.
* With a zero `ResetDay`, of which `model/server.go:45` says "Zero means never reset",
  `Update` starts a new cycle at every report, and no limit is ever reached.  The runs
  have reset days.
* "remove old records" (`service/server.go:130`) removes the record of the old first host
  when the arguments change under TLS, though the host may be the same, and the record
  the one that `PostRegister` has just assigned or found; only the next registration makes
  it again.  `stripped` marks these hosts.  If only hosts or the port change, nothing is
  removed and the feed says nothing, as `InfoHash` leaves them out (`service/server.go:124`).
  Two servers that share a first host share its record, and each may take it away.
* A registration with TLS whose first host is an IPv6 address, or whose assignment failed,
  waits for its record for ever: "timeout" is logged and the loop goes on
  (`controller/register.go:93`).
* A dial that is refused leaves `done` open, so its caller waits until its context ends
  (`manager/dialer.go:25`): up to 15 or 30 seconds for what is known at once.
* `DialContext`'s goroutine and its return race for `c` and `err` (`manager/dialer.go:24`).
  A dial that ends just as the context does may leak a connection, or return neither a
  connection nor an error, which the caller's next line panics on.
* A sync that is cancelled while it reads or writes fails with a time-out of
  `SetDeadline`, which `IsCanceled` (`common/tools.go:230`) does not know: it is flagged as
  failed and retried.
* What is left of a quota is shown by sums of up- and downlink (`subscription.go:39`), so a
  server with a downlink used up may show something left.
* The list of Chinese networks is downloaded with no time limit, a read error counts as
  its end (`ipip/cniplist.go:6126`), and a last line that was cut may be a network far too
  wide; `torn` marks such lists.
* `strings.TrimSuffix` takes away one Base64 pad where there may be two
  (`sharing_link/sip002.go:24`, `v2rayN.go:27`); clients that want either none or all may not
  read such links.  Links takes clients that do.
* An address that subscriptions have looked up once is never looked up again
  (`subscription.go:372`).

## 7. Not modelled, and why

* Of some 10 600 lines of Go, 5 950 are the built-in list of networks: data, of which
  CNList has the first lines by what they are.
* Configuration and logging (`config/`, `pkg/log`): read once, or written only.
* Wire protocols of the managers, Cloudflare's interface, HTTP's `CONNECT`, RSS, Atom and JSON:
  their outcomes are nondeterministic where they matter, their contents are not modelled.
* Code that is never called: `Close` and `CleanBackground` of the mailbox, `GetLocation` of
  `ipip`, the parsers and plugins of `sip002.go`, and most of `common/tools.go`
  (`FillEmpty`, `SliceSub`, `TrimLineContains` and the like).
* The entries of the feed about quotas and changed arguments have no state but their place
  in the list, which Feed has.
* A push that reaches a server after the next one has begun: in Fleet an unsuccessful call
  takes effect, if at all, when it ends.
