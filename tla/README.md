# Homedex: a formal model

Homedex is one Go process with one SQLite database.  Connectors read an
infrastructure, a runner applies each snapshot to the inventory, and a change
feed, notifications, an HTTP API and a web page tell what moved.  This directory
holds TLA+ modules of the parts whose correctness depends on what happens in
which order, TLC configurations that check them on small instances, and proofs
for every instance, checked by TLAPS.

    tlc -config ScanRunner.cfg ScanRunner     check one run
    tlapm InventoryProofs.tla                 check the proofs of a part

## The system

| Part (code) | State it keeps | Operations | What makes it hard | What makes it correct |
|---|---|---|---|---|
| Runner, scheduler (`internal/engine/runner.go`) | `Runner.running` under a mutex; `connectors.last_status`; `scan_runs`; `proxies` | `Scan`, `tick`, `failed`, `markRunFailed`, `ensureProxy` | goroutines from ticks and requests, one SQL statement at a time, ignored write errors, crashes, ids that SQLite hands out again | one scan per source; claims given back; status = newest run; snapshot lands in its own source |
| Connector records (`internal/store/connectors.go`, `internal/server/server.go`) | `connectors` | create, update, delete, request a scan | run beside scans | see above |
| Snapshot application (`internal/engine/apply.go`) | `hosts`, `services`, `ports`, `routes`, `certs`, `domains`, `changes` | `Apply`, `PurgeGone`, `ReconcileRoutes` | rows outlive keys, go gone and come back, are purged by cascades, belong to several sources; routes are resolved outside the transaction | a source shows its newest snapshot; feed and tables agree; identities (and so the user's notes) survive; routes and links follow the inventory |
| Route resolution (`internal/resolve/resolve.go`) | route columns | `Routes`, `ReconcileStore`, `linkMachines` | precedence of evidence, several views of one machine | a unique match of the strongest kind, or broken |
| Image updates (`internal/engine/images.go`) | `image_updates` | lookup, apply, retire, purge | answers apply late and out of order; outages; two sources share rows | a move is reported once; an outage loses nothing |
| Notifications (`internal/notify/notify.go`) | `notification_rules`, `notification_deliveries` | `Evaluate`, `deliverOnce`, `Send`, rule CRUD, sealing of destinations at start | overlapping evaluations, a 30 s deadline, sends that outlive it, crashes, connections held | no duplicate, no false record, failed expiry alerts retried |
| Manual entities, metadata (`internal/store/entities.go`) | notes, tags, fields by (type, id) | page, patch, create, delete | no foreign key, ids come back | metadata stays with its entity |
| Startup, secret box, setup (`cmd/homedex`, `internal/auth`, `internal/server/bootstrap.go`) | `instance.key`, schema version, admin hash | create the key, migrate, bootstrap, seal, set up | processes overlap and stop anywhere | one key, each migration once, the first admin stays |
| Sessions, shares, limiter, client address (`internal/server`, `internal/auth`) | sessions, shares, login buckets | login, logout, validate, revoke, count | each check reads for itself; a bounded table; forwarding headers | the living are served; logins are counted for who sent them |
| Event broker (`internal/server/events.go`) | subscribers, 16-slot buffers | subscribe, publish, cancel, stream | close against send; full buffers; readers behind a writer behind a reader | nothing due is missed but what meets a full buffer, nobody waits for a client |
| Connectors (`internal/connectors`) | a cached session (NPM), otherwise only what a scan has read so far | `Validate`, `Scan` | the infrastructure changes between reads; limits, cycles, outages, partial answers | what was not read is kept; nothing is told twice |
| Store (`internal/store/store.go`) | schema version, pool of 8 connections | open, migrate | pool exhaustion | whoever asks is served |

A tick or a request calls `Runner.Scan`; it calls the connector, `ensureProxy`,
`resolve.Routes`, `Applier.Apply` and `ReconcileRoutes`.  `Apply` publishes to
the broker and starts `notify.Evaluate` in a goroutine.  API handlers write the
same tables meanwhile.  All they share is the database, `Applier.mu` (one snapshot
writer) and `Runner.running`.

## The modules

### The engine

**ScanRunner** models `Runner.Scan` statement by statement: a goroutine's `pc`
names what it does next, `job` its locals.  Actions are one critical section, one
statement, one transaction or one connector call each: `Claim`, `LoadRecord`,
`LoadConfig`, `MarkRunning`, `Fetch`, `ProxyLook`/`ProxyInsert` (the two
statements of `ensureProxy`), `Resolve`, `Apply`, `Reconcile`, the pairs
`FailRun`/`FailStatus` (`failed`) and `UnsettleRun`/`UnsettleStatus`
(`markRunFailed`), `Release`.  Around them: `TickScan`, `RequestScan`,
`CreateConnector` (takes the largest id plus one, so ids come back),
`SetEnabled`, `DeleteConnector`, `LoseWrite` (a statement whose error the code
discards), `LoadFails` and `Crash`.  A snapshot is only the incarnation (`born`)
of the source it was read from.

**ScanLifecycle** is what the runner promises: per source free, claimed, filed;
one inventory per scan.  ScanRunner implements it through `Phase`.

**Inventory** models `Apply` for hosts, services and ports, as one step, with the
id a row gets, adoption of a recreated container's row and of its ports', states,
links, feed entries; `PurgeGone` with its cascades; deletion of a source with its
`SET NULL` and `CASCADE`.  Which row is adopted when several fit depends on the
order of a list, and is a choice.  A failed `Apply` is rolled back: a stutter.

**Routes** models what becomes of routes, services and certificates when scans
overlap: a scan of a proxy reads and resolves against the tables of that moment
(`ReadProxy`), `ApplyRoutes` (and `ApplyServices` of a Docker source) files and links in
one transaction, then `ReconcileLoad`, `ReconcileWrite` and `ReconcileDone` resolve every
active route again, a statement at a time.  `PurgeGone` takes `Applier.mu` as the scans do; `DeleteSource`, manual
routes and certificates do not, and a deletion does not wait for the source's own scan either.
The reads that begin a reconciliation are one step: only requests can come between them.  `Resolution` is here only "the one live service of
that name, or broken".

**Resolve** is that function in full: `resolve` tries addresses in the proxy's
networks, names, published ports and hosts in the order of the code, and
`Definition` says the same by sets of evidence.  **MachineLinks** is `linkMachines`:
which tailnet devices, DNS names and guests are views of which machine, row by row
in the order of ids.  Resolve instantiates it for the host of an address.  In both,
rows come and go and the functions are compared at every inventory reached.

**Metadata** models notes and fields, which name an entity by type and id only, over
three types that contain each other: scans, purge, port closing, removal of a source,
manual entries, ids that come back, and a page that reads an entity part by part and
then edits what it showed.  **ImageUpdates** models the registry source's part of a
scan in two steps, `Lookup` and `Apply`, so that answers grow old in between; the row
per reference with its owner, answer, `notified_digest` and retirement.

**Notify** models evaluations (`todo` is what the loops of `Evaluate` and
`deliverOnce` still have to do), the upsert that claims a delivery (`Claim`), the
send, its deadline (`SendAbandoned`, after which the send goes on as `LateSend`),
the update that outlives it (`Record`, `RecordLost`), rules being created, toggled
and deleted, and crashes.  **Delivery** is what that promises of each message to each
destination: open, claimed by one evaluation, taken or refused, delivered or open again,
or lost; Notify implements it, the phase being where the holder of the claim stands
(`Phase`), or what the row says when there is none.  **StorePool** is the other half of an evaluation: the
connections it holds and asks for beside scans, and the deadline that frees them.

### The process and its server

**Startup** models `run()` from the instance key to serving: `LoadKey`, `CreateKey`,
`WriteKey` (the file exists before it has contents), `FindMigration`/`ApplyMigration`,
`CountAdmin`/`InsertAdmin`, `ReadSecrets`, `SealSecrets`, `CompactSecrets`, then
setup and login under `setupMu`, in processes that share a data directory and stop
(`Stop`) anywhere.  `Rekey` is an operator who changes `HOMEDEX_SECRET`.

**Access** models one request as the chain the router builds, each link reading the
database for itself: `AuthenticateSession`, `AuthenticateShare`, the scope of shares,
`Admit` (CSRF), the handler.  Time has half seconds, since a CSRF lookup compares
time stamps as text, without and with a fraction.  **LoginLimiter** is `allow` with its
sweep and the shared bucket; **ClientAddress** `clientIP`, in installations whose proxies
append to `X-Forwarded-For` and in those whose proxies name the client in `X-Real-IP`.
**Broker** is the lock as `sync.RWMutex` has it (`Lock`, `waiting`, `Acquire`: a stream that
asks for it keeps new scans out and waits for those that are in), the channels and the
stream of `/api/events`.

### The connectors

**RegistryScan** (workers, requests, redirects, tokens that one worker fetches and
others wait for, hosts that are down or limit the rate, the order of tags, the
request budget), **Proxmox** (the sequence of reads, guest calls in slots, the
budget, and what `applyHosts` keeps of a guest or a node that was not read), **SshScan** (docker
ps and ss over a host that changes in between), **NpmSession** (the cached session
that scans and tests share; sessions end at any moment, and a 403 on one that lives is taken
for an end too), **NginxLoad** (`loader.expand` as a stack of frames over
files that are rewritten meanwhile).

### Composition for TLC

ScanRunner, Inventory and Metadata are checked alone, and so is Broker for what is eventual; they meet in the sequence `Scan`
runs, where each takes the others' step as one choice.  Modules that share no state with
each other are put side by side in one module: a variable `part` says which of them moves
in a behaviour, the others rest in one initial state.  `Applied` holds what scans leave
behind (Routes, ImageUpdates, Resolve and MachineLinks, which `MCApplied` gives their
inventories), `MCNotify` Notify and StorePool,
`MCServer` Access, LoginLimiter, ClientAddress and Broker, `MCConnectors` the five
connectors.  MC modules also hold symmetry, instances of data (files, host reports,
upstreams) and views: Inventory's forgets the feed of ids without a row, Routes' the
news of the last step.

Operators marked *seeded fault* are faults a change of the code might plausibly
introduce; each property is known to catch the one it is paired with in
`PROJECT.json`.

## The runs

| Run (config) | Instance | Shows |
|---|---|---|
| `scan_runner` (`ScanRunner`) | 3 goroutines, 1 id used by 2 connectors, 2 kinds, 1 fault | `ScansExclude`, `DisabledRests` (a disabled source gets one snapshot more at most), `StatusIsNewestRun`, `InventoryFromOwnSource`, `ProxyInsertFits`, `ImplementsLifecycle`; live: `RunningHeals`, `ClaimReleased` |
| `inventory` (`Inventory`) | 2 sources, a host, 2 service keys, 2 rows per table | `ShowsLastScan`, `TablesAgree` (keys unique, a port's key is its service's, feed agrees with state), `SilentWhenNothingChanged`, `IdentitiesAreKept` (a recreated container keeps its row, so does its port), `PurgeSparesPresent` |
| `applied` (`Applied`) | 1 proxy and 2 Docker sources, 2 ids, 1 edit or crash; 2 registry sources, 1 reference, 2 digests, 2 moves; 10 upstreams over 2 hosts, 4 services, 3 ports; 4 hosts of 9 kinds of report | `RoutesAreResolved`, `LinksAreSound`, `RescanIsSilent`; `NewsIsToldOnce`, `NothingKnownIsLost`; `ResolutionIsRight`; `MachinesAreRight` |
| `metadata_reuse` (`Metadata_reuse`) | 3 types, 1 id of each, 3 entities, a page; deletions that fail at any part | `MetadataStaysApart` (what was deleted whole never shows up again; what the purge, a port closed or a deletion cut short leaves, or an open page edits, may), `MetadataSurvives` |
| `notify` (`Notify`) | 2 evaluations, an expiry rule and a change rule, 1 late send, 1 fault, 2 creations; 2 evaluations of change rules and a scan on 2 connections | `ClaimsAreHeld`, `Once`, `ImplementsDelivery`; live: `ExpiryArrives`, `EverybodyIsServed` |
| `startup` (`Startup`) | 3 processes (a password, none, a short one), 2 requests, 2 keys, 2 migrations, 2 stops, 1 change of key | `AdminIsOwn`, `ServedFromOneStore`, `FirstAdminStays` |
| `server` (`Server`) | 2 requests of a browser, 2 sessions, 1 share, 2 half seconds; 3 clients, 3 buckets of 2 attempts in windows of 3, clocks 1 apart; chains of 2 headers and 2 hops in either header; 2 scans, 2 streams with room for 1 | `ServedRightly`, `LoginsAreCounted`, `EventsArrive` |
| `broker` (`Broker`) | 2 scans, 2 streams with room for 1, clients that need not read | live: `NobodyWaitsForClients` |
| `connectors` (`Connectors`) | 2 workers, 3 tags of 2 registries with one mirror; 2 guests, 1 slot; 1 container, 1 process, 2 ports; 2 scans and a test; 3 files under 4 names | `OutagesAreContained`, `LookupsAreServed`, `UnreadIsKept`, `PortsAreTold`, `SessionsAreShared`, `LoadIsFaithful` |
| `inventory_removal`, `images_samedigest`, `pool_delay` | smaller still | the findings below |

Bounds and why they suffice.  Ids in ScanRunner interact only through the set
`running` and through `IsNextId`; one id that is created, deleted and created again
meets every case the properties distinguish, and three goroutines allow a holder, a
second that is refused and a third that comes after.  In Inventory two keys and two
rows are what adoption needs (a key that goes, one that comes); two sources what
isolation needs.  References of ImageUpdates do not interact.  In Notify two
evaluations overlap and the deduplication is per delivery; in StorePool two
evaluations on two connections are eight on eight.  Metadata needs an id that comes
back and something above it that goes.  Two of three processes of Startup overlap
while the third stops anywhere.  The limiter's map of three lets a client hold
attempts in a bucket of its own and in the shared one, which is what the bound of twice
the allowance is about: TLC reaches it.  Two workers of RegistryScan are one that
fetches a token and one that waits; three tags fill one repository and a second
registry, and all of them meet at the mirror, which can so be asked as often as
`OutageIsCheap` allows.  Guests of Proxmox meet in the slots and the budget: one slot makes one wait.
Three nginx files have cycles with and without a file outside them, and the same file
under two names.  Resolution looks at pairs of candidates: with two of every kind of
evidence each is unique, doubled or missing.  The `Max*` constants bound history
only, in guards.

Deadlock is checked in every passing run but `server` and `broker`: their parts end when
their bounds do (two requests handled, two scans published).  In `notify` and `connectors`
a part that has an end may rest there and only there; so a worker that waits for a
token for ever, or an evaluation for a connection, is a deadlock TLC reports.

Fairness is assumed in ScanRunner, Notify, StorePool and Broker only.  A scan's steps are
weakly fair: connectors run under the scan timeout and SQL under the busy timeout, so
each returns.  `TickScan` is strongly fair per source, because the ticker never stops
and a tick starts a goroutine of its own where the model has a bounded number; this
also assumes that a due source becomes due again, which `due` guarantees from
`started_at` and the schedule.  In Notify, evaluations keep being started (scans keep
being applied).  Strong fairness of a claim in time and of a successful send are
assumptions about the world: a deadline does not always expire first, a destination
tried for ever answers once.  Without them a rule before it that uses up every 30 s
starves the next one.  In StorePool statements and sends end and the timer of a
context fires; a request for a connection is served when one stays free.
In Broker whoever holds a lock, or is next in the line `sync.RWMutex` keeps, goes on: none of
those steps waits for anything but the lock.  Clients are not assumed to read.

## Findings

* `docs/CONNECTORS.md:402`: "The same digest never files a second entry, however many
  scans or containers see it".  The row remembers only the digest filed last.  With
  two registry sources whose scans overlap one move of a tag, the old digest is filed
  after the new one and the new one again; moving a tag back has the same effect.
  `NoEcho` is what does hold: no two entries in a row repeat a digest.
* `internal/store/entities.go:233`: "mark them gone by removing the source".  Removing
  a source leaves its hosts and services active without a source.
* `internal/engine/apply.go:159`: deliveries "must not roll back, delay, or misreport an
  otherwise successful inventory scan".  `evaluateChanges` keeps its rows, and a
  connection, open while each delivery asks for another: as many evaluations as there
  are connections hold up every scan until their deadlines (`ScansAreNotDelayed`).
  That they are parted then is `EverybodyIsServed`.

Limits that properties state rather than findings, so that they show there are no others: a
snapshot may land in another source when the id was handed out again during the scan
(`reused`); metadata that the purge or a closed port leaves behind, or that an open page
edits, may show up under the next entity with that id (`Strays`); an event that finds a
stream's buffer full is dropped, and the stream is not told (`full`); a first channel that
fails for ever starves those behind it (`ExpiryArrives` assumes that none does); a delivery whose
outcome was not recorded stays pending and is never retried (`orphans`); a source
that is disabled after a crash keeps showing running; a token that loses `VM.Audit`
between two reads of a Proxmox scan makes its guests go.

Seen while modelling, without a run of their own: a
route resolved to a service that has no source is stored as ok with no service
(`resolve.go:611` looks the id up by `connector_id=?`); a process that stops between
the sealing of destinations and the rebuild after it (`notify.go:163`) leaves the
rebuild undone, since the next start finds nothing to seal; a range of ports that
`docker ps` prints is not read (`sshexec.go:363`) while its listeners are still left to
the Docker facts (`:443`).

## The proofs

Each proof module is about every value of the constants of the modules it extends: any
number of sources, keys, rows, goroutines, requests, guests, tags and bounds.  A theorem
listed with a property states one that a run checks.

| Module | Theorems (property) |
|---|---|
| `ScanRunnerProofs` | `ScansAreExclusive` (`ScansExclude`, from `TypeCorrect` and `OneScan`), `SingleProxy` (`ProxyInsertFits`), `OwnInventory` (`InventoryFromOwnSource`), `DisabledGetsOne` (`DisabledRests`), `HonestStatus` (`StatusIsNewestRun`), `Implements` (`ImplementsLifecycle`) |
| `InventoryProofs` | `TablesStayInOrder` (`TablesAgree`), `NewestScanIsShown` (`ShowsLastScan`), `PurgeTakesTheGone` (`PurgeSparesPresent`), `RecognisedKeepsItsRow` (`IdentitiesAreKept`), `RescanIsQuiet` (`SilentWhenNothingChanged`) |
| `MetadataProofs` | `MetadataIsApart` (`MetadataStaysApart`), `MetadataStays` (`MetadataSurvives`) |
| `NotifyProofs` | `ClaimsHeld` (`ClaimsAreHeld`), `SentOnce` (`Once`), `DeliversAsPromised` (`ImplementsDelivery`), `SuccessStays` |
| `AppliedProofs` | `RoutesStayResolved` (`RoutesAreResolved`), `LinksStaySound` (`LinksAreSound`), `RescansAreSilent` (`RescanIsSilent`), `ToldOnce` (`NewsIsToldOnce`), `NothingLost` (`NothingKnownIsLost`), `ResolutionsStayRight` (`ResolutionIsRight`), `MachinesStayRight` (`MachinesAreRight`) |
| `StartupProofs` | `AdminCorrect` (`AdminIsOwn`), `AdminStays` (`FirstAdminStays`), `StoreCorrect` (`ServedFromOneStore`) |
| `ServerProofs` | `OnlyTheLivingAreServed` (`ServedRightly`), `AccessCorrect`, `LoginsCounted` (`LoginsAreCounted`), `NoEventIsLost` (`EventsArrive`) |
| `ConnectorsProofs` | `SessionsCorrect` (`SessionsAreShared`), `PortsCorrect` (`PortsAreTold`), `UnreadStays` (`UnreadIsKept`), `OutagesStayContained` (`OutagesAreContained`), `LookupsServed` (`LookupsAreServed`), `LoadsFaithful` (`LoadIsFaithful`) |

Assumptions.  Bounds are natural numbers (`BoundsAssumption`, `MaxRowsAssumption`,
`LimiterAssumption`, which also asks for room for one bucket, `BrokerAssumption`,
`PublishedAssumption`, `VersionsAssumption`).  Values that stand for "nothing" differ from
what they stand beside (`NoneAssumption`, `NoRowAssumption`, `NamesAssumption`,
`DigestsAssumption`, `ReportsAssumption`, `SourcesAssumption`).  `SlotsAssumption`: the
rows that resolution looks at are finitely many, and hosts have numbers for ids.  `ProcessAssumption`: what `ss` calls docker-proxy is docker's
(`sshexec.go:442` skips it), so no other process has that name.  `ConfigAssumption`: the
workers of a registry scan are finitely many (4), its tags are finite, of known registries, and distinct in each (they are
the keys of a map); the registries are listed once each (`registry.go:367`).
`DirectoryAssumption`: files are finitely many, a name leads to one of them, to another
name or nowhere.  `ContentsAssumption`: contents are sequences of directives, limits are
natural numbers.  TLC evaluates each of them in a run.

Hardly any of these properties is inductive.  What each needs besides:

*ScanRunner.*  Exclusion becomes: goroutines past the claim have distinct ids, and
`running` is exactly their set.  The rest follows, since "the goroutine that holds id i"
is then unique: only it stands between the SELECT and the INSERT of the proxies row; its
source is the one it loaded unless the id was reused; status and newest run are related
stage by stage, and by the property when nobody holds the id.  A disabled source has been
given no snapshot yet while a scan is past the check of `enabled` (`LateInv`), and there is one
such scan: hence one snapshot more at most.  Refinement: each action
moves the phase of at most one id as ScanLifecycle allows, or stutters.

*Inventory* (`InventoryInv`).  `ServicesOnHosts` (a present service runs on no host or on
a present one of its own source) makes the cascades of a purge harmless.  `ShowsLastScan`
is an equation of functions and is restated row by row (`Shows`).  Keys are unique, so
the row a key is placed on is the only one that can show it; `HostsAfterIs`,
`ServicesAfterIs`, `PortsAfterIs` say what every row is after a scan.  The delicate case
is a service re-keyed in place: its ports must be recognised although their key holds the
old one, which works because `PortsFollowServices` ties a stored port's key to the
current key of its service.

*Metadata* (`MetadataInv`).  Metadata is told apart by the incarnation it was written for.
Whatever lies under an id without a row is a stray's, and some of it was left behind
(`GhostsAreLeftovers`); an open page is about the entity it was opened for, or that one's id
was handed out again (`PagesAreCurrent`).  Ports and services fit their parents, so that a
cascade takes whole entities.  `NextIdIsFree` is the lemma about SQLite's ids.

*Notify* (`HoldInv`, `SentInv`).  A pending row of a live rule is orphaned or has exactly
one holder; messages sent or still under way beyond the one that was answered for are at
most those given up on.  `Once` follows by counting.  Refinement (`DeliversAsPromised`): a
step concerns one delivery, so all others keep their row, their holder and with them
their phase (`SamePhase`); the one moves as Delivery allows (`OneMoves`), or nothing does
(`Stutters`).  A delivery has one holder by `HoldInv`, so its phase is well defined.
Deliveries of a rule that is gone, or whose id was handed out again, are outside the
promise (`Live`), and void to Delivery.

*Routes* (`RoutesInv`).  That routes are resolved when all is settled follows from what
is under way (`PlanSettles`): while a reconciliation writes, each active route either
says what the inventory says, or the write that makes it say so is still in `plan`; no
`Apply` and no purge comes between, which `Applier.mu` sees to, and a request sets
`stale`.  One pair of connector and name has one row (`ServicesKeyed`), so the ref a
resolution names leads back to one id; `RoutesKeyed` is the same of routes, and with it
`RescanIsSilent` speaks of the row that is filed.  `Placed` says where the keys of
a snapshot go and `ServicesApplied`, `CertsApplied`, `RoutesApplied` what a table is
afterwards.  `LinksAreSound` needs that `CertOf` names a certificate only when it is
alone.

*Resolve* (`UpstreamsInv`: a port belongs to a service that is known).  With it the three
stages of the cascade are the three levels of evidence: the strongest that any service
has (`Best`), narrowed to the scope (`InScope`), decides alike in the code and in
`Definition`.

*MachineLinks* (`MachinesInv`: rows of one connector and key are of one kind).  Two
claims of one machine by views of a family are equal or differ in the evidence, and the
code cancels both or the one by name; a view that is linked claims the ref of a machine,
and what bears that ref is of its kind, so a machine.

*ImageUpdates.*  A row remembers the digest of its newest entry (`Remembered`), though
rows retire, are purged, and change owner between lookup and apply.

*Startup* (`AdminInv`, `SchemaInv`, `KeyInv`, `RulesInv`).  While one process writes the
key file it is partial, so nobody is past reading it and nobody else writes; each later
stage holds the one key.  A destination is unreadable only until the sealing that a
process must pass before it serves.

*Server.*  Of Access: nothing that is dead becomes valid again, so what is valid at a
lookup was valid when the request came (`SoundSoFar`).  Of Broker
(`BrokerInv`): what is due to a stream is still in a publisher's hand, or was put in the
channel, or met a full one (`DueIsSent`), and a channel never holds more than was put there
(`RoomIsTaken`), so a full one was given as many others; who waits for the lock holds none
(`InLine`), readers and a writer exclude each other.  Of LoginLimiter
(`LimiterInv`): the sweep makes room before a bucket is added; an attempt that was let
through stays in the client's own bucket or in the shared one until no call can have it
in its window any more (`GrantsAreKept`), and either holds `maxAttempts` at most
(`TwoBuckets`).  A request reads the clock before it takes the lock, and a call with a
later time forgets what one with an earlier time would count: so the promise is twice
the allowance in a window less by what the times of two calls may differ (`Skew`); in
the whole window there may be more.  Of ClientAddress (`Vouched`): after the last
stranger on the way come trusted proxies only.  Either each of them appended whom it was
called by (`Appended`), so the walk from the right stops at that stranger whatever stands
before, or the first of them named it in `X-Real-IP` and dropped the other header (`Named`).

*Connectors.*  One invariant per part.  NpmSession: which of a call's two logins failed,
that a session it uses was earned by a login, and that one obtained in the retry is dead only
if something ended it since (`CallInv`).  SshScan: what docker and
ss listed was held at that moment (`SshHeld`).  Proxmox: what a scan has in hand was seen
in this scan (`ScanSound`, `ScanSeen`), and what is stored was seen or kept
(`StoreSound`).  RegistryScan: a host counts as down only after `downAfter` failures and
no answer, while requests sent before are still out.  What an outage costs
(`OutageInv`): a host that had its `downAfter` chances is down, and to one that is down no
request departs, so losses grow by what is under way and no further; every step but `Send`
can only make fewer requests fly (`NoneDeparts`).  A token entry that is open has a
worker that fetches it.  What waits behind a tag is every tag of a later turn
(`FeedInv`), and the turns of a registry's tags are distinct (`TurnIs`, from `Rotation`),
so that by counting (`FewTurns`, `ManyTurns`) no registry gets two tags ahead of one that
waits.  Every request is paid with one of four shares of its tag that are not spent yet
(`Spent`, `BudgetInv`), so `4 * Cardinality(Tags)` are enough although the budget is one
counter for all workers.

*NginxLoad* (`LoadInv`).  Three things are kept from step to step.  Each frame stands in
its file as that was read, with the files of one directive spliced up to where the frame
above it begins (`FramesFit`), so the frames are a chain of includes: a file that is met
again on it closes a circle (`CircleIs`), a chain that is too long is a path of distinct
files (`DepthIs`).  The files that are through have an order in which each includes
earlier ones only (`Ordered`): hence no circle when all is loaded, by its first file in that
order.  And for each such file there are the words it says (`Tells`), so the tree is the
pieces of the frames one after the other (`Pieces`): a step makes the last piece longer, begins an
empty one, or merges the last into the one below.  `Unfolded` is a recursion over the
number of files and `FlattenSeq` one over a length; that both are what they recur to, and
that the unfolding agrees with the words of files that are through, is shown by the
least number for which it would fail (`LeastNumber`, `Recursion`).

In `AppliedProofs`, `ServerProofs` and `ConnectorsProofs` the theorems are about `PartsSpec`, the
specification the run checks: a step moves one part and leaves the others, so the
specification of a part follows (lemmas `PartsMove...`) and the part's own invariant
carries the theorem.

What stays with TLC, and why:

* liveness (`RunningHeals`, `ClaimReleased`, `ExpiryArrives`, `EverybodyIsServed`,
  `NobodyWaitsForClients`): beyond this prover.  All others of the passing runs are proved.

## Not modelled

Time (schedules, jitter, retention are "may have passed"); formatting, logging;
ciphers and password hashing (a key opens what it sealed, a hash verifies its
password); the web page; lists, search and exports, which change nothing; the review
of changes, which is one statement.  The Docker, Traefik, Caddy, Tailscale, TLS and
RDAP connectors translate one answer, or a list of independent ones, into a snapshot
without state of their own: the engine sees a snapshot or an error.  In `Apply`:
networks, most host facts, domains (which go the way of certificates, without links).
In Notify: filters, messages, and a rule whose list of channels changes (deliveries are
keyed by position).  Of nginx the parsing of directives and the extraction of routes
from blocks; of the registry answer headers and the comparison of platforms; of
Proxmox the choice among several addresses of one guest.

## What could come next

Every property of the passing runs is proved but the liveness properties, which need
another prover.  These would say more:

1. `NpmSession` as an implementation of one cell that calls read and replace, as `Notify`
   is of `Delivery` and `ScanRunner` of `ScanLifecycle`.
2. Domains in `Apply`, which go the way of certificates; networks and host facts.
3. Changes of a rule's channels in `Notify`, once it is written down what a delivery that
   is keyed by position means for a new destination.
