# pikamgr: a verification project

pikamgr manages clusters of Pika servers (Redis-compatible stores). A
*dashboard* process per product keeps groups of one master and its replicas,
the Redis sentinels that watch them and the load balancers in front of them; it
stores everything in a coordinator (ZooKeeper or etcd) and answers HTTP
requests. A front end (`cmd/fe`) routes a web page to the dashboards.

The modules here model the dashboard's own logic, the clients it uses and the
front end's table, check them with TLC on small instances and prove part of it
with TLAPS for every instance.

## Inventory

| Component | State | Operations | Talks to |
|---|---|---|---|
| groups (`topom/group.go`, `dao/group.go`, `group_mapper.go`) | cache and stored record of each group: servers (first is master), ports, `OutOfSync`, `Promoting{Index,State}` | create, remove, add/delete server, promote, resync one/all, force full sync | coordinator, Pika servers, sentinels, balancers |
| sentinels (`topom/sentinel.go`, `sentinel_mapper.go`) | cached and stored list with `OutOfSync`, the current watcher | add, delete, resync, watch, switch masters | coordinator, sentinels, groups |
| load balancers (`topom/gslb.go`, `gslb_mapper.go`) | cached and stored record per kind of balancer | add, delete, refresh | coordinator, groups, statistics |
| statistics (`topom/stats.go`, `service.go`) | last INFO of every server | a round per second, each server asked by a goroutine | Pika servers, sentinels, balancers |
| lifecycle and product lock (`service.go`, `topom_mapper.go`, `cmd/dashboard`) | started/closed/online, a node in the coordinator | start, close | coordinator, all of the above |
| sentinel client (`client/redis/sentinel.go`) | one context per watcher, the slice of sentinels it was given | subscribe, masters, monitor, remove, on many sentinels at once | sentinels |
| redis client and pool (`client/redis/client.go`) | a list of idle clients per address | get, dial, put, clean up on a ticker, close | Pika servers, sentinels |
| coordinator clients (`coordinate/zk`, `etcd`) | a connection, its age and whether it is authenticated | create, update, delete, read, list, reconnect | ZooKeeper, etcd |
| template files (`template_file_mapper.go`) | cache of files | scan and upload | coordinator |
| front end (`cmd/fe`) | table of reverse proxies, time of its last load | route, list and reload | coordinator, dashboards, pages |
| handlers, configuration, protocol, logging | none of their own | parse and call | service |

One mutex, `service.mutex`, is held by every request from its first check to
its return, across all of its network calls. What is hard here is therefore not
two requests at once, but:

- a request is several writes and commands; the process may stop between any
  two, and any of them may fail;
- the mappers hand out the cached record itself, so handlers change the cache
  *before* the write and leave it changed when the write fails;
- a promotion is resumed later from the state it reached, when the group may
  have changed;
- the watcher of the sentinels runs beside the requests and applies answers
  that are already old; sentinels fail over by themselves;
- statistics are collected by goroutines that nobody waits for, and the
  balancers' records are computed from whichever round was stored last;
- those goroutines outlive the timeout of their round and the service itself,
  with a connection of the pool in their hands;
- an update of ZooKeeper is up to four requests, between which other clients
  work on the same node, and a request that failed may be carried out later.

`PROJECT.json` lists these hazards line by line with the properties that cover
each, or the reason why none does.

## Modules

- **Dao** — the records and the helpers on them. Servers are model values,
  `servers[1]` is the master; `pIndex` keeps the zero-based `Promoting.Index`.
- **Topom** — groups and sentinels. `store`/`storeSen` are the coordinator's
  records, `mem`/`memSen` the mappers' caches, `op` the request that holds the
  mutex and the step it is at, `jobs` the `resyncGroup` calls in progress,
  `watch`/`pending`/`todo` the watcher and the answers it fetched, `role` and
  `monitored` what servers and sentinels were last told or decided themselves.
  Each request is one action per external effect with the assignments before
  it. `Update` is a write of the cached record changed in place, `Replace` one
  of a new record; `WriteFaults` says how a write may fail. `Failover` is what
  sentinels do by themselves and `Restart` a crash at any point followed by
  the loading of the caches.
- **GroupRegistry** — the abstract specification of the groups: five atomic
  operations with their rules. Topom implements it.
- **Gslb** — balancers and statistics, composed with a GroupRegistry for the
  groups: `ChangeGroup` is a registry step followed, under the same mutex, by
  the refresh the handler ends with, one record per step. This is where the
  refresh at the end of `AddGroupServer`, `DelGroupServer` and
  `trySwitchGroupMaster` is modelled; Topom, whose variables it does not touch,
  leaves it out.
- **Lifecycle** — several dashboards of one product. `main`, `closer` and
  `stats` are the goroutines of `main()` and `Start`, of `Close` and of
  `doStats`; `node` is the record at `TopomPath`, persistent, which a dashboard
  creates in `Start` and deletes in `Close`. `mutex` is `service.mutex`, which
  every turn of `doStats` and `Close` need: `Close` keeps it to its end, a
  `ResyncGroupAll` that hangs keeps it for ever, and a request that gives it
  back only delays the others and is left out. A dashboard is told to stop, or
  dies, at any step; an operator removes a node left behind.
- **SentinelWatch** — one watcher, which Topom only knows as "may fetch at any
  time". `sub` is the goroutine around `Subscribe` and `link` its goroutines,
  one per sentinel; `trigger` is the channel of one place; `fetch` is the
  goroutine that calls `Masters`. A group's master is its configuration epoch.
  `servers` is the array behind the watcher's slice, of which the record lists
  the first `listed`: `DelSentinel` and `AddSentinel` change it while the two
  goroutines iterate over it, until a resync replaces the watcher (`Cancel`).
- **RedisPool** — the list of one address of the pool, `Cleanup` turn by turn
  under the mutex, `Close`, and the pairs of goroutines of `newRedisStats`: one
  gets or dials a client, asks, puts it back and fills a record, the other waits
  for it or gives up.
- **FrontEnd** — the table of `cmd/fe` beside the dashboards of Lifecycle, which
  it extends: `GetNames` empties the table and loads it again from the nodes the
  dashboards create and delete; a load may fail, or run while the node changes.
- **Coordinator** — the abstract specification of one record in the coordinator:
  a call reads or writes it in single steps while it lasts, an update perhaps
  more than once, and a failed write may still land later. This is what Topom, Gslb, Lifecycle and
  TemplateFiles assume of a call (see Assumptions for the late write).
- **CoordClient** — the calls of the two real clients, request by request, with
  lost requests, lost answers, requests carried out late, connections that are
  replaced and connections that could not be authenticated. It implements
  Coordinator.
- **TemplateFiles** — the directory, the coordinator's copy and the mapper's
  cache; `init` and `doMonitor` file by file.
- **MCTopom**, **MCGslb**, **MCLifecycle** (with FrontEnd), **MCSentinelWatch**,
  **MCTemplateFiles**, **MCRedisPool**, **MCCoordClient** — instances for TLC.
- **TopomProof**, **TopomReliableProof**, **GslbProof**, **LifecycleProof**,
  **SentinelWatchProof**, **RedisPoolProof**, **CoordClientProof**,
  **TemplateFilesProof** — the proofs.

## What is checked

| Run | Shows |
|---|---|
| `groups` | two groups, three servers, crashes at any point: a server or a proxy port is never in two stored groups; the stored groups refine GroupRegistry; a promotion cut short and resumed, with servers removed in between, promotes the server the request names |
| `sentinels` | a sentinel, failovers, lost commands, crashes: without the stored out-of-sync flag it monitors every group that has a master; a stored master never changes without `finished` or the out-of-sync flag; every request but `ResyncGroupAll` gives the mutex back |
| `faults` | every write may be refused or applied with a lost answer: types, well-formed records, and SLAVEOF commands only from a record the coordinator holds |
| `resyncall` (violated) | `ResyncGroupAll` does not |
| `gslb_mirror` | two groups, two servers and two pairs of ports that pass between them, refused writes, crashes and an unknown kind of balancer: the cached backends are never ahead of the stored ones; no record gives a port to two frontends or a server to two groups |
| `gslb_settle` | haproxy and lvs, two servers whose replication changes, overlapping rounds: a record never gives the writes of the group to two servers; once disturbances stop the stored records become those of the groups and servers as they are |
| `gslb_skip` (violated) | a balancer that `AddGSLB` accepted may never be written |
| `lifecycle` | two dashboards, stopped and killed anywhere, failing calls, and the front end: one refreshes the balancers at a time; a running one that is told to stop exits unless its node cannot be deleted or a `ResyncGroupAll` keeps the mutex; the front end ends up forwarding to the dashboard that holds the node, and to none without one |
| `watch` | two sentinels, one of which is deleted and added under the watcher, lost connections and answers, deadlines, cancellation: an event that was read is followed by questions; the newest master is applied in the end; a cancelled watcher ends |
| `pool` | three connections, two goroutines that may be given up at any point, the ticker and `Close`: a connection is in one place, none is left open, a returned record is not written again, old idle connections are closed |
| `coord` | two clients of ZooKeeper or of etcd, a lost request, a failed authentication: the calls refine Coordinator; an update is refused only when the record was removed under it; no record is created without its directory; a client gets out of an unauthenticated connection |
| `templates` | two files, edits during scans, crashes, failing calls: the cache claims only what is stored; the coordinator ends up with the directory |

Bounds. Two groups are needed for disjointness, three servers for a promotion
whose index goes stale by a removal, two sentinels in `watch` for a slice that
can be shifted; one of each is enough elsewhere (one sentinel in `sentinels`,
since `InSyncMeansMonitored` is proved for any number). `MaxPending` (answers of
the sentinels that wait for the mutex) is 1: answers are applied one at a time,
and an answer may already be older than any number of requests. `MaxWriters` is
2 in `gslb_settle` so that an old round can overwrite a newer one. `Links` limits
what servers answer: always a master in `gslb_mirror`, where a server that was
not asked yet is one without an answer; a master or a replica in `gslb_settle`;
unreachable or a master in `gslb_skip`. `PortPairs` are the ports a created group
may get: one of two pairs in `gslb_mirror`, so that two groups can be there at
once and a pair can pass from one to the other, the same again in `gslb_settle`.
lvs is in `gslb_settle` only; with it and refused writes two groups are out of
TLC's reach, and `BackendsApart` of an lvs record rests on the proof. Symmetry is
used for safety only.

`Tries` is 2 instead of the code's ten. `MaxFaults` in `watch` is 1: one lost
connection, or one outage in which all rounds of questions of a trigger fail, so
that the trigger is used up and only the deadline of the subscription repairs
it. `MaxDeleted` is 1, which makes the watcher ask the other sentinel twice, and
the deleted one again once it is added. `MaxTroubles` is 6 so that an edit, a
crash during the restore and two failed calls can follow each other. `MaxLost`
(failed calls and restarts of the front end) is 1. Two dashboards are enough to
exclude each other; the theorem is for any number. In `pool` two goroutines
leave two idle clients, so that one in front can be used while the one behind it
grows old; the third is for a goroutine of the next round. `MaxSlips` and
`MaxDenials` are 1, with two clients: one lost request whose write lands at any
later time, and one connection without authentication; the theorems are for any
number.

Fairness. `Topom!FairSpec` asks that a request that can take a step takes one:
every call it makes has a timeout, and failing is one of the steps. Nothing is
assumed of requests, failovers, the watcher or crashes. `Gslb!FairSpec` asks
the same of the rounds and of the refresh, and strong fairness of the two
goroutines that wait for the mutex, since Go's mutexes hand over to the longest
waiter. `Lifecycle!FairSpec` runs every goroutine that can go on, lets every
call return and every request but `ResyncGroupAll` give the mutex back (which is
`RequestsReturn` of Topom), but promises neither that a dashboard is started nor that a node
is removed; `FrontEnd!FeSpec` adds that the calls of a load return, and nothing
of the pages: `RoutesSettle` has as its premise that they are opened again and
again. `SentinelWatch!FairSpec` adds that sentinels tell each other of a
failover, confirm subscriptions and answer; the fifteen minutes of a subscription are over only when
all sentinels have confirmed or one of them is counted as a failure, and
failures are bounded. `TemplateFiles!FairSpec` lets the mapper be started again
and scan for ever. `RedisPool!FairSpec` has strong fairness of `Cleanup` and of
the asking goroutines, which wait for the pool's mutex; dials and commands have
timeouts. `CoordClient!FairSpec` lets a request be answered or given up, and
time pass; nothing is assumed of which calls are made, or that a lost request
ever lands.

Assumptions. Topom, Gslb, Lifecycle and TemplateFiles take a call of the
coordinator that failed as carried out or not by the time it returns.
Coordinator, which the real clients implement, permits that it is carried out
later; see below. ZooKeeper answers a client that is not authenticated whether a
node exists and that a node is not there, and denies everything else. A sentinel's command that timed out takes effect before the next
command to that sentinel or never. `Masters` returns for each group the answer
of one member of a majority, the answers being of one moment; this covers any
epochs. `s.ha.masters` and the statistics of balancers feed the page only and
are left out. lvs addresses have the form host:port. The `Monitors` of a cached
lvs record share their array with the haproxy record; they are compared by
value.

## What the code does not guarantee

Found while modelling and not claimed as properties:

- `ServersDisjoint`, `PortsDisjoint`, `RefinesRegistry` and
  `InSyncMeansMonitored` hold while no write to the coordinator fails. With a
  refused write they do not: a server deleted in the cache only can be added to
  another group, and after a restart it is in both.
- A resync that fails during a promotion sets `OutOfSync`, which the last case
  of the promotion erases; a promotion resumed in state `finished` does not
  resync at all.
- A promotion does not refresh the balancers: until the next round, a second
  later, writes go to the former master.
- With no sentinel and no server left, `haproxyBackends` fails with "redis
  stats empty" for ever; if the process stopped before the refresh that ends
  the last `DelGroupServer`, the records keep the deleted server. That is why
  the settling runs have `WithSentinels = TRUE`.
- `Close` deletes the node whosever it is. A dashboard that is stopped while it
  still waits for the node deletes the running one's, and the next one starts
  beside it; `OneRefresher` is therefore claimed until a dashboard is told to
  stop before it runs.
- A stop between the creation of the node and `online = 1` lets `Close` finish
  first; `main()` then waits for ever for the service to be offline, without a
  node and without a server, until a second signal. The same happens after a
  failed deletion. And once a `ResyncGroupAll` hangs, `doStats` and `Close` wait
  for the mutex it keeps, so that a dashboard that is told to stop does not.
  `StopsUnlessHeldUp` leaves out these three.
- A node whose creation succeeded without an answer, or whose dashboard died,
  keeps every `Start` waiting until an operator removes it.
- Requests are served, and the caches loaded, before the node is held.
- A goroutine of a `Subscribe` call that was cancelled may complete the majority
  and send on the closed `trigger`, which panics (`LateCallback`).
- A round of questions that only reaches sentinels which have not heard of a
  failover switches the master back until a later round.
- A sentinel that was deleted while it was switched off stays in the watcher's
  slice, or another one takes its place twice: the majority is that of the old
  number until `ResyncSentinels` replaces the watcher. `FollowsTheSentinels` is
  therefore about the sentinels that are in the slice.
- A write of ZooKeeper or etcd whose answer was lost may be carried out after the
  call has failed and the dashboard has gone on, over newer records (`Land`).
- `GetProxy` of the front end never loads the table: after a start of the front
  end, or of a dashboard on another address, requests of a page that stays open
  are refused or go to the old address until some page asks for `/list`.
- The pool has no limit: while a server accepts connections and does not answer,
  every second adds a goroutine and a connection until their timeouts.
- `isSameProduct` tests a prefix: with products `p` and `p-q` on the same
  sentinels, the groups of the second are taken for groups of the first.
- A template file that is removed, and for which the last call failed, stays in
  the coordinator and comes back with the next start. A crash while `init`
  restores a file leaves it empty, and the next scan uploads the empty file.
- The template files have one path for all products: dashboards with different
  directories overwrite and delete each other's files. TemplateFiles has one
  dashboard.

## What is proved

`TopomProof` proves for every set of groups, servers, sentinels and ports,
every bound and every `WriteFaults`:

- `TypeCorrect`: `Spec => []TypeOK`;
- `WellFormedAlways`: `Spec => []GroupsWellFormed`;
- `SyncFollowsStoreAlways`: `Spec => []SyncFollowsStore`;
- `PromotesTheNamedServerAlways`: `Spec => PromotesTheNamedServer`.

The first three follow from one inductive invariant, `Inv`, which TLC also checked.
`GroupsWellFormed` alone is not inductive: that a server is appended to a list
which does not contain it yet, that the index of a promotion is inside the
list when the swap happens, or that an out-of-sync mark is set on a group with
servers depends on what the request saw in an earlier step. `OpOK` carries that
(what each step of `op` knows about its group and its address) and `JobsOK`
says which steps may have a `resyncGroup` in progress and that it has a group
to work on. The proofs need of the constants only that `None` is not a member
of the other sets and that `WriteFaults` and `MaxPending` are of their types.

`PromotesTheNamedServer` is about the step that makes a cached promotion
`finished`. Every step either edits one cached record, and then the swap is the
only edit that ends in `finished` and puts the request's address first, or it
writes at most a record without a promotion and reads into the cache what the
coordinator then holds. The second kind needs
`FinishedIsKnown`: a promotion that is stored as finished is cached as finished
too, so that a restart brings none the cache did not have. It is inductive with
any failures of writes, since a record is changed in the cache first.

`TopomReliableProof` assumes `WriteFaults = {}` and proves, again for every
number of groups, servers and sentinels:

- `ServersDisjointAlways`: `Spec => []ServersDisjoint`;
- `InSyncAlways`: `Spec => []InSyncMeansMonitored`;
- `PortsDisjointAlways`: `Spec => []PortsDisjoint`;
- `MasterChangesMarkedAlways`: `Spec => MasterChangesAreMarked`;
- `ImplementsRegistry`: `Spec => RefinesRegistry`, that is, the stored groups
  behave as GroupRegistry.

The hypothesis is not for convenience: with a refused write each of them fails
(see above). The invariant of the first two, `ReliableInv`, adds to `Inv` that cache and coordinator agree at
every step (`Coherent`), that no server is in two groups and the one about to be
appended in none (`Disjoint`), that the steps which take groups away from
sentinels, or give a group its first server, come after the out-of-sync flag
(`Flagged`), and that every sentinel monitors every group with a server while
the flag is down or just about to be (`InSync`). For the last part each step is
shown to be quiet (it changes nothing the sentinels have to know), to leave the
flag up, or to have monitored everything.

The other three share `RegistryInv`, which adds `PortsDisjoint` and
`MasterLeavesLast`: the server that `DelGroupServer` is about to remove is the
master only if it is alone, which the handler checked one step before. The
refinement maps a stored record to its servers and ports. Each step is shown to
leave the stored records alone or to change one of them in a way that `Allowed`
lists (create, discard, add, drop, swap, or none of these visible through the
mapping), and each of these is an operation of the registry or a stutter. That a
mapped record is not `None` is the assumption `ViewsAssumption`.

`GslbProof` proves for any number of groups, servers, balancers and rounds:

- `GslbTypeCorrect`: `Spec => []TypeOK`;
- `BackendsMirroredAlways`: `Spec => []BackendsMirrored` when every write that
  fails is refused (`OnlyRefused`); with a write that is carried out although it
  failed TLC finds a counterexample;
- `BackendsApartAlways`: `Spec => []BackendsApart`, whatever writes fail;
- `WritesToOneServerAlways`: `Spec => []WritesToOneServer`, also then;
- `GroupsAreARegistry`: `Spec => Registry!Spec`. With `ImplementsRegistry` this
  says that Gslb and Topom agree on the groups, which Gslb takes for atomic;
- `ReadServersIs`: what the loop of `haproxyBackends` lists, for every list of
  servers and every statistics.

The types are inductive. `BackendsMirrored` is inductive with them: `AddGSLB` and
`DelGSLB` change the cached record in place, but not its backends, and a refresh
changes the cache only after its write. `BackendsApart` and `WritesToOneServer`
are parts of one invariant, `RecordsSound`, which needs `GroupsApart`, that
servers and ports of different groups are disjoint, which the registry's rules
keep; a refresh writes a whole record from groups that are apart, and lvs takes
the ports of a haproxy record that was sound. `ReadServersIs` is about a
recursive function. Its existence, its type and what it lists are shown by the
least number for which they would fail (`LeastNumber`, `NoFirstFailure`), which
takes the place of induction. Of the constants the proofs use that `None` is no
record and no backend (`NoneIsNoRecord`).

`LifecycleProof` proves `OneRefresherAlways`, `Spec => []OneRefresher`, and the
types of Lifecycle for any number of dashboards and any faults. The invariant
says that from the creation of the node to its deletion the node is the
dashboard's own, and that `doStats` has ended before (`Owner`), which needs that
the wait group counts `doStats` (`Counted`). `FrontEndObserves`, `FeSpec =>
FairSpec`, carries both over to the dashboards with the front end beside them,
which is what the run `lifecycle` checks.

`SentinelWatchProof` proves `NoLostSwitchAlways`, `Spec => []NoLostSwitch`, for
any number of sentinels, tries, failovers and failures. The property is nearly
inductive; it needs that no goroutine of `Subscribe` counts after its end and
that only a cancelled watcher closes the channel. `WatchTypeCorrect`, `Spec =>
[]TypeOK`, bounds the counters by the number of sentinels. For this the invariant
counts what may still come: `subscribed` and the connections not yet confirmed
(`Confirmable`), `voted` and the goroutines that are still out, tries and
successes while a round runs (`Answerable`). `Newest` is within its bound because
a set of numbers with an upper bound has a greatest one.

`RedisPoolProof` proves for any number of clients and goroutines:

- `PoolTypeCorrect`: `Spec => []TypeOK`;
- `OnePlaceAlways`: `Spec => []OnePlace`;
- `NoLeakAlways`: `Spec => []NoLeak`;
- `RecordsFrozenAlways`: `Spec => []RecordsFrozen`.

The conjunction of the four is inductive: the turn of `Cleanup` needs that the
list has a head (`TypeOK`: at most as many turns are left as it has clients), a
late `PutClient` that the client is in no list (`OnePlace`), a dial that it takes
a client nobody has.

`CoordClientProof` proves for any number of clients, values and failures:

- `PromiseKept`: `Spec => KeepsPromise`, that is, CoordClient implements
  Coordinator; a request that is carried out is `Take`, a read is `Look`, one
  that is lost with its write under way is `Defer`, everything else a stutter;
- `UpdateRefusedAlways`: `Spec => []UpdateRefused`;
- `RecordHasDirectoryAlways`: `Spec => []RecordHasDirectory`.

The invariant, `ClientInv`, says which request belongs to which call (`Asks`) and
what it writes (`Data`), that a late request is one its call could make
(`OnTheWay`), that the record exists at the `set` of an update unless it was
removed since (`Present`), and that the directory is there from the step that
found or made it on (`HasDirectory`). Each action falls under one of a few
lemmas on what a request may change.

`TemplateFilesProof` proves `FilesTypeCorrect`, `Spec => []TypeOK`, and
`CachedIsStoredAlways`, `Spec => []CachedIsStored`, for any number of files and
contents. `CachedIsStored` speaks of the time between the scans; the invariant,
`CacheInv`, says what holds inside of one. While the deletions run, the files
still to delete are not in the directory that was read and all others are stored
as cached; while the updates run, what was read is stored except for the files
still to do.

Only model-checked: liveness, which is out of the prover's reach
(`RequestsReturn`, `RecordsSettle`, `StopsUnlessHeldUp`,
`FollowsTheSentinels`, `WatcherEnds`, `FilesSettle`, `RoutesSettle`,
`OldOnesClosed`, `Recovers`). Every invariant and every action property of a
passing run, and both refinements, are proved.

## Plan

1. Two watchers at once (`Start` beside `ResyncSentinels`): SentinelWatch
   composed with Lifecycle.
2. The caches loaded before the node is held: Lifecycle composed with Topom.
3. Proofs: what survives of the reliable theorems of Topom when writes are
   refused (the cached groups instead of the stored ones).

## Not modelled

- HTTP handlers, configuration and the records' JSON form: they parse, call the
  methods the models start from, and keep no state.
- Logging: output only. (`doRotate` of the file writer closes the old file before
  it opens the new one; when that fails the writer is left with a closed file.)
- The front end's list of dashboards in a file (`StaticLoader`), which takes
  the place of the coordinator in a load, and the pages.
- Ephemeral and ordered nodes of the coordinator clients and their watches, and
  the slot commands of the Redis client: nothing in the program calls them.
- `refreshGSLBStats` and the balancers' statistics, which only the page shows;
  they are collected in the same form as those of the servers in RedisPool.
