# Verification of example-envoy-xds

The program is an xDS control plane for Envoy in Go. It reads four yaml files
(clusters, endpoints, routes, a listener), builds Envoy resources from them,
publishes them as one snapshot, follows edits of the files and SIGHUPs, and
also stores Envoy's access log. This directory models it in TLA+, from the edit of a
file to the instances that Envoy sends a request to, checks
the models with TLC and proves the central safety properties with TLAPS.

## 1. Inventory

Line numbers refer to `src/`.

| part | state | operations | hard because | correct when |
|---|---|---|---|---|
| **WatchFile** (`watch.go`) | fsnotify watches and events | `ReloadAll`, `Watch`, `watchFileLoop`, `changeXxxYaml`, `updateSnapshot` | three goroutines load, build, store and publish; edits at any time; watches are lost with the inode | what is served is consistent and, in the end, what the files say |
| **resource table** (`resource.go`) | version and content per type, one RWMutex | `updateCluster` and its kin, `version`, `Snapshot` | stored type by type, copied as a whole | no copy holds a nil, every copy is checked before it is used |
| **builders** (`cds.go`, `eds.go`, `rds.go`, `lds.go`, `*yaml.go`) | one atomic version counter each | `create` | numeric edges, map iteration order, concurrent callers | a version names one content; what is built says what the file says |
| **names** (`xds.go`, the "ref:" comments) | - | `xdsName` | four builders make the names by which resources refer to each other, each for itself | a request ends at the instances that the files say |
| **snapshot cache, xDS server** (go-control-plane, used by `watch.go`, `server.go`) | the node's snapshot, open watches, streams | `SetSnapshot`, requests, responses | versions are compared, contents are not; connections and processes end; Envoy rejects | Envoy ends with what is served |
| **serverAction, watchSignal** (`cli/server/server.go`) | context, trap channel | start up, SIGHUP, stop | signals before, during and after a reload; `Stop` races `Start` | it comes up, reloads, and can be stopped |
| **server** (`server.go`) | two listeners, two gRPC servers | `Start`, `Stop` | goroutines and one unbuffered error channel | a stopped server stays stopped |
| **access log service** (`als.go`) | shared buffer pool, stdout | `StreamAccessLogs`, one goroutine per stream | buffers shared by streams | lines are whole and complete |
| logging, time zone, flags, images | - | - | - | not modelled |

How they interact. `serverAction` calls `ReloadAll` and `Watch` in its own
goroutine, then starts the goroutines of `watchSignal` and `Start` and waits for
the context. `Watch` starts `watchFileLoop`. Main, loop and signal handler call the
same `loadXxx`, `updateXxx` and `updateSnapshot`; they share the table behind its
mutex, the counters through `atomic.AddUint64`, and the cache. Nothing else
orders them: two reloads may overlap step by step. The builders are pure
but for their counter. The access log service shares nothing with the rest but
the process.

The hazards found on the way, each at its line, are listed in `PROJECT.json`;
the properties below are written against them. A hazard without a property says there why it has none.

## 2. Modules

| module | models | state and actions in the code |
|---|---|---|
| `Naming` | `xdsName` | two names may become one |
| `Discovery` | the yaml files as data, the consistency check | `loadYaml` and the loaders (`Loaded`), the references from clusters to endpoints and from the listener to routes, `Snapshot.Consistent` (external) |
| `SnapshotService` | what the control plane promises | abstract: `Create` makes a resource with a fresh version; `Publish` installs a consistent selection of created resources |
| `WatchFile` | `watch.go`, `resource.go`, version counters, `cache.SetSnapshot` | `pc[p]`, `job[p]`, `at[p]` are the position of goroutine `p`; `got`, `made`, `snap` its locals; `res` the table; `version` the counters. `Load`, `Create`, `Store`, `TakeSnapshot`, `SetSnapshot` are the steps of every reload, `Watch`, `Receive`, `ReAdd` the watcher, `Hup` the signal handler, `BeginWrite` .. `Chmod` the operator |
| `WatchFileInvariant` | the inductive invariant `IInv` | - |
| `WatchFileProofs` | its theorems | - |
| `OneReloaderProofs` | what holds until the first SIGHUP | `SInv`, `FollowInv`: the invariants of that time |
| `AccessLog`, `AccessLogProofs` | `als.go`, and its theorems | `pc[s]` is the position of the handler of stream `s`; `Recv`, `Get`, `Fill`, `End`, `Write`, `Put` are its statements; `Flush`, `SeeEnd`, `Break` are Envoy |
| `Lifecycle` | `cli/server/server.go`, `server.go` | `main`, `sig`, `start`, `serve[s]` are the positions of the four kinds of goroutine; `Raise` and `Deliver` are the operator and the Go runtime |
| `LifecycleProofs` | its theorems | - |
| `Delivery` | streams, watches, responses, ACK and NACK between cache and Envoy; loss of connections, cancellation, restart | extends `SnapshotService`: what the control plane promises is all it uses. `phase[s]`, `sent[s]` are the stream of type `s`, `held[s]`, `answer[s]` are Envoy's side; `SetSnapshot` is `updateSnapshot` with the open watches, `Restart` is `NewWatchFile` in a new process |
| `DeliveryProofs` | its theorems | - |
| `ClusterDiscovery` | `cds.go`: names, status ranges, balancing policy | `clusterConfig`, `statusesInt64Range`, `lbPolicy` |
| `EndpointDiscovery` | `eds.go`: assignments, locality groups, weights | the loop over entries and the ranges over the two maps are actions, the latter in any order |
| `RouteDiscovery` | `rds.go`: hosts, rules, weighted clusters, retry policy | `routeConfiguration` and the functions below it; `loadRds` is what the validator accepts |
| `ListenerDiscovery` | `lds.go`, `ldsyaml.go`: protocol, connection manager | `ldsCreate`, `loadLds` |
| `Builders` | `ReloadAll` over the four builders | `Load`, then `updateCds` .. `updateLds` in the order of the code |
| `BuilderLemmas` | what the operators of the builders compute: sorting, selecting, grouping, sums | sets of good lists and good steps in place of induction over an operator |
| `BuildersProofs` | theorems about `Builders` | `BuildersInv`, with the loop invariant of the endpoint builder |
| `Routing` | extends `Builders`: how the snapshot and Envoy follow names from a request to instances (external) | `Destination` follows the resources, `WrittenDestination` reads the files |
| `RoutingProofs` | its theorem | - |
| `MCWatchFile`, `MCDelivery`, `MCBuilders` | values of the constants for TLC | - |

Operators whose name ends in a mistake (`ReturnRegardless`, `TakeSnapshotUnchecked`,
`PutAndReturn`, ...) and whose comment begins with "Mutant of" are not part of
any specification. Each is the code with a plausible bug; with it in the place of
the original the property named in `PROJECT.json` fails.

### What a step is

A step of `WatchFile` is a file read, an atomic addition, a lock section or a
call of the cache, so all interleavings that the code permits are explored.
The event queue of fsnotify holds `MaxEvents`; what does not fit is lost, and the error
that says so is only logged (`watch.go:96`). A file that is unlinked or renamed over sends
a chmod and a remove event, and its watch is gone until the loop adds the path again; `Add` is taken to watch the
inode that the path names at that time (see below). A loop that returned (`watch.go:138`) is `dead`. The sleep of 100 ms
after a pure rename (`watch.go:107`) orders nothing and is no step.

That `Add` does so is an assumption about fsnotify, the one the code itself makes under the comment
"recursive watch". The library is not part of the repository, and `go.mod:8` pins it to v1.4.9. If that version
does not map a new inode to a path that it still has on record after the old inode was moved away,
later edits of the new inode in place raise no event, which in the terms of the model makes them `missed`
although the file is in `watched`. `QuietServesFiles` and `WatchedEditsReachCache`, and the theorems `EditsAreFollowed`
and `QuietServes`, rest on this assumption; the other properties and theorems of `WatchFile` need no edit to raise an event.

Contents are abstract: a configuration is the set of names it mentions and a
revision. Names are all that consistency looks at; a revision tells two contents
apart. A truncated list file is the empty list, which the validator accepts; a truncated
listener is invalid.

A step of `Delivery` is one message received or one call of the cache, which holds its lock for it.
A stream has one request, one open watch or one response under way. A cancellation may
let `SetSnapshot` give up at any of the watches that it answers, because it is given the
context of the process. A restart may come at any time and empties all but
what Envoy holds.

In `Builders` files are lists of entries, whose copied fields are left out. Envoy's side in `Routing` is the
part that names decide: of resources with one name the last is kept (`IndexResourcesByName`), a
domain selects a virtual host, the first rule whose prefix and headers match selects weighted
clusters, a cluster its assignment.

In `Lifecycle` a whole `ReloadAll` is one state of the signal handler
(`sig = "reload"`): what it does to the table is the subject of `WatchFile`.

## 3. Runs

All bounds are constants of the cfg files.

| run | asks | answer |
|---|---|---|
| `core_safety` | Three goroutines, cluster and endpoint files that agree or not, a route file written in place, files that the start must reject, two edits, one SIGHUP. Is the served snapshot always consistent, is a version ever reused, is a nil ever copied, does it implement `SnapshotService`? | holds, about a million states |
| `one_reloader` | All kinds of edit of all files, a queue of three events, no SIGHUP, so that reloads never overlap. Do served versions go back? Does the cache equal the table between events, and the files when the loop has caught up? Are edits of watched files served in the end? | holds |
| `sighup_repairs` | Edits of the route file in place, over it and by deletion, a queue of two events that overflows, one SIGHUP. Does a SIGHUP taken while nothing is under way bring the cache to the files for good, even if the loop missed an edit, lost its event or has died? | holds |
| `reload_not_atomic` | Is `ReloadAll` "all or nothing"? | no: an event between two stores publishes a part |
| `stale_reload_wins` | With a SIGHUP, are edits of watched files served in the end? | no: the reload read the old file, stores after the loop did, and the edit is gone until the next event |
| `accesslog` | Two streams of two Envoys, three messages of at most two entries. Are lines whole, in order, and is what was received written in the end? | holds |
| `accesslog_lost` | Is everything written that Envoy sent, as long as no connection breaks? | no: the handler receives once and returns, what was sent on the stream after that is lost |
| `lifecycle` | Stop against Start, signals at any time, addresses that are taken, a listener that fails. Does a stopped service stay down, is anything reloaded after the cancellation, do the services come up, does SIGTERM end the process if one insists? | holds |
| `builders` | Status lists of up to four strings (equal numbers, neighbours, no number), entries of up to four instances in two regions that share zone names, routes of up to three targets; and names, rules, hosts and targets of all files together. Are ranges valid and exact, do the groups partition the instances, does the total weight equal the sum, and does every request end at the instances that the files say? | holds |
| `delivery` | Two streams, one that names its resources and one that does not, contents that Envoy rejects, three snapshots, two faults among lost connections, a cancellation and restarts. Is an open watch ever behind, when can Envoy be left with old content, does it end with what is served? | holds; after a restart Envoy may keep old content, and that is the only case |
| `cds_default_range` | Is the default range "2xx only"? | no: Envoy excludes the end, and 299 fails |
| `cds_policy_name` | Does a cluster get the policy its entry names? | no: `lbPolicy` compares with the misspelt `least-reqest` |

Why the bounds are enough.

- Two edits make every pair of the races that the code has: an edit during
  a reload caused by another, a delete and a create, a truncation and its
  body. Two names are the fewest with which clusters and endpoints
  disagree. One SIGHUP overlaps with one event; `watchSignal` takes no second
  one while the first is at work. What the bounds leave open for safety
  the theorems close: they hold for every value of the constants.
- `one_reloader` and `sighup_repairs` are liveness and stay small: the second one edits
  one file, since the four are handled alike, and needs two edits, one to be missed
  and one after.
- `delivery` bounds resources per process, calls of `SetSnapshot` and faults. Two
  faults are a restart and a lost connection before or after it; two route versions and
  three contents let a new process give a version of the old one to another content,
  acceptable or not. The safety part is proved for any bounds.
- Two handlers are enough to share a buffer; a pool of one makes
  a second buffer be dropped; three messages let a stream get one too many while
  another starts. The theorem covers any number.
- `Lifecycle` is finite but for SIGHUPs: two, so that one finds the
  loop waiting and one finds it at work.
- `builders` enumerates inputs. Four strings contain every pattern that
  `statusesInt64Range` distinguishes: none, one, equal ends, equal neighbours, different
  ones. The files that vary together use three names, two of which `xdsName` makes the same, lists
  that miss, repeat and reorder them, two rules with and without a header, of two
  prefixes one of which contains the other, and one or two hosts. `Word` is 1024 in place of 2^32; all that matters is that tagged weights
  fit and others may not.

`CHECK_DEADLOCK FALSE` is set throughout: edits, messages and signals are bounded,
builders end, and the process itself ends.

### Fairness

`WatchFile` and `AccessLog` assume that a goroutine which can run runs (weak
fairness per goroutine; a waiting `sync.RWMutex` writer blocks new readers, so no lock starves anyone).
The operator, SIGHUPs, access log messages and lost connections are never
forced. `Delivery` assumes that each stream goes on: Envoy reconnects and answers, and the server
serves (weak fairness of `Stream(s)`, the code's goroutine per stream and Envoy's reconnection with back-off); reloads, faults and restarts are not
forced. A write begun need not be finished: `FilesGood` excludes it.
`Lifecycle` adds that the Go runtime offers every caught signal to the channel; that
the operator sends SIGTERM again and again is a premise of
`InsistenceEnds` itself, not of the specification.

## 4. Proofs

`tlapm` checks every theorem. Nothing is assumed but the named assumptions, which TLC
evaluates on every run. `NamingAssumption`, `DiscoveryAssumption`, `WatchFileAssumption` and those of
`Delivery`, `Lifecycle` and `AccessLog` type the constants, keep `None` and `Nil`
apart from data and give the pool as many buffers as there are streams.
`ClusterAssumption` says that a status string which `ParseUint` takes denotes a natural number;
`RouteAssumption` makes `Word` a positive number; `FilesAssumption` types the
files that are loaded. Lists in them have any length.

Every safety invariant and every action property of the passing runs is a theorem for all values of
the constants. Four of these theorems have a hypothesis besides, which is part of the
claim: `IdleServes` and `QuietServes` speak of the time until a SIGHUP is taken (`hups = 0`), `NoRegression` of
an instance without SIGHUPs (`MaxHups = 0`), as the run `one_reloader`
does, because the code does not keep these promises afterwards (`stale_reload_wins`); `TotalsMatch`
asks that no list of targets be so long that 100 for each exceed the integer.

**WatchFile.** `Invariance` proves `Spec => []IInv`. The safety properties are
not inductive by themselves. That the cache is consistent follows from the
snapshot in hand having passed the check (`CheckedInv`), wherever the table went in
the meantime. That a version names one content needs every copy of a resource, in
a local, the table, a snapshot or the cache, to be a resource that was created, and no
two of those to share a version (`BuiltInv`). That no nil is copied needs main to have
stored the four types, in the order of `ReloadOrder` (`TableInv`), after having loaded them
(`LocalInv`), before the others run (`ControlInv`). One lemma per action shows
that it keeps these, part by part. `TypeCorrect`, `ServedIsConsistent`,
`VersionsAreUnique` and `NoNilInSnapshot` follow, for any names, contents, edits and
bounds.

`Refinement` proves that `WatchFile` implements `SnapshotService` under the map
counter = `version`, created = `built`, served = `cache`. A `Create` maps to `Create`,
fresh because every version in `built` is at most the counter; a
`SetSnapshot` maps to `Publish`, allowed because of `CheckedInv` and
`BuiltInv`; every other step stutters.

**One reloader.** Until the first SIGHUP main, and then the loop, are the only ones that
reload. `OneReloaderInvariance` adds to `IInv`: the signal handler is not at work (`AloneInv`);
versions grow from the cache to the table to what is about to be stored and
to the counter (`OrderInv`); and a snapshot on its way to the cache is still the table, which the cache
follows but for the time between a store and the check (`SettledInv`). `IdleServes` and
`NoRegression` follow.

`EditsAreFollowed` says what becomes of an edit. For every type that is not `missed` one of five
things holds at any time: an event that makes the loop load it is queued; no reload takes
what the file has; a reload is yet to read it; a reload has read it and not stored it;
or the table has it, and nobody is about to overwrite it (`FollowInv`). The third and the fourth depend
on where in its list of types the goroutine is (`ToStore`, `AsRead`). An event for each change is what `ChangeIsDue` shows: the queue
has room for what the change raises, or the change is missed, and a chmod event
alone never counts. `QuietServes` combines this with `SettledInv`: with no event queued and the loop
waiting, only the table is left to hold the content, so the table equals the files, is
consistent as they are, and is served. It is the safety part of `WatchedEditsReachCache`, which adds that
the loop does catch up.

**AccessLog.** `AccessLogTyped` and `AccessLogLinesWhole` come from the
invariant `AInv`: a buffer is held by one handler or is in the pool and never
both (`PoolInv`), so the text in it is what its holder's position
says (`TextInv`), and entries in flight were sent (`EntryInv`). `AccessLogWrittenInOrder` needs more: an
entry is in one place only, in one message of one stream, so its line comes from one handler; and
the lines of a stream stand in the output at growing positions, as many as its handler has
done.

**Delivery.** `DeliveryInvariance` proves `DSpec => []DInv`. Versions are unique within a
process only (`CreatedInv`), so the argument has to carry the process along: every
response, under way or accepted, was made of resources that its process created under the
versions it names, and the one under way is of this process (`ResponseInv`). Two responses of
one process with the same version string then have the same content (`SameVersionSameContent`);
an ACKed stream holds a response of the process (`AnswerInv`). `WatchesAreCurrent` needs that `SetSnapshot` and
the opening of a watch look at the same version. `StaleMeansRestart` combines
the two: a watch is current, so its version string is the one on offer, so its content
differs only if another process made it. Together with `Refinement` this carries over to
`WatchFile`, whose versions and selections are those of `SnapshotService`.

**Lifecycle.** `LifecycleInvariance` proves `LInv`: the context is done only once the
signal handler has returned, nothing serves before `Start` has both listeners, and the second server is
stopped after the first. `StopIsFinal` and `CancelIsFinal` follow, for any number of
SIGHUPs and any listeners that fail.

**Builders.** Clusters, routes and listener are built in one step each, and `BuildersInv` states exactly
what that step makes of the file. The endpoint builder takes many steps, in an order that Go leaves
open. Its loop invariant (`LoopInv`) says of the localities behind the loop (`Behind`: those of
regions that were taken, and of the zones taken in the present one) that the groups so far are theirs, one for
each, with their instances in the order of the file. At the end nothing is ahead,
which is `GroupsArePartition`. Finished assignments stay as they are (`AssignedInv`).

`ClustersValid`, `ClustersAccept` and `ClustersReject` rest on what sorting does: a sorted list has
the same numbers, and its first equals its last only if all are equal, which is
the one case in which `AvoidSame` adds a status.

A total weight is a sum modulo the width of the integer. `TotalIsSum` has no hypothesis: whenever
the weights add up to less than that width, the total is their sum. `TotalsMatch` is the property of
the run, weights within the tag (at most 100); it supposes `FewTargets`, that 100 for each target stay below the width, that is
at most 42,949,672 targets in a list for `uint32`.

**Routing.** `RequestsReach`: for any files the request ends at the instances the files name.
`Destination` selects resources by the names that the builders made,
`WrittenDestination` selects entries by the names in the files. The proof goes along both
side by side: what each builder made is at the place of its entry (`BuildersInv`), so the last resource of
a name is at the place of the last entry whose rewritten name it is, the first
rule that matches is the rule of the first entry that matches, and so on down to the instances.

**Induction over data.** The library's induction theorems cannot be instantiated here, but a
first-order form can: the set of lengths for which a statement holds contains 0 and
with every number its successor, so it is `Nat`. `BuilderLemmas` proves this once from the well-foundedness
of the order on `Nat` (`NatSetInduction`, `ListInduction`), and then what the recursive functions
of the builders compute for any list. The models have no `RECURSIVE` operators.

Only model-checked: liveness, which is out of the prover's reach. These are
`WatchedEditsReachCache`, `HupRepairs`, `ReceivedIsWritten`, `ServicesComeUp`, `InsistenceEnds` and
`EnvoyCatchesUp`.

## 5. Where the code does not do what it says

The violation runs above, each with the quotation in `PROJECT.json` under
"findings". They are disagreements between the code and its comments, samples or
README, not judgements about what it ought to do. Seen while reading, not checked:

- a `ReloadAll` that fails at the listener or the consistency check is logged with
  "skip update" (`cli/server/server.go:89`), but clusters, endpoints and routes are in
  the table by then, and the next event publishes them;
- a file that changes between the first `ReloadAll` and `watcher.Add`, or between its
  reload and its repeated `Add`, raises no event. `WatchedEditsReachCache` excludes these
  edits through the history variable `missed`, and `HupRepairs` shows that a
  SIGHUP makes up for them;
- the loop sleeps only for a pure rename event (`watch.go:107`); the event of a truncation is
  handled at once, and the empty list may be served until the event of the body;
- names that differ in `-` and `_` only, and entries that repeat a name, are one resource, and the last
  entry counts; a target that no other file has is served as it is and leads nowhere;
- the sample's rule for `/api/v1` stands behind one for `/` and is never reached;
- `required` rejects `use-remote-addr: false` and `skip-xff-append: false` (`ldsyaml.go:49`); the tag of
  `xff-trusted-hops` lacks its colon and is not evaluated; the tag `zone` of instances names no
  rule of the validator and would panic if it were reached;
- the tags of instances and of route targets are never evaluated, because their
  slices have no `dive`; a weight above 100 is loaded;
- `rds.yaml` asks for `retry10`, which `retryPolicy` takes for no retry;
- `als.go:45` says "UTC", the default zone of `time.go` is JST.

## 6. Not modelled

- **Fields that are copied**: addresses, timeouts, server name, access log settings, fixed options, the
  filter chain. The model would repeat the code. The listener's protocol, its handling of remote address and
  forwarded headers and the retry policy are built as in the code, but no property depends on them.
- **The option for an initial health status** (`eds.go:32`), which the program never sets.
- **go-control-plane, fsnotify, gRPC and Envoy** beyond what the code relies on. `Delivery` follows
  go-control-plane v0.11.1: a request is answered at once if its version is not the one on offer or
  it names a resource that the stream has not been sent. The several resources that
  one type asks for by name are one subscription. The node id is taken to be Envoy's.
- **The order between types**: streams are separate, so Envoy may hold new routes and old
  clusters for a while. Nothing in the code promises an order.
- **`WatchFile` and `Lifecycle` together**: each abstracts the other's part to a step.
- **Logging, time zone, version, flags, Envoy bootstrap, images**: output and constants.

## 7. Plan

Done, in this order: `Discovery`, `SnapshotService`, `WatchFile` with its runs
and theorems; `AccessLog` with its theorems; `Lifecycle`; the builders; `Delivery` with its
theorems; the overflow of the event queue; the listener and the four builders together with `Routing`; the theorems of
`Lifecycle`; the theorems of the time before a SIGHUP; the order of access log lines; the builders and `Routing`
for any files.

Next:

1. What still holds with SIGHUPs: the safety part of `HupRepairs` as a theorem, that a handler which
   has read good files and works alone leaves them served.
2. That what `Builders` makes and what `Discovery` abstracts from it name the same resources, so
   that `Consistent` in `WatchFile` is the check of the resources in `Builders`.
3. `WatchFile` composed with `Lifecycle`: a stop during a reload, the end of the
   loop on cancellation.
