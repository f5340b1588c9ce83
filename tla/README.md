# A TLA+ model of pve_exporter

`pve_exporter` polls Proxmox VE clusters on an interval, keeps the latest
results in memory as one snapshot, and serves that snapshot to Prometheus (on
each scrape) and to an OTLP collector (on each push). The code is small; what is
hard about it is what happens at once: targets, nodes and callers polled in
goroutines of their own, configuration swapped under them, contexts that end
anywhere, two backends that read while the store is replaced.

This directory holds TLA+ modules translated from the Go source, TLC
configurations that check them on small instances, and TLAPS proofs of what holds
for every instance. `PROJECT.json` lists components, runs, the source lines each
definition stands for, the hazards the properties are for, and for each property
a mutation of the code's logic that the property catches.

To use it: `tlc -config Collector.cfg Collector.tla` checks a run,
`tlapm CollectorProofs.tla` checks proofs.

## Inventory of the system

| Part | Source | State it keeps | Operations |
| --- | --- | --- | --- |
| Collection loop | `internal/pve/collector.go` (`Run`, `CollectOnce`, `collectAll`, `SetTargets`) driven by `main.go` | the target set (behind an RWMutex), one results slice per cycle, the ticker | first cycle, cycle per tick, swap of the targets, end of the context |
| Target poll | `collector.go` (`collectTarget`, `collectNodes`), `node.go`, `ha.go` | a sample set, a mutex and an errgroup per poll | primary call, required and optional calls, fan-out over nodes, merge, reading the counter |
| PVE client | `client.go` (over resty) | `requestErrors` | `Get`, `GetOptional`, up to three attempts each |
| Snapshot store | `snapshot.go` | one pointer behind an RWMutex | `BuildSnapshot`, `Load`, `Store` |
| Configuration reload | `internal/config/watcher.go`, `internal/models/safe_config.go`, `server.ReloadConfig` of `main.go` | `SafeConfig.c`, the signal channel, the watcher's events | SIGHUP, file event, load, swap, rebuild of the targets |
| Export backends | `prometheus.go`, `otlp.go` | registered instruments | scrape, push, `EnsureInstruments` |
| Process lifecycle | `main.go` (`run`, `shutdown`, `--once`) | the goroutines, the cancel function | start, select, shutdown |
| Configuration loading | `internal/models`, `internal/utils` | the process environment, the configuration in force | `.env`, references, secret files, defaults, validation |
| Sample mapping | `resources.go`, `api.go`, `parse.go`, `metrics.go`, `node.go`, `ha.go` | the sample set of a poll | rows to samples, state enums, flexible numbers |
| Health endpoints, tracing, logging | `main.go`, `internal/telemetry`, `internal/logging` | none of their own | |

How they interact. `run` loads the configuration, builds the clients and the
collector, starts the HTTP server, then a goroutine that runs the first cycle and
after it `Collector.Run`. A cycle copies the target set and polls each target in
its own goroutine; a poll calls the client, first alone, then from one goroutine
per node; the results become a snapshot that replaces the one in the store. The
backends only ever `Load` the store. A SIGHUP or a file event makes its own
goroutine load the file, swap `SafeConfig` and, when the cluster list differs,
hand new targets with new clients to the collector. The end of `run` cancels the
context every poll runs under.

What is hard in it, and what makes each part correct:

- *Collection loop*: a cycle in progress meets a swap of the targets, a
  cancellation, a tick. Correct means that the store only ever holds whole
  cycles, that the limit holds, that a replaced target leaves, that one target's
  failure stays its own, that the loop goes on and, told to, stops.
- *Target poll*: goroutines merge into one slice and share a context and a
  counter. Correct means that no sample is lost, nothing is read before it is
  final, and the poll ends.
- *Client*: retries and a context that ends during one. Correct means that a
  call counts once, for the right outcomes, and returns.
- *Reload*: two goroutines, an operator who edits while a reload runs, files
  caught half-written. Correct means that the exporter settles on the last valid
  file and that clients (and with them their counters) are rebuilt only for a reason.
- *Backends*: each reads the store at its own moments. Correct means that what
  they show belongs to one snapshot.
- *Lifecycle*: a shutdown beside a cycle, a scrape and a push. Correct means that
  everything ends, in an order that flushes what was collected.
- *Configuration loading*: references, fallbacks, files beside literals, and
  secrets that change while the configuration does not. Correct means that no
  client runs without its credentials, and none with those of yesterday.
- *Sample mapping*: rows that miss fields, tell of one thing twice, or of several
  things in one list. Correct means that a scrape is never refused, that the
  backends show the same, and that nothing is invented.

`PROJECT.json` lists the hazards line by line.

## Modules

| Module | What it is |
| --- | --- |
| `SnapshotModel` | abstract: a store replaced as a whole, once per cycle (ADR 0002) |
| `Collector` | the collection loop with the store; implements `SnapshotModel` |
| `CollectorProofs` | theorems about `Collector` |
| `TargetPromise` | abstract: what `Collector` takes a target's poll for |
| `TargetPoll` | one target's poll, call by call; implements `TargetPromise` |
| `MCTargetPoll` | the nodes, limits and enabled collectors TLC tries |
| `TargetPollProofs` | theorems about `TargetPoll` |
| `Doer` | abstract: a call ends once and counts at its end or never |
| `Client` | attempts, retries and contexts; implements `Doer` |
| `ClientProofs` | theorems about `Client` |
| `Reload` | file, watcher, SIGHUP, `SafeConfig` and the hand-over of targets |
| `ReloadProofs` | theorems about `Reload` |
| `Exporters` | scrapes, pushes and instruments against a store that is replaced |
| `ExportersProofs` | theorems about `Exporters` |
| `Lifecycle` | `run` and `shutdown` with the goroutines `run` starts |
| `MCLifecycle` | `--once` and backends, every combination |
| `LifecycleProofs` | theorems about `Lifecycle` |
| `Samples` | answers of the API to samples, and samples to what backends show |
| `MCSamples` | the answers TLC tries |
| `SamplesProofs` | theorems about `Samples` |
| `ConfigLoad` | `.env`, references, secret files, validation, what comes into force |
| `MCConfigLoad` | the files and environments TLC tries |
| `ConfigLoadProofs` | theorems about `ConfigLoad` |

The modules meet at their abstract specifications: `Collector` reduces a target's
poll to a primary call, failures that may follow it and the reading of the
counter, and `TargetPoll` is shown to implement exactly that (`TargetPromise`);
`TargetPoll` takes a call for something that ends once and may count once, and
`Client` is shown to implement that (`Doer`). `Reload` ends with a `SetTargets`,
the action of that name in `Collector`. `Exporters` takes the collection loop for a
sequence of whole replacements, which is what `SnapshotModel` says of it, and
`Lifecycle` takes a cycle for one step, whose outcome does not matter there.
`Samples` fills in what those modules leave out of a sample, and `ConfigLoad` what
`Reload` leaves out of a file.

### Collector

`targets`, `work` (the copy a cycle polls) and `store` are records with a
generation: `buildTargets` makes a new client for every cluster, so a client is a
generation and a name, and `errs` holds the failure counter of each. `pc` is the
goroutine of `main.go:179`: `boot`, `collect`, `idle` in `Run`'s select, `stopped`.
`task[n]` is where the goroutine of target `n` is. `tick` is the ticker's one-slot
channel. `result` is the slice of `collectAll`; a slot not filled is `Nil`.
`stale` is a history variable: it counts snapshots published of a target set that
had been replaced by then. Times are abstracted: `LastScrape` is the number of
the cycle, and `cause` is why a poll failed (`api`: the call failed under a live
context, which includes the target's own timeout).

The first cycle has a deadline five seconds longer than one target may take, for
all targets together, so it can strike only when some target had to queue
(`ExpireFirst`). `Run`'s select may take a tick although the context is done;
`NextCycle` therefore does not look at `shutdown`.

### TargetPoll

A goroutine is the sequence of calls it still has to make. A list answered with
items puts one call per item in front; a failed call loses its own follow-ups,
and a failed list of VMs loses the containers too, as `collectOnboot` returns
there. The merge `set.out = append(set.out, ...)` is two steps, read and write,
so that the mutex around it matters. Whether a failing call counts is left open
(that is `Doer`'s business), except that a call cut off by a context always
counts. A call may also succeed while a context is about to end, never after.

### Client

`wire` is an attempt under way, `dead` one sent after its context ended (it can
only fail), `backoff` the wait between attempts. The retry loop and the wait are
resty's and modelled from how `NewClient` sets them up; what counts and what the
call returns is `get`'s. `NextPoll` gives the client a fresh context, once all
calls have returned, as the next cycle does.

### Reload

`watch` is `none` while `run` has not reached line 197, then `on`, or `off` when
`WatchConfigFile` failed. Each goroutine goes through `read`, `swap`, `get`, `set`:
the load happens before `SafeConfig`'s lock, comparison and swap under it, then
`Get` and `SetTargets` each under a lock of its own. An edit yields one event or
none (`Told`): the watcher takes only writes to the file's own name and its creation,
so a symlink swapped beside it, as a mounted ConfigMap is updated, says nothing.
More than one event per edit adds reloads that find the file just loaded. The
variable `missed` records a change nobody was told of (dropped by that filter, made
before the watch, or while there is none and no SIGHUP followed), until the next
reload reads it. `HupBesideWatch` separates an operator who relies on the watch, or on
SIGHUP where there is no watch, from one who uses both. Everything in the file
but the cluster list is one value of `Settings`.

### Exporters

A snapshot is its number and the names it has samples of; `scrape` and `push` are a
run of `Collect` and of the periodic reader in progress, `scraped` and `pushed`
what the last finished one showed, with the number of the snapshot current at its
beginning. `EnsureInstruments` is taken apart at its mutex: lock and load, one
check per name, one creation, return. It has two callers, the goroutine of the
first cycle (`boot`), which goes on to `Run` afterwards, and `syncInstruments`
(`sync`). The meter's lock is external: an instrument is created between two
pushes. Its creation never fails, since all metric names are constants of
`metrics.go` that the meter accepts. `setupOTLP`'s call finds an empty store and
registers nothing.

### Lifecycle

`main` is the step `run` is at, and `OnceSteps` and `ServeSteps` say which one
follows, so that an order of steps is a definition of its own. `server` is the
goroutine of `ListenAndServe`, `boot` that of the first cycle and `Run` (`ready`
until it is scheduled, `out` once `Run` has returned); `syncInstruments` is one
action, since its select may still take a tick after the context is done. A store,
a response and a push are the number of the snapshot they are of. `shown` and
`pushed` are histories: the newest snapshot each backend has shown.

`shutdown` gives its three steps one deadline (`late`), of a fresh context for the
server and of `run`'s own for `--once`, so a caller who cancels takes the last push of
`--once` with him (`Expired`). `CloseListener` and `Drained` are the two halves of
`httpServer.Shutdown`. SIGINT and SIGTERM are caught from `signal.Notify` on; before
it, and in `--once`, which never calls it, they kill (`Kill`). The process may be
killed at any other moment, too, by leaving fairness out of the picture; nothing
is persisted, so there is no recovery to model. A configuration that panics is in
`ConfigLoad`.

### Samples

A target's poll in sequence, one action per call, each with one of the answers of
`Cases`; polls and nodes follow one another, in any order of nodes, since what they
interleave is other modules' business. Labels are sequences of pairs, identities
such as `qemu/100` pairs. What `FlexFloat` keeps, a value and a `Valid` flag, is a
set of at most one number; a JSON number is a form (bare, quoted, null, text,
missing) and a value. `Prometheus` and `OTLP` are the indices of the samples each
backend shows: `Collect` keeps the first sample of a name and label *values*, an
instrument the last observation of a set of attributes. `repeated` records that
an answer told of one row twice (a guest that `/cluster/resources` lists under two
nodes while it migrates) or that two nodes told of one replication job
(`OfTwoNodes`), which are the reasons for which the backends may differ.

`CasesAssumption` is what the module takes for granted: configured names are
distinct (`Validate` refuses others), a row's identity starts with its type, is
`node/` and the name for a node, and is never a cluster's (as the API builds
identities), a row has the numbers its type has metrics for (present or not), and a
job's status call and a node's subscription call have at most one answer, since each
is made once. It says nothing of how many rows an answer has, whether one is there
twice, which fields are missing and what states they name.

### ConfigLoad

A text is the set of its tokens, so that concatenation is union and `""` is `{}`; a
field of the file is a set of literals and of references with or without fallback.
`LoadDotEnv` looks at one `.env` per step (`candidate`), and stops at the first there
is, whether it parses or not; nothing else changes `env`. `OneOrigin` does not
look at `env`: it compares what is in force with what the file's references mean to
someone who knows the surroundings `run` was started in. `Resolved` is `ResolveSecrets` of one
cluster, `Valid` is `Validate`. Durations and paths are the few texts that fall
into different classes: positive, zero, negative and unparsable; default, sound,
without slash, reserved, and no pattern to `ServeMux`. A reload is one step here
(`Reload` takes it apart), and compares clusters with their resolved secrets.

## Runs

| Run | Instance | What it shows |
| --- | --- | --- |
| `collector` | 2 targets, 1 slot, 3 cycles, 2 rebuilds, counters to 1 and beyond by primary failures | safety of the loop, refinement of `SnapshotModel`; cycles are published, reloads take effect, the loop stops |
| `collector_counter` | 2 cycles, 1 rebuild | *violation*: the failure counter of a cluster falls at a reload |
| `client` | 2 callers, 2 retries (the code's number), 3 calls | refinement of `Doer`, retries, termination |
| `target_poll` | 2 nodes without limit in three sets of toggles, lists of 0 or 1 item; 3 nodes for 2 slots, one call each | refinement of `TargetPromise`, isolation, limit, merges, termination |
| `reload_one` | 3 cluster lists, 2 settings, 4 edits, 2 signals, not both at once | the exporter settles on the file as far as it was told, and catches up at the next reload |
| `reload_race` | the same, SIGHUP beside a working watch | *violation*: targets that are not the configuration's, for good |
| `exporters` | 2 names, 2 snapshots | whole scrapes, current pushes, single instruments, agreement once the store rests |
| `exporters_push` | the same | *violation*: a push of two snapshots |
| `lifecycle` | `--once` or server, OTLP and tracing on or off, 2 scrapers, 2 cycles | `run` ends when told, serves before any cluster answers, last push and scrapes |
| `samples` | answers of every kind in 5 cases, 2 targets in one of them | series are unique, backends agree, enumerations whole, numbers as sent, targets shown |
| `config` | 2 variables, 1 secret file, 2 `.env` files, 56 configurations, 2 changes | credentials, clients, one origin of what references mean |
| `config_crash` | the same | *violation*: an accepted configuration panics |

Bounds. Two targets and one slot make a target queue behind another, which is
what the limit, the first deadline and isolation are about; a third target adds
no new kind of waiting, and the proofs cover any number. Three cycles hold a
rebuild before, in and after a cycle, and two rebuilds let one overtake another.
`MaxErrors` bounds only failures after the primary call. `ReloadMargin` is 2 in
`collector`: it keeps two cycles for a rebuild to show in, which liveness needs since
a bounded run otherwise ends before the reload can take effect. Three nodes and
two slots let merges meet while a node waits; two nodes without limit interleave
every call. Three calls of two callers let one caller finish and
call again while the other retries. Four edits of three lists let a list come
back after another, which an overtaken reload would need to go unnoticed. Two
snapshots of two names can replace each other in the middle of a scrape, a push
or a registration, and lose, keep or gain a name; the proofs cover more. Two
scrapers and two cycles let an old and a new response be under way when the
shutdown begins. The cases of `samples` combine answers of one call closely and give
the others a plain one, as the code never combines two calls' rows into a sample
but for the cluster's name, which has a case of its own (two targets, one cluster).
One variable with its four kinds of reference, a second beside it that the two
`.env` files set or leave out on their own, one secret file and two changes
let `.env` files differ in any way that counts, and a file and its secret change in
either order between two loads.

Fairness. Every call returns: the per-target timeout ends the context, the
client's own timeout ends an attempt, the maximum wait ends a backoff (`client`
checks this of the model of the client). Goroutines are scheduled, and a ticker
ticks. This is weak fairness. `Stop` is strongly fair: a Go select whose two
cases are ready picks at random, so `ctx.Done()` is not passed over for ever; and
in `Exporters` a registration, which waits for locks that Go hands on fairly.
When `run` returns, the process may exit before the loop has stopped; the model
lets the loop go on to its end. In `lifecycle`, `run` and the server's goroutine are
scheduled and `shutdown`'s deadline fires; the last exports of metrics and spans
need not return by themselves, clusters need not answer (no fairness of the loop,
nor of the cycle of `--once`), clients need not read their responses. Nothing is
assumed of an operator, of a failing API or of a shutdown, which may
come at any moment or never.

Deadlock is checked in every run; an explicit stuttering step marks the states in which the
component has nothing left to do.

## What the runs found

- **Two reloads at once** (`reload_race`). SIGHUP and file watch call
  `server.ReloadConfig` from two goroutines. One can swap `SafeConfig` between the
  other's `Get` and `SetTargets`, or load before and swap after the other; the
  collector then polls clusters the configuration no longer has until the cluster
  list next changes. A mutex around `ReloadConfig` is enough: `ReloadProofs` shows
  the serial case right.
- **The failure counter falls** (`collector_counter`). `docs/metrics.md:124` calls
  `pve_request_errors_total` a process-lifetime counter; a reload that changes any
  cluster starts all of them at zero. It never falls while the client lives
  (`ClientCounterGrows`, proved).
- **A push of two snapshots** (`exporters_push`). Each OTLP callback loads the
  store; README.md:21 says the two backends never disagree. `PushIsFresh` (proved) is
  what does hold.
- **An accepted configuration panics** (`config_crash`). `Validate` asks of
  `collection.interval` only that it parses; `0s` or a negative one makes
  `time.NewTicker` panic after the first cycle. `server.uri` may be any text that
  begins with a slash and is not reserved, and `/{` makes `ServeMux.Handle` panic,
  where `docs/cli.md:46` promises an explicit error "rather than a mux panic".

Met while modelling and not given a run:

- A change of the configuration that comes as a swapped symlink (a mounted ConfigMap
  renames `..data`) has another name and is filtered (`watcher.go:52`): it takes effect
  at the next reload only (`missed` of `Reload`), where `README.md:101` promises
  hot-reload on file change.
- A shutdown, or the first cycle's deadline with more targets than slots, publishes
  `pve_up` 0 although no API was found unreachable, as `pve.rules.yml:15` says of it
  (`docs/cli.md:61` says instead that the exporter reached the target).
- Only the cluster list is hot-reloaded. Interval, timeout, toggles, limit and
  OTLP settings stay as they were at the start (`README.md:101` makes no exception).
- The comment of `main.go:174` says the listener is bound before the first cycle; the
  goroutine that binds it has been started by then, and no more.
- The comment of `nodeNames` says "online node names", and it filters by no status.
- `pve_onboot_status` is 0 where the field is missing (`node.go:77`), the one
  exception to ADR 0006's absent-not-zero; `pve_not_backed_up_total` is exported as a
  counter for its suffix and may fall.
- A guest's HA state, a lock or a subscription status that is not in its list
  yields an enumeration of zeros; a node's HA state is skipped instead. `EnumsAreWhole`
  says so. `docs/metrics.md:90` calls the label of `pve_subscription_status` `status`,
  the code `state`.
- `docs/metrics.md:4` says counters are monotonic over OTLP; every instrument is a gauge.
- `pve_up` of an up target carries the cluster's own name in `id`, of a down one the
  configured name, so the series of one target changes with its state.
- A blank secret file is accepted (`Validate` looks at the path), where an empty
  reference is refused. Nothing watches secret files, and `.env` is read once.
- The `host: https://...` of `README.md:93` gets a second scheme from `BaseURL`.
- In `--once`, and before `signal.Notify`, a signal kills the process without a flush.

## What is proved

All proofs are for any constants that satisfy the named assumptions: any finite
set of targets, any limit, any bounds.

`CollectorProofs` proves `Spec => []IInv` and from it every safety property of
the `collector` run, including the refinement. The properties speak of what the
store holds; none is inductive, for the store is made of results that were made
of polls. `IInv` follows an entry back: `PhaseInv` (what the control state says of
tasks, work and cycle), `ResultInv` (a slot is filled exactly when its goroutine
is done, with this cycle's number, the polled client's counter, and a cause the
context explains), `StoreInv` (the same of the store once published), `StaleInv`
(a stale publication implies that the work copied before the swap is over) and
`LimitInv`. Refinement and `ClientCounterGrows` need one lemma more, `StoreStep`:
each publication either continues the generation in the store or moves to a later one.

`TargetPollProofs` proves every safety property of `target_poll` and the refinement
of `TargetPromise`, for any nodes, toggles, limit and length of lists. The
invariant: the primary call is answered before anything else is called
(`MainInv`, which needs the type of the rest of a goroutine's calls), where the
nodes' goroutines can be in each phase (`NodeInv`), an answer is in the result or
with a goroutine that has yet to merge it, and what a goroutine is about to
append to has not changed since it read it, because it holds the mutex
(`SampleInv`), and the counter reported is final (`CountInv`).

`ClientProofs` proves that a waiting caller has a retry left and a transient
reply (`BackoffInv`), and with it the retry property and the refinement of `Doer`.

`ReloadProofs` proves type correctness for any operator, and the other safety
properties under `~HupBesideWatch`. The invariant: at most one goroutine is
between `read` and `set` (`OneReloader`), the targets follow the configuration in
force except while that goroutine carries the difference (`Rebuilding`), and either the
file is in force or something is still on its way that will read it (`UpToDate`).
`reload_race` shows that the assumption is needed.

`ExportersProofs` proves the safety properties of `exporters`. What was observed so
far is related to the snapshots of the window (`Observed`, with one lemma for a
window that grows and one for one more callback), a scrape to the view it loaded
(`ScrapeInv`), and the mutex to the goroutine inside (`MutexInv`).

`LifecycleProofs` proves the safety properties of `lifecycle` for any number of
connections and cycles. The invariant says what `--once` has done by each step
(`OnceInv`), and that by the last push the listener is closed and, unless the
deadline has passed, no request is open (`DrainInv`): a push that is sent has then
nothing left to be overtaken by, since `shown` is at most `store` (a part of the type
invariant).

`ConfigLoadProofs` proves the properties of `config` for any files, environments
and secrets. The configuration in force is what `LoadConfig` made of a file of the right
shape (`InForce`), and a field that resolves to nothing was written as nothing
(`NothingFromNothing`). For `OneOrigin` the invariant also says how far the search
for a `.env` has come: those before the candidate are missing (`Search`), and once it
is over the environment is what the candidate gives (`Found`). From then on a field
resolves to what it means (`ResolvedAsMeant`), and what it means never changes
(`MeaningStays`).

`SamplesProofs` proves the five properties of `samples` for any targets, answers of
any length and any order of nodes. `Base` says of every sample whose it is, which
call it tells of (`CallOf`, read off its name and identity) and that its labels
have the keys of its name (`Keyed`); that is why `Collect`, which compares values
only, drops exactly the repeated series. `Base` also says that an enumeration always
stands in one piece (`EnumsWhole`), so that of several enumerations of a subject
one backend shows exactly the first and the other exactly the last. The other
properties need more: `NumbersKept` (snapshot and current poll hold the numbers sent so
far), `TargetsTold` (a target has told of itself once its poll is over, and nothing
else is of kind `cluster` under those names), and `OneValueEach` (no series has two
values yet, and what the remaining nodes will bring is nothing that is there:
`NodesApart`). The first attempt at the last one failed for a good reason: two nodes
that list one replication job bring its status twice, at two moments, so that the
backends may show two values of it. `repeated` covers that now, and a case of
`samples` (a job that `n2` lists, too) exercises it.

The loops are folds (`FlattenSeq`), and the library's induction over data cannot be
used here. What a loop over rows returns is proved all the same, from the
well-foundedness of the natural numbers: `AllNaturals` is induction as a fact about
sets, `FlattenMadeOf` uses it to show that a flattened list consists of its parts
and nothing else, and everything else about loops follows from that one lemma.

Only model-checked: the liveness properties (`CyclePublished`, `ReloadTakesEffect`,
`StopsAfterShutdown`, `CallReturns`, `PollEnds`, `EditTakesEffect`, `BackendsSettle`,
`ServesDespiteClusters`, `RunReturns`), since fairness and ENABLED are out of the
prover's reach. Every safety property of a passing run is a theorem.

## What is not modelled

TLS, headers, URLs, help texts, logging and the set-up of tracing; the health endpoints, which
answer 200 whatever happens; the file watch's end at shutdown; defaults of fields that
are never refused; labels no property reads (names, tags, plugin types). NaN and
infinities are numbers like others in `Samples`. Timeouts are events without a
length: that the first cycle's deadline is five seconds longer than one target's is
used in `Collector` only to say when it can strike.

## Plan

Order: what decides what operators see comes first.

1. `Collector`, `SnapshotModel`, proofs (done): the core.
2. `Client` with `Doer`, `TargetPoll` with `TargetPromise` (done): what the core rests on.
3. `Reload` with proofs (done).
4. `Exporters` with proofs (done).
5. `Lifecycle` with proofs (done).
6. `TargetPollProofs` (done).
7. `ConfigLoad` with proofs, `Samples` with proofs (done).
8. A composition of `Reload` and `Collector`, for an edit that has to reach the
   store while a cycle runs: today `EditTakesEffect` ends at the targets, where
   `ReloadTakesEffect` begins.
9. A composition of `Lifecycle` and `Collector`, for what a cycle cut off by `cancel`
   contributes to the last push.
