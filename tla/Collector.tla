------------------------------ MODULE Collector ------------------------------
(***************************************************************************)
(* The collection loop of internal/pve/collector.go with the snapshot      *)
(* store of snapshot.go, as main.go drives it: one first cycle under a     *)
(* deadline of its own, then one cycle per tick of Run's ticker, until the *)
(* context is cancelled.  A cycle copies the target set, polls every       *)
(* target in its own goroutine (at most MaxConcurrent at a time), waits    *)
(* for all of them and replaces the published snapshot.  SetTargets swaps  *)
(* the target set from another goroutine at any moment.                    *)
(*                                                                         *)
(* A rebuild of the target set builds a new client for every cluster, so   *)
(* a client is a generation (the number of rebuilds before it) and a name. *)
(* One target's poll is reduced to what decides its entry in the snapshot: *)
(* the primary call, then further calls that may add to the client's       *)
(* failure counter, then the reading of that counter.  TargetPoll has the  *)
(* calls one by one.  A LastScrape time is the number of its cycle, and    *)
(* `cause' is the reason ScrapeError spells.                               *)
(***************************************************************************)
EXTENDS Naturals, FiniteSets

CONSTANTS
    Names,          \* cluster names a configuration may list
    MaxConcurrent,  \* collection.maxConcurrentTargets, 0 for no limit
    Nil,            \* a result slot not filled yet (a nil *TargetSnapshot)
    MaxCycles,      \* bound: cycles started
    MaxReloads,     \* bound: rebuilds of the target set
    ReloadMargin,   \* bound: cycles left to run after a rebuild
    MaxErrors       \* bound: a client's counter up to which detail calls fail

ASSUME CollectorAssumption ==
    /\ IsFiniteSet(Names)
    /\ MaxConcurrent \in Nat
    /\ {MaxCycles, MaxReloads, ReloadMargin, MaxErrors} \subseteq Nat

Causes == {"none", "api", "deadline", "cancelled"}
TargetSnapshots == [up : BOOLEAN, cause : Causes, errors : Nat, at : Nat]

ASSUME NilAssumption == Nil \notin TargetSnapshots

VARIABLES
    targets,   \* Collector.targets: [names, gen]
    errs,      \* requestErrors of the client of a generation and a name
    pc,        \* the goroutine of main.go:179: boot, collect, idle, stopped
    work,      \* the copy of targets the cycle polls
    task,      \* where each target's goroutine is
    result,    \* the results slice of collectAll
    cycle,     \* cycles started, and the number of the one in progress
    ctx,       \* the cycle's context: live, deadline or cancelled
    tick,      \* the one-slot channel of Run's ticker
    store,     \* SnapshotStore.current
    shutdown,  \* run() has called cancel()
    stale      \* snapshots of a replaced target set published since SetTargets

vars == <<targets, errs, pc, work, task, result, cycle, ctx, tick, store,
          shutdown, stale>>

-----------------------------------------------------------------------------
TargetSets == [names : SUBSET Names, gen : 0 .. MaxReloads]

Running == {n \in Names : task[n] \in {"primary", "detail"}}

(* A free slot of the errgroup: SetLimit is called for a positive limit only *)
MayStartOffByOne == MaxConcurrent = 0 \/ Cardinality(Running) <= MaxConcurrent
MayStartLeak ==
    MaxConcurrent = 0 \/ Cardinality(work.names \ {n \in Names : task[n] = "queued"})
                            < MaxConcurrent
MayStart == MaxConcurrent = 0 \/ Cardinality(Running) < MaxConcurrent

(* The copy collectAll polls, and its results slice *)
SnapshotTargetsOnce == IF cycle = 0 THEN targets ELSE work
SnapshotTargets == targets
NewResultsReused == result
NewResults == [n \in Names |-> Nil]

(* The errgroup's context once a goroutine has failed its target: the          *)
(* goroutines return nil, so nothing is cancelled                              *)
CtxAfterFailureCancel == IF ctx = "live" THEN "cancelled" ELSE ctx
CtxAfterFailure == ctx

(* The counter of the client that was polled *)
RequestErrorsOfNew(n, counters) == counters[targets.gen][n]
RequestErrors(n, counters) == counters[work.gen][n]

(* g.Wait *)
Wait == \A n \in work.names : task[n] = "done"

(* The case ctx.Done() of Run's select *)
DoneBehindTick == shutdown /\ ~tick
Done == shutdown

(* PerTarget of the Snapshot: nil results are skipped *)
BuildSnapshotNoSkip(res) == res
BuildSnapshot(res) ==
    [n \in {m \in Names : res[m] # Nil} |-> res[n]]

EmptyStore == [cycle |-> 0, gen |-> 0, per |-> [n \in {} |-> Nil]]

(* NewCollector and NewSnapshotStore, before main.go:179 starts the goroutine *)
Init ==
    /\ targets \in [names : (SUBSET Names) \ {{}}, gen : {0}]
    /\ errs = [g \in 0 .. MaxReloads |-> [n \in Names |-> 0]]
    /\ pc = "boot"
    /\ work = targets
    /\ task = [n \in Names |-> "none"]
    /\ result = [n \in Names |-> Nil]
    /\ cycle = 0
    /\ ctx = "live"
    /\ tick = FALSE
    /\ store = EmptyStore
    /\ shutdown = FALSE
    /\ stale = 0

-----------------------------------------------------------------------------
(* The head of collectAll: snapshotTargets, a fresh results slice, one       *)
(* goroutine per target, all under the caller's context.                     *)
BeginCycle ==
    /\ pc' = "collect"
    /\ cycle' = cycle + 1
    /\ work' = SnapshotTargets
    /\ task' = [n \in Names |-> IF n \in work'.names THEN "queued" ELSE "none"]
    /\ result' = NewResults
    /\ ctx' = IF shutdown THEN "cancelled" ELSE "live"
    /\ UNCHANGED <<targets, errs, store, shutdown, stale>>

(* collectFirstCycle, the first thing the goroutine does *)
FirstCycle ==
    /\ pc = "boot"
    /\ BeginCycle
    /\ UNCHANGED tick

(* Run's select takes a tick.  When the context is cancelled as well, select  *)
(* picks either case at random, so the action does not look at shutdown.      *)
NextCycle ==
    /\ pc = "idle"
    /\ tick
    /\ cycle < MaxCycles
    /\ BeginCycle
    /\ tick' = FALSE

(* Run's select takes ctx.Done().  The first cycle never stops early. *)
Stop ==
    /\ pc = "idle"
    /\ Done
    /\ pc' = "stopped"
    /\ UNCHANGED <<targets, errs, work, task, result, cycle, ctx, tick, store,
                   shutdown, stale>>

(* The ticker exists once Run has been entered, and drops a tick that finds  *)
(* its channel full.                                                         *)
Tick ==
    /\ pc = "idle" \/ (pc = "collect" /\ cycle > 1)
    /\ ~tick
    /\ tick' = TRUE
    /\ UNCHANGED <<targets, errs, pc, work, task, result, cycle, ctx, store,
                   shutdown, stale>>

(* g.Go admits the goroutine of target n *)
Begin(n) ==
    /\ task[n] = "queued"
    /\ MayStart
    /\ task' = [task EXCEPT ![n] = "primary"]
    /\ UNCHANGED <<targets, errs, pc, work, result, cycle, ctx, tick, store,
                   shutdown, stale>>

(* GET /cluster/resources fails: a degraded result.  A reply that does not   *)
(* decode fails without counting; a call cut off by its context counts.      *)
PrimaryFails(n) ==
    /\ task[n] = "primary"
    /\ \E counted \in {0, 1} :
          /\ ctx # "live" => counted = 1
          /\ errs' = [errs EXCEPT ![work.gen][n] = @ + counted]
    /\ result' = [result EXCEPT ![n] =
                    [up |-> FALSE, cause |-> IF ctx = "live" THEN "api" ELSE ctx,
                     errors |-> RequestErrors(n, errs'), at |-> cycle]]
    /\ task' = [task EXCEPT ![n] = "done"]
    /\ ctx' = CtxAfterFailure
    /\ UNCHANGED <<targets, pc, work, cycle, tick, store, shutdown, stale>>

(* GET /cluster/resources succeeds, which takes a live context *)
PrimarySucceeds(n) ==
    /\ task[n] = "primary"
    /\ ctx = "live"
    /\ task' = [task EXCEPT ![n] = "detail"]
    /\ UNCHANGED <<targets, errs, pc, work, result, cycle, ctx, tick, store,
                   shutdown, stale>>

(* One of the later calls fails and counts; collection goes on *)
DetailFails(n) ==
    /\ task[n] = "detail"
    /\ errs[work.gen][n] < MaxErrors
    /\ errs' = [errs EXCEPT ![work.gen][n] = @ + 1]
    /\ UNCHANGED <<targets, pc, work, task, result, cycle, ctx, tick, store,
                   shutdown, stale>>

(* The tail of collectTarget: the counter is read after every call returned *)
Finish(n) ==
    /\ task[n] = "detail"
    /\ result' = [result EXCEPT ![n] =
                    [up |-> TRUE, cause |-> "none",
                     errors |-> RequestErrors(n, errs), at |-> cycle]]
    /\ task' = [task EXCEPT ![n] = "done"]
    /\ UNCHANGED <<targets, errs, pc, work, cycle, ctx, tick, store, shutdown,
                   stale>>

(* g.Wait has returned: index the results and swap the published pointer *)
Publish ==
    /\ pc = "collect"
    /\ Wait
    /\ store' = [cycle |-> cycle, gen |-> work.gen, per |-> BuildSnapshot(result)]
    /\ stale' = IF work.gen # targets.gen THEN stale + 1 ELSE stale
    /\ pc' = "idle"
    /\ UNCHANGED <<targets, errs, work, task, result, cycle, ctx, tick, shutdown>>

-----------------------------------------------------------------------------
(* main.go:73 hands over freshly built clients.  ReloadMargin keeps cycles to   *)
(* run after the swap, for it to show in.                                      *)
SetTargets(S) ==
    /\ targets.gen < MaxReloads
    /\ cycle + ReloadMargin <= MaxCycles
    /\ targets' = [names |-> S, gen |-> targets.gen + 1]
    /\ stale' = 0
    /\ UNCHANGED <<errs, pc, work, task, result, cycle, ctx, tick, store, shutdown>>

(* run() calls cancel(): every context derived from it is done *)
Shutdown ==
    /\ ~shutdown
    /\ shutdown' = TRUE
    /\ ctx' = IF ctx = "live" THEN "cancelled" ELSE ctx
    /\ UNCHANGED <<targets, errs, pc, work, task, result, cycle, tick, store, stale>>

(* The first cycle's own deadline, five seconds more than one target may take: *)
(* only a cycle in which some target had to queue can reach it.                *)
ExpireFirst ==
    /\ pc = "collect" /\ cycle = 1 /\ ctx = "live"
    /\ MaxConcurrent > 0 /\ Cardinality(work.names) > MaxConcurrent
    /\ ctx' = "deadline"
    /\ UNCHANGED <<targets, errs, pc, work, task, result, cycle, tick, store,
                   shutdown, stale>>

Terminated == pc = "stopped" /\ UNCHANGED vars

Poll(n) == Begin(n) \/ PrimaryFails(n) \/ PrimarySucceeds(n) \/ DetailFails(n)
           \/ Finish(n)

Next ==
    \/ FirstCycle \/ NextCycle \/ Stop \/ Tick \/ Publish
    \/ \E n \in Names : Poll(n)
    \/ \E S \in (SUBSET Names) \ {{}} : SetTargets(S)
    \/ Shutdown \/ ExpireFirst \/ Terminated

(* Every call returns (per-target timeout), goroutines are scheduled and the   *)
(* ticker ticks.  Stop is strong: a select whose two cases are ready time and  *)
(* again picks each of them eventually.                                        *)
Fairness ==
    /\ WF_vars(FirstCycle) /\ WF_vars(NextCycle) /\ WF_vars(Tick)
    /\ WF_vars(Publish) /\ SF_vars(Stop)
    /\ \A n \in Names : /\ WF_vars(Begin(n))
                        /\ WF_vars(PrimaryFails(n) \/ PrimarySucceeds(n))
                        /\ WF_vars(Finish(n))

Spec == Init /\ [][Next]_vars
FairSpec == Spec /\ Fairness

-----------------------------------------------------------------------------
(* The types; every published entry is a result, none an empty slot (snapshot.go:32). *)
TypeOK ==
    /\ targets \in TargetSets
    /\ errs \in [0 .. MaxReloads -> [Names -> Nat]]
    /\ pc \in {"boot", "collect", "idle", "stopped"}
    /\ work \in TargetSets
    /\ task \in [Names -> {"none", "queued", "primary", "detail", "done"}]
    /\ result \in [Names -> TargetSnapshots \cup {Nil}]
    /\ cycle \in Nat
    /\ ctx \in {"live", "deadline", "cancelled"}
    /\ tick \in BOOLEAN
    /\ store.cycle \in Nat /\ store.gen \in 0 .. MaxReloads
    /\ DOMAIN store.per \subseteq Names
    /\ \A n \in DOMAIN store.per : store.per[n] \in TargetSnapshots
    /\ shutdown \in BOOLEAN
    /\ stale \in Nat

(* A published snapshot is one whole cycle: every target of the copy the cycle *)
(* took has its entry, also those that failed, no other target has one, and    *)
(* every entry was taken in that same cycle (collector.go:78-94 with the nil   *)
(* skip of BuildSnapshot).                                                     *)
OneWholeCycle ==
    /\ pc \in {"idle", "stopped"} => DOMAIN store.per = work.names
    /\ \A n \in DOMAIN store.per : store.per[n].at = store.cycle

(* No more targets are polled at once than maxConcurrentTargets allows, and    *)
(* the polls of a cycle are over before its snapshot is out: no goroutine of   *)
(* an old cycle runs beside a new one (errgroup SetLimit and Wait).            *)
BoundedPolls ==
    /\ MaxConcurrent > 0 => Cardinality(Running) <= MaxConcurrent
    /\ pc # "collect" => Running = {}

(* A target removed or replaced by a reload is published at most once more: by *)
(* the cycle that had copied it before the swap (SetTargets, snapshotTargets). *)
StaleAtMostOnce == stale <= 1

(* pve_request_errors_total of a fresh snapshot is the client's counter, with  *)
(* every failure of the poll it reports, whatever reloads happened meanwhile   *)
(* (collector.go:115 and 169 read the counter of the target they polled).      *)
CounterCurrent ==
    pc = "idle" => \A n \in DOMAIN store.per :
                      store.per[n].errors = errs[store.gen][n]

(* One target's failure never cuts another one's poll: an entry that says its  *)
(* context was done means run() shut down, or the first cycle ran out of time  *)
(* with more targets than slots (goroutines return nil, so the errgroup never  *)
(* cancels gctx).                                                              *)
FailureIsolated ==
    \A n \in DOMAIN store.per :
        /\ store.per[n].cause = "cancelled" => shutdown
        /\ store.per[n].cause = "deadline" =>
              store.cycle = 1 /\ Cardinality(DOMAIN store.per) > MaxConcurrent

(* As long as a client lives its published counter never goes down.            *)
ClientCounterGrows ==
    [][\A n \in DOMAIN store.per \cap DOMAIN store'.per :
          store'.gen = store.gen => store'.per[n].errors >= store.per[n].errors
      ]_store

Promise == INSTANCE SnapshotModel WITH snap <- store

(* Each step of the store is one of ADR-0002's whole replacements (Store).      *)
ImplementsSnapshotModel == Promise!Spec

(* A cycle that starts is published, however its targets fail, wait for a slot *)
(* or are cut off by a shutdown.                                               *)
CyclePublished == pc = "collect" ~> pc = "idle"

(* A reloaded target set reaches the backends unless another one or a shutdown *)
(* overtakes it.                                                               *)
ReloadTakesEffect ==
    \A g \in 0 .. MaxReloads :
        targets.gen = g ~>
            \/ shutdown \/ targets.gen # g
            \/ store.cycle > 0 /\ store.gen = g /\ DOMAIN store.per = targets.names

(* A cancelled loop ends, even while ticks keep competing with ctx.Done().     *)
StopsAfterShutdown == shutdown ~> pc = "stopped"

-----------------------------------------------------------------------------
(* docs/metrics.md calls pve_request_errors_total a monotonic counter over the *)
(* life of the process: the series of one cluster never goes down.             *)
ProcessLifetimeCounter ==
    [][\A n \in DOMAIN store.per \cap DOMAIN store'.per :
          store'.per[n].errors >= store.per[n].errors]_store
=============================================================================
