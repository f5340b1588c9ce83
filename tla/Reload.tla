------------------------------- MODULE Reload -------------------------------
(***************************************************************************)
(* Configuration hot reload: the file an operator edits, the watcher's and *)
(* the SIGHUP handler's goroutines (internal/config/watcher.go), the       *)
(* SafeConfig they swap (internal/models/safe_config.go) and the target    *)
(* set they hand to the collector (server.ReloadConfig of main.go).        *)
(*                                                                         *)
(* Both goroutines call ReloadConfig, and nothing serialises the two: only *)
(* the swap inside SafeConfig and the one inside SetTargets are atomic.    *)
(* HupBesideWatch says whether the operator signals an exporter whose file *)
(* watch works as well.                                                    *)
(***************************************************************************)
EXTENDS Naturals

CONSTANTS
    Clusters,        \* cluster lists (with their resolved secrets) a file may hold
    Settings,        \* everything else a file may hold
    Invalid,         \* a file LoadConfig rejects, or one caught half-written
    HupBesideWatch,  \* SIGHUPs are sent also while the file is watched
    MaxEdits,        \* bound: changes of the file
    MaxSignals       \* bound: SIGHUPs sent

Configs == [clusters : Clusters, settings : Settings]

ASSUME ReloadAssumption ==
    /\ Invalid \notin Configs
    /\ HupBesideWatch \in BOOLEAN
    /\ MaxEdits \in Nat /\ MaxSignals \in Nat

Reloaders == {"watcher", "sighup"}

VARIABLES
    file,      \* the file's content
    safe,      \* SafeConfig.c
    targets,   \* the cluster list the collector's targets were built from
    rebuilds,  \* calls of SetTargets so far
    watch,     \* none (still starting), on, or off (WatchConfigFile failed)
    events,    \* file events not yet taken by the watcher
    hup,       \* the one-slot signal channel
    pc,        \* of each goroutine: idle, read, swap, get, set
    local,     \* what its reload has in hand
    missed,    \* the file changed with nobody told, and was not read since
    edits, signals

vars == <<file, safe, targets, rebuilds, watch, events, hup, pc, local,
          missed, edits, signals>>

Init ==
    /\ file \in Configs
    /\ safe = file
    /\ targets = file.clusters
    /\ rebuilds = 0
    /\ watch = "none"
    /\ events = 0
    /\ hup = FALSE
    /\ pc = [r \in Reloaders |-> "idle"]
    /\ local = [r \in Reloaders |-> Invalid]
    /\ missed = FALSE
    /\ edits = 0 /\ signals = 0

-----------------------------------------------------------------------------
(* Whether the watcher is told of a change.  It takes writes to the file's own    *)
(* name and its creation for one: no event comes where a link beside the file is  *)
(* swapped, as in a mounted ConfigMap, nor where the kernel's queue overflows.    *)
Told == IF watch = "on" THEN BOOLEAN ELSE {FALSE}

(* What it is told waits for it, also while it reloads *)
EventsAfterEditDropped(told) ==
    IF told /\ pc["watcher"] = "idle" THEN events + 1 ELSE events
EventsAfterEdit(told) == IF told THEN events + 1 ELSE events

(* LoadConfig's error, logged by the goroutine, which then waits again *)
AfterLoadExit(x) == IF x = Invalid THEN "exit" ELSE "swap"
AfterLoad(x) == IF x = Invalid THEN "idle" ELSE "swap"

(* reflect.DeepEqual on the cluster lists, before the swap *)
ClustersChangedAfterSwap(old, new) == new.clusters # new.clusters
ClustersChangedAny(old, new) == old # new
ClustersChanged(old, new) == old.clusters # new.clusters

(* main.go:196 and 197, some time after the file was first loaded *)
StartWatching ==
    /\ watch = "none"
    /\ watch' \in {"on", "off"}
    /\ UNCHANGED <<file, safe, targets, rebuilds, events, hup, pc, local,
                   missed, edits, signals>>

(* The file gets new content: a rename, or one of the writes of a save, whose  *)
(* intermediate contents LoadConfig may accept or not.                         *)
Edit(x) ==
    /\ edits < MaxEdits
    /\ x # file
    /\ file' = x
    /\ edits' = edits + 1
    /\ \E told \in Told : events' = EventsAfterEdit(told) /\ missed' = ~told
    /\ UNCHANGED <<safe, targets, rebuilds, watch, hup, pc, local, signals>>

(* SIGHUP; one that finds the channel full adds nothing *)
Signal ==
    /\ signals < MaxSignals
    /\ watch = "off" \/ (watch = "on" /\ HupBesideWatch)
    /\ hup' = TRUE
    /\ signals' = signals + 1
    /\ UNCHANGED <<file, safe, targets, rebuilds, watch, events, pc, local,
                   missed, edits>>

(* The goroutine takes its trigger and calls ReloadConfig *)
Trigger(r) ==
    /\ pc[r] = "idle"
    /\ \/ r = "watcher" /\ events > 0 /\ events' = events - 1 /\ UNCHANGED hup
       \/ r = "sighup" /\ hup /\ hup' = FALSE /\ UNCHANGED events
    /\ pc' = [pc EXCEPT ![r] = "read"]
    /\ UNCHANGED <<file, safe, targets, rebuilds, watch, local, missed,
                   edits, signals>>

(* LoadConfig: what is read is resolved and validated; an error ends the reload *)
Load(r) ==
    /\ pc[r] = "read"
    /\ local' = [local EXCEPT ![r] = file]
    /\ pc' = [pc EXCEPT ![r] = AfterLoad(file)]
    /\ missed' = FALSE
    /\ UNCHANGED <<file, safe, targets, rebuilds, watch, events, hup,
                   edits, signals>>

(* clustersChanged is computed and the configuration swapped under one lock *)
Swap(r) ==
    /\ pc[r] = "swap"
    /\ safe' = local[r]
    /\ pc' = [pc EXCEPT ![r] =
                IF ClustersChanged(safe, local[r]) THEN "get" ELSE "idle"]
    /\ UNCHANGED <<file, targets, rebuilds, watch, events, hup, local,
                   missed, edits, signals>>

(* safeCfg.Get(), the configuration as it is by now *)
GetConfig(r) ==
    /\ pc[r] = "get"
    /\ local' = [local EXCEPT ![r] = safe]
    /\ pc' = [pc EXCEPT ![r] = "set"]
    /\ UNCHANGED <<file, safe, targets, rebuilds, watch, events, hup,
                   missed, edits, signals>>

(* SetTargets(buildTargets(...)) *)
SetTargets(r) ==
    /\ pc[r] = "set"
    /\ targets' = local[r].clusters
    /\ rebuilds' = rebuilds + 1
    /\ pc' = [pc EXCEPT ![r] = "idle"]
    /\ UNCHANGED <<file, safe, watch, events, hup, local, missed, edits,
                   signals>>

ReloadConfig(r) == Trigger(r) \/ Load(r) \/ Swap(r) \/ GetConfig(r) \/ SetTargets(r)

AllIdle == \A r \in Reloaders : pc[r] = "idle"

(* Nothing left to react to: the process waits for the operator *)
Quiet == AllIdle /\ events = 0 /\ ~hup

Rest == Quiet /\ UNCHANGED vars

Next ==
    \/ StartWatching \/ Signal \/ Rest
    \/ \E x \in Configs \cup {Invalid} : Edit(x)
    \/ \E r \in Reloaders : ReloadConfig(r)

Spec == Init /\ [][Next]_vars

(* run() reaches line 197, and both goroutines keep running *)
FairSpec ==
    Spec /\ WF_vars(StartWatching) /\ \A r \in Reloaders : WF_vars(ReloadConfig(r))

-----------------------------------------------------------------------------
(* The types; a file that LoadConfig rejects is never in force, and a goroutine *)
(* whose reload failed is there for the next one (watcher.go:58).               *)
TypeOK ==
    /\ file \in Configs \cup {Invalid}
    /\ safe \in Configs
    /\ targets \in Clusters
    /\ rebuilds \in Nat
    /\ watch \in {"none", "on", "off"}
    /\ events \in Nat
    /\ hup \in BOOLEAN
    /\ pc \in [Reloaders -> {"idle", "read", "swap", "get", "set"}]
    /\ local \in [Reloaders -> Configs \cup {Invalid}]
    /\ missed \in BOOLEAN
    /\ edits \in 0 .. MaxEdits /\ signals \in 0 .. MaxSignals

(* Once the exporter has reacted to everything it was told, the configuration  *)
(* in force is the file's, as long as that one is valid, and the collector     *)
(* polls its clusters: no edit is overtaken by an older one, also when several *)
(* follow in a row and some were invalid or half-written.  An edit that nobody *)
(* was told of is caught up with by the next reload, whatever that is for.     *)
SettledOnFile ==
    Quiet /\ ~missed /\ file # Invalid => safe = file /\ targets = file.clusters

(* The collector's targets are those of the configuration in force             *)
(* (main.go:65: ReloadConfig "rebuilds clients if the target set changed").    *)
TargetsFollowConfig == AllIdle => targets = safe.clusters

(* Clients, whose failure counters a rebuild resets, are rebuilt only for a    *)
(* cluster list that differs from the one being polled.                        *)
RebuildOnlyOnChange == [][rebuilds' # rebuilds => targets' # targets]_vars

(* A valid file that stays in place is polled in the end if its change was     *)
(* seen, or if a SIGHUP follows it.                                            *)
EditTakesEffect ==
    \A x \in Configs :
        file = x /\ ~missed ~> file # x \/ targets = x.clusters
=============================================================================
