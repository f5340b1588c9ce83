---------------------------- MODULE ReloadProofs ----------------------------
(***************************************************************************)
(* Proofs about Reload for any cluster lists, settings and number of       *)
(* edits.  Type correctness holds however the two goroutines interleave.   *)
(* The rest assumes what the race run shows to be necessary: SIGHUP is not *)
(* used beside a working file watch.  Then one goroutine at a time reloads *)
(* and reloading settles on the file.                                      *)
(***************************************************************************)
EXTENDS Reload, TLAPS

(* A reload swaps in, or builds targets from, valid configurations only *)
InHand == \A r \in Reloaders : pc[r] \in {"swap", "set"} => local[r] \in Configs

Typed == TypeOK /\ InHand

(* Only the goroutine of the way changes are announced ever reloads *)
OneReloader ==
    /\ events > 0 \/ pc["watcher"] # "idle" => watch = "on"
    /\ hup \/ pc["sighup"] # "idle" => watch = "off"

(* A reload that rebuilds does so for the clusters of the configuration in     *)
(* force, and at all other times the targets are theirs                        *)
Rebuilding ==
    /\ \A r \in Reloaders :
          /\ pc[r] = "set" => local[r] = safe
          /\ pc[r] \in {"get", "set"} => safe.clusters # targets
    /\ (\A r \in Reloaders : pc[r] \notin {"get", "set"}) => targets = safe.clusters

(* With nothing more to be told, the reload in progress has the file in hand *)
UpToDate ==
    ~missed /\ events = 0 =>
        /\ AllIdle /\ file # Invalid => safe = file
        /\ \A r \in Reloaders :
              /\ pc[r] = "swap" => local[r] = file
              /\ pc[r] \in {"get", "set"} => safe = file

IInv == Typed /\ OneReloader /\ Rebuilding /\ UpToDate

-----------------------------------------------------------------------------
(* The first load is valid. *)
LEMMA InitTyped == Init => Typed
  <1> SUFFICES ASSUME Init PROVE Typed
    OBVIOUS
  <1>1. 0 \in 0 .. MaxEdits /\ 0 \in 0 .. MaxSignals
    BY ReloadAssumption
  <1>2. file \in Configs /\ file.clusters \in Clusters /\ file.settings \in Settings
    BY DEF Init, Configs
  <1>3. TypeOK
    BY <1>1, <1>2 DEF Init, TypeOK
  <1>4. InHand
    BY DEF Init, InHand
  <1> QED
    BY <1>3, <1>4 DEF Typed

(* Every step keeps the types, and only a valid file gets past Load. *)
LEMMA NextTyped == Typed /\ [Next]_vars => Typed'
  <1> SUFFICES ASSUME Typed, [Next]_vars PROVE Typed'
    OBVIOUS
  <1> USE ReloadAssumption DEF Typed, TypeOK, InHand
  <1>1. CASE StartWatching
    BY <1>1 DEF StartWatching
  <1>2. CASE Signal
    BY <1>2 DEF Signal
  <1>3. ASSUME NEW x \in Configs \cup {Invalid}, Edit(x) PROVE Typed'
    <2>1. /\ UNCHANGED <<safe, targets, rebuilds, watch, hup, pc, local, signals>>
          /\ file' = x /\ edits < MaxEdits /\ edits' = edits + 1
      BY <1>3 DEF Edit
    <2>2. PICK told \in BOOLEAN : events' = EventsAfterEdit(told) /\ missed' = ~told
      BY <1>3 DEF Edit, Told
    <2>3. events' \in Nat /\ missed' \in BOOLEAN
      BY <2>2 DEF EventsAfterEdit
    <2> QED
      BY <2>1, <2>3
  <1>4. ASSUME NEW r \in Reloaders, ReloadConfig(r) PROVE Typed'
    <2>1. CASE Trigger(r)
      <3>1. events' \in Nat /\ hup' \in BOOLEAN
        <4>1. CASE events > 0 /\ events' = events - 1 /\ hup' = hup
          BY <4>1
        <4>2. CASE hup' = FALSE /\ events' = events
          BY <4>2
        <4> QED
          BY <2>1, <4>1, <4>2 DEF Trigger
      <3> QED
        BY <2>1, <3>1 DEF Trigger
    <2>2. CASE Load(r)
      BY <2>2 DEF Load, AfterLoad
    <2>3. CASE Swap(r)
      BY <2>3 DEF Swap
    <2>4. CASE GetConfig(r)
      BY <2>4 DEF GetConfig
    <2>5. CASE SetTargets(r)
      <3>1. local[r].clusters \in Clusters
        BY <2>5 DEF SetTargets, Configs
      <3> QED
        BY <2>5, <3>1 DEF SetTargets
    <2> QED
      BY <1>4, <2>1, <2>2, <2>3, <2>4, <2>5 DEF ReloadConfig
  <1>5. CASE UNCHANGED vars
    BY <1>5 DEF vars
  <1> QED
    BY <1>1, <1>2, <1>3, <1>4, <1>5 DEF Next, Rest

(* Every variable keeps its type, also when both goroutines reload at once: no *)
(* configuration that LoadConfig rejects is ever in force.                     *)
THEOREM ReloadTypeOK == Spec => []TypeOK
  <1>1. Typed => TypeOK
    BY DEF Typed
  <1> QED
    BY <1>1, InitTyped, NextTyped, PTL DEF Spec

-----------------------------------------------------------------------------
(* Nothing is being reloaded at the start. *)
LEMMA InitIInv == Init => IInv
  BY InitTyped DEF Init, IInv, OneReloader, Rebuilding, UpToDate, AllIdle, Reloaders

(* A step of the one goroutine that reloads keeps the invariant. *)
LEMMA ReloadStepIInv ==
  ASSUME IInv, Typed', NEW r \in Reloaders, ReloadConfig(r)
  PROVE  IInv'
  <1> USE DEF IInv
  <1> DEFINE other == IF r = "watcher" THEN "sighup" ELSE "watcher"
  <1>1. /\ Reloaders = {r, other} /\ r # other
        /\ pc \in [Reloaders -> {"idle", "read", "swap", "get", "set"}]
        /\ local \in [Reloaders -> Configs \cup {Invalid}]
        /\ events \in Nat
    BY DEF Reloaders, Typed, TypeOK
  <1>2. pc[other] = "idle"
    BY <1>1 DEF OneReloader, Reloaders, ReloadConfig, Trigger, Load, Swap, GetConfig,
                SetTargets
  <1>3. OneReloader'
    BY <1>1 DEF OneReloader, Reloaders, ReloadConfig, Trigger, Load, AfterLoad, Swap,
                GetConfig, SetTargets
  <1> HIDE DEF other
  <1>4. CASE Trigger(r)
    <2>1. /\ pc' = [pc EXCEPT ![r] = "read"] /\ pc[r] = "idle"
          /\ UNCHANGED <<file, safe, targets, local, missed>>
      BY <1>4 DEF Trigger
    <2>2. Rebuilding'
      BY <2>1, <1>1, <1>2 DEF Rebuilding
    <2>3. UpToDate'
      BY <2>1, <1>1, <1>2 DEF UpToDate, AllIdle
    <2> QED
      BY <1>3, <2>2, <2>3
  <1>5. CASE Load(r)
    <2>1. /\ pc[r] = "read" /\ pc' = [pc EXCEPT ![r] = AfterLoad(file)]
          /\ local' = [local EXCEPT ![r] = file]
          /\ UNCHANGED <<file, safe, targets>>
      BY <1>5 DEF Load
    <2>2. Rebuilding'
      BY <2>1, <1>1, <1>2 DEF Rebuilding, AfterLoad
    <2>3. UpToDate'
      BY <2>1, <1>1, <1>2 DEF UpToDate, AllIdle, AfterLoad
    <2> QED
      BY <1>3, <2>2, <2>3
  <1>6. CASE Swap(r)
    <2>1. /\ pc[r] = "swap" /\ safe' = local[r]
          /\ pc' = [pc EXCEPT ![r] = IF safe.clusters # local[r].clusters THEN "get" ELSE "idle"]
          /\ UNCHANGED <<file, targets, local, missed, events>>
      BY <1>6 DEF Swap, ClustersChanged
    <2>2. targets = safe.clusters
      BY <2>1, <1>1, <1>2 DEF Rebuilding
    <2>3. Rebuilding'
      BY <2>1, <2>2, <1>1, <1>2 DEF Rebuilding
    <2>4. UpToDate'
      BY <2>1, <1>1, <1>2 DEF UpToDate, AllIdle
    <2> QED
      BY <1>3, <2>3, <2>4
  <1>7. CASE GetConfig(r)
    <2>1. /\ pc[r] = "get" /\ pc' = [pc EXCEPT ![r] = "set"]
          /\ local' = [local EXCEPT ![r] = safe]
          /\ UNCHANGED <<file, safe, targets, missed, events>>
      BY <1>7 DEF GetConfig
    <2>2. Rebuilding'
      BY <2>1, <1>1, <1>2 DEF Rebuilding
    <2>3. UpToDate'
      BY <2>1, <1>1, <1>2 DEF UpToDate, AllIdle
    <2> QED
      BY <1>3, <2>2, <2>3
  <1>8. CASE SetTargets(r)
    <2>1. /\ pc[r] = "set" /\ pc' = [pc EXCEPT ![r] = "idle"]
          /\ targets' = local[r].clusters
          /\ UNCHANGED <<file, safe, local, missed, events>>
      BY <1>8 DEF SetTargets
    <2>2. local[r] = safe
      BY <2>1 DEF Rebuilding
    <2>3. Rebuilding'
      BY <2>1, <2>2, <1>1, <1>2 DEF Rebuilding
    <2>4. UpToDate'
      BY <2>1, <1>1, <1>2 DEF UpToDate, AllIdle
    <2> QED
      BY <1>3, <2>3, <2>4
  <1> QED
    BY <1>4, <1>5, <1>6, <1>7, <1>8 DEF ReloadConfig

(* So does every other step, as long as SIGHUP and the watch are exclusive. *)
LEMMA NextIInv ==
  ASSUME ~HupBesideWatch
  PROVE  IInv /\ [Next]_vars => IInv'
  <1> SUFFICES ASSUME IInv, [Next]_vars PROVE IInv'
    OBVIOUS
  <1> USE DEF IInv
  <1>1. Typed'
    BY NextTyped
  <1>2. CASE StartWatching
    BY <1>1, <1>2 DEF StartWatching, OneReloader, Rebuilding, UpToDate, AllIdle
  <1>3. CASE Signal
    BY <1>1, <1>3 DEF Signal, OneReloader, Rebuilding, UpToDate, AllIdle
  <1>4. ASSUME NEW x \in Configs \cup {Invalid}, Edit(x) PROVE IInv'
    <2>1. PICK told \in Told : events' = EventsAfterEdit(told) /\ missed' = ~told
      BY <1>4 DEF Edit
    <2>2. /\ events' \in {events, events + 1} /\ (events' # events => watch = "on")
          /\ missed' \/ events' > 0
      <3>1. CASE told
        <4>1. watch = "on"
          BY <3>1 DEF Told
        <4>2. events' = events + 1
          BY <2>1, <3>1 DEF EventsAfterEdit
        <4> QED
          BY <4>1, <4>2 DEF Typed, TypeOK
      <3>2. CASE ~told
        <4>1. events' = events
          BY <2>1, <3>2 DEF EventsAfterEdit
        <4>2. missed'
          BY <2>1, <3>2
        <4> QED
          BY <4>1, <4>2
      <3> QED
        BY <3>1, <3>2
    <2>3. UpToDate'
      BY <2>2, <1>1 DEF UpToDate, Typed, TypeOK
    <2>4. UNCHANGED <<safe, targets, watch, hup, pc, local>>
      BY <1>4 DEF Edit
    <2>5. OneReloader' /\ Rebuilding'
      BY <2>2, <2>4 DEF OneReloader, Rebuilding, Typed, TypeOK
    <2> QED
      BY <1>1, <2>3, <2>5
  <1>5. CASE \E r \in Reloaders : ReloadConfig(r)
    BY <1>1, <1>5, ReloadStepIInv
  <1>6. CASE UNCHANGED vars
    BY <1>1, <1>6 DEF vars, OneReloader, Rebuilding, UpToDate, AllIdle
  <1> QED
    BY <1>2, <1>3, <1>4, <1>5, <1>6 DEF Next, Rest

(* Without a SIGHUP beside a working watch at most one goroutine reloads at a   *)
(* time, works on the file's content or has an event left to catch up with, and *)
(* leaves the targets of the configuration in force (ReloadConfig, main.go:66). *)
THEOREM SerialReloadInductive ==
  ASSUME ~HupBesideWatch
  PROVE  Spec => []IInv
  BY InitIInv, NextIInv, PTL DEF Spec

(* With one way of announcing changes, an exporter at rest runs the file's     *)
(* configuration (SafeConfig.ReloadConfig) and polls its clusters.             *)
THEOREM SerialReloadSettles ==
  ASSUME ~HupBesideWatch
  PROVE  Spec => []SettledOnFile
  <1>1. IInv => SettledOnFile
    BY DEF IInv, Rebuilding, UpToDate, SettledOnFile, Quiet, AllIdle
  <1> QED
    BY <1>1, SerialReloadInductive, PTL

(* ... and whenever no reload is in progress the collector's targets are those *)
(* of the configuration in force (server.ReloadConfig, main.go:65-76).         *)
THEOREM SerialReloadTargetsFollow ==
  ASSUME ~HupBesideWatch
  PROVE  Spec => []TargetsFollowConfig
  <1>1. IInv => TargetsFollowConfig
    BY DEF IInv, Rebuilding, TargetsFollowConfig, AllIdle
  <1> QED
    BY <1>1, SerialReloadInductive, PTL

(* Clients are rebuilt only for a cluster list that differs from the polled    *)
(* one, so a reload that changes nothing resets no counter.                    *)
THEOREM SerialReloadRebuildsOnChange ==
  ASSUME ~HupBesideWatch
  PROVE  Spec => RebuildOnlyOnChange
  <1>1. ASSUME IInv, [Next]_vars PROVE [rebuilds' # rebuilds => targets' # targets]_vars
    <2>1. ASSUME NEW r \in Reloaders, SetTargets(r) PROVE targets' # targets
      BY <1>1, <2>1 DEF SetTargets, IInv, Rebuilding
    <2>2. ASSUME Next, rebuilds' # rebuilds PROVE \E r \in Reloaders : SetTargets(r)
      BY <2>2 DEF Next, StartWatching, Signal, Rest, vars, Edit, ReloadConfig, Trigger,
                  Load, Swap, GetConfig
    <2> QED
      BY <1>1, <2>1, <2>2
  <1> QED
    BY <1>1, SerialReloadInductive, PTL DEF Spec, RebuildOnlyOnChange
=============================================================================
