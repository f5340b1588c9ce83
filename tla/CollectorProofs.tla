--------------------------- MODULE CollectorProofs ---------------------------
(***************************************************************************)
(* Proofs about Collector, for any set of names, limit and bounds: its     *)
(* safety properties from one inductive invariant, and that every step of  *)
(* the store is a step of SnapshotModel.                                   *)
(***************************************************************************)
EXTENDS Collector, TLAPS, FiniteSetTheorems

(* Where the goroutines of a cycle can be in each phase of the loop *)
PhaseInv ==
    /\ pc = "boot" <=> cycle = 0
    /\ pc = "boot" => \A n \in Names : task[n] = "none"
    /\ pc = "boot" => store.cycle = 0
    /\ store.cycle = 0 => store.gen = 0 /\ DOMAIN store.per = {}
    /\ pc # "boot" => \A n \in Names : task[n] = "none" <=> n \notin work.names
    /\ pc \in {"idle", "stopped"} => \A n \in work.names : task[n] = "done"

(* What a filled result slot says *)
ResultInv ==
    /\ ctx = "cancelled" => shutdown
    /\ ctx = "deadline" => cycle = 1 /\ Cardinality(work.names) > MaxConcurrent
    /\ \A n \in Names :
          /\ result[n] # Nil <=> task[n] = "done"
          /\ result[n] # Nil =>
                /\ result[n].at = cycle
                /\ result[n].errors = errs[work.gen][n]
                /\ result[n].cause = "cancelled" => shutdown
                /\ result[n].cause = "deadline" =>
                      cycle = 1 /\ Cardinality(work.names) > MaxConcurrent

(* How the published snapshot lags behind the cycle in progress *)
StoreInv ==
    /\ store.gen <= work.gen /\ work.gen <= targets.gen
    /\ work.gen = targets.gen => work.names = targets.names
    /\ pc = "collect" => store.cycle + 1 = cycle
    /\ pc \in {"idle", "stopped"} =>
          /\ store.cycle = cycle
          /\ store.gen = work.gen
          /\ \A n \in DOMAIN store.per : store.per[n].errors = errs[work.gen][n]
    /\ store.cycle > 0 /\ store.gen = work.gen => DOMAIN store.per = work.names
    /\ \A n \in DOMAIN store.per :
          /\ store.per[n].at = store.cycle
          /\ store.per[n].errors <= errs[store.gen][n]
    /\ FailureIsolated

(* A cycle that polls a replaced target set was under way when SetTargets came *)
StaleInv ==
    /\ stale <= 1
    /\ pc = "collect" /\ work.gen # targets.gen => stale = 0

LimitInv == MaxConcurrent > 0 => Cardinality(Running) <= MaxConcurrent

IInv == TypeOK /\ PhaseInv /\ ResultInv /\ StoreInv /\ StaleInv /\ LimitInv

-----------------------------------------------------------------------------
(* Type correctness, for every value of the constants. *)
LEMMA InitTypeOK == Init => TypeOK
  <1> USE CollectorAssumption
  <1> SUFFICES ASSUME Init PROVE TypeOK
    OBVIOUS
  <1>1. targets \in TargetSets /\ work \in TargetSets
    BY DEF Init, TargetSets
  <1>2. store.cycle = 0 /\ store.gen = 0 /\ DOMAIN store.per = {}
    BY DEF Init, EmptyStore
  <1>3. /\ errs \in [0 .. MaxReloads -> [Names -> Nat]]
        /\ task \in [Names -> {"none", "queued", "primary", "detail", "done"}]
        /\ result \in [Names -> TargetSnapshots \cup {Nil}]
    BY DEF Init
  <1>4. /\ pc \in {"boot", "collect", "idle", "stopped"} /\ cycle \in Nat
        /\ ctx \in {"live", "deadline", "cancelled"} /\ tick \in BOOLEAN
        /\ shutdown \in BOOLEAN /\ stale \in Nat
    BY DEF Init
  <1>5. 0 \in 0 .. MaxReloads
    OBVIOUS
  <1> QED
    BY <1>1, <1>2, <1>3, <1>4, <1>5 DEF TypeOK

(* Every action keeps the types. *)
LEMMA NextTypeOK == TypeOK /\ [Next]_vars => TypeOK'
  <1> USE CollectorAssumption
  <1> SUFFICES ASSUME TypeOK, [Next]_vars PROVE TypeOK'
    OBVIOUS
  <1> USE DEF TypeOK
  <1>1. ASSUME BeginCycle, tick' \in BOOLEAN PROVE TypeOK'
    BY <1>1 DEF BeginCycle, SnapshotTargets, NewResults
  <1>2. CASE FirstCycle
    BY <1>1, <1>2 DEF FirstCycle
  <1>3. CASE NextCycle
    BY <1>1, <1>3 DEF NextCycle
  <1>4. CASE Stop
    BY <1>4 DEF Stop
  <1>5. CASE Tick
    BY <1>5 DEF Tick
  <1>6. CASE Publish
    <2>1. /\ store'.cycle = cycle /\ store'.gen = work.gen
          /\ store'.per = BuildSnapshot(result)
      BY <1>6 DEF Publish
    <2>2. /\ DOMAIN store'.per \subseteq Names
          /\ \A n \in DOMAIN store'.per : store'.per[n] \in TargetSnapshots
      BY <2>1 DEF BuildSnapshot
    <2>3. work.gen \in 0 .. MaxReloads
      BY DEF TargetSets
    <2> QED
      BY <1>6, <2>1, <2>2, <2>3 DEF Publish
  <1>7. ASSUME NEW n \in Names, Poll(n) PROVE TypeOK'
    <2>1. work.gen \in 0 .. MaxReloads /\ errs[work.gen][n] \in Nat
      BY DEF TargetSets
    <2>2. CASE Begin(n)
      BY <2>2 DEF Begin
    <2>3. CASE PrimaryFails(n)
      <3>1. PICK counted \in {0, 1} :
              errs' = [errs EXCEPT ![work.gen][n] = @ + counted]
        BY <2>3 DEF PrimaryFails
      <3>2. errs' \in [0 .. MaxReloads -> [Names -> Nat]]
        BY <3>1, <2>1
      <3>3. errs'[work.gen][n] \in Nat
        BY <3>2, <2>1
      <3>4. [up |-> FALSE, cause |-> IF ctx = "live" THEN "api" ELSE ctx,
             errors |-> errs'[work.gen][n], at |-> cycle] \in TargetSnapshots
        BY <3>3 DEF TargetSnapshots, Causes
      <3> QED
        BY <2>3, <3>2, <3>4 DEF PrimaryFails, RequestErrors, CtxAfterFailure
    <2>4. CASE PrimarySucceeds(n)
      BY <2>4 DEF PrimarySucceeds
    <2>5. CASE DetailFails(n)
      BY <2>5, <2>1 DEF DetailFails
    <2>6. CASE Finish(n)
      <3>1. [up |-> TRUE, cause |-> "none",
             errors |-> errs[work.gen][n], at |-> cycle] \in TargetSnapshots
        BY <2>1 DEF TargetSnapshots, Causes
      <3> QED
        BY <2>6, <3>1 DEF Finish, RequestErrors
    <2> QED
      BY <1>7, <2>2, <2>3, <2>4, <2>5, <2>6 DEF Poll
  <1>8. ASSUME NEW S \in (SUBSET Names) \ {{}}, SetTargets(S) PROVE TypeOK'
    <2>1. targets.gen + 1 \in 0 .. MaxReloads
      BY <1>8 DEF SetTargets, TargetSets
    <2> QED
      BY <1>8, <2>1 DEF SetTargets, TargetSets
  <1>9. CASE Shutdown
    BY <1>9 DEF Shutdown
  <1>10. CASE ExpireFirst
    BY <1>10 DEF ExpireFirst
  <1>11. CASE UNCHANGED vars
    BY <1>11 DEF vars
  <1> QED
    BY <1>2, <1>3, <1>4, <1>5, <1>6, <1>7, <1>8, <1>9, <1>10, <1>11
       DEF Next, Terminated

(* Every variable of the collection loop keeps its type. *)
THEOREM CollectorTypeOK == Spec => []TypeOK
  BY InitTypeOK, NextTypeOK, PTL DEF Spec

-----------------------------------------------------------------------------
(* The inductive invariant, one lemma per kind of step. *)
LEMMA InitIInv == Init => IInv
  <1> SUFFICES ASSUME Init PROVE IInv
    OBVIOUS
  <1>1. TypeOK
    BY InitTypeOK
  <1>2. store.cycle = 0 /\ store.gen = 0 /\ DOMAIN store.per = {}
    BY DEF Init, EmptyStore
  <1>3. PhaseInv
    BY <1>2 DEF Init, PhaseInv
  <1>4. ResultInv
    BY DEF Init, ResultInv
  <1>5. StoreInv
    BY <1>2 DEF Init, StoreInv, FailureIsolated
  <1>6. StaleInv
    BY DEF Init, StaleInv
  <1>7. LimitInv
    <2>1. Running = {}
      BY DEF Init, Running
    <2> QED
      BY <2>1, FS_EmptySet, CollectorAssumption DEF LimitInv
  <1> QED
    BY <1>1, <1>3, <1>4, <1>5, <1>6, <1>7 DEF IInv

(* The limit survives a step that starts nothing. *)
LEMMA RunningShrinks ==
  ASSUME LimitInv, Running' \subseteq Running
  PROVE  LimitInv'
  <1>1. IsFiniteSet(Running)
    BY FS_Subset, CollectorAssumption DEF Running
  <1>2. /\ Cardinality(Running') \in Nat /\ Cardinality(Running) \in Nat
        /\ Cardinality(Running') <= Cardinality(Running)
    BY <1>1, FS_Subset, FS_CardinalityType
  <1> QED
    BY <1>2, CollectorAssumption DEF LimitInv

(* A cycle starts with nothing running and every slot empty. *)
LEMMA BeginCycleIInv ==
  ASSUME IInv, BeginCycle, pc \in {"boot", "idle"}, TypeOK'
  PROVE  IInv'
  <1> USE DEF IInv, BeginCycle, SnapshotTargets, NewResults
  <1> USE DEF TypeOK, TargetSets
  <1>1. PhaseInv'
    BY DEF PhaseInv
  <1>2. ResultInv'
    BY DEF ResultInv
  <1>3. StoreInv'
    BY DEF StoreInv, PhaseInv, FailureIsolated
  <1>4. StaleInv'
    BY DEF StaleInv
  <1>5. LimitInv'
    BY RunningShrinks DEF Running
  <1> QED
    BY <1>1, <1>2, <1>3, <1>4, <1>5

(* The results of a finished cycle become the store. *)
LEMMA PublishIInv ==
  ASSUME IInv, Publish, TypeOK'
  PROVE  IInv'
  <1> USE DEF IInv
  <1>1. /\ store'.cycle = cycle /\ store'.gen = work.gen
        /\ store'.per = [n \in {m \in Names : result[m] # Nil} |-> result[n]]
    BY DEF Publish, BuildSnapshot
  <1>2. DOMAIN store'.per = work.names
    BY <1>1 DEF Publish, Wait, ResultInv, PhaseInv, TypeOK, TargetSets
  <1>3. \A n \in work.names : store'.per[n] = result[n] /\ result[n] # Nil
    BY <1>1, <1>2
  <1>4. PhaseInv'
    <2>1. cycle > 0
      BY DEF Publish, PhaseInv, TypeOK
    <2> QED
      BY <1>1, <2>1 DEF PhaseInv, Publish, Wait, TypeOK
  <1>5. ResultInv'
    BY DEF ResultInv, Publish
  <1>6. StoreInv'
    <2>0. work.names \subseteq Names /\ work.gen \in 0 .. MaxReloads
      BY DEF TypeOK, TargetSets
    <2>1. \A n \in work.names :
            /\ store'.per[n].at = cycle
            /\ store'.per[n].errors = errs[work.gen][n]
            /\ store'.per[n].cause = "cancelled" => shutdown
            /\ store'.per[n].cause = "deadline" =>
                  cycle = 1 /\ Cardinality(work.names) > MaxConcurrent
      BY <1>3, <2>0 DEF ResultInv
    <2>2. \A n \in work.names : errs[work.gen][n] \in Nat
      BY <2>0 DEF TypeOK
    <2>3. pc' = "idle" /\ UNCHANGED <<targets, errs, work, cycle, shutdown>>
      BY DEF Publish
    <2>4. FailureIsolated'
      BY <1>1, <1>2, <2>1, <2>3 DEF FailureIsolated
    <2>5. \A n \in DOMAIN store'.per :
             /\ store'.per[n].at = store'.cycle
             /\ store'.per[n].errors = errs'[work'.gen][n]
             /\ store'.per[n].errors <= errs'[store'.gen][n]
      BY <1>1, <1>2, <2>1, <2>2, <2>3
    <2>6. /\ work.gen \in Nat /\ targets.gen \in Nat
          /\ work.gen <= targets.gen
          /\ work.gen = targets.gen => work.names = targets.names
      BY DEF StoreInv, TypeOK, TargetSets
    <2>7. work' = work /\ targets' = targets /\ cycle' = cycle
      BY <2>3
    <2>8. /\ store'.gen <= work'.gen /\ work'.gen <= targets'.gen
          /\ work'.gen = targets'.gen => work'.names = targets'.names
      BY <1>1, <2>6, <2>7
    <2>9. /\ pc' # "collect" /\ store'.cycle = cycle' /\ store'.gen = work'.gen
          /\ DOMAIN store'.per = work'.names
      BY <1>1, <1>2, <2>3, <2>7
    <2> QED
      BY <2>4, <2>5, <2>8, <2>9 DEF StoreInv
  <1>7. StaleInv'
    BY DEF StaleInv, Publish, TypeOK
  <1>8. LimitInv'
    BY RunningShrinks DEF Running, Publish
  <1> QED
    BY <1>4, <1>5, <1>6, <1>7, <1>8

(* A target's goroutine fills its own slot, and only with this cycle's result. *)
LEMMA PollIInv ==
  ASSUME IInv, NEW n \in Names, Poll(n), TypeOK'
  PROVE  IInv'
  <1> USE DEF IInv
  <1>1. /\ task[n] \notin {"none", "done"}
        /\ pc' = pc /\ work' = work /\ cycle' = cycle /\ ctx' = ctx
        /\ store' = store /\ shutdown' = shutdown /\ stale' = stale
        /\ targets' = targets
        /\ task' \in {[task EXCEPT ![n] = s] : s \in {"primary", "detail", "done"}}
           \/ task' = task
    BY DEF Poll, Begin, PrimaryFails, PrimarySucceeds, DetailFails, Finish,
           CtxAfterFailure
  <1>2. pc = "collect" /\ n \in work.names
    BY <1>1 DEF PhaseInv, TypeOK
  <1>3. /\ errs' = errs \/ \E k \in {0, 1} :
              errs' = [errs EXCEPT ![work.gen][n] = @ + k]
        /\ work.gen \in 0 .. MaxReloads
    BY DEF Poll, Begin, PrimaryFails, PrimarySucceeds, DetailFails, Finish, TypeOK,
           TargetSets
  <1>4. /\ \A g \in 0 .. MaxReloads, m \in Names : errs[g][m] <= errs'[g][m]
        /\ \A m \in Names \ {n} : errs'[work.gen][m] = errs[work.gen][m]
    <2>1. errs \in [0 .. MaxReloads -> [Names -> Nat]]
      BY DEF TypeOK
    <2>2. CASE errs' = errs
      BY <2>1, <2>2, <1>3
    <2>3. ASSUME NEW k \in {0, 1}, errs' = [errs EXCEPT ![work.gen][n] = @ + k]
          PROVE  /\ \A g \in 0 .. MaxReloads, m \in Names : errs[g][m] <= errs'[g][m]
                 /\ \A m \in Names \ {n} : errs'[work.gen][m] = errs[work.gen][m]
      <3>1. \A g \in 0 .. MaxReloads, m \in Names :
               errs'[g][m] = IF g = work.gen /\ m = n THEN errs[g][m] + k ELSE errs[g][m]
        BY <2>1, <2>3, <1>3
      <3>2. \A g \in 0 .. MaxReloads, m \in Names : errs[g][m] \in Nat
        BY <2>1
      <3> QED
        BY <3>1, <3>2, <1>3
    <2> QED
      BY <2>2, <2>3, <1>3
  <1>5. PhaseInv'
    BY <1>1, <1>2 DEF PhaseInv, TypeOK
  <1>6. ResultInv'
    <2>1. CASE task'[n] = "done"
      <3>1. result' = [result EXCEPT ![n] = result'[n]] /\ task' = [task EXCEPT ![n] = "done"]
        BY <2>1, <1>1 DEF Poll, Begin, PrimaryFails, PrimarySucceeds, DetailFails, Finish,
                     TypeOK
      <3>2. /\ result'[n].at = cycle /\ result'[n].errors = errs'[work.gen][n]
            /\ result'[n].cause \in {"none", "api", ctx}
            /\ result'[n] # Nil
        <4>1. CASE PrimaryFails(n)
          <5>1. result'[n] = [up |-> FALSE, cause |-> IF ctx = "live" THEN "api" ELSE ctx,
                              errors |-> errs'[work.gen][n], at |-> cycle]
            BY <4>1, <1>1 DEF PrimaryFails, RequestErrors, TypeOK
          <5>2. result'[n] \in TargetSnapshots
            BY <5>1, <1>3 DEF TargetSnapshots, Causes, TypeOK
          <5>3. result'[n] # Nil
            BY <5>2, NilAssumption
          <5> QED
            BY <5>1, <5>3
        <4>2. CASE Finish(n)
          <5>1. result'[n] = [up |-> TRUE, cause |-> "none",
                              errors |-> errs[work.gen][n], at |-> cycle]
            BY <4>2 DEF Finish, RequestErrors, TypeOK
          <5>2. result'[n] \in TargetSnapshots
            BY <5>1, <1>3 DEF TargetSnapshots, Causes, TypeOK
          <5>3. result'[n] # Nil /\ errs' = errs
            BY <5>2, <4>2, NilAssumption DEF Finish
          <5> QED
            BY <5>1, <5>3
        <4> QED
          BY <2>1, <1>1, <4>1, <4>2 DEF Poll, Begin, PrimarySucceeds, DetailFails, TypeOK
      <3>3. ctx \in {"live", "deadline", "cancelled"}
        BY DEF TypeOK
      <3> QED
        BY <3>1, <3>2, <3>3, <1>1, <1>4 DEF ResultInv, TypeOK
    <2>2. CASE task'[n] # "done"
      <3>1. result' = result /\ result[n] = Nil
        BY <2>2, <1>1 DEF Poll, Begin, PrimaryFails, PrimarySucceeds, DetailFails, Finish,
                     TypeOK, ResultInv
      <3> QED
        BY <2>2, <3>1, <1>1, <1>4 DEF ResultInv, TypeOK
    <2> QED
      BY <2>1, <2>2
  <1>7. StoreInv'
    <2>1. \A m \in DOMAIN store.per :
             /\ store.per[m].errors \in Nat
             /\ errs[store.gen][m] \in Nat /\ errs'[store.gen][m] \in Nat
             /\ errs[store.gen][m] <= errs'[store.gen][m]
      BY <1>1, <1>4 DEF TypeOK, TargetSnapshots
    <2> QED
      BY <1>1, <1>2, <2>1 DEF StoreInv, FailureIsolated
  <1>8. StaleInv'
    BY <1>1 DEF StaleInv
  <1>9. LimitInv'
    <2>1. CASE Begin(n)
      <3>1. Running' = Running \cup {n} /\ n \notin Running
        BY <2>1 DEF Begin, Running, TypeOK
      <3>2. IsFiniteSet(Running)
        BY FS_Subset, CollectorAssumption DEF Running
      <3>3. /\ Cardinality(Running') = Cardinality(Running) + 1
            /\ Cardinality(Running) \in Nat
        BY <3>1, <3>2, FS_AddElement, FS_CardinalityType
      <3> QED
        BY <2>1, <3>3, CollectorAssumption DEF Begin, MayStart, LimitInv
    <2>2. CASE ~Begin(n)
      <3>1. Running' \subseteq Running
        BY <2>2 DEF Poll, PrimaryFails, PrimarySucceeds, DetailFails, Finish, Running,
                     TypeOK
      <3> QED
        BY <3>1, RunningShrinks
    <2> QED
      BY <2>1, <2>2
  <1> QED
    BY <1>5, <1>6, <1>7, <1>8, <1>9

(* Steps that touch neither a task, a result nor the store *)
LEMMA QuietIInv ==
  ASSUME IInv, TypeOK', Stop \/ Tick \/ UNCHANGED vars
  PROVE  IInv'
  <1> USE DEF IInv
  <1>1. /\ UNCHANGED <<targets, errs, work, task, result, cycle, ctx, store, shutdown, stale>>
        /\ pc' = pc \/ (pc = "idle" /\ pc' = "stopped")
    BY DEF Stop, Tick, vars
  <1>2. PhaseInv'
    BY <1>1 DEF PhaseInv
  <1>3. ResultInv'
    BY <1>1 DEF ResultInv
  <1>4. StoreInv'
    BY <1>1 DEF StoreInv, FailureIsolated
  <1>5. StaleInv' /\ LimitInv'
    BY <1>1 DEF StaleInv, LimitInv, Running
  <1> QED
    BY <1>2, <1>3, <1>4, <1>5

(* The end of the cycle's context explains every entry cut off by it. *)
LEMMA ContextIInv ==
  ASSUME IInv, TypeOK', Shutdown \/ ExpireFirst
  PROVE  IInv'
  <1> USE DEF IInv
  <1>1. UNCHANGED <<targets, errs, pc, work, task, result, cycle, store, stale>>
    BY DEF Shutdown, ExpireFirst
  <1>2. /\ shutdown => shutdown'
        /\ ctx' = "cancelled" => shutdown'
        /\ ctx' = "deadline" => cycle = 1 /\ Cardinality(work.names) > MaxConcurrent
    BY DEF Shutdown, ExpireFirst, ResultInv
  <1>3. PhaseInv'
    BY <1>1 DEF PhaseInv
  <1>4. ResultInv'
    BY <1>1, <1>2 DEF ResultInv
  <1>5. StoreInv'
    BY <1>1, <1>2 DEF StoreInv, FailureIsolated
  <1>6. StaleInv' /\ LimitInv'
    BY <1>1 DEF StaleInv, LimitInv, Running
  <1> QED
    BY <1>3, <1>4, <1>5, <1>6

(* A swap of the target set leaves the cycle in progress to its own copy. *)
LEMMA SetTargetsIInv ==
  ASSUME IInv, TypeOK', NEW S \in (SUBSET Names) \ {{}}, SetTargets(S)
  PROVE  IInv'
  <1> USE DEF IInv
  <1>1. /\ UNCHANGED <<errs, pc, work, task, result, cycle, ctx, store, shutdown>>
        /\ targets'.gen = targets.gen + 1 /\ stale' = 0
    BY DEF SetTargets
  <1>2. targets.gen \in Nat /\ work.gen \in Nat
    BY DEF TypeOK, TargetSets
  <1>3. PhaseInv'
    BY <1>1 DEF PhaseInv
  <1>4. ResultInv'
    BY <1>1 DEF ResultInv
  <1>5. StoreInv'
    BY <1>1, <1>2 DEF StoreInv, FailureIsolated
  <1>6. StaleInv' /\ LimitInv'
    BY <1>1 DEF StaleInv, LimitInv, Running
  <1> QED
    BY <1>3, <1>4, <1>5, <1>6

(* Every step keeps the inductive invariant. *)
LEMMA NextIInv == IInv /\ [Next]_vars => IInv'
  <1> SUFFICES ASSUME IInv, [Next]_vars PROVE IInv'
    OBVIOUS
  <1>1. TypeOK'
    BY NextTypeOK DEF IInv
  <1>2. CASE FirstCycle \/ NextCycle
    BY <1>1, <1>2, BeginCycleIInv DEF FirstCycle, NextCycle
  <1>3. CASE Stop \/ Tick \/ UNCHANGED vars
    BY <1>1, <1>3, QuietIInv
  <1>4. CASE Publish
    BY <1>1, <1>4, PublishIInv
  <1>5. CASE \E n \in Names : Poll(n)
    BY <1>1, <1>5, PollIInv
  <1>6. CASE \E S \in (SUBSET Names) \ {{}} : SetTargets(S)
    BY <1>1, <1>6, SetTargetsIInv
  <1>7. CASE Shutdown \/ ExpireFirst
    BY <1>1, <1>7, ContextIInv
  <1> QED
    BY <1>2, <1>3, <1>4, <1>5, <1>6, <1>7 DEF Next, Terminated

(* The strengthening that every safety property below follows from is           *)
(* inductive: where each goroutine is, what its result slot then holds, what    *)
(* the store was made of, and how stale it may be (collectAll, SetTargets).     *)
THEOREM CollectorInductive == Spec => []IInv
  BY InitIInv, NextIInv, PTL DEF Spec

-----------------------------------------------------------------------------
(* The safety properties of the runs, for every number of targets, every      *)
(* limit, and any number of cycles and reloads.                               *)

(* A published snapshot is one whole cycle of one copy of the target set      *)
(* (collectAll, BuildSnapshot).                                               *)
THEOREM SnapshotIsOneWholeCycle == Spec => []OneWholeCycle
  <1>1. IInv => OneWholeCycle
    <2> SUFFICES ASSUME IInv PROVE OneWholeCycle
      OBVIOUS
    <2>1. pc \in {"idle", "stopped"} => store.cycle = cycle /\ cycle > 0
      BY DEF IInv, PhaseInv, StoreInv, TypeOK
    <2> QED
      BY <2>1 DEF IInv, StoreInv, OneWholeCycle
  <1> QED
    BY <1>1, CollectorInductive, PTL

(* The poll limit holds, and no poll outlives its cycle (SetLimit, Wait).     *)
THEOREM PollsAreBounded == Spec => []BoundedPolls
  <1>1. IInv => BoundedPolls
    BY DEF IInv, LimitInv, PhaseInv, BoundedPolls, Running, TypeOK
  <1> QED
    BY <1>1, CollectorInductive, PTL

(* A replaced target set is published at most once more (SetTargets racing    *)
(* snapshotTargets).                                                          *)
THEOREM ReplacedTargetsLeave == Spec => []StaleAtMostOnce
  <1>1. IInv => StaleAtMostOnce
    BY DEF IInv, StaleInv, StaleAtMostOnce
  <1> QED
    BY <1>1, CollectorInductive, PTL

(* A fresh snapshot carries the failure count of the clients it polled.       *)
THEOREM PublishedCounterIsCurrent == Spec => []CounterCurrent
  <1>1. IInv => CounterCurrent
    BY DEF IInv, StoreInv, CounterCurrent
  <1> QED
    BY <1>1, CollectorInductive, PTL

(* One target's failure never cuts another target's poll.                     *)
THEOREM FailuresAreIsolated == Spec => []FailureIsolated
  <1>1. IInv => FailureIsolated
    BY DEF IInv, StoreInv
  <1> QED
    BY <1>1, CollectorInductive, PTL

-----------------------------------------------------------------------------
(* What one step does to the published snapshot *)
LEMMA StoreStep ==
  ASSUME IInv, IInv', [Next]_vars, store' # store
  PROVE  /\ store'.cycle = store.cycle + 1
         /\ \A n \in DOMAIN store'.per : store'.per[n].at = store'.cycle
         /\ store'.gen \in Nat /\ store.gen \in Nat /\ store'.gen >= store.gen
         /\ store'.gen = store.gen =>
               \/ store.cycle = 0
               \/ /\ DOMAIN store'.per = DOMAIN store.per
                  /\ \A n \in DOMAIN store'.per :
                        store'.per[n].errors >= store.per[n].errors
  <1>1. Publish
    BY DEF Next, FirstCycle, NextCycle, BeginCycle, Stop, Tick, Poll, Begin, PrimaryFails,
           PrimarySucceeds, DetailFails, Finish, SetTargets, Shutdown, ExpireFirst,
           Terminated, vars
  <1>2. /\ store'.cycle = cycle /\ store'.gen = work.gen /\ pc' = "idle"
        /\ UNCHANGED <<work, errs, cycle>> /\ pc = "collect"
    BY <1>1 DEF Publish
  <1>3. /\ store.cycle + 1 = cycle /\ store.gen <= work.gen
        /\ store.cycle \in Nat /\ store.gen \in Nat /\ work.gen \in Nat
    BY <1>2 DEF IInv, StoreInv, TypeOK, TargetSets
  <1>4. \A n \in DOMAIN store'.per :
           store'.per[n].at = store'.cycle /\ store'.per[n].errors = errs[work.gen][n]
    BY <1>2 DEF IInv, StoreInv
  <1>5. \A n \in DOMAIN store.per : store.per[n].errors <= errs[store.gen][n]
    BY DEF IInv, StoreInv
  <1>6. \A n \in DOMAIN store.per : /\ store.per[n].errors \in Nat
                                    /\ errs[store.gen][n] \in Nat
    BY DEF IInv, TypeOK, TargetSnapshots
  <1>7. DOMAIN store'.per = work.names
    BY <1>2, <1>3 DEF IInv, StoreInv
  <1>8. store.cycle > 0 /\ store.gen = work.gen => DOMAIN store.per = work.names
    BY DEF IInv, StoreInv
  <1> QED
    BY <1>2, <1>3, <1>4, <1>5, <1>6, <1>7, <1>8

(* While a client lives, the counter published for it never goes down.        *)
THEOREM ClientCounterNeverFalls == Spec => ClientCounterGrows
  <1>1. ASSUME IInv, IInv', [Next]_vars
        PROVE  [\A n \in DOMAIN store.per \cap DOMAIN store'.per :
                  store'.gen = store.gen => store'.per[n].errors >= store.per[n].errors
               ]_store
    <2>1. CASE store' = store
      BY <2>1
    <2>2. ASSUME store' # store, NEW n \in DOMAIN store.per \cap DOMAIN store'.per,
                 store'.gen = store.gen
          PROVE  store'.per[n].errors >= store.per[n].errors
      BY <1>1, <2>2, StoreStep DEF IInv, StoreInv, PhaseInv
    <2> QED
      BY <2>1, <2>2
  <1> QED
    BY <1>1, CollectorInductive, PTL DEF Spec, ClientCounterGrows

(* The collection loop implements ADR-0002's store: whole, consecutive,       *)
(* single-cycle replacements.                                                 *)
THEOREM CollectorImplementsSnapshotModel == Spec => ImplementsSnapshotModel
  <1>1. Init => Promise!Init
    BY DEF Init, EmptyStore, Promise!Init, Promise!EmptySnapshot
  <1>2. ASSUME IInv, IInv', [Next]_vars PROVE [Promise!Replace]_store
    <2>1. CASE store' = store
      BY <2>1
    <2>2. CASE store' # store
      BY <1>2, <2>2, StoreStep DEF Promise!Replace, Promise!OneCycle, Promise!Continues
    <2> QED
      BY <2>1, <2>2
  <1> QED
    BY <1>1, <1>2, CollectorInductive, PTL DEF Spec, ImplementsSnapshotModel, Promise!Spec
=============================================================================
