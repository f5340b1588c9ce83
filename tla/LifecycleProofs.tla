-------------------------- MODULE LifecycleProofs --------------------------
(***************************************************************************)
(* Proofs about Lifecycle, for any number of connections and cycles: its   *)
(* safety properties from one inductive invariant.                         *)
(***************************************************************************)
EXTENDS Lifecycle, TLAPS

(* Where --once can be, and what it has by then *)
OnceInv ==
    setup.once =>
        /\ main \in {"start", "cycle", "otlp", "flush", "trace"} \cup Ended
        /\ main \in {"otlp", "flush"} => store > 0
        /\ main = "flush" /\ setup.otlp => registered
        /\ Quiet /\ ~cancelled

(* By the last push the listener is closed and, unless the deadline has passed,  *)
(* the last request is answered                                                  *)
DrainInv ==
    /\ ~setup.once => main # "cycle"
    /\ main \in {"flush", "trace"} => server \notin {"starting", "serving"}
    /\ main = "flush" /\ ~late => Quiet
    /\ flush # "none" => main \in {"trace"} \cup Ended

IInv ==
    /\ TypeOK /\ OnceInv /\ DrainInv
    /\ FlushCoversScrapes /\ OncePushesItsCycle /\ FlushNotCut

(* Nothing has started. *)
LEMMA InitIInv == Init => IInv
  <1> SUFFICES ASSUME Init PROVE IInv
    OBVIOUS
  <1> USE LifecycleAssumption DEF Init, Ended, Stopping, Quiet
  <1>1. TypeOK
    <2>1. store \in 0 .. MaxCycles /\ 0 .. store = {0}
      BY SMT
    <2>2. response \in [Scrapers -> 0 .. store] /\ shown \in 0 .. store /\ pushed \in 0 .. store
      BY <2>1
    <2> QED
      BY <2>1, <2>2 DEF TypeOK
  <1>2. OnceInv /\ DrainInv
    BY DEF OnceInv, DrainInv
  <1>3. FlushCoversScrapes /\ OncePushesItsCycle /\ FlushNotCut
    BY DEF FlushCoversScrapes, OncePushesItsCycle, FlushNotCut
  <1> QED
    BY <1>1, <1>2, <1>3 DEF IInv

(* Every step keeps the invariant: run's own, *)
LEMMA RunIInv ==
  ASSUME IInv, Run \/ OnceCycle \/ Deadline
  PROVE  IInv'
  <1> USE LifecycleAssumption
      DEF IInv, TypeOK, OnceInv, DrainInv, FlushCoversScrapes, OncePushesItsCycle,
          FlushNotCut, Ended, Stopping, After, OnceSteps, ServeSteps, EnsureInstruments
  <1>1. CASE Start
    BY <1>1 DEF Start, Quiet
  <1>2. CASE StartServer
    BY <1>2 DEF StartServer, Quiet
  <1>3. CASE SetupOTLP
    BY <1>3 DEF SetupOTLP, Quiet
  <1>4. CASE StartLoop
    BY <1>4 DEF StartLoop, Quiet
  <1>5. CASE Notify
    BY <1>5 DEF Notify, Quiet
  <1>6. CASE Stop
    BY <1>6 DEF Stop, Quiet
  <1>7. CASE CloseListener
    BY <1>7 DEF CloseListener, Quiet
  <1>8. CASE Drained
    BY <1>8 DEF Drained, Quiet, Expired
  <1>9. CASE Flush
    BY <1>9 DEF Flush, Quiet, Expired, CtxDone
  <1>10. CASE StopTracer
    BY <1>10 DEF StopTracer, Quiet
  <1>11. CASE OnceCycle
    BY <1>11 DEF OnceCycle, Quiet
  <1>12. CASE Deadline
    BY <1>12 DEF Deadline, Quiet
  <1> QED
    BY <1>1, <1>2, <1>3, <1>4, <1>5, <1>6, <1>7, <1>8, <1>9, <1>10, <1>11, <1>12 DEF Run

(* those of the server and its requests, *)
LEMMA ServerIInv ==
  ASSUME IInv, Server \/ \E c \in Scrapers : Request(c)
  PROVE  IInv'
  <1> USE LifecycleAssumption
      DEF IInv, TypeOK, OnceInv, DrainInv, FlushCoversScrapes, OncePushesItsCycle,
          FlushNotCut, Ended, Stopping, Alive
  <1>1. CASE Server
    BY <1>1 DEF Server, Listen, ServerFails, Quiet
  <1>2. ASSUME NEW c \in Scrapers, Accept(c) PROVE IInv'
    <2>1. flush = "none" /\ main # "flush" /\ ~setup.once
      BY <1>2 DEF Accept
    <2> QED
      BY <1>2, <2>1 DEF Accept, Quiet
  <1>3. ASSUME NEW c \in Scrapers, Load(c) \/ Answer(c) PROVE IInv'
    <2>1. ~Quiet
      BY <1>3 DEF Load, Answer, Quiet
    <2>2. flush # "sent" /\ ~setup.once /\ (main = "flush" => late)
      BY <2>1
    <2>3. TypeOK'
      BY <1>3 DEF Load, Answer
    <2> QED
      BY <1>3, <2>2, <2>3 DEF Load, Answer, Quiet
  <1> QED
    BY <1>1, <1>2, <1>3 DEF Request

(* and those of the loop, OTLP's reader and the outside. *)
LEMMA RestIInv ==
  ASSUME IInv, \/ Loop \/ SyncTick \/ Push \/ Signal \/ Kill \/ CancelParent
               \/ UNCHANGED vars
  PROVE  IInv'
  <1> USE LifecycleAssumption
      DEF IInv, TypeOK, OnceInv, DrainInv, FlushCoversScrapes, OncePushesItsCycle,
          FlushNotCut, Ended, Stopping, Alive, EnsureInstruments, Quiet
  <1>1. CASE Loop
    BY <1>1 DEF Loop, BeginFirst, Publish, BootEnsure, RunSelect
  <1>2. CASE SyncTick \/ Push
    BY <1>2 DEF SyncTick, Push
  <1>3. CASE Signal
    BY <1>3 DEF Signal, Caught
  <1>4. CASE Kill
    BY <1>4 DEF Kill
  <1>5. CASE CancelParent
    BY <1>5 DEF CancelParent
  <1>6. CASE UNCHANGED vars
    BY <1>6 DEF vars
  <1> QED
    BY <1>1, <1>2, <1>3, <1>4, <1>5, <1>6

LEMMA NextIInv == IInv /\ [Next]_vars => IInv'
  BY RunIInv, ServerIInv, RestIInv DEF Next, Exited

(* The listener is closed and the requests answered by the time of the last      *)
(* push, unless its deadline has passed (shutdown of main.go).                   *)
THEOREM LifecycleInductive == Spec => []IInv
  BY InitIInv, NextIInv, PTL DEF Spec

-----------------------------------------------------------------------------
(* The types; --once starts neither server nor loop.                             *)
THEOREM LifecycleTypeOK == Spec => []TypeOK
  <1>1. IInv => TypeOK
    BY DEF IInv
  <1> QED
    BY <1>1, LifecycleInductive, PTL

(* A last push that gets through is as new as every scrape answered, ever.       *)
THEOREM LastPushCoversScrapes == Spec => []FlushCoversScrapes
  <1>1. IInv => FlushCoversScrapes
    BY DEF IInv
  <1> QED
    BY <1>1, LifecycleInductive, PTL

(* With --once the last push carries the cycle.                                  *)
THEOREM OnceIsPushed == Spec => []OncePushesItsCycle
  <1>1. IInv => OncePushesItsCycle
    BY DEF IInv
  <1> QED
    BY <1>1, LifecycleInductive, PTL

(* Only its deadline, or the caller under --once, cuts the last push off.        *)
THEOREM OnlyDeadlineCutsPush == Spec => []FlushNotCut
  <1>1. IInv => FlushNotCut
    BY DEF IInv
  <1> QED
    BY <1>1, LifecycleInductive, PTL
=============================================================================
