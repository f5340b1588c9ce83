----------------------------- MODULE TargetPoll -----------------------------
(***************************************************************************)
(* One target's poll, call by call: collectTarget and collectNodes of      *)
(* collector.go with the collectors of node.go and ha.go.  The poll makes  *)
(* its cluster calls one after the other, then polls the nodes in          *)
(* goroutines of their own, whose samples are merged into the poll's under *)
(* a mutex, waits for them and reads the client's failure counter.         *)
(*                                                                         *)
(* A goroutine is the sequence of calls it still has to make, the first of *)
(* them in flight.  Samples are named after the call that brought them.    *)
(***************************************************************************)
EXTENDS Naturals, Sequences, FiniteSets

CONSTANTS
    Nodes,     \* node names
    Setups,    \* what to check: [nodes of the cluster, enabled collectors (toggles),
               \* collection.maxConcurrentTargets (limit, 0 for none)]
    MaxItems,  \* bound: replication jobs, VMs and containers of a node
    Main       \* the goroutine of collectTarget

ClusterToggles == {"qdevice", "backup", "ha"}
NodeToggles == {"replication", "subscription", "onboot"}

ASSUME TargetPollAssumption ==
    /\ IsFiniteSet(Nodes) /\ Main \notin Nodes
    /\ Setups \subseteq [nodes : SUBSET Nodes, limit : Nat,
                         toggles : SUBSET (ClusterToggles \cup NodeToggles)]
    /\ MaxItems \in Nat

Workers == Nodes \cup {Main}

VARIABLES
    setup,     \* the one of Setups this is
    pc,        \* of the poll: cluster, nodes, done
    todo,      \* calls each goroutine has left
    found,     \* nodes that /cluster/resources listed
    node,      \* of each node's goroutine: none, queued, run, merge, out
    local,     \* a node's samples, not merged yet
    copy,      \* set.out as the goroutine that appends to it read it
    samples,   \* set.out
    holder,    \* the goroutine inside the mutex, Main when it is free
    ctxDone,   \* the target's timeout, or a shutdown
    groupDone, \* the nodes' errgroup has cancelled its context
    errors,    \* the client's failure counter, from the start of this poll
    up, reported,
    answered,  \* history: calls that succeeded
    cut        \* history: a call was cut off by a context

vars == <<setup, pc, todo, found, node, local, copy, samples, holder, ctxDone,
          groupDone, errors, up, reported, answered, cut>>

-----------------------------------------------------------------------------
(* The calls that toggle t enables *)
If(t, calls) == IF t \in setup.toggles THEN calls ELSE <<>>

(* What collectTarget calls, and after it the goroutine of a node *)
MainCalls ==
    <<"resources", "status", "version">> \o If("qdevice", <<"qdevice">>)
        \o If("backup", <<"backup">>) \o If("ha", <<"ha">>)
NodeCalls ==
    If("replication", <<"replication">>) \o If("subscription", <<"subscription">>)
        \o If("onboot", <<"qemu", "lxc">>)

(* The calls that follow the answer of a list: one per job or guest *)
ItemCall(call) ==
    CASE call = "replication" -> "jobstatus"
      [] call = "qemu" -> "qemuconfig"
      [] call = "lxc" -> "lxcconfig"

IsList(call) == call \in {"replication", "qemu", "lxc"}

Times(k, call) == [i \in 1 .. k |-> call]

(* What is left after a call failed: collectOnboot, the last collector, returns *)
(* when its first list fails; otherwise the next call follows.                  *)
AfterFailure(calls) == IF Head(calls) = "qemu" THEN <<>> ELSE Tail(calls)

Running == {n \in Nodes : node[n] \in {"run", "merge"}}
MayStartOffByOne == setup.limit = 0 \/ Cardinality(Running) <= setup.limit
MayStart == setup.limit = 0 \/ Cardinality(Running) < setup.limit

(* A node's goroutine logs its errors and returns nil to the errgroup *)
NodeReturnsErr == TRUE
NodeReturns == FALSE

(* The mutex around the append *)
NoMutex == TRUE
MutexFree == holder = Main

(* g.Wait *)
WaitFirst == found = {} \/ \E n \in found : node[n] = "out"
WaitAll == \A n \in Nodes : node[n] = "out"
Wait == \A n \in found : node[n] = "out"

Init ==
    /\ setup \in Setups
    /\ pc = "cluster"
    /\ todo = [w \in Workers |-> IF w = Main THEN MainCalls ELSE <<>>]
    /\ found = {}
    /\ node = [n \in Nodes |-> "none"]
    /\ local = [n \in Nodes |-> {}] /\ copy = [n \in Nodes |-> {}]
    /\ samples = {} /\ holder = Main
    /\ ctxDone = FALSE /\ groupDone = FALSE
    /\ errors = 0 /\ up = FALSE /\ reported = 0
    /\ answered = {} /\ cut = FALSE

(* The call of goroutine w is in flight *)
Calling(w) ==
    /\ todo[w] # <<>>
    /\ IF w = Main THEN pc = "cluster" ELSE node[w] = "run"

CutOff(w) == ctxDone \/ (w # Main /\ groupDone)

(* A call succeeds; a list brings some items, /cluster/resources some nodes *)
Succeeds(w) ==
    LET call == Head(todo[w])
        tag == <<w, call>>
    IN  /\ Calling(w) /\ ~CutOff(w)
        /\ \E k \in 0 .. MaxItems :
              todo' = [todo EXCEPT ![w] =
                         IF IsList(call) THEN Times(k, ItemCall(call)) \o Tail(@)
                                         ELSE Tail(@)]
        /\ IF call = "resources" THEN found' \in SUBSET setup.nodes ELSE UNCHANGED found
        /\ IF w = Main THEN samples' = samples \cup {tag} /\ UNCHANGED local
           ELSE local' = [local EXCEPT ![w] = @ \cup {tag}] /\ UNCHANGED samples
        /\ answered' = answered \cup {tag}
        /\ UNCHANGED <<setup, pc, node, copy, holder, ctxDone, groupDone, errors, up,
                       reported, cut>>

(* A call fails.  Whether it counts is Doer's business; one that is cut off by *)
(* a context counts.  The failure of the primary call ends the poll.           *)
Fails(w) ==
    /\ Calling(w)
    /\ \E counted \in {0, 1} :
          /\ CutOff(w) => counted = 1
          /\ errors' = errors + counted
    /\ cut' = (cut \/ CutOff(w))
    /\ IF Head(todo[w]) = "resources"
       THEN /\ pc' = "done" /\ reported' = errors'
            /\ UNCHANGED <<todo, groupDone>>
       ELSE /\ todo' = [todo EXCEPT ![w] = AfterFailure(@)]
            /\ groupDone' = (groupDone \/ (w # Main /\ NodeReturns))
            /\ UNCHANGED <<pc, reported>>
    /\ UNCHANGED <<setup, found, node, local, copy, samples, holder, ctxDone, up,
                   answered>>

(* The head of collectNodes, once the cluster calls are made *)
FanOut ==
    /\ pc = "cluster" /\ todo[Main] = <<>>
    /\ pc' = "nodes"
    /\ IF setup.toggles \cap NodeToggles = {} THEN found' = {} ELSE UNCHANGED found
    /\ node' = [n \in Nodes |-> IF n \in found' THEN "queued" ELSE "none"]
    /\ UNCHANGED <<setup, todo, local, copy, samples, holder, ctxDone, groupDone,
                   errors, up, reported, answered, cut>>

(* g.Go admits the goroutine of node n *)
StartNode(n) ==
    /\ node[n] = "queued" /\ MayStart
    /\ node' = [node EXCEPT ![n] = "run"]
    /\ todo' = [todo EXCEPT ![n] = NodeCalls]
    /\ UNCHANGED <<setup, pc, found, local, copy, samples, holder, ctxDone, groupDone,
                   errors, up, reported, answered, cut>>

(* mu.Lock, and append reads set.out ... *)
Lock(n) ==
    /\ node[n] = "run" /\ todo[n] = <<>> /\ MutexFree
    /\ holder' = n
    /\ copy' = [copy EXCEPT ![n] = samples]
    /\ node' = [node EXCEPT ![n] = "merge"]
    /\ UNCHANGED <<setup, pc, todo, found, local, samples, ctxDone, groupDone, errors,
                   up, reported, answered, cut>>

(* ... and stores the longer slice; mu.Unlock *)
Merge(n) ==
    /\ node[n] = "merge"
    /\ samples' = copy[n] \cup local[n]
    /\ holder' = Main
    /\ node' = [node EXCEPT ![n] = "out"]
    /\ UNCHANGED <<setup, pc, todo, found, local, copy, ctxDone, groupDone, errors, up,
                   reported, answered, cut>>

(* The tail of collectTarget *)
Finish ==
    /\ pc = "nodes" /\ Wait
    /\ pc' = "done"
    /\ up' = TRUE /\ reported' = errors
    /\ UNCHANGED <<setup, todo, found, node, local, copy, samples, holder, ctxDone,
                   groupDone, errors, answered, cut>>

EndContext ==
    /\ ~ctxDone /\ pc # "done"
    /\ ctxDone' = TRUE
    /\ UNCHANGED <<setup, pc, todo, found, node, local, copy, samples, holder,
                   groupDone, errors, up, reported, answered, cut>>

Done == pc = "done" /\ UNCHANGED vars

Step(w) == Succeeds(w) \/ Fails(w)
NodeStep(n) == StartNode(n) \/ Lock(n) \/ Merge(n)

Next ==
    \/ \E w \in Workers : Step(w)
    \/ \E n \in Nodes : NodeStep(n)
    \/ FanOut \/ Finish \/ EndContext \/ Done

Spec == Init /\ [][Next]_vars

(* Calls return (CallReturns of Client), goroutines are scheduled *)
FairSpec ==
    /\ Spec /\ WF_vars(FanOut) /\ WF_vars(Finish)
    /\ \A w \in Workers : WF_vars(Step(w))
    /\ \A n \in Nodes : WF_vars(NodeStep(n))

-----------------------------------------------------------------------------
ClusterCalls == {"resources", "status", "version", "qdevice", "backup", "ha"}
NodesCalls == {"replication", "jobstatus", "subscription", "qemu", "qemuconfig",
               "lxc", "lxcconfig"}
Tags == ({Main} \X ClusterCalls) \cup (Nodes \X NodesCalls)

(* The types; a node's goroutine makes its own node's calls (collector.go:192). *)
TypeOK ==
    /\ setup \in Setups
    /\ pc \in {"cluster", "nodes", "done"}
    /\ todo \in [Workers -> Seq(ClusterCalls \cup NodesCalls)]
    /\ found \subseteq Nodes
    /\ node \in [Nodes -> {"none", "queued", "run", "merge", "out"}]
    /\ copy \in [Nodes -> SUBSET Tags]
    /\ DOMAIN local = Nodes /\ \A n \in Nodes : local[n] \subseteq {n} \X NodesCalls
    /\ samples \subseteq Tags /\ answered \subseteq Tags
    /\ holder \in Workers
    /\ errors \in Nat /\ reported \in Nat
    /\ {ctxDone, groupDone, up, cut} \subseteq BOOLEAN

(* Every call that succeeded is in the result of a target that is up, however  *)
(* many others failed and however the nodes' goroutines interleave: no append  *)
(* to set.out is lost (collector.go:208-210), none comes after the result.     *)
NoSampleLost == pc = "done" /\ up => samples = answered

(* The failure counter reported covers the whole poll: no goroutine of it is   *)
(* still making calls when the counter is read (collector.go:169 and 214).     *)
ReportIsFinal == pc = "done" => reported = errors /\ Running = {}

(* A node's failing collectors cancel nobody else's calls: a call is cut off   *)
(* only by the target's own deadline or a shutdown (collector.go:194-211).     *)
NodesIsolated == cut => ctxDone

(* The nodes of a target are polled within the same limit as the targets.      *)
BoundedNodePolls == setup.limit > 0 => Cardinality(Running) <= setup.limit

(* How far the poll is, as Collector sees it *)
Phase ==
    IF pc = "done" THEN "done"
    ELSE IF <<Main, "resources">> \in answered THEN "detail" ELSE "primary"
Promise == INSTANCE TargetPromise WITH phase <- Phase

(* Each poll is one that Collector knows: an up target's entry is made after   *)
(* its last call, and only the primary call can make a target down.            *)
ImplementsTargetPromise == Promise!Spec

(* Every poll comes to an end. *)
PollEnds == <>(pc = "done")
=============================================================================
