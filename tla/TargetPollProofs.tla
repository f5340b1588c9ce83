-------------------------- MODULE TargetPollProofs --------------------------
(***************************************************************************)
(* Proofs about TargetPoll, for any nodes, any limit, any enabled          *)
(* collectors and lists of any length: its safety properties from one      *)
(* inductive invariant, and that it implements TargetPromise.              *)
(***************************************************************************)
EXTENDS TargetPoll, TLAPS, FiniteSetTheorems

ResourcesTag == <<Main, "resources">>
LaterCalls == ClusterCalls \ {"resources"}

(* The primary call comes first: until it is answered it is the one in flight, *)
(* and nothing but the cluster's calls is made                                 *)
MainInv ==
    /\ \A n \in Nodes : todo[n] \in Seq(NodesCalls)
    /\ pc = "cluster" /\ ResourcesTag \notin answered =>
          /\ todo[Main] # <<>> /\ Head(todo[Main]) = "resources"
          /\ Tail(todo[Main]) \in Seq(LaterCalls)
    /\ pc = "cluster" /\ ResourcesTag \in answered => todo[Main] \in Seq(LaterCalls)
    /\ pc = "nodes" => ResourcesTag \in answered
    /\ pc # "done" => ~up

(* Where the goroutines of the nodes can be in each phase of the poll *)
NodeInv ==
    /\ pc = "cluster" => \A n \in Nodes : node[n] = "none"
    /\ pc = "nodes" => \A n \in Nodes : node[n] = "none" <=> n \notin found
    /\ pc = "done" => \A n \in Nodes : node[n] \in {"none", "out"}

(* An answer is in the result, or with the node that got it; what a node is    *)
(* about to append to has not changed since it read it                         *)
SampleInv ==
    /\ \A n \in Nodes : node[n] = "merge" <=> holder = n
    /\ \A n \in Nodes : node[n] = "merge" => copy[n] = samples
    /\ \A n \in Nodes : local[n] # {} => node[n] \in {"run", "merge", "out"}
    /\ samples \subseteq answered /\ \A n \in Nodes : local[n] \subseteq answered
    /\ \A t \in answered :
          t \in samples \/ \E n \in Nodes : node[n] \in {"run", "merge"} /\ t \in local[n]

CountInv == (pc = "done" => reported = errors) /\ ~groupDone /\ NodesIsolated

IInv == TypeOK /\ MainInv /\ NodeInv /\ SampleInv /\ CountInv /\ BoundedNodePolls

-----------------------------------------------------------------------------
(* What the code appends to a goroutine's calls, and leaves of them. *)
LEMMA Concatenation ==
  ASSUME NEW S, NEW s \in Seq(S), NEW t \in Seq(S)
  PROVE  s \o t \in Seq(S)
  OBVIOUS

LEMMA CallLists ==
  /\ NodeCalls \in Seq(NodesCalls)
  /\ MainCalls \in Seq(ClusterCalls)
  /\ MainCalls # <<>> /\ Head(MainCalls) = "resources"
  /\ Tail(MainCalls) \in Seq(LaterCalls)
  <1>1. ASSUME NEW S, NEW t, NEW calls \in Seq(S) PROVE If(t, calls) \in Seq(S)
    BY <1>1 DEF If
  <1>2. NodeCalls \in Seq(NodesCalls)
    <2>1. /\ <<"replication">> \in Seq(NodesCalls) /\ <<"subscription">> \in Seq(NodesCalls)
          /\ <<"qemu", "lxc">> \in Seq(NodesCalls)
      BY DEF NodesCalls
    <2> QED
      BY <1>1, <2>1, Concatenation DEF NodeCalls
  <1> DEFINE rest == If("qdevice", <<"qdevice">>) \o If("backup", <<"backup">>)
                       \o If("ha", <<"ha">>)
             calls == <<"resources", "status", "version">> \o rest
  <1>3. {"status", "version", "qdevice", "backup", "ha"} \subseteq LaterCalls
        /\ LaterCalls \subseteq ClusterCalls /\ "resources" \in ClusterCalls
    BY DEF LaterCalls, ClusterCalls
  <1>4. /\ If("qdevice", <<"qdevice">>) \in Seq(LaterCalls)
        /\ If("backup", <<"backup">>) \in Seq(LaterCalls)
        /\ If("ha", <<"ha">>) \in Seq(LaterCalls)
    <2>1. /\ <<"qdevice">> \in Seq(LaterCalls) /\ <<"backup">> \in Seq(LaterCalls)
          /\ <<"ha">> \in Seq(LaterCalls)
      BY <1>3
    <2> QED
      BY <1>1, <2>1
  <1>5. rest \in Seq(LaterCalls) /\ MainCalls = calls
    BY <1>4 DEF MainCalls
  <1> HIDE DEF rest
  <1>6. calls # <<>> /\ Head(calls) = "resources"
    BY <1>5
  <1>7. Tail(calls) = <<"status", "version">> \o rest
    BY <1>5
  <1>8. calls \in Seq(ClusterCalls)
    <2>1. rest \in Seq(ClusterCalls)
      BY <1>3, <1>5
    <2>2. <<"resources", "status", "version">> \in Seq(ClusterCalls)
      BY <1>3
    <2> QED
      BY <2>1, <2>2, Concatenation
  <1>9. Tail(calls) \in Seq(LaterCalls)
    <2>1. <<"status", "version">> \in Seq(LaterCalls)
      BY <1>3
    <2> QED
      BY <1>5, <1>7, <2>1, Concatenation
  <1> QED
    BY <1>2, <1>5, <1>6, <1>8, <1>9

(* The calls that follow a list are of the list's own kind. *)
LEMMA ItemCalls ==
  ASSUME NEW S, NEW calls \in Seq(S), calls # <<>>, NEW k \in Nat,
         IsList(Head(calls)) => ItemCall(Head(calls)) \in S
  PROVE  /\ Head(calls) \in S /\ Tail(calls) \in Seq(S)
         /\ IsList(Head(calls)) =>
               Times(k, ItemCall(Head(calls))) \o Tail(calls) \in Seq(S)
  <1>1. Head(calls) \in S /\ Tail(calls) \in Seq(S)
    OBVIOUS
  <1>2. ASSUME NEW c \in S PROVE Times(k, c) \in Seq(S)
    BY DEF Times
  <1>3. ASSUME NEW s \in Seq(S), NEW t \in Seq(S) PROVE s \o t \in Seq(S)
    OBVIOUS
  <1> QED
    BY <1>1, <1>2, <1>3

-----------------------------------------------------------------------------
(* Nothing is in flight but the primary call at the start. *)
LEMMA InitIInv == Init => IInv
  <1> SUFFICES ASSUME Init PROVE IInv
    OBVIOUS
  <1> USE TargetPollAssumption DEF Init, Workers
  <1>1. todo \in [Workers -> Seq(ClusterCalls \cup NodesCalls)]
    <2>1. MainCalls \in Seq(ClusterCalls \cup NodesCalls)
      BY CallLists
    <2> QED
      BY <2>1
  <1>2. TypeOK
    BY <1>1 DEF TypeOK, Tags
  <1>3. MainInv
    <2>1. todo[Main] = MainCalls /\ \A n \in Nodes : todo[n] = <<>>
      OBVIOUS
    <2> QED
      BY <2>1, CallLists DEF MainInv
  <1>4. NodeInv /\ SampleInv
    BY DEF NodeInv, SampleInv
  <1>5. CountInv
    BY DEF CountInv, NodesIsolated
  <1>6. BoundedNodePolls
    <2>1. Running = {}
      BY DEF Running
    <2>2. setup.limit \in Nat
      OBVIOUS
    <2> QED
      BY <2>1, <2>2, FS_EmptySet DEF BoundedNodePolls
  <1> QED
    BY <1>2, <1>3, <1>4, <1>5, <1>6 DEF IInv

(* The limit survives a step that starts no goroutine. *)
LEMMA RunningShrinks ==
  ASSUME IInv, setup' = setup, Running' \subseteq Running
  PROVE  BoundedNodePolls'
  <1>1. IsFiniteSet(Running)
    BY FS_Subset, TargetPollAssumption DEF Running
  <1>2. /\ Cardinality(Running') \in Nat /\ Cardinality(Running) \in Nat
        /\ Cardinality(Running') <= Cardinality(Running)
    BY <1>1, FS_Subset, FS_CardinalityType
  <1>3. setup.limit \in Nat
    BY TargetPollAssumption DEF IInv, TypeOK
  <1> QED
    BY <1>2, <1>3 DEF BoundedNodePolls, IInv

(* What a goroutine is about to call: the main one the cluster's calls, the    *)
(* primary one first, and the others their own node's.                         *)
LEMMA InFlight ==
  ASSUME IInv, NEW w \in Workers, Calling(w)
  PROVE  /\ w = Main => /\ pc = "cluster" /\ Head(todo[w]) \in ClusterCalls
                        /\ Tail(todo[w]) \in Seq(LaterCalls)
                        /\ Head(todo[w]) = "resources" <=> ResourcesTag \notin answered
                        /\ ~IsList(Head(todo[w]))
         /\ w # Main => /\ w \in Nodes /\ node[w] = "run" /\ pc = "nodes"
                        /\ Head(todo[w]) \in NodesCalls /\ Head(todo[w]) # "resources"
                        /\ todo[w] \in Seq(NodesCalls)
                        /\ Tail(todo[w]) \in Seq(NodesCalls)
                        /\ IsList(Head(todo[w])) => ItemCall(Head(todo[w])) \in NodesCalls
  <1> USE DEF IInv, Calling
  <1>1. CASE w = Main
    <2>1. pc = "cluster" /\ todo[Main] # <<>>
      BY <1>1
    <2>2. CASE ResourcesTag \notin answered
      BY <1>1, <2>1, <2>2 DEF MainInv, ClusterCalls, IsList
    <2>3. CASE ResourcesTag \in answered
      <3>1. todo[Main] \in Seq(LaterCalls) /\ todo[Main] # <<>>
        BY <2>1, <2>3 DEF MainInv
      <3>2. Head(todo[Main]) \in LaterCalls /\ Tail(todo[Main]) \in Seq(LaterCalls)
        BY <3>1
      <3> QED
        BY <1>1, <2>1, <2>3, <3>2 DEF LaterCalls, ClusterCalls, IsList
    <2> QED
      BY <1>1, <2>1, <2>2, <2>3
  <1>2. CASE w # Main
    <2>1. w \in Nodes /\ node[w] = "run" /\ todo[w] # <<>>
      BY <1>2 DEF Workers
    <2>2. pc = "nodes"
      BY <2>1 DEF NodeInv, TypeOK
    <2>3. todo[w] \in Seq(NodesCalls)
      BY <2>1 DEF MainInv
    <2>4. Head(todo[w]) \in NodesCalls /\ Tail(todo[w]) \in Seq(NodesCalls)
      BY <2>1, <2>3
    <2>5. /\ Head(todo[w]) # "resources"
          /\ IsList(Head(todo[w])) => ItemCall(Head(todo[w])) \in NodesCalls
      BY <2>4 DEF NodesCalls, IsList, ItemCall
    <2> QED
      BY <1>2, <2>1, <2>2, <2>3, <2>4, <2>5
  <1> QED
    BY <1>1, <1>2

(* A call that succeeds. *)
LEMMA SucceedsIInv ==
  ASSUME IInv, NEW w \in Workers, Succeeds(w)
  PROVE  IInv'
  <1> DEFINE call == Head(todo[w])
             tag == <<w, call>>
  <1>1. Calling(w) /\ ~CutOff(w)
    BY DEF Succeeds
  <1>2. /\ UNCHANGED <<setup, pc, node, copy, holder, ctxDone, groupDone, errors, up,
                       reported, cut>>
        /\ answered' = answered \cup {tag}
        /\ found' \subseteq setup.nodes \/ found' = found
        /\ found' = found \/ w = Main
    <2>1. call = "resources" => w = Main
      BY <1>1, InFlight
    <2> QED
      BY <2>1 DEF Succeeds
  <1>3. /\ w = Main => samples' = samples \cup {tag} /\ local' = local
        /\ w # Main => samples' = samples /\ local' = [local EXCEPT ![w] = @ \cup {tag}]
    BY DEF Succeeds
  <1>4. PICK k \in 0 .. MaxItems :
          todo' = [todo EXCEPT ![w] =
                     IF IsList(call) THEN Times(k, ItemCall(call)) \o Tail(@) ELSE Tail(@)]
    BY DEF Succeeds
  <1>5. setup \in Setups /\ setup.nodes \subseteq Nodes
    BY TargetPollAssumption DEF IInv, TypeOK
  <1>6. /\ w = Main => todo'[w] \in Seq(LaterCalls) /\ todo'[w] \in Seq(ClusterCalls)
        /\ w # Main => todo'[w] \in Seq(NodesCalls)
        /\ \A v \in Workers : v # w => todo'[v] = todo[v]
        /\ todo' = [todo EXCEPT ![w] = todo'[w]]
    <2>1. CASE w = Main
      <3>1. todo' = [todo EXCEPT ![w] = Tail(todo[w])]
        BY <1>1, <1>4, <2>1, InFlight
      <3>2. Tail(todo[w]) \in Seq(LaterCalls)
        BY <1>1, <2>1, InFlight
      <3>3. LaterCalls \subseteq ClusterCalls
        BY DEF LaterCalls
      <3>4. Tail(todo[w]) \in Seq(ClusterCalls)
        BY <3>2, <3>3
      <3> QED
        BY <2>1, <3>1, <3>2, <3>4 DEF IInv, TypeOK
    <2>2. CASE w # Main
      <3>1. /\ todo[w] \in Seq(NodesCalls) /\ todo[w] # <<>>
            /\ IsList(call) => ItemCall(call) \in NodesCalls
        BY <1>1, <2>2, InFlight DEF Calling
      <3>2. /\ Tail(todo[w]) \in Seq(NodesCalls)
            /\ IsList(call) => Times(k, ItemCall(call)) \o Tail(todo[w]) \in Seq(NodesCalls)
        BY <3>1, ItemCalls
      <3> QED
        BY <1>4, <2>2, <3>2 DEF IInv, TypeOK
    <2> QED
      BY <2>1, <2>2
  <1>7. tag \in Tags /\ (w # Main => tag \in {w} \X NodesCalls)
    BY <1>1, InFlight DEF Tags, Workers
  <1>8. TypeOK'
    <2>1. todo' \in [Workers -> Seq(ClusterCalls \cup NodesCalls)]
      <3>1. todo'[w] \in Seq(ClusterCalls \cup NodesCalls)
        BY <1>6
      <3> QED
        BY <1>6, <3>1 DEF IInv, TypeOK
    <2>2. DOMAIN local' = Nodes /\ \A n \in Nodes : local'[n] \subseteq {n} \X NodesCalls
      <3>1. CASE w = Main
        BY <1>3, <3>1 DEF IInv, TypeOK
      <3>2. CASE w # Main
        <4>1. /\ w \in Nodes /\ DOMAIN local' = DOMAIN local
              /\ local'[w] = local[w] \cup {tag}
              /\ \A n \in Nodes : n # w => local'[n] = local[n]
          BY <1>3, <3>2 DEF IInv, TypeOK, Workers
        <4> QED
          BY <1>7, <3>2, <4>1 DEF IInv, TypeOK
      <3> QED
        BY <3>1, <3>2
    <2>3. samples' \subseteq Tags /\ answered' \subseteq Tags
      BY <1>2, <1>3, <1>7 DEF IInv, TypeOK
    <2>4. found' \subseteq Nodes
      BY <1>2, <1>5 DEF IInv, TypeOK
    <2> QED
      BY <1>2, <2>1, <2>2, <2>3, <2>4 DEF IInv, TypeOK
  <1>9. MainInv'
    <2>1. ASSUME NEW n \in Nodes PROVE todo'[n] \in Seq(NodesCalls)
      BY <1>6, TargetPollAssumption DEF IInv, MainInv, Workers
    <2>2. CASE w = Main
      <3>1. ResourcesTag \in answered' /\ pc = "cluster"
        BY <1>1, <1>2, <2>2, InFlight DEF ResourcesTag
      <3> QED
        BY <1>2, <1>6, <2>1, <2>2, <3>1 DEF IInv, MainInv
    <2>3. CASE w # Main
      <3>1. pc = "nodes" /\ pc' = pc
        BY <1>1, <1>2, <2>3, InFlight
      <3> QED
        BY <1>2, <2>1, <2>3, <3>1 DEF IInv, MainInv
    <2> QED
      BY <2>2, <2>3
  <1>10. NodeInv'
    <2>1. w = Main => pc = "cluster"
      BY <1>1, InFlight
    <2> QED
      BY <1>2, <2>1 DEF IInv, NodeInv
  <1>11. SampleInv'
    <2>1. CASE w = Main
      <3>1. \A n \in Nodes : node[n] = "none"
        BY <1>1, <2>1, InFlight DEF IInv, NodeInv
      <3> QED
        BY <1>2, <1>3, <2>1, <3>1 DEF IInv, SampleInv
    <2>2. CASE w # Main
      <3>1. w \in Nodes /\ node[w] = "run"
        BY <1>1, <2>2, InFlight
      <3>2. /\ local'[w] = local[w] \cup {tag}
            /\ \A n \in Nodes : n # w => local'[n] = local[n]
        BY <1>3, <2>2, <3>1 DEF IInv, TypeOK
      <3> QED
        BY <1>2, <1>3, <2>2, <3>1, <3>2 DEF IInv, SampleInv
    <2> QED
      BY <2>1, <2>2
  <1>12. CountInv'
    BY <1>2 DEF IInv, CountInv, NodesIsolated
  <1>13. BoundedNodePolls'
    BY <1>2, RunningShrinks DEF Running
  <1> QED
    BY <1>8, <1>9, <1>10, <1>11, <1>12, <1>13 DEF IInv

(* A call that fails. *)
LEMMA FailsIInv ==
  ASSUME IInv, NEW w \in Workers, Fails(w)
  PROVE  IInv'
  <1>1. Calling(w)
    BY DEF Fails
  <1>2. /\ UNCHANGED <<setup, found, node, local, copy, samples, holder, ctxDone, up,
                       answered>>
        /\ cut' = (cut \/ CutOff(w))
        /\ errors' \in Nat
    <2>1. PICK counted \in {0, 1} : errors' = errors + counted
      BY DEF Fails
    <2> QED
      BY <2>1 DEF Fails, IInv, TypeOK
  <1>3. groupDone' = groupDone
    <2>1. groupDone = FALSE
      BY DEF IInv, TypeOK, CountInv
    <2> QED
      BY <2>1 DEF Fails, NodeReturns
  <1>4. cut' \in BOOLEAN /\ (cut' => ctxDone)
    BY <1>2 DEF IInv, TypeOK, CountInv, NodesIsolated, CutOff
  <1>5. BoundedNodePolls'
    BY <1>2, RunningShrinks DEF Running
  <1>6. SampleInv'
    BY <1>2 DEF IInv, SampleInv
  <1>7. CASE Head(todo[w]) = "resources"
    <2>1. pc' = "done" /\ reported' = errors' /\ todo' = todo
      BY <1>7 DEF Fails
    <2>2. w = Main /\ pc = "cluster"
      BY <1>1, <1>7, InFlight
    <2>3. \A n \in Nodes : node[n] = "none"
      BY <2>2 DEF IInv, NodeInv
    <2> QED
      BY <1>2, <1>3, <1>4, <1>5, <1>6, <2>1, <2>2, <2>3
         DEF IInv, TypeOK, MainInv, NodeInv, CountInv, NodesIsolated
  <1>8. CASE Head(todo[w]) # "resources"
    <2>1. /\ pc' = pc /\ reported' = reported
          /\ todo' = [todo EXCEPT ![w] = AfterFailure(todo[w])]
      BY <1>8 DEF Fails
    <2>2. /\ w = Main => AfterFailure(todo[w]) \in Seq(LaterCalls)
          /\ w # Main => AfterFailure(todo[w]) \in Seq(NodesCalls)
      <3>1. w = Main => Tail(todo[w]) \in Seq(LaterCalls)
        BY <1>1, InFlight
      <3>2. w # Main => Tail(todo[w]) \in Seq(NodesCalls)
        BY <1>1, InFlight
      <3> QED
        BY <3>1, <3>2 DEF AfterFailure
    <2>3. pc # "done" /\ (w = Main => pc = "cluster" /\ ResourcesTag \in answered)
      BY <1>1, <1>8, InFlight
    <2>4. TypeOK'
      <3>1. AfterFailure(todo[w]) \in Seq(ClusterCalls \cup NodesCalls)
        BY <2>2 DEF LaterCalls
      <3> QED
        BY <1>2, <1>3, <1>4, <2>1, <3>1 DEF IInv, TypeOK
    <2>5. MainInv'
      <3>1. \A v \in Workers : todo'[v] = IF v = w THEN AfterFailure(todo[w]) ELSE todo[v]
        BY <2>1 DEF IInv, TypeOK
      <3>2. \A n \in Nodes : todo'[n] \in Seq(NodesCalls)
        BY <2>2, <3>1, TargetPollAssumption DEF IInv, MainInv, Workers
      <3>3. w = Main => todo'[Main] \in Seq(LaterCalls)
        BY <2>2, <3>1
      <3>4. w # Main => todo'[Main] = todo[Main]
        BY <3>1 DEF Workers
      <3> QED
        BY <1>2, <2>1, <2>3, <3>2, <3>3, <3>4 DEF IInv, MainInv
    <2>6. NodeInv'
      BY <1>2, <2>1 DEF IInv, NodeInv
    <2>7. CountInv'
      BY <1>2, <1>3, <1>4, <2>1, <2>3 DEF IInv, CountInv, NodesIsolated
    <2> QED
      BY <1>5, <1>6, <2>4, <2>5, <2>6, <2>7 DEF IInv
  <1> QED
    BY <1>7, <1>8

(* The nodes' goroutines are queued. *)
LEMMA FanOutIInv ==
  ASSUME IInv, FanOut
  PROVE  IInv'
  <1> USE DEF IInv, FanOut
  <1>1. found' \subseteq found
    OBVIOUS
  <1>2. \A n \in Nodes : node'[n] = IF n \in found' THEN "queued" ELSE "none"
    OBVIOUS
  <1>3. ResourcesTag \in answered
    BY DEF MainInv
  <1>4. TypeOK'
    BY <1>1 DEF TypeOK
  <1>5. MainInv'
    BY <1>3 DEF MainInv
  <1>6. NodeInv'
    BY <1>2 DEF NodeInv
  <1>7. SampleInv'
    BY <1>2 DEF SampleInv, NodeInv
  <1>8. CountInv'
    BY DEF CountInv, NodesIsolated
  <1>9. BoundedNodePolls'
    <2>1. Running' \subseteq Running
      BY <1>2 DEF Running
    <2> QED
      BY <2>1, RunningShrinks
  <1> QED
    BY <1>4, <1>5, <1>6, <1>7, <1>8, <1>9

(* A goroutine starts: the limit admitted it. *)
LEMMA StartNodeIInv ==
  ASSUME IInv, NEW n \in Nodes, StartNode(n)
  PROVE  IInv'
  <1> USE DEF IInv, StartNode
  <1>1. pc = "nodes" /\ n \in found
    BY DEF NodeInv, TypeOK
  <1>2. /\ node'[n] = "run" /\ todo'[n] = NodeCalls
        /\ \A m \in Workers : m # n => todo'[m] = todo[m]
        /\ \A m \in Nodes : m # n => node'[m] = node[m]
    BY DEF TypeOK, Workers
  <1>3. TypeOK'
    <2>1. NodeCalls \in Seq(ClusterCalls \cup NodesCalls)
      BY CallLists
    <2> QED
      BY <2>1 DEF TypeOK
  <1>4. MainInv'
    <2>1. ASSUME NEW m \in Nodes PROVE todo'[m] \in Seq(NodesCalls)
      BY <1>2, CallLists DEF MainInv, Workers
    <2> QED
      BY <1>1, <2>1 DEF MainInv
  <1>5. NodeInv'
    BY <1>1, <1>2 DEF NodeInv
  <1>6. SampleInv'
    BY <1>2 DEF SampleInv
  <1>7. CountInv'
    BY DEF CountInv, NodesIsolated
  <1>8. BoundedNodePolls'
    <2>1. Running' = Running \cup {n} /\ n \notin Running
      BY <1>2 DEF Running
    <2>2. IsFiniteSet(Running)
      BY FS_Subset, TargetPollAssumption DEF Running
    <2>3. Cardinality(Running') = Cardinality(Running) + 1 /\ Cardinality(Running) \in Nat
      BY <2>1, <2>2, FS_AddElement, FS_CardinalityType
    <2>4. setup.limit \in Nat
      BY TargetPollAssumption DEF TypeOK
    <2> QED
      BY <2>3, <2>4 DEF MayStart, BoundedNodePolls
  <1> QED
    BY <1>3, <1>4, <1>5, <1>6, <1>7, <1>8

(* A goroutine takes the mutex and reads what it will append to. *)
LEMMA LockIInv ==
  ASSUME IInv, NEW n \in Nodes, Lock(n)
  PROVE  IInv'
  <1> USE DEF IInv, Lock
  <1>1. /\ node'[n] = "merge" /\ copy'[n] = samples
        /\ \A m \in Nodes : m # n => node'[m] = node[m] /\ copy'[m] = copy[m]
    BY DEF TypeOK
  <1>2. TypeOK'
    BY DEF TypeOK, Workers
  <1>3. MainInv'
    BY DEF MainInv
  <1>4. NodeInv'
    BY <1>1 DEF NodeInv
  <1>5. SampleInv'
    BY <1>1, TargetPollAssumption DEF SampleInv, MutexFree
  <1>6. CountInv'
    BY DEF CountInv, NodesIsolated
  <1>7. BoundedNodePolls'
    <2>1. Running' \subseteq Running
      BY <1>1 DEF Running
    <2> QED
      BY <2>1, RunningShrinks
  <1> QED
    BY <1>2, <1>3, <1>4, <1>5, <1>6, <1>7

(* A goroutine appends its node's samples and frees the mutex. *)
LEMMA MergeIInv ==
  ASSUME IInv, NEW n \in Nodes, Merge(n)
  PROVE  IInv'
  <1> USE DEF IInv, Merge
  <1>1. /\ node'[n] = "out" /\ samples' = samples \cup local[n]
        /\ \A m \in Nodes : m # n => node'[m] = node[m] /\ node[m] # "merge"
    BY DEF TypeOK, SampleInv
  <1>2. TypeOK'
    <2>1. samples' \subseteq Tags
      BY <1>1 DEF TypeOK, Tags
    <2> QED
      BY <2>1 DEF TypeOK, Workers
  <1>3. MainInv'
    BY DEF MainInv
  <1>4. NodeInv'
    BY <1>1 DEF NodeInv
  <1>5. SampleInv'
    BY <1>1, TargetPollAssumption DEF SampleInv
  <1>6. CountInv'
    BY DEF CountInv, NodesIsolated
  <1>7. BoundedNodePolls'
    <2>1. Running' \subseteq Running
      BY <1>1 DEF Running
    <2> QED
      BY <2>1, RunningShrinks
  <1> QED
    BY <1>2, <1>3, <1>4, <1>5, <1>6, <1>7

(* Steps that touch no node. *)
LEMMA QuietIInv ==
  ASSUME IInv, Finish \/ EndContext \/ UNCHANGED vars
  PROVE  IInv'
  <1>1. CASE Finish
    <2>1. pc = "nodes" /\ \A n \in Nodes : node[n] \in {"none", "out"}
      BY <1>1 DEF Finish, Wait, IInv, NodeInv
    <2>2. TypeOK' /\ MainInv' /\ NodeInv' /\ SampleInv' /\ CountInv'
      BY <1>1, <2>1
         DEF Finish, IInv, TypeOK, MainInv, NodeInv, SampleInv, CountInv, NodesIsolated
    <2> QED
      BY <1>1, <2>2, RunningShrinks DEF Finish, Running, IInv
  <1>2. CASE EndContext
    BY <1>2 DEF EndContext, IInv, TypeOK, MainInv, NodeInv, SampleInv, CountInv,
                NodesIsolated, BoundedNodePolls, Running
  <1>3. CASE UNCHANGED vars
    BY <1>3 DEF vars, IInv, TypeOK, MainInv, NodeInv, SampleInv, CountInv,
                NodesIsolated, BoundedNodePolls, Running
  <1> QED
    BY <1>1, <1>2, <1>3

(* Every step keeps the inductive invariant. *)
LEMMA NextIInv == IInv /\ [Next]_vars => IInv'
  BY SucceedsIInv, FailsIInv, FanOutIInv, StartNodeIInv, LockIInv, MergeIInv, QuietIInv
     DEF Next, Step, NodeStep, Done

(* Until it is answered the primary call is the one in flight; each node's     *)
(* goroutine makes calls of its own; an answer is in the result or held by the *)
(* goroutine that got it (collector.go:107-214).                               *)
THEOREM TargetPollInductive == Spec => []IInv
  BY InitIInv, NextIInv, PTL DEF Spec

-----------------------------------------------------------------------------
(* The types; a node's samples and calls are its own (collector.go:192).       *)
THEOREM TargetPollTypeOK == Spec => []TypeOK
  <1>1. IInv => TypeOK
    BY DEF IInv
  <1> QED
    BY <1>1, TargetPollInductive, PTL

(* No append to the result of a target is lost, whatever the interleaving of   *)
(* the nodes' goroutines and the failures of their calls.                      *)
THEOREM NoAppendIsLost == Spec => []NoSampleLost
  <1>1. IInv => NoSampleLost
    <2> SUFFICES ASSUME IInv, pc = "done" PROVE samples = answered
      BY DEF NoSampleLost
    <2>1. \A n \in Nodes : node[n] \notin {"run", "merge"}
      BY DEF IInv, NodeInv
    <2> QED
      BY <2>1 DEF IInv, SampleInv
  <1> QED
    BY <1>1, TargetPollInductive, PTL

(* The counter a target reports is final: nothing of its poll still runs.      *)
THEOREM ReportCoversThePoll == Spec => []ReportIsFinal
  <1>1. IInv => ReportIsFinal
    BY DEF IInv, CountInv, NodeInv, ReportIsFinal, Running
  <1> QED
    BY <1>1, TargetPollInductive, PTL

(* Only the target's deadline or a shutdown cuts a call off.                   *)
THEOREM NodesAreIsolated == Spec => []NodesIsolated
  <1>1. IInv => NodesIsolated
    BY DEF IInv, CountInv
  <1> QED
    BY <1>1, TargetPollInductive, PTL

(* The goroutines of the nodes stay within collection.maxConcurrentTargets.    *)
THEOREM NodePollsAreBounded == Spec => []BoundedNodePolls
  <1>1. IInv => BoundedNodePolls
    BY DEF IInv
  <1> QED
    BY <1>1, TargetPollInductive, PTL

(* A poll with its calls, goroutines and mutex is one of TargetPromise's.      *)
THEOREM PollImplementsPromise == Spec => ImplementsTargetPromise
  <1>1. Init => Promise!Init
    BY DEF Init, Promise!Init, Phase
  <1>2. ASSUME IInv, [Next]_vars PROVE [Promise!Next]_(Promise!promiseVars)
    <2> USE <1>2 DEF IInv
    <2>1. ASSUME NEW w \in Workers, Succeeds(w)
          PROVE  Promise!PrimarySucceeds \/ UNCHANGED Promise!promiseVars
      <3>1. /\ Calling(w) /\ UNCHANGED <<pc, errors, up, reported>>
            /\ answered' = answered \cup {<<w, Head(todo[w])>>}
        BY <2>1 DEF Succeeds
      <3>2. pc # "done"
        BY <3>1, InFlight
      <3> QED
        BY <3>1, <3>2 DEF Phase, ResourcesTag, Promise!PrimarySucceeds, Promise!promiseVars
    <2>2. ASSUME NEW w \in Workers, Fails(w)
          PROVE  \/ Promise!PrimaryFails \/ Promise!DetailFails
                 \/ UNCHANGED Promise!promiseVars
      <3>1. /\ Calling(w) /\ answered' = answered /\ up' = up
            /\ errors' \in {errors, errors + 1}
        BY <2>2 DEF Fails, TypeOK
      <3>2. pc # "done" /\ up = FALSE
        BY <3>1, InFlight DEF MainInv, TypeOK
      <3>3. CASE Head(todo[w]) = "resources"
        <4>1. Phase = "primary"
          BY <3>1, <3>3, InFlight DEF Phase, ResourcesTag
        <4>2. pc' = "done" /\ reported' = errors'
          BY <2>2, <3>3 DEF Fails
        <4> QED
          BY <3>1, <3>2, <4>1, <4>2 DEF Phase, Promise!PrimaryFails
      <3>4. CASE Head(todo[w]) # "resources"
        <4>1. Phase = "detail"
          BY <3>1, <3>4, InFlight DEF Phase, ResourcesTag, MainInv
        <4>2. pc' = pc /\ reported' = reported
          BY <2>2, <3>4 DEF Fails
        <4> QED
          BY <3>1, <4>1, <4>2 DEF Phase, Promise!DetailFails, Promise!promiseVars
      <3> QED
        BY <3>3, <3>4
    <2>3. ASSUME Finish PROVE Promise!Finish
      <3>1. Phase = "detail"
        BY <2>3 DEF Finish, MainInv, Phase, ResourcesTag
      <3>2. Phase' = "done"
        BY <2>3 DEF Finish, Phase
      <3> QED
        BY <2>3, <3>1, <3>2 DEF Finish, Promise!Finish
    <2>4. ASSUME NEW n \in Nodes, NodeStep(n) PROVE UNCHANGED Promise!promiseVars
      BY <2>4 DEF NodeStep, StartNode, Lock, Merge, Phase, Promise!promiseVars
    <2>5. CASE FanOut \/ EndContext \/ UNCHANGED vars
      BY <2>5 DEF FanOut, EndContext, vars, Phase, Promise!promiseVars
    <2> QED
      BY <2>1, <2>2, <2>3, <2>4, <2>5 DEF Next, Step, Done, Promise!Next
  <1> QED
    BY <1>1, <1>2, TargetPollInductive, PTL DEF Spec, ImplementsTargetPromise, Promise!Spec
=============================================================================
