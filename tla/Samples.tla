------------------------------ MODULE Samples ------------------------------
(***************************************************************************)
(* What a poll makes of the API's answers, and what the two backends make  *)
(* of that: the mapping of rows to samples (resources.go, node.go, ha.go,  *)
(* parse.go, metrics.go), the index of BuildSnapshot, Prometheus's Collect *)
(* and the OTLP callbacks.  Targets are polled one after the other here;   *)
(* that polls, nodes and exports interleave is the subject of Collector,   *)
(* TargetPoll and Exporters.                                               *)
(*                                                                         *)
(* Labels are sequences of <<key, value>>; an identity such as "qemu/100"  *)
(* is <<"qemu", 100>>.  A JSON number is a form and a number, what Go      *)
(* keeps as a value and a Valid flag is a set of at most one number.       *)
(* Labels no property reads (names, tags, plugins) are left out.           *)
(***************************************************************************)
EXTENDS Naturals, SequencesExt

CONSTANTS
    Cases  \* what to check: [targets, a sequence of configured names; for each
           \* call, the set of answers it may get; fails, the calls that may fail]

VARIABLES
    setup,     \* the one of Cases this is
    target,    \* index of the target being polled
    pc,        \* the call that is next, or done
    clusterID, \* the cluster's own name, once /cluster/status has told it
    nodes,     \* names of nodes still to poll
    out,       \* sampleSet.out
    snap,      \* the samples of the targets polled so far
    up,        \* history: targets whose primary call succeeded
    sent,      \* history: numbers that the API sent for a metric of a row
    repeated   \* history: an answer told of one thing twice

vars == <<setup, target, pc, clusterID, nodes, out, snap, up, sent, repeated>>

Name == setup.targets[target]

-----------------------------------------------------------------------------
(* UnmarshalJSON: a bare or a quoted number; null, "" and "N/A", like a field    *)
(* that is missing or cannot be parsed, is no value                              *)
FlexZero(j) == IF j.form \in {"bare", "quoted"} THEN {j.num} ELSE {0}
Flex(j) == IF j.form \in {"bare", "quoted"} THEN {j.num} ELSE {}

BoolToFloat(b) == IF b THEN 1 ELSE 0

(* The label every sample of a target carries: its configured name *)
ClusterLabelResolved == clusterID
ClusterLabel == Name

(* newSampleSet, add *)
Sample(name, value, labels) ==
    [name |-> name, labels |-> <<<<"cluster", ClusterLabel>>>> \o labels,
     value |-> value]
Add(name, value, labels) == <<Sample(name, value, labels)>>

Id(id) == <<"id", id>>

(* The loops over rows *)
ForEach(rows, Samples(_)) == FlattenSeq([i \in DOMAIN rows |-> Samples(rows[i])])

(* addFlex for each of the metrics of a row *)
AddFlex(name, j, labels) ==
    IF Flex(j) = {} THEN <<>> ELSE Add(name, CHOOSE v \in Flex(j) : TRUE, labels)
AddAll(metrics, json, labels) ==
    ForEach(metrics, LAMBDA m : AddFlex(m, json[m], labels))

AddStateEnumActive(name, id, active, states) ==
    Add(name, 1, <<Id(id), <<"state", active>>>>)
AddStateEnum(name, id, active, states) ==
    [i \in DOMAIN states |->
        Sample(name, BoolToFloat(states[i] = active),
               <<Id(id), <<"state", states[i]>>>>)]

HaNodeStates == <<"online", "maintenance", "unknown", "fence", "gone">>
HaGuestStates ==
    <<"stopped", "request_stop", "request_start", "request_start_balance",
      "started", "fence", "recovery", "migrate", "relocate", "freeze", "error">>
LockStates ==
    <<"backup", "clone", "create", "migrate", "rollback", "snapshot",
      "snapshot-delete", "suspended", "suspending">>
SubStates == <<"new", "notfound", "active", "invalid", "expired", "suspended">>

-----------------------------------------------------------------------------
DiskMetrics == <<"pve_disk_size_bytes", "pve_disk_usage_bytes">>
HostMetrics ==
    <<"pve_cpu_usage_ratio", "pve_cpu_usage_limit", "pve_memory_size_bytes",
      "pve_memory_usage_bytes">> \o DiskMetrics \o <<"pve_uptime_seconds">>
GuestMetrics ==
    HostMetrics \o <<"pve_network_receive_bytes_total",
      "pve_network_transmit_bytes_total", "pve_disk_read_bytes_total",
      "pve_disk_written_bytes_total">>
StorageMetrics == DiskMetrics \o <<"pve_storage_shared">>
ReplicationMetrics ==
    <<"pve_replication_duration_seconds",
      "pve_replication_last_sync_timestamp_seconds",
      "pve_replication_last_try_timestamp_seconds",
      "pve_replication_next_sync_timestamp_seconds",
      "pve_replication_failed_syncs">>

(* The row types of /cluster/resources that are of interest, with the status    *)
(* that is up and the numbers each row has                                      *)
UpStatus == [node |-> "online", qemu |-> "running", lxc |-> "running",
             storage |-> "available"]
Metrics == [node |-> HostMetrics, qemu |-> GuestMetrics, lxc |-> GuestMetrics,
            storage |-> StorageMetrics]

(* A state that is not there is "" *)
GuestSamples(r) ==
    (IF r.hastate = "" THEN <<>>
     ELSE AddStateEnum("pve_ha_state", r.id, r.hastate, HaGuestStates))
    \o (IF r.lock = "" THEN <<>>
        ELSE AddStateEnum("pve_lock_state", r.id, r.lock, LockStates))
    \o Add("pve_guest_info", 1,
           <<Id(r.id), <<"node", r.node>>, <<"type", r.type>>,
             <<"template", Flex(r.template) = {1}>>>>)

(* collectNodeResource, collectGuestResource, collectStorageResource *)
ResourceSamples(r) ==
    IF r.type \notin DOMAIN UpStatus THEN <<>>
    ELSE Add("pve_up", BoolToFloat(r.status = UpStatus[r.type]), <<Id(r.id)>>)
         \o AddAll(Metrics[r.type], r.json, <<Id(r.id)>>)
         \o CASE r.type \in {"qemu", "lxc"} -> GuestSamples(r)
              [] r.type = "storage" ->
                   Add("pve_storage_info", 1, <<Id(r.id), <<"node", r.node>>>>)
              [] r.type = "node" -> <<>>

StatusSamples(e) ==
    CASE e.type = "node" ->
           Add("pve_node_info", 1, <<Id(e.id), <<"nodeid", Flex(e.number)>>>>)
      [] e.type = "cluster" ->
           Add("pve_cluster_info", 1, <<Id(e.id), <<"nodes", Flex(e.number)>>>>)
      [] OTHER -> <<>>

QDeviceSamples(q) ==
    IF q.model = "" THEN <<>>
    ELSE LET id == Id(<<"cluster", clusterID>>)
         IN  Add("pve_qdevice_up", 1, <<id>>)
             \o Add("pve_qdevice_info", 1, <<id, <<"model", q.model>>>>)

NotBackedUpSamples(g) ==
    IF Flex(g.vmid) = {} \/ g.type = "" THEN <<>>
    ELSE Add("pve_not_backed_up_info", 1,
             <<Id(<<g.type, CHOOSE v \in Flex(g.vmid) : TRUE>>)>>)

(* canonicalNodeHAState: a state that is not listed is no state *)
Canonical(status) == IF Contains(HaNodeStates, status) THEN status ELSE ""

(* Which entries of /cluster/ha/status/current tell a node's state *)
IsNodeStateAny(e) == e.node # "" /\ Canonical(e.status) # ""
IsNodeState(e) == e.type = "node" /\ e.node # "" /\ Canonical(e.status) # ""

HASamples(e) ==
    IF ~IsNodeState(e) THEN <<>>
    ELSE AddStateEnum("pve_ha_state", <<"node", e.node>>, Canonical(e.status),
                      HaNodeStates)

(* A job with the answer to its status call, if that succeeded *)
JobSamples(j) ==
    Add("pve_replication_info", 1, <<Id(j.id), <<"guest", Flex(j.guest)>>>>)
    \o IF j.status = {} THEN <<>>
       ELSE AddAll(ReplicationMetrics, CHOOSE st \in j.status : TRUE, <<Id(j.id)>>)

SubscriptionSamples(node, sub) ==
    LET id == <<"node", node>>
    IN  (IF sub.level = "" THEN <<>>
         ELSE Add("pve_subscription_info", 1, <<Id(id), <<"level", sub.level>>>>))
        \o (IF sub.status = "" THEN <<>>
            ELSE AddStateEnum("pve_subscription_status", id, sub.status, SubStates))
        \o (IF sub.due = {} THEN <<>>
            ELSE Add("pve_subscription_next_due_timestamp_seconds",
                     CHOOSE ts \in sub.due : TRUE, <<Id(id)>>))

(* A guest with the answer to its config call, if that succeeded: onboot is the *)
(* one number whose absence counts as zero                                      *)
OnbootSamples(node, g) ==
    IF Flex(g.vmid) = {} \/ g.config = {} THEN <<>>
    ELSE LET onboot == UNION {Flex(j) : j \in g.config}
         IN  Add("pve_onboot_status",
                 IF onboot = {} THEN 0 ELSE CHOOSE v \in onboot : TRUE,
                 <<Id(<<g.type, CHOOSE v \in Flex(g.vmid) : TRUE>>),
                   <<"node", node>>, <<"type", g.type>>>>)

(* nodeNames of one row *)
NodeNames(r) == IF r.type = "node" /\ r.node # "" THEN <<r.node>> ELSE <<>>

-----------------------------------------------------------------------------
(* What is taken for granted of a configuration that Validate let pass, and of   *)
(* the API's answers: names are distinct, a row's identity starts with its type  *)
(* and has the numbers its type has metrics for, a call has one answer.          *)
IsList(s) == s \in Seq(ToSet(s))
IsRow(r) ==
    /\ r.id[1] = r.type /\ r.type # "cluster"
    /\ r.type = "node" => r.id = <<"node", r.node>>
    /\ DOMAIN r.json = IF r.type \in DOMAIN Metrics THEN ToSet(Metrics[r.type]) ELSE {}
IsJob(j) ==
    \A st, other \in j.status : st = other /\ DOMAIN st = ToSet(ReplicationMetrics)
IsCase(c) ==
    /\ IsList(c.targets) /\ c.targets # <<>> /\ IsInjective(c.targets)
    /\ \A entries \in c.status : IsList(entries)
    /\ \A guests \in c.backup : IsList(guests)
    /\ \A entries \in c.ha : IsList(entries)
    /\ \A rows \in c.resources :
          /\ IsList(rows) /\ \A r \in ToSet(rows) : IsRow(r)
          /\ \A n \in ToSet(ForEach(rows, NodeNames)) :
                /\ \A jobs \in c.replication[n] :
                      IsList(jobs) /\ \A j \in ToSet(jobs) : IsJob(j)
                /\ \A subs \in c.subscription[n] : IsList(subs) /\ Len(subs) <= 1
                /\ \A guests \in c.onboot[n] : IsList(guests)
ASSUME CasesAssumption == \A c \in Cases : IsCase(c)

-----------------------------------------------------------------------------
(* BuildSnapshot, and the end of a poll: the next target *)
EndPoll(samples) ==
    /\ snap' = snap \o samples
    /\ out' = <<>> /\ nodes' = <<>>
    /\ IF target = Len(setup.targets)
       THEN pc' = "done" /\ UNCHANGED <<target, clusterID>>
       ELSE /\ pc' = "resources" /\ target' = target + 1
            /\ clusterID' = setup.targets[target + 1]

(* The metrics about the poll itself carry the configured name *)
SelfId == <<"cluster", Name>>
SelfSamples ==
    Add("pve_collection_duration_seconds", 1, <<Id(SelfId)>>)
    \o Add("pve_request_errors_total", 1, <<Id(SelfId)>>)

Init ==
    /\ setup \in Cases
    /\ target = 1 /\ pc = "resources" /\ clusterID = setup.targets[1]
    /\ nodes = <<>> /\ out = <<>> /\ snap = <<>>
    /\ up = {} /\ sent = {} /\ repeated = FALSE

(* What an answer tells: numbers of rows, each row once or not, a job on two     *)
(* nodes                                                                         *)
Repeats(rows, Key(_)) == ~IsInjective([i \in DOMAIN rows |-> Key(rows[i])])
ById(row) == row.id
ByVMID(row) == <<row.type, Flex(row.vmid)>>
ByNode(row) == <<row.type, row.node>>
OfTwoNodes(jobs) ==
    \E j \in ToSet(jobs), s \in ToSet(out) :
        s.name = "pve_replication_info" /\ s.labels[2] = Id(j.id)
Numbers(json, id) ==
    {<<m, id, json[m].num>> : m \in {k \in DOMAIN json : json[k].form \in {"bare", "quoted"}}}

PrimaryFails ==
    /\ pc = "resources" /\ pc \in setup.fails
    /\ EndPoll(Add("pve_up", 0, <<Id(SelfId)>>) \o SelfSamples)
    /\ UNCHANGED <<setup, up, sent, repeated>>

Resources ==
    /\ pc = "resources"
    /\ \E rows \in setup.resources :
          /\ out' = ForEach(rows, ResourceSamples)
          /\ nodes' = ForEach(rows, NodeNames)
          /\ sent' = sent \cup UNION {Numbers(rows[i].json, rows[i].id) : i \in DOMAIN rows}
          /\ repeated' = (repeated \/ Repeats(rows, ById))
    /\ pc' = "status" /\ up' = up \cup {Name}
    /\ UNCHANGED <<setup, target, clusterID, snap>>

Then == [status |-> "version", version |-> "qdevice", qdevice |-> "backup",
         backup |-> "ha", ha |-> "nodes"]

(* A call has brought samples.  One that failed, or whose collector is off,     *)
(* brings none.                                                                 *)
Brings(call, samples) ==
    /\ pc = call /\ pc' = Then[call]
    /\ out' = out \o samples
    /\ UNCHANGED <<setup, target, nodes, snap, up, sent>>

NoAnswer ==
    /\ pc \in DOMAIN Then \cap setup.fails
    /\ Brings(pc, <<>>)
    /\ UNCHANGED <<clusterID, repeated>>

Status ==
    \E rows \in setup.status :
        LET named == SelectSeq(rows, LAMBDA e : e.type = "cluster")
        IN  /\ Brings("status", ForEach(rows, StatusSamples))
            /\ clusterID' = IF named = <<>> \/ named[1].name = "" THEN clusterID
                            ELSE named[1].name
            /\ repeated' = (repeated \/ Repeats(rows, ById))

Version ==
    /\ \E v \in setup.version :
          Brings("version", Add("pve_version_info", 1, <<<<"version", v>>>>))
    /\ UNCHANGED <<clusterID, repeated>>

QDevice ==
    /\ \E q \in setup.qdevice : Brings("qdevice", QDeviceSamples(q))
    /\ UNCHANGED <<clusterID, repeated>>

Backup ==
    /\ \E guests \in setup.backup :
          /\ Brings("backup",
                    Add("pve_not_backed_up_total", Len(guests), <<Id(<<"cluster", clusterID>>)>>)
                    \o ForEach(guests, NotBackedUpSamples))
          /\ repeated' = (repeated \/ Repeats(guests, ByVMID))
    /\ UNCHANGED clusterID

HAStatus ==
    /\ \E entries \in setup.ha :
          /\ Brings("ha", ForEach(entries, HASamples))
          /\ repeated' = (repeated \/ Repeats(entries, ByNode))
    /\ UNCHANGED clusterID

(* The collectors of one node, in whatever order the nodes' samples are merged *)
Node(i) ==
    LET n == nodes[i]
    IN  \E jobs \in setup.replication[n], subs \in setup.subscription[n],
           guests \in setup.onboot[n] :
           /\ out' = out \o ForEach(jobs, JobSamples)
                  \o ForEach(subs, LAMBDA sub : SubscriptionSamples(n, sub))
                  \o ForEach(guests, LAMBDA g : OnbootSamples(n, g))
           /\ sent' = sent \cup UNION {UNION {Numbers(st, j.id) : st \in j.status} :
                                         j \in ToSet(jobs)}
           /\ repeated' = (repeated \/ Repeats(jobs, ById) \/ OfTwoNodes(jobs)
                            \/ Repeats(guests, ByVMID))
           /\ nodes' = RemoveAt(nodes, i)
           /\ UNCHANGED <<setup, target, pc, clusterID, snap, up>>

Finish ==
    /\ pc = "nodes" /\ nodes = <<>>
    /\ EndPoll(out \o Add("pve_up", 1, <<Id(<<"cluster", clusterID>>)>>) \o SelfSamples)
    /\ UNCHANGED <<setup, up, sent, repeated>>

Published == pc = "done" /\ UNCHANGED vars

Next ==
    \/ PrimaryFails \/ Resources \/ NoAnswer \/ Status \/ Version \/ QDevice
    \/ Backup \/ HAStatus \/ Finish \/ Published
    \/ pc = "nodes" /\ \E i \in DOMAIN nodes : Node(i)

Spec == Init /\ [][Next]_vars

-----------------------------------------------------------------------------
(* What the backends show.  Collect passes a sample over when one of its name    *)
(* with its label values came before; an instrument keeps the last observation   *)
(* of a set of attributes.                                                       *)
LabelValues(s) == [i \in DOMAIN s.labels |-> s.labels[i][2]]
Series(s) == <<s.name, s.labels>>

DupById(s, t) == s.name = t.name /\ LabelValues(s)[2] = LabelValues(t)[2]
Dup(s, t) == s.name = t.name /\ LabelValues(s) = LabelValues(t)

Prometheus == {i \in DOMAIN snap : \A j \in 1 .. i - 1 : ~Dup(snap[j], snap[i])}
OTLP == {i \in DOMAIN snap : \A j \in i + 1 .. Len(snap) : Series(snap[j]) # Series(snap[i])}

Done == pc = "done"

(* The registry, which refuses a scrape that has a series twice, gets each       *)
(* series of the snapshot once, although Collect compares label values only      *)
(* (prometheus.go:31-36).                                                        *)
ScrapeAccepted ==
    Done =>
      /\ \A i, j \in Prometheus : Series(snap[i]) = Series(snap[j]) => i = j
      /\ {Series(snap[i]) : i \in DOMAIN snap} = {Series(snap[i]) : i \in Prometheus}

(* The mapping makes no series twice of answers that tell each thing once, so    *)
(* that the backends, of which one keeps the first and one the last, agree       *)
(* (README.md:21).                                                               *)
BackendsAgree ==
    Done /\ ~repeated =>
      \A i, j \in DOMAIN snap :
         Series(snap[i]) = Series(snap[j]) => snap[i].value = snap[j].value

(* A state is shown as a whole enumeration of which at most one is active, and   *)
(* exactly one for a node's HA state, in either backend and however often the    *)
(* API told of it (resources.go:11-17, ha.go:43).                                *)
Enums == {"pve_ha_state", "pve_lock_state", "pve_subscription_status"}
Subject(s) == SubSeq(s.labels, 1, 2)
EnumOf(s) ==
    CASE s.name = "pve_lock_state" -> LockStates
      [] s.name = "pve_subscription_status" -> SubStates
      [] OTHER -> IF s.labels[2][2][1] = "node" THEN HaNodeStates ELSE HaGuestStates
WholeEnums(shown) ==
    \A i \in shown : snap[i].name \in Enums =>
       LET all == {snap[j] : j \in {k \in shown : /\ snap[k].name = snap[i].name
                                                 /\ Subject(snap[k]) = Subject(snap[i])}}
           active == {s \in all : s.value = 1}
       IN  /\ {s.labels[3][2] : s \in all} = ToSet(EnumOf(snap[i]))
           /\ \A s, t \in active : s = t
           /\ EnumOf(snap[i]) = HaNodeStates => active # {}
EnumsAreWhole == Done => WholeEnums(Prometheus) /\ WholeEnums(OTLP)

(* The numbers shown are those the API sent, neither fewer nor, for a value that *)
(* is missing, a zero more (ADR 0006, parse.go:11-13).                           *)
Numeric == ToSet(GuestMetrics) \cup ToSet(StorageMetrics) \cup ToSet(ReplicationMetrics)
NumbersAsSent ==
    Done => {<<s.name, s.labels[2][2], s.value>> :
               s \in {t \in ToSet(snap) : t.name \in Numeric}} = sent

(* Each target has one series of its own that says whether it is up, and its     *)
(* duration and failure counter under its configured name, however many targets  *)
(* are the same cluster by its own name, and in either backend                   *)
(* (collector.go:163-169).                                                       *)
ShowsTarget(shown, t) ==
    LET own(name) == {snap[i] : i \in {j \in shown : /\ snap[j].name = name
                                 /\ snap[j].labels[1] = <<"cluster", t>>
                                 /\ snap[j].labels[2][2][1] = "cluster"}}
    IN  /\ \E s \in own("pve_up") :
              own("pve_up") = {s} /\ s.value = BoolToFloat(t \in up)
        /\ \A name \in {"pve_collection_duration_seconds", "pve_request_errors_total"} :
              {s.labels[2] : s \in own(name)} = {Id(<<"cluster", t>>)}
TargetsAreShown ==
    Done => \A t \in ToSet(setup.targets) : ShowsTarget(Prometheus, t) /\ ShowsTarget(OTLP, t)
=============================================================================
