----------------------------- MODULE MCSamples -----------------------------
(* Samples for TLC.  Each case looks closely at some of the answers and gives  *)
(* the other calls a plain one; the last has two targets that are the same     *)
(* cluster.                                                                    *)
EXTENDS Samples, TLC

Bare(n) == [form |-> "bare", num |-> n]
Quoted(n) == [form |-> "quoted", num |-> n]
Null == [form |-> "null"]
Text == [form |-> "text"]
Missing == [form |-> "missing"]
JSON == {Bare(0), Bare(1), Quoted(1), Null, Text, Missing}

(* The metrics of a row, all alike but for the first *)
Json(metrics, first, rest) == [m \in ToSet(metrics) |-> IF m = metrics[1] THEN first ELSE rest]

NodeRow(n, status, first, rest) ==
    [type |-> "node", id |-> <<"node", n>>, node |-> n, status |-> status,
     json |-> Json(HostMetrics, first, rest)]
GuestRow(type, id, hastate, lock, json) ==
    [type |-> type, id |-> <<type, id>>, node |-> "n1", status |-> "running",
     hastate |-> hastate, lock |-> lock, template |-> json,
     json |-> Json(GuestMetrics, json, Bare(2))]
StorageRow(json) ==
    [type |-> "storage", id |-> <<"storage", "local">>, node |-> "n1",
     status |-> "available", json |-> Json(StorageMetrics, json, Null)]
PoolRow == [type |-> "pool", id |-> <<"pool", "p">>, json |-> [m \in {} |-> Null]]
N1 == NodeRow("n1", "online", Bare(1), Bare(2))
N2 == NodeRow("n2", "offline", Missing, Null)

ClusterEntry(name, number) ==
    [type |-> "cluster", id |-> <<"cluster", "c">>, name |-> name, number |-> number]
NodeEntry(number) ==
    [type |-> "node", id |-> <<"node", "n1">>, name |-> "n1", number |-> number]
HA(type, node, status) == [type |-> type, node |-> node, status |-> status]
Guest(type, vmid) == [type |-> type, vmid |-> vmid]
Job(id, status) == [id |-> <<"job", id>>, guest |-> Bare(100), status |-> status]
Sub(level, status, due) == [level |-> level, status |-> status, due |-> due]
Onboot(type, vmid, config) == [type |-> type, vmid |-> vmid, config |-> config]

Same(answers) == [n \in {"n1", "n2"} |-> answers]
Plain ==
    [targets |-> <<"a">>, fails |-> {}, resources |-> {<<N1>>},
     status |-> {<<NodeEntry(Bare(1)), ClusterEntry("c", Bare(2))>>},
     version |-> {"8"}, qdevice |-> {[model |-> ""]}, backup |-> {<<>>},
     ha |-> {<<HA("node", "n1", "online")>>}, replication |-> Same({<<>>}),
     subscription |-> Same({<<>>}), onboot |-> Same({<<>>})]

Rows ==
    {N1, N2, PoolRow} \cup {StorageRow(j) : j \in JSON}
      \cup {GuestRow("qemu", 100, s, l, j) : s \in {"", "started", "other"},
                                             l \in {"", "backup", "other"}, j \in {Bare(1), Null}}
      \cup {GuestRow("lxc", 101, "stopped", "", j) : j \in JSON}
Entries ==
    {HA(t, n, s) : t \in {"node", "lrm"}, n \in {"n1", ""},
                   s \in {"online", "maintenance", "other"}}
ClusterCase ==
    [Plain EXCEPT
       !.fails = {"resources", "status", "version", "qdevice", "backup", "ha"},
       !.status = {<<NodeEntry(j), ClusterEntry(c, k)>> : j, k \in {Bare(2), Text}, c \in {"c", ""}}
                    \cup {<<>>, <<NodeEntry(Missing)>>},
       !.qdevice = {[model |-> ""], [model |-> "net"]},
       !.backup = {<<>>, <<Guest("qemu", Bare(100)), Guest("lxc", Quoted(101))>>,
                   <<Guest("", Bare(100)), Guest("qemu", Null)>>,
                   <<Guest("qemu", Bare(100)), Guest("qemu", Quoted(100))>>}]
NodesCase ==
    [Plain EXCEPT
       !.resources = {<<N1, N2>>, <<N1, N1>>},
       !.replication =
          ("n1" :> {<<Job("0", s)>> : s \in {{}, {Json(ReplicationMetrics, Bare(0), Null)},
                                           {Json(ReplicationMetrics, Quoted(1), Bare(3))}}})
          @@ ("n2" :> {<<>>, <<Job("1", {}), Job("2", {Json(ReplicationMetrics, Bare(1), Bare(2))})>>,
                       <<Job("0", {Json(ReplicationMetrics, Bare(1), Bare(3))})>>}),
       !.subscription =
          ("n1" :> {<<Sub("", "active", {})>>, <<Sub("c", "", {5})>>, <<Sub("c", "other", {5})>>})
          @@ ("n2" :> {<<>>, <<Sub("c", "notfound", {})>>}),
       !.onboot =
          ("n1" :> {<<Onboot("qemu", Bare(100), c)>> : c \in {{}, {Bare(1)}, {Missing}}}
                     \cup {<<Onboot("qemu", Null, {Bare(1)})>>})
          @@ ("n2" :> {<<>>, <<Onboot("qemu", Bare(100), {Bare(0)}), Onboot("lxc", Bare(100), {Quoted(1)})>>})]
Few == {N1, N2, PoolRow, StorageRow(Quoted(1)), GuestRow("qemu", 100, "started", "other", Bare(1)),
        GuestRow("lxc", 101, "other", "backup", Null)}
AllCases ==
    { [Plain EXCEPT !.resources = {<<r>> : r \in Rows} \cup {<<r, s, r>> : r, s \in Few}],
      [Plain EXCEPT !.ha = {<<d, e>> : d, e \in Entries},
                    !.resources = {<<N1, GuestRow("qemu", 100, "started", "", Bare(1))>>}],
      ClusterCase, NodesCase,
      [Plain EXCEPT !.targets = <<"a", "b">>, !.fails = {"resources", "status", "ha"},
                    !.backup = {<<Guest("qemu", Bare(100))>>},
                    !.subscription = Same({<<Sub("c", "active", {5})>>})] }
=============================================================================
