---------------------------- MODULE MCTargetPoll ----------------------------
(* TargetPoll for TLC.  Checking every set of toggles at once multiplies the   *)
(* states without new interleavings: each node collector has a choice of its   *)
(* own, two of them one after the other, and the cluster collectors are        *)
(* checked with no node to poll.  Three nodes are more than the limit admits,  *)
(* with one call each.                                                         *)
EXTENDS TargetPoll

CONSTANTS n1, n2, n3

Case(nodes, toggles, limit) == [nodes |-> nodes, toggles |-> toggles, limit |-> limit]
Choices ==
    { Case({n1, n2}, {"qdevice", "backup", "ha"}, 0),
      Case({n1, n2}, {"replication", "subscription"}, 0),
      Case({n1, n2}, {"onboot"}, 0),
      Case({n1, n2, n3}, {"subscription"}, 2) }
=============================================================================
