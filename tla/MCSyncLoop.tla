----------------------------- MODULE MCSyncLoop -----------------------------
(***************************************************************************)
(* Instances of SyncLoop: "pair" has an ingress, which may be of the       *)
(* controller's class or not, and the endpoints behind it; "single" has a  *)
(* ManbaCluster, of the class or not.                                      *)
(***************************************************************************)
EXTENDS SyncLoop

pairRes == {"ing", "ep"}

pairKeys == pairRes \cup {"force"}

pairKind == [ing |-> "ingress", ep |-> "endpoints"]

pairVal == [ing |-> {"on", "off"}, ep |-> {"v1"}]

singleRes == {"cls"}

singleKeys == singleRes \cup {"force"}

singleKind == [cls |-> "object"]

singleVal == [cls |-> {"on", "off"}]
=============================================================================
