---------------------------- MODULE MCStatusSync ----------------------------
(***************************************************************************)
(* The instance of StatusSync: replicas that were given one election id.   *)
(***************************************************************************)
EXTENDS StatusSync

sharedId == [r \in Replicas |-> "id"]
=============================================================================
