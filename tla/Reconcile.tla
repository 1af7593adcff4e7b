----------------------------- MODULE Reconcile ------------------------------
(***************************************************************************)
(* What a caller of solver.Solve may rely on, whatever goroutines do the   *)
(* work: Manba moves towards the target one object at a time, each object  *)
(* straight to its target configuration and never away from it, until the  *)
(* call returns, and success means that the target has been reached.       *)
(***************************************************************************)
CONSTANTS Obj

VARIABLES
  manba,    \* what the gateway stores, per object
  tgt,      \* what it should store
  result    \* "running", then what Solve returned: "ok" or "error"

vars == <<manba, tgt, result>>

Init == result = "running"

(* The gateway applies the one change that o needs. *)
Change(o) ==
  /\ result = "running"
  /\ manba[o] # tgt[o]
  /\ manba' = [manba EXCEPT ![o] = tgt[o]]
  /\ UNCHANGED <<tgt, result>>

ReturnOk ==
  /\ result = "running"
  /\ manba = tgt
  /\ result' = "ok"
  /\ UNCHANGED <<manba, tgt>>

ReturnError ==
  /\ result = "running"
  /\ result' = "error"
  /\ UNCHANGED <<manba, tgt>>

Next == (\E o \in Obj : Change(o)) \/ ReturnOk \/ ReturnError

Spec == Init /\ [][Next]_vars
=============================================================================
