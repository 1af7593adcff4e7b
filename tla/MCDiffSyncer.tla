---------------------------- MODULE MCDiffSyncer ----------------------------
(***************************************************************************)
(* Instances of DiffSyncer.  "full" has an object of every kind, and an    *)
(* API that can move from one cluster to another: created, updated and     *)
(* deleted objects of every kind, and an update that frees an object to be *)
(* deleted.  "flat" has one phase with more events than workers.           *)
(***************************************************************************)
EXTENDS DiffSyncer, TLC

CONSTANTS w1, w2, w3

twoWorkers == {w1, w2}

threeWorkers == {w1, w2, w3}

WorkerSymmetry == Permutations(Workers)

fullObj == {"s1", "c1", "c2", "b1", "a1", "r1"}

fullKind == [s1 |-> "server", c1 |-> "cluster", c2 |-> "cluster",
             b1 |-> "bind", a1 |-> "api", r1 |-> "routing"]

fullConf == [o \in fullObj |-> IF o = "a1" THEN {"v1", "v2"} ELSE {"v1"}]

fullRefs ==
  [s1 |-> [v1 |-> {}],
   c1 |-> [v1 |-> {}],
   c2 |-> [v1 |-> {}],
   b1 |-> [v1 |-> {"c1", "s1"}],
   a1 |-> [v1 |-> {"c1"}, v2 |-> {"c2"}],
   r1 |-> [v1 |-> {"a1", "c1"}]]

flatObj == {"c1", "c2", "c3"}

flatKind == [o \in flatObj |-> "cluster"]

flatConf == [o \in flatObj |-> IF o = "c3" THEN {"v1"} ELSE {"v1", "v2"}]

flatRefs == [o \in flatObj |-> [v \in flatConf[o] |-> {}]]
=============================================================================
