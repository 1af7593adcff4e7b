-------------------------- MODULE StatusSyncProofs --------------------------
(***************************************************************************)
(* The status syncer, for any replicas and election ids, any Ingresses and *)
(* any number of faults: its type invariant, and who may write a status.   *)
(***************************************************************************)
EXTENDS StatusSync, TLAPS

(* The jobs that have read an Ingress are jobs of a replica. *)
FreshShape == fresh \subseteq Replicas \X Twins

(* The elector, the callback and the worker start in that order, each once; *)
(* the goroutine of Shutdown ends after the worker.                         *)
Started(r) ==
  /\ elector[r] # "candidate" => seen[r]
  /\ callback[r] # "none" => elector[r] # "candidate"
  /\ callback[r] \in {"none", "called"} <=> wpc[r] = "off"
  /\ down[r] = "done" => wpc[r] = "exited"

IInv == TypeOK /\ FreshShape /\ \A r \in Replicas : Started(r)

-----------------------------------------------------------------------------
(* A function that is changed at a point, be it of its domain or not. *)
LEMMA ExceptType ==
  ASSUME NEW S, NEW T, NEW f \in [S -> T], NEW x, NEW y \in T
  PROVE  [f EXCEPT ![x] = y] \in [S -> T]
OBVIOUS

LEMMA InitIInv == Init => IInv
<1> SUFFICES ASSUME Init PROVE IInv
  OBVIOUS
<1>1. TypeOK
  BY StatusAssumption DEF Init, TypeOK, NoJobs, Addresses, Objects
<1>2. QED
  BY <1>1 DEF Init, IInv, FreshShape, Started

(* The steps of the elector and of its callback. *)
LEMMA ElectorSteps ==
  ASSUME IInv, NEW r \in Replicas,
         Acquire(r) \/ AcquireFails(r) \/ LoseLease(r) \/ OnStartedLeading(r) \/ Poll(r) \/ PollEnds(r)
  PROVE  IInv'
<1> USE StatusAssumption
<1> USE DEF IInv, TypeOK, FreshShape, Started, leaderVars, writerVars, stopVars, NoJobs, Addresses, Objects
<1>1. ResourceName(r) \in ConfigMaps /\ ElectionID[r] \in {ElectionID[q] : q \in Replicas}
  BY DEF ConfigMaps
<1>2. CASE Acquire(r)
  BY <1>1, <1>2 DEF Acquire
<1>3. CASE AcquireFails(r)
  BY <1>3 DEF AcquireFails
<1>4. CASE LoseLease(r)
  BY <1>4 DEF LoseLease
<1>5. CASE OnStartedLeading(r)
  BY <1>5 DEF OnStartedLeading
<1>6. CASE Poll(r)
  BY <1>6 DEF Poll
<1>7. CASE PollEnds(r)
  BY <1>7 DEF PollEnds
<1>8. QED
  BY <1>2, <1>3, <1>4, <1>5, <1>6, <1>7

(* The steps of the worker. *)
LEMMA WorkerSteps ==
  ASSUME IInv, NEW r \in Replicas,
         \/ WorkerStart(r) \/ SyncSkip(r) \/ Sync(r) \/ SyncFails(r)
         \/ updateStatus(r) \/ BatchDone(r) \/ WorkerQuit(r)
  PROVE  IInv'
<1> USE StatusAssumption
<1> USE DEF IInv, TypeOK, FreshShape, Started, leaderVars, stopVars, NoJobs, Addresses, Objects, Worker
<1>1. CASE WorkerStart(r)
  BY <1>1 DEF WorkerStart
<1>2. CASE SyncSkip(r)
  BY <1>2 DEF SyncSkip
<1>3. CASE Sync(r)
  BY <1>3 DEF Sync
<1>4. CASE SyncFails(r)
  BY <1>4 DEF SyncFails
<1>5. CASE updateStatus(r)
  BY <1>5 DEF updateStatus, runningAddresses
<1>6. CASE BatchDone(r)
  BY <1>6 DEF BatchDone
<1>7. CASE WorkerQuit(r)
  BY <1>7 DEF WorkerQuit
<1>8. QED
  BY <1>1, <1>2, <1>3, <1>4, <1>5, <1>6, <1>7

(* The steps of a job of the batch. *)
LEMMA JobSteps ==
  ASSUME IInv, NEW r \in Replicas, NEW n \in Ings,
         JobGet(r, n) \/ JobUpdate(r, n) \/ JobFails(r, n)
  PROVE  IInv'
<1> USE StatusAssumption
<1> USE DEF IInv, TypeOK, FreshShape, Started, leaderVars, stopVars, NoJobs, Addresses, Objects, Job
<1>1. CASE JobGet(r, n)
  BY <1>1 DEF JobGet
<1>2. CASE JobUpdate(r, n)
  <2>1. PICK a \in runningAddresses :
          IF <<r, n>> \in fresh
          THEN /\ status' = [status EXCEPT ![<<"networking", n>>] = a]
               /\ fresh' = IF status[<<"networking", n>>] # a THEN fresh \ Written(n)
                           ELSE fresh \ {<<r, n>>}
          ELSE UNCHANGED <<status, fresh>>
    BY <1>2 DEF JobUpdate
  <2>2. status' \in [Objects -> Addresses]
    <3>1. a \in Addresses
      BY DEF runningAddresses
    <3>2. CASE <<r, n>> \in fresh
      <4>1. status' = [status EXCEPT ![<<"networking", n>>] = a]
        BY <2>1, <3>2
      <4>2. status \in [Objects -> Addresses]
        OBVIOUS
      <4>3. QED
        BY ONLY <3>1, <4>1, <4>2, ExceptType
    <3>3. CASE <<r, n>> \notin fresh
      BY <2>1, <3>3
    <3>4. QED
      BY <3>2, <3>3
  <2>3. fresh' \subseteq fresh /\ <<r, n>> \notin fresh'
    BY <2>1 DEF Written
  <2>4. \A x \in fresh' : x[2] \in Twins /\ jobs'[x[1]][x[2]] = "update"
    <3> SUFFICES ASSUME NEW x \in fresh' PROVE x[2] \in Twins /\ jobs'[x[1]][x[2]] = "update"
      OBVIOUS
    <3>1. x \in fresh /\ x[1] \in Replicas /\ x[2] \in Twins /\ x = <<x[1], x[2]>>
      BY <2>3
    <3>2. ~(x[1] = r /\ x[2] = n)
      <4>1. x # <<r, n>>
        BY <2>3
      <4>2. QED
        BY ONLY <3>1, <4>1
    <3>3. jobs' = [jobs EXCEPT ![r][n] = "none"] /\ jobs[x[1]][x[2]] = "update"
      BY <1>2, <3>1 DEF JobUpdate
    <3>4. QED
      BY <3>1, <3>2, <3>3
  <2>5. QED
    BY <1>2, <2>2, <2>3, <2>4 DEF JobUpdate
<1>3. CASE JobFails(r, n)
  BY <1>3 DEF JobFails
<1>4. QED
  BY <1>1, <1>2, <1>3

(* The steps of Stop and of the goroutine it starts, and those of others. *)
LEMMA OtherSteps ==
  ASSUME IInv,
         \/ \E r \in Replicas : \/ Stop(r) \/ ClearRecord(r) \/ QueueShutDown(r)
                                \/ QueueShutDownDone(r) \/ Exit(r)
         \/ \E n \in Ings : AddIngress(n) \/ EditIngress(n)
         \/ UNCHANGED vars
  PROVE  IInv'
<1> USE StatusAssumption
<1> USE DEF IInv, TypeOK, FreshShape, Started, leaderVars, writerVars, stopVars, NoJobs, Addresses, Objects
<1>1. CASE \E r \in Replicas : Stop(r)
  BY <1>1 DEF Stop
<1>2. CASE \E r \in Replicas : ClearRecord(r)
  <2>1. PICK r \in Replicas : ClearRecord(r)
    BY <1>2
  <2>2. holder' \in [ConfigMaps -> {Absent, Nobody} \cup {ElectionID[q] : q \in Replicas}]
    BY <2>1 DEF ClearRecord, ConfigMaps
  <2>3. QED
    BY <2>1, <2>2 DEF ClearRecord
<1>3. CASE \E r \in Replicas : QueueShutDown(r)
  BY <1>3 DEF QueueShutDown
<1>4. CASE \E r \in Replicas : QueueShutDownDone(r)
  BY <1>4 DEF QueueShutDownDone, workerDone
<1>5. CASE \E r \in Replicas : Exit(r)
  BY <1>5 DEF Exit, Returned
<1>6. CASE \E n \in Ings : AddIngress(n)
  BY <1>6 DEF AddIngress
<1>7. CASE \E n \in Ings : EditIngress(n)
  BY <1>7 DEF EditIngress, Written
<1>8. CASE UNCHANGED vars
  BY <1>8 DEF vars
<1>9. QED
  BY <1>1, <1>2, <1>3, <1>4, <1>5, <1>6, <1>7, <1>8

LEMMA NextIInv == IInv /\ [Next]_vars => IInv'
<1> SUFFICES ASSUME IInv, [Next]_vars PROVE IInv'
  OBVIOUS
<1>1. CASE \E r \in Replicas : Step(r)
  BY <1>1, ElectorSteps, WorkerSteps, JobSteps, OtherSteps DEF Step
<1>2. CASE \E r \in Replicas : \/ Poll(r) \/ Stop(r) \/ AcquireFails(r) \/ LoseLease(r)
                               \/ \E n \in Ings : JobFails(r, n)
  BY <1>2, ElectorSteps, JobSteps, OtherSteps
<1>3. CASE \/ \E n \in Ings : AddIngress(n) \/ EditIngress(n)
           \/ UNCHANGED vars
  BY <1>3, OtherSteps
<1>4. QED
  BY <1>1, <1>2, <1>3 DEF Next

(* Every reachable state of the status syncer satisfies the invariant. *)
LEMMA Invariant == Spec => []IInv
BY InitIInv, NextIInv, PTL DEF Spec

(***************************************************************************)
(* The state of elector, queue, batch and Stop keeps its shape: a batch is *)
(* there only while the worker waits for it (status.go, updateStatus).     *)
(***************************************************************************)
THEOREM TypeCorrect == Spec => []TypeOK
BY Invariant, PTL DEF IInv

-----------------------------------------------------------------------------
(* The steps of a replica that leave every status alone. *)
LEMMA StatusAlone ==
  ASSUME NEW r \in Replicas,
         \/ Acquire(r) \/ AcquireFails(r) \/ LoseLease(r) \/ OnStartedLeading(r) \/ Poll(r) \/ PollEnds(r)
         \/ WorkerStart(r) \/ SyncSkip(r) \/ Sync(r) \/ SyncFails(r) \/ updateStatus(r)
         \/ BatchDone(r) \/ WorkerQuit(r)
         \/ \E n \in Ings : JobGet(r, n) \/ JobFails(r, n)
         \/ Stop(r) \/ ClearRecord(r) \/ QueueShutDown(r) \/ QueueShutDownDone(r) \/ Exit(r)
  PROVE  UNCHANGED status
BY DEF writerVars, Acquire, AcquireFails, LoseLease, OnStartedLeading, Poll, PollEnds,
       WorkerStart, SyncSkip, Sync, SyncFails, updateStatus, BatchDone, WorkerQuit,
       JobGet, JobFails, Stop, ClearRecord, QueueShutDown, QueueShutDownDone, Exit

LEMMA WriterStep == IInv /\ [Next]_vars => [\A r \in Replicas : Writes(r) => seen[r] /\ down[r] # "done" /\ Alive(r)]_vars
<1> SUFFICES ASSUME IInv, [Next]_vars, NEW r \in Replicas, Writes(r)
             PROVE  seen[r] /\ down[r] # "done" /\ Alive(r)
  OBVIOUS
<1>1. status' # status /\ jobs'[r] # jobs[r]
  BY DEF Writes
<1>2. \/ \E q \in Replicas, n \in Ings : JobUpdate(q, n)
      \/ \E n \in Ings : AddIngress(n) \/ EditIngress(n)
  BY <1>1, StatusAlone DEF Next, Step, vars, writerVars
<1>3. ~ \E n \in Ings : AddIngress(n) \/ EditIngress(n)
  BY <1>1 DEF AddIngress, EditIngress, writerVars
<1>4. PICK q \in Replicas, n \in Ings : JobUpdate(q, n)
  BY <1>2, <1>3
<1>5. q = r /\ wpc[r] = "batch" /\ Alive(r)
  BY <1>1, <1>4 DEF JobUpdate, Job, IInv, TypeOK
<1>6. callback[r] # "none"
  BY <1>5 DEF IInv, Started
<1>7. seen[r] /\ down[r] # "done"
  BY <1>5, <1>6 DEF IInv, Started
<1>8. QED
  BY <1>5, <1>7

(***************************************************************************)
(* A status is written only by a live process that has held the lock and   *)
(* whose queue has not yet confirmed its shutdown: the batch ends before   *)
(* the worker does, and the worker before Shutdown (status.go:99, 141,     *)
(* queue.go:133).                                                          *)
(***************************************************************************)
THEOREM WritersCorrect == Spec => WritersAccountable
BY Invariant, WriterStep, PTL DEF Spec, WritersAccountable
=============================================================================
