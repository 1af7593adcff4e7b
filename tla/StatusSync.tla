----------------------------- MODULE StatusSync -----------------------------
(***************************************************************************)
(* status.statusSync and the election that starts it.  Every replica of    *)
(* the controller runs an elector once; when it has the lock its callback  *)
(* starts the worker of a task queue and enqueues an element every minute. *)
(* The worker looks for the address to publish and writes it, in a batch   *)
(* of concurrent jobs, to the status of the Ingresses; other writers make  *)
(* an update fail with a conflict.  A SIGTERM stops a replica at any time. *)
(*                                                                         *)
(* The elements of this queue differ only in their timestamps, and those   *)
(* that were enqueued before the one being processed are superseded when   *)
(* it succeeds (TaskQueue has the rule): whether there is one is enough.   *)
(***************************************************************************)
EXTENDS Naturals, FiniteSets

CONSTANTS
  Replicas,
  ElectionID,            \* each replica's --election-id
  Ings,                  \* names of ManbaIngresses
  Twins,                 \* those that are the name of an Ingress as well
  PublishStatusAddress,  \* the address of the flag, where it is given
  NoAddress,
  MaxFaults              \* bound on lost leases, failed calls and writes of others

ASSUME StatusAssumption ==
  /\ Twins \subseteq Ings /\ DOMAIN ElectionID = Replicas
  /\ PublishStatusAddress # NoAddress /\ MaxFaults \in Nat

VARIABLES
  holder,    \* per ConfigMap, the identity in its election record, Nobody or Absent
  elector,   \* candidate, leading, or done: Run has returned
  seen,      \* the elector has observed its own identity in the record
  callback,  \* OnStartedLeading: none, called, poll or ended
  pending,   \* there is an element in the status queue
  wpc,       \* the worker of that queue
  jobs,      \* the worker's batch: each Ingress's next call
  fresh,     \* the Ingresses that a job has read and no one has written since
  listed,    \* the ManbaIngresses in the store
  status,    \* the address in the status of each ManbaIngress and Ingress
  down,      \* the queue's Shutdown: no, called, waiting for the worker or done
  spc,       \* Stop: running, configmap, returned, and exited 10 seconds later
  flag,      \* --publish-status-address, which the replicas share, or NoAddress
  faults

leaderVars == <<holder, elector, seen, callback>>
writerVars == <<wpc, jobs, fresh, status>>
stopVars   == <<down, spc>>
vars == <<leaderVars, pending, writerVars, listed, flag, stopVars, faults>>

Nobody == "nobody"
Absent == "absent"

(* The ConfigMap of the lock, and the one that Shutdown asks for. *)
ResourceName(r) == <<ElectionID[r], "-ingress-controller">>
ShutdownName(r) == <<ElectionID[r]>>
ConfigMaps == {ResourceName(r) : r \in Replicas} \cup {ShutdownName(r) : r \in Replicas}

Objects == {<<"manba", n>> : n \in Ings} \cup {<<"networking", n>> : n \in Twins}

Addresses == {NoAddress, PublishStatusAddress}

NoJobs == [n \in Ings |-> "none"]

Init ==
  /\ holder = [c \in ConfigMaps |-> Absent]
  /\ elector = [r \in Replicas |-> "candidate"] /\ seen = [r \in Replicas |-> FALSE]
  /\ callback = [r \in Replicas |-> "none"]
  /\ pending = [r \in Replicas |-> FALSE] /\ wpc = [r \in Replicas |-> "off"]
  /\ jobs = [r \in Replicas |-> NoJobs] /\ fresh = {}
  /\ listed = {} /\ status = [o \in Objects |-> NoAddress]
  /\ down = [r \in Replicas |-> "no"] /\ spc = [r \in Replicas |-> "running"]
  /\ flag \in Addresses /\ faults = 0

Alive(r) == spc[r] # "exited"

(* The status queue's IsShuttingDown. *)
IsShuttingDown(r) == down[r] \in {"waiting", "done"}

-----------------------------------------------------------------------------
(***************************************************************************)
(* The elector, which knows itself by its election id.                     *)
(***************************************************************************)
(* A record is taken when it is free or the elector's own.  (One that has    *)
(* expired may be taken too; a lock that another identity holds cannot come  *)
(* about here, since the identity is part of the lock's name.)               *)
MayAcquire(r) == holder[ResourceName(r)] \in {Absent, Nobody, ElectionID[r]}

Acquire(r) ==
  /\ Alive(r) /\ elector[r] = "candidate" /\ MayAcquire(r)
  /\ holder' = [holder EXCEPT ![ResourceName(r)] = ElectionID[r]]
  /\ elector' = [elector EXCEPT ![r] = "leading"] /\ seen' = [seen EXCEPT ![r] = TRUE]
  /\ callback' = [callback EXCEPT ![r] = "called"]
  /\ UNCHANGED <<pending, writerVars, listed, flag, stopVars, faults>>

(* The record was read but not written; the elector tries again. *)
AcquireFails(r) ==
  /\ Alive(r) /\ elector[r] = "candidate" /\ faults < MaxFaults
  /\ faults' = faults + 1
  /\ seen' = [seen EXCEPT ![r] = holder[ResourceName(r)] = ElectionID[r]]
  /\ UNCHANGED <<holder, elector, callback, pending, writerVars, listed, flag, stopVars>>

(* The lease was not renewed in time: the callback's context is done and Run *)
(* returns.  Start does not call it again.                                   *)
LoseLease(r) ==
  /\ Alive(r) /\ elector[r] = "leading" /\ faults < MaxFaults
  /\ faults' = faults + 1
  /\ elector' = [elector EXCEPT ![r] = "done"]
  /\ UNCHANGED <<holder, seen, callback, pending, writerVars, listed, flag, stopVars>>

(* Start the worker; poll.  (Before that an element is enqueued in the       *)
(* controller's own queue, which SyncLoop describes.)                        *)
OnStartedLeading(r) ==
  /\ Alive(r) /\ callback[r] = "called"
  /\ wpc' = [wpc EXCEPT ![r] = "until"]
  /\ callback' = [callback EXCEPT ![r] = "poll"]
  /\ UNCHANGED <<holder, elector, seen, pending, jobs, fresh, status, listed, flag, stopVars, faults>>

\* Mutant: the function that PollUntil calls says that it is done.
PollOnce(r) ==
  /\ Alive(r) /\ callback[r] = "poll"
  /\ pending' = [pending EXCEPT ![r] = @ \/ ~IsShuttingDown(r)]
  /\ callback' = [callback EXCEPT ![r] = "ended"]
  /\ UNCHANGED <<holder, elector, seen, writerVars, listed, flag, stopVars, faults>>

Poll(r) ==
  /\ Alive(r) /\ callback[r] = "poll"
  /\ pending' = [pending EXCEPT ![r] = @ \/ ~IsShuttingDown(r)]
  /\ UNCHANGED <<leaderVars, writerVars, listed, flag, stopVars, faults>>

PollEnds(r) ==
  /\ Alive(r) /\ callback[r] = "poll" /\ elector[r] = "done"
  /\ callback' = [callback EXCEPT ![r] = "ended"]
  /\ UNCHANGED <<holder, elector, seen, pending, writerVars, listed, flag, stopVars, faults>>

-----------------------------------------------------------------------------
(***************************************************************************)
(* The worker: sync, updateStatus and the jobs of runUpdate.               *)
(***************************************************************************)
Worker(r, from, to) == Alive(r) /\ wpc[r] = from /\ wpc' = [wpc EXCEPT ![r] = to]

(* wait.Until looks at the context first. *)
WorkerStart(r) ==
  /\ Worker(r, "until", IF elector[r] = "done" THEN "stopped" ELSE "get")
  /\ UNCHANGED <<leaderVars, pending, jobs, fresh, status, listed, flag, stopVars, faults>>

(* What is still in the queue after its shutdown is skipped. *)
SyncSkip(r) ==
  /\ Worker(r, "get", "get")
  /\ pending[r] /\ IsShuttingDown(r)
  /\ pending' = [pending EXCEPT ![r] = FALSE]
  /\ UNCHANGED <<leaderVars, jobs, fresh, status, listed, flag, stopVars, faults>>

Sync(r) ==
  /\ Worker(r, "get", "sync")
  /\ pending[r] /\ ~IsShuttingDown(r)
  /\ pending' = [pending EXCEPT ![r] = FALSE]
  /\ UNCHANGED <<leaderVars, jobs, fresh, status, listed, flag, stopVars, faults>>

(* With no address in the flag the service is looked up under the name "",   *)
(* which is an error; otherwise the flag's address is the only one.          *)
runningAddresses == {flag} \ {NoAddress}

SyncFails(r) ==
  /\ Worker(r, "sync", "get")
  /\ runningAddresses = {}
  /\ pending' = [pending EXCEPT ![r] = @ \/ ~IsShuttingDown(r)]
  /\ UNCHANGED <<leaderVars, jobs, fresh, status, listed, flag, stopVars, faults>>

(* A job for every listed ManbaIngress that does not have the address. *)
updateStatus(r) ==
  /\ Worker(r, "sync", "batch")
  /\ \E a \in runningAddresses :
       jobs' = [jobs EXCEPT ![r] = [n \in Ings |->
                  IF n \in listed /\ status[<<"manba", n>>] # a THEN "get" ELSE "none"]]
  /\ UNCHANGED <<leaderVars, pending, fresh, status, listed, flag, stopVars, faults>>

Job(r, n, from, to) ==
  /\ Alive(r) /\ wpc[r] = "batch" /\ jobs[r][n] = from
  /\ jobs' = [jobs EXCEPT ![r][n] = to]

(* The Ingress of that name, or an error that no one looks at. *)
JobGet(r, n) ==
  /\ Job(r, n, "get", IF n \in Twins THEN "update" ELSE "none")
  /\ fresh' = IF n \in Twins THEN fresh \cup {<<r, n>>} ELSE fresh
  /\ UNCHANGED <<leaderVars, pending, wpc, status, listed, flag, stopVars, faults>>

Written(n) == {<<r, n>> : r \in Replicas}

(* The update, unless the Ingress has changed since it was read. *)
JobUpdate(r, n) ==
  /\ Job(r, n, "update", "none")
  /\ \E a \in runningAddresses :
       IF <<r, n>> \in fresh
       THEN /\ status' = [status EXCEPT ![<<"networking", n>>] = a]
            /\ fresh' = IF status[<<"networking", n>>] # a THEN fresh \ Written(n)
                        ELSE fresh \ {<<r, n>>}
       ELSE UNCHANGED <<status, fresh>>
  /\ UNCHANGED <<leaderVars, pending, wpc, listed, flag, stopVars, faults>>

(* A call that fails ends the job. *)
JobFails(r, n) ==
  /\ faults < MaxFaults
  /\ \E call \in {"get", "update"} : Job(r, n, call, "none")
  /\ faults' = faults + 1
  /\ fresh' = fresh \ {<<r, n>>}
  /\ UNCHANGED <<leaderVars, pending, wpc, status, listed, flag, stopVars>>

\* Mutant: the batch is not waited for.
BatchDoneEarly(r) ==
  /\ Worker(r, "batch", "get")
  /\ UNCHANGED <<leaderVars, pending, jobs, fresh, status, listed, flag, stopVars, faults>>

(* WaitAll; sync returns nil whatever the jobs have returned. *)
BatchDone(r) ==
  /\ Worker(r, "batch", "get")
  /\ jobs[r] = NoJobs
  /\ UNCHANGED <<leaderVars, pending, jobs, fresh, status, listed, flag, stopVars, faults>>

WorkerQuit(r) ==
  /\ Worker(r, "get", "exited")
  /\ ~pending[r] /\ IsShuttingDown(r)
  /\ UNCHANGED <<leaderVars, pending, jobs, fresh, status, listed, flag, stopVars, faults>>

-----------------------------------------------------------------------------
(***************************************************************************)
(* Stop, with the goroutine that shuts the status queue down.              *)
(***************************************************************************)
IsLeader(r) == seen[r]

Stop(r) ==
  /\ spc[r] = "running"
  /\ spc' = [spc EXCEPT ![r] = IF IsLeader(r) THEN "configmap" ELSE "returned"]
  /\ down' = [down EXCEPT ![r] = "called"]
  /\ UNCHANGED <<leaderVars, pending, writerVars, listed, flag, faults>>

(* The election record in the annotations is emptied, if the ConfigMap is    *)
(* found.  UpdateStatusOnShutdown is false, so that Shutdown ends here.      *)
ClearRecord(r) ==
  /\ spc[r] = "configmap"
  /\ holder' = [holder EXCEPT ![ShutdownName(r)] = IF @ = Absent THEN Absent ELSE Nobody]
  /\ spc' = [spc EXCEPT ![r] = "returned"]
  /\ UNCHANGED <<elector, seen, callback, pending, writerVars, listed, flag, down, faults>>

QueueShutDown(r) ==
  /\ Alive(r) /\ down[r] = "called"
  /\ down' = [down EXCEPT ![r] = "waiting"]
  /\ UNCHANGED <<leaderVars, pending, writerVars, listed, flag, spc, faults>>

\* Mutant: Shutdown does not wait for the worker.
workerIgnored(r) == TRUE

(* The worker closes workerDone when the queue says that it is shut down; a  *)
(* worker that never started, or that the context stopped, never does.       *)
workerDone(r) == wpc[r] = "exited"

QueueShutDownDone(r) ==
  /\ Alive(r) /\ down[r] = "waiting" /\ workerDone(r)
  /\ down' = [down EXCEPT ![r] = "done"]
  /\ UNCHANGED <<leaderVars, pending, writerVars, listed, flag, spc, faults>>

\* Mutant: Shutdown calls the queue's Shutdown itself, not in a goroutine.
ReturnedAfterWorker(r) == spc[r] = "returned" /\ down[r] = "done"

Returned(r) == spc[r] = "returned"

Exit(r) ==
  /\ Returned(r)
  /\ spc' = [spc EXCEPT ![r] = "exited"]
  /\ fresh' = {x \in fresh : x[1] # r}
  /\ UNCHANGED <<leaderVars, pending, wpc, jobs, status, listed, flag, down, faults>>

(***************************************************************************)
(* Others: new ManbaIngresses, and a change of an Ingress that drops its   *)
(* status.                                                                 *)
(***************************************************************************)
AddIngress(n) ==
  /\ n \notin listed
  /\ listed' = listed \cup {n}
  /\ UNCHANGED <<leaderVars, pending, writerVars, flag, stopVars, faults>>

EditIngress(n) ==
  /\ n \in Twins /\ faults < MaxFaults
  /\ faults' = faults + 1
  /\ status' = [status EXCEPT ![<<"networking", n>>] = NoAddress]
  /\ fresh' = fresh \ Written(n)
  /\ UNCHANGED <<leaderVars, pending, wpc, jobs, listed, flag, stopVars>>

(* What the process does by itself once it runs. *)
Step(r) ==
  \/ Acquire(r) \/ OnStartedLeading(r) \/ PollEnds(r)
  \/ WorkerStart(r) \/ SyncSkip(r) \/ Sync(r) \/ SyncFails(r) \/ updateStatus(r)
  \/ BatchDone(r) \/ WorkerQuit(r)
  \/ \E n \in Ings : JobGet(r, n) \/ JobUpdate(r, n)
  \/ ClearRecord(r) \/ QueueShutDown(r) \/ QueueShutDownDone(r) \/ Exit(r)

Next ==
  \/ \E r \in Replicas :
       \/ Step(r) \/ Poll(r) \/ Stop(r)
       \/ AcquireFails(r) \/ LoseLease(r) \/ \E n \in Ings : JobFails(r, n)
  \/ \E n \in Ings : AddIngress(n) \/ EditIngress(n)

(* The elector retries every 2 seconds, the poll ticks every minute, the     *)
(* goroutines run.  No one has to send a SIGTERM, and a lease may be kept.   *)
Fairness ==
  \A r \in Replicas :
    /\ WF_vars(Acquire(r)) /\ WF_vars(OnStartedLeading(r)) /\ WF_vars(Poll(r)) /\ WF_vars(PollEnds(r))
    /\ WF_vars(WorkerStart(r)) /\ WF_vars(SyncSkip(r)) /\ WF_vars(Sync(r))
    /\ WF_vars(SyncFails(r)) /\ WF_vars(updateStatus(r)) /\ WF_vars(BatchDone(r)) /\ WF_vars(WorkerQuit(r))
    /\ \A n \in Ings : WF_vars(JobGet(r, n)) /\ WF_vars(JobUpdate(r, n))
    /\ WF_vars(ClearRecord(r)) /\ WF_vars(QueueShutDown(r)) /\ WF_vars(QueueShutDownDone(r))
    /\ WF_vars(Exit(r))

Spec == Init /\ [][Next]_vars

FairSpec == Spec /\ Fairness

-----------------------------------------------------------------------------
(* Types; and a batch is there only while the worker waits for it, a job     *)
(* that updates has read an Ingress that exists.                             *)
TypeOK ==
  /\ holder \in [ConfigMaps -> {Absent, Nobody} \cup {ElectionID[r] : r \in Replicas}]
  /\ elector \in [Replicas -> {"candidate", "leading", "done"}]
  /\ callback \in [Replicas -> {"none", "called", "poll", "ended"}]
  /\ seen \in [Replicas -> BOOLEAN] /\ pending \in [Replicas -> BOOLEAN]
  /\ wpc \in [Replicas -> {"off", "until", "stopped", "get", "sync", "batch", "exited"}]
  /\ jobs \in [Replicas -> [Ings -> {"none", "get", "update"}]]
  /\ \A r \in Replicas : jobs[r] # NoJobs => wpc[r] = "batch"
  /\ \A x \in fresh : x[2] \in Twins /\ jobs[x[1]][x[2]] = "update"
  /\ listed \subseteq Ings /\ status \in [Objects -> Addresses]
  /\ down \in [Replicas -> {"no", "called", "waiting", "done"}]
  /\ spc \in [Replicas -> {"running", "configmap", "returned", "exited"}]
  /\ flag \in Addresses /\ faults \in 0..MaxFaults

(* r's job makes the update in this step. *)
Writes(r) == status' # status /\ jobs'[r] # jobs[r]

(* Who writes a status has taken the lock at some time, and is not a process *)
(* whose queue has confirmed its shutdown: the worker, its batch and the     *)
(* goroutine of Shutdown end in that order.                                  *)
WritersAccountable ==
  [][\A r \in Replicas : Writes(r) => seen[r] /\ down[r] # "done" /\ Alive(r)]_vars

(* A replica that keeps the lead and has an address puts it in the status of *)
(* every Ingress that bears a listed name, whatever fails in between: a      *)
(* conflict, also with another replica that leads, or a call that fails is   *)
(* made good by a later poll.                                                *)
StatusConverges ==
  \A r \in Replicas :
    <>[](elector[r] = "leading" /\ spc[r] = "running" /\ flag # NoAddress) =>
      \A n \in Twins : <>[](n \in listed => status[<<"networking", n>>] = flag)

(* A process that gets a SIGTERM exits, whether it has ever led, is in the   *)
(* middle of a batch, or has lost its lease.                                 *)
StopReturns == \A r \in Replicas : spc[r] # "running" ~> spc[r] = "exited"
=============================================================================
