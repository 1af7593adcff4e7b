------------------------------ MODULE SyncLoop ------------------------------
(***************************************************************************)
(* The controller's way from a change in Kubernetes to Manba.  Informers   *)
(* update the store, and their handlers push the events that they do not   *)
(* filter out into a ring channel that drops its oldest event when it is   *)
(* full; Start takes events out of it and enqueues them; the queue's       *)
(* worker builds the configuration from the store, resource by resource    *)
(* while it may change, compares its hash with that of the last            *)
(* configuration that was applied, and runs Solve.  Stop can come at any   *)
(* time.                                                                   *)
(*                                                                         *)
(* A resource is one that the configuration is built from, with an         *)
(* informer of its own; its value is Absent, or stands for all that Build  *)
(* reads of it.  A configuration is the value of each resource as Build    *)
(* sees it.  Of Solve only what Reconcile promises is used: success        *)
(* reaches the target, an error leaves every object where it was or at its *)
(* target.  Nor need a Solve in which a call failed come to an end: with   *)
(* all its workers gone, Run polls for ever (see DiffSyncer).              *)
(***************************************************************************)
EXTENDS TaskQueue, FiniteSets

CONSTANTS
  Res,          \* the resources that the configuration is built from
  ResKind,      \* "endpoints", "ingress", or "object": a Service or a ManbaCluster
  Val,          \* the values of each resource while it exists
  OnClass,      \* the values whose annotation has the controller's ingress class
  Absent,       \* the value of a resource that does not exist
  Forced,       \* the key of the sync that Start forces
  RingCap,      \* size of updateCh (1024 in the code)
  MaxEvents,    \* bound on the informers' notifications
  MaxFailures   \* bound on the syncs that fail

ASSUME LoopAssumption ==
  /\ Keys = Res \cup {Forced} /\ Forced \notin Res
  /\ ResKind \in [Res -> {"endpoints", "ingress", "object"}]
  /\ \A r \in Res : Absent \notin Val[r]
  /\ Absent \notin OnClass
  /\ RingCap \in Nat \ {0} /\ MaxClock \in Nat \ {0}
  /\ MaxEvents \in Nat /\ MaxFailures \in Nat

VARIABLES
  store,      \* the informers' caches
  notes,      \* for each resource, the notifications its informer has still to deliver
  unreported, \* history: resources with a change that no handler reports
  events,     \* bound: notifications so far
  ring,       \* updateCh
  lpc,        \* Start's control point
  lkey, lts,  \* what Start enqueues (or None), and the timestamp it took (or 0)
  spc,        \* the control point of syncManbaIngress
  unread,     \* resources that Build has still to read
  target,     \* the configuration being built and applied, while there is one
  hash,       \* the configuration whose hash is runningConfigHash
  ret,        \* what OnUpdate returned last
  built,      \* history: the last configuration OnUpdate returned nil for
  manba,      \* what Manba stores
  partial,    \* history: a Solve that failed changed Manba, and none has succeeded since
  failures,   \* bound: syncs that failed so far
  stop,       \* how far Stop and the Shutdown it spawns have got
  isShuttingDown

informer == <<store, notes, unreported, events>>
loop     == <<ring, lpc, lkey, lts>>
sync     == <<spc, unread, target, hash, ret, built, manba, partial, failures>>
stopping == <<stop, isShuttingDown>>
vars     == <<queueVars, informer, loop, sync, stopping>>

Values(r) == Val[r] \cup {Absent}

Config == {c \in [Res -> UNION {Values(r) : r \in Res}] : \A r \in Res : c[r] \in Values(r)}

ASSUME NoneAssumption == None \notin Element /\ None \notin Config

NoTarget == [r \in Res |-> None]

Note == [old : UNION {Values(r) : r \in Res}, new : UNION {Values(r) : r \in Res},
         tombstone : BOOLEAN]

(* ListManbaIngresses leaves out what is not of the class; the other getters *)
(* look at no class.                                                         *)
Seen(r) == IF ResKind[r] = "ingress" /\ store[r] \notin OnClass THEN Absent ELSE store[r]

stopClosed == stop \in {"closed", "down", "acked"}

Init ==
  /\ QueueInit
  /\ store \in Config /\ notes = [r \in Res |-> <<>>] /\ unreported = {} /\ events = 0
  /\ ring = <<>> /\ lpc = "enqueue" /\ lkey = Forced /\ lts = 0
  /\ spc = "idle" /\ unread = {} /\ hash = None /\ ret = "none"
  /\ target = NoTarget /\ built = None /\ manba \in Config /\ partial = FALSE /\ failures = 0
  /\ stop = "running" /\ isShuttingDown = FALSE

-----------------------------------------------------------------------------
\* Mutant: an update is reported only when both versions are of the class.
ReportedIfBoth(r, n) ==
  IF ResKind[r] = "endpoints"
  THEN n.old # n.new
  ELSE ~n.tombstone /\ n.old \in OnClass /\ n.new \in OnClass

(* The handlers' filters.  Endpoints are reported when their subsets change; *)
(* any other object when its old or its new version is of the class, but not *)
(* when its deletion went unseen and the informer has only a tombstone.      *)
Reported(r, n) ==
  IF ResKind[r] = "endpoints"
  THEN n.old # n.new
  ELSE ~n.tombstone /\ (n.old \in OnClass \/ n.new \in OnClass)

(* A change that Build sees and no handler reports: a tombstone, or one of a *)
(* Service or a ManbaCluster outside the class.                              *)
Unreported(r, n) ==
  \/ ResKind[r] # "endpoints" /\ n.tombstone
  \/ ResKind[r] = "object" /\ n.old \notin OnClass /\ n.new \notin OnClass

(* The cache has a new value, or a resync confirms the old one; the handlers *)
(* hear of it later.                                                         *)
InformerUpdate ==
  /\ events < MaxEvents
  /\ \E r \in Res : \E v \in Values(r), tombstone \in BOOLEAN :
       /\ store[r] # Absent \/ v # Absent
       /\ tombstone => v = Absent
       /\ LET n == [old |-> store[r], new |-> v, tombstone |-> tombstone]
          IN  /\ notes' = [notes EXCEPT ![r] = Append(@, n)]
              /\ unreported' = IF Unreported(r, n) THEN unreported \cup {r} ELSE unreported
       /\ store' = [store EXCEPT ![r] = v]
  /\ events' = events + 1
  /\ UNCHANGED <<queueVars, loop, sync, stopping>>

(* A full ring channel makes room by dropping its oldest event. *)
RingPush(r) == Append(IF Len(ring) = RingCap THEN Tail(ring) ELSE ring, r)

OnEvent ==
  \E r \in Res :
    /\ notes[r] # <<>>
    /\ ring' = IF Reported(r, Head(notes[r])) THEN RingPush(r) ELSE ring
    /\ notes' = [notes EXCEPT ![r] = Tail(@)]
    /\ UNCHANGED <<queueVars, store, unreported, events, lpc, lkey, lts, sync, stopping>>

-----------------------------------------------------------------------------
(* Start's loop.  Once stopCh is closed it goes on: `break' leaves the select. *)
LoopReceive ==
  /\ lpc = "receive" /\ ring # <<>>
  /\ ring' = Tail(ring)
  /\ IF isShuttingDown
     THEN UNCHANGED <<lpc, lkey>>
     ELSE lpc' = "enqueue" /\ lkey' = Head(ring)
  /\ UNCHANGED <<queueVars, informer, lts, sync, stopping>>

LoopStamp ==
  /\ lpc = "enqueue"
  /\ IF qdown
     THEN lpc' = "receive" /\ lkey' = None /\ UNCHANGED lts
     ELSE lpc' = "add" /\ lts' = now /\ UNCHANGED lkey
  /\ UNCHANGED <<queueVars, informer, ring, sync, stopping>>

LoopAdd ==
  /\ lpc = "add"
  /\ Enqueue(lkey, lts)
  /\ lpc' = "receive" /\ lkey' = None /\ lts' = 0
  /\ UNCHANGED <<informer, ring, sync, stopping>>

Loop == LoopReceive \/ LoopStamp \/ LoopAdd

-----------------------------------------------------------------------------
(* The queue's steps of its own. *)
QueueStep ==
  /\ Tick \/ DelayedFires
  /\ UNCHANGED <<informer, loop, sync, stopping>>

WorkerStep ==
  /\ WorkerStart(stopClosed) \/ WorkerSkip \/ WorkerQuit
  /\ UNCHANGED <<informer, loop, sync, stopping>>

WorkerSync ==
  /\ WorkerGet
  /\ spc' = "accept"
  /\ UNCHANGED <<informer, loop, unread, target, hash, ret, built, manba, partial, failures, stopping>>

(* syncManbaIngress: nothing is synced during shutdown. *)
SyncRefused ==
  /\ spc = "accept" /\ qdown
  /\ Synced
  /\ spc' = "idle" /\ ret' = "none"
  /\ UNCHANGED <<informer, loop, unread, target, hash, built, manba, partial, failures, stopping>>

SyncAccepted ==
  /\ spc = "accept" /\ ~qdown
  /\ spc' = "build" /\ unread' = Res /\ ret' = "none"
  /\ UNCHANGED <<queueVars, informer, loop, target, hash, built, manba, partial, failures, stopping>>

(* Build reads the store piece by piece. *)
Build ==
  /\ spc = "build"
  /\ \E r \in unread :
       /\ target' = [target EXCEPT ![r] = Seen(r)]
       /\ unread' = unread \ {r}
       /\ spc' = IF unread' = {} THEN "hash" ELSE "build"
  /\ UNCHANGED <<queueVars, informer, loop, hash, ret, built, manba, partial, failures, stopping>>

(* A lister returned an error. *)
BuildFailed ==
  /\ spc = "build"
  /\ failures < MaxFailures
  /\ failures' = failures + 1
  /\ SyncFailed
  /\ spc' = "idle" /\ target' = NoTarget /\ unread' = {}
  /\ UNCHANGED <<informer, loop, hash, ret, built, manba, partial, stopping>>

OnUpdateSkips ==
  /\ spc = "hash" /\ target = hash
  /\ Synced
  /\ spc' = "idle" /\ target' = NoTarget /\ ret' = "nil" /\ built' = target
  /\ UNCHANGED <<informer, loop, unread, hash, manba, partial, failures, stopping>>

OnUpdateSolved ==
  /\ spc = "hash" /\ target # hash
  /\ Synced
  /\ manba' = target /\ hash' = target /\ partial' = FALSE
  /\ spc' = "idle" /\ target' = NoTarget /\ ret' = "nil" /\ built' = target
  /\ UNCHANGED <<informer, loop, unread, failures, stopping>>

\* Mutant: the hash is remembered before Solve is known to have succeeded.
OnUpdateFailedHashed ==
  /\ spc = "hash" /\ target # hash
  /\ failures < MaxFailures
  /\ failures' = failures + 1
  /\ SyncFailed
  /\ manba' = manba /\ partial' = partial /\ hash' = target
  /\ spc' = "idle" /\ target' = NoTarget /\ ret' = "error"
  /\ UNCHANGED <<informer, loop, unread, built, stopping>>

(* Some call of the sync fails; others may have changed Manba. *)
CallFails ==
  /\ failures < MaxFailures
  /\ failures' = failures + 1
  /\ \E done \in SUBSET Res :
       manba' = [r \in Res |-> IF r \in done THEN target[r] ELSE manba[r]]
  /\ partial' = (partial \/ manba' # manba)

(* Dumping, assigning ids or Solve failed. *)
OnUpdateFailed ==
  /\ spc = "hash" /\ target # hash
  /\ CallFails
  /\ SyncFailed
  /\ spc' = "idle" /\ target' = NoTarget /\ ret' = "error"
  /\ UNCHANGED <<informer, loop, unread, hash, built, stopping>>

(* Calls of Solve failed until no worker was left, with an event in flight:   *)
(* wait never sees the counter at zero, whatever Stop does, and the queue's   *)
(* worker stays where it is.                                                  *)
OnUpdateHangs ==
  /\ spc = "hash" /\ target # hash
  /\ CallFails
  /\ spc' = "hung"
  /\ UNCHANGED <<queueVars, informer, loop, unread, target, hash, ret, built, stopping>>

Sync ==
  \/ SyncRefused \/ SyncAccepted \/ Build \/ BuildFailed
  \/ OnUpdateSkips \/ OnUpdateSolved \/ OnUpdateFailed \/ OnUpdateHangs

Worker == WorkerStep \/ WorkerSync \/ Sync

-----------------------------------------------------------------------------
(* Stop, on SIGTERM; and queue.Shutdown, in a goroutine of its own. *)
StopFlag ==
  /\ stop = "running"
  /\ isShuttingDown' = TRUE /\ stop' = "flagged"
  /\ UNCHANGED <<queueVars, informer, loop, sync>>

StopClose ==
  /\ stop = "flagged"
  /\ stop' = "closed"
  /\ UNCHANGED <<queueVars, informer, loop, sync, isShuttingDown>>

StopShutDown ==
  /\ stop = "closed"
  /\ ShutDown
  /\ stop' = "down"
  /\ UNCHANGED <<informer, loop, sync, isShuttingDown>>

StopAcked ==
  /\ stop = "down" /\ workerDone
  /\ stop' = "acked"
  /\ UNCHANGED <<queueVars, informer, loop, sync, isShuttingDown>>

Stop == StopFlag \/ StopClose \/ StopShutDown \/ StopAcked

(* After Stop, the process waits to be killed. *)
Stopped ==
  /\ stop \in {"down", "acked"} /\ (wpc = "exited" \/ spc = "hung")
  /\ \A r \in Res : notes[r] = <<>>
  /\ ring = <<>> /\ lpc = "receive"
  /\ UNCHANGED vars

Next ==
  InformerUpdate \/ OnEvent \/ Loop \/ QueueStep \/ Worker \/ Stop \/ Stopped

(* Informers deliver, Start's loop and the worker are scheduled, a retry's   *)
(* timer fires, Stop goes on once it has begun.  Nothing makes the clock run *)
(* or SIGTERM come, and nothing makes a Solve that failed return: fairness   *)
(* of the worker is met by OnUpdateHangs too.                                *)
Fairness ==
  /\ WF_vars(OnEvent)
  /\ WF_vars(Loop)
  /\ WF_vars(DelayedFires /\ UNCHANGED <<informer, loop, sync, stopping>>)
  /\ WF_vars(Worker)
  /\ WF_vars(StopClose \/ StopShutDown \/ StopAcked)

Spec == Init /\ [][Next]_vars

FairSpec == Spec /\ Fairness

-----------------------------------------------------------------------------
(***************************************************************************)
(* The shape of the state; the queue holds no element twice, and the       *)
(* worker holds one only while it syncs.                                   *)
(***************************************************************************)
TypeOK ==
  /\ QueueTypeOK
  /\ store \in Config /\ notes \in [Res -> Seq(Note)]
  /\ unreported \subseteq Res /\ events \in 0..MaxEvents
  /\ ring \in Seq(Res) /\ Len(ring) <= RingCap
  /\ lpc \in {"receive", "enqueue", "add"} /\ lkey \in Keys \cup {None} /\ lts \in 0..MaxClock
  /\ spc \in {"idle", "accept", "build", "hash", "hung"} /\ (spc = "idle" <=> wpc # "sync")
  /\ unread \subseteq Res /\ (target = NoTarget \/ \A r \in Res : target[r] \in Values(r) \cup {None})
  /\ hash \in Config \cup {None} /\ built \in Config \cup {None}
  /\ ret \in {"none", "nil", "error"} /\ manba \in Config
  /\ partial \in BOOLEAN /\ failures \in 0..MaxFailures
  /\ stop \in {"running", "flagged", "closed", "down", "acked"}
  /\ isShuttingDown \in BOOLEAN

(* Nothing is on its way from the informers to the worker. *)
Quiet ==
  /\ \A r \in Res : notes[r] = <<>>
  /\ ring = <<>> /\ lpc = "receive"
  /\ queue = <<>> /\ delayed = {} /\ wpc = "get"

(* The configuration last accepted as synced is what Build would see now, *)
(* the unreported changes apart.                                           *)
UpToDate == built # None /\ \A r \in Res \ unreported : built[r] = Seen(r)

(***************************************************************************)
(* No update is lost: when a running controller has nothing left to do,    *)
(* the last configuration it accepted as synced is the store's, although   *)
(* the handlers filter events, the ring drops some, the worker skips       *)
(* elements that it holds superseded and Build reads a store that moves.   *)
(* A change that no handler reports is taken up by the next sync only.     *)
(***************************************************************************)
NoLostUpdate == Quiet /\ ~isShuttingDown => UpToDate

(***************************************************************************)
(* OnUpdate returns nil only with Manba at the configuration that was      *)
(* built, unless a failed Solve has left changes of its own behind.        *)
(***************************************************************************)
NilMeansSyncedIfWhole == ret = "nil" /\ ~partial => manba = built

(***************************************************************************)
(* "returning nil implies the synchronization finished correctly".         *)
(***************************************************************************)
NilMeansSynced == ret = "nil" => manba = built

(***************************************************************************)
(* Once the informers are quiet the controller catches up with the store,  *)
(* whatever syncs failed before, unless it is told to stop or a Solve in   *)
(* which calls failed never returns: then nothing is synced any more.      *)
(***************************************************************************)
EventuallySynced == <>(stop # "running") \/ <>(spc = "hung") \/ <>[]UpToDate

(***************************************************************************)
(* Shutdown returns: the worker, once it runs, acknowledges, unless it     *)
(* hangs in a Solve that never returns.  (wait.Until does not start a      *)
(* worker that finds stopCh closed: then nobody does.)                     *)
(***************************************************************************)
ShutdownAcked ==
  (stop = "down" /\ wpc \in {"get", "sync"}) ~> (stop = "acked" \/ spc = "hung")
=============================================================================
