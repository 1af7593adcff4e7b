----------------------------- MODULE TaskQueue ------------------------------
(***************************************************************************)
(* task.Queue: a work queue of timestamped elements, and the one worker    *)
(* that calls the sync function for each of them and skips those older     *)
(* than its last successful sync.  The clock may stand still between two   *)
(* readings, and never goes back.                                          *)
(*                                                                         *)
(* The operators below constrain the queue's own variables; the module     *)
(* that owns the sync function makes them into actions.                    *)
(***************************************************************************)
EXTENDS Naturals, Sequences, SequencesExt

CONSTANTS
  Keys,       \* what keyFunc returns for the objects that are enqueued
  None,       \* no element, no configuration
  MaxClock    \* bound on the clock

VARIABLES
  now,         \* the clock
  queue,       \* the work queue's list of elements
  delayed,     \* elements that the rate limiter holds back
  held,        \* the element the worker processes, or None
  again,       \* that element has been added again
  gotAt,       \* when the worker got it (0 when there is none)
  lastSync,    \* when the last successful sync's element was got
  qdown,       \* the work queue is shutting down
  workerDone,  \* the channel the worker closes when it exits
  wpc          \* the worker's control point

queueVars == <<now, queue, delayed, held, again, gotAt, lastSync, qdown, workerDone, wpc>>

Element == [key : Keys, ts : 0..MaxClock]

QueueInit ==
  /\ now = 1 /\ lastSync = 0 /\ gotAt = 0
  /\ queue = <<>> /\ delayed = {} /\ held = None /\ again = FALSE
  /\ qdown = FALSE /\ workerDone = FALSE /\ wpc = "until"

Tick ==
  /\ now < MaxClock
  /\ now' = now + 1
  /\ UNCHANGED <<queue, delayed, held, again, gotAt, lastSync, qdown, workerDone, wpc>>

(* The work queue's Add: a set, in which the element that is being processed *)
(* is marked and comes back when it is done.                                 *)
Add(e) ==
  IF qdown \/ e \in ToSet(queue)
  THEN UNCHANGED <<queue, again>>
  ELSE /\ queue' = IF e = held THEN queue ELSE Append(queue, e)
       /\ again' = (again \/ e = held)

(* Enqueue ends by adding an element with the timestamp it took before. *)
Enqueue(key, ts) ==
  /\ Add([key |-> key, ts |-> ts])
  /\ UNCHANGED <<now, delayed, held, gotAt, lastSync, qdown, workerDone, wpc>>

DelayedFires ==
  \E e \in delayed :
    /\ delayed' = delayed \ {e}
    /\ Add(e)
    /\ UNCHANGED <<now, held, gotAt, lastSync, qdown, workerDone, wpc>>

(* wait.Until looks at the stop channel before it calls the worker. *)
WorkerStart(stopClosed) ==
  /\ wpc = "until"
  /\ wpc' = IF stopClosed THEN "exited" ELSE "get"
  /\ UNCHANGED <<now, queue, delayed, held, again, gotAt, lastSync, qdown, workerDone>>

Superseded(e) == lastSync > e.ts

WorkerSkip ==
  /\ wpc = "get" /\ queue # <<>>
  /\ Superseded(Head(queue))
  /\ queue' = Tail(queue)
  /\ UNCHANGED <<now, delayed, held, again, gotAt, lastSync, qdown, workerDone, wpc>>

WorkerGet ==
  /\ wpc = "get" /\ queue # <<>>
  /\ ~Superseded(Head(queue))
  /\ held' = Head(queue) /\ queue' = Tail(queue)
  /\ gotAt' = now
  /\ wpc' = "sync"
  /\ UNCHANGED <<now, delayed, again, lastSync, qdown, workerDone>>

\* Mutant: the worker quits at shutdown without telling.
WorkerQuitSilently ==
  /\ wpc = "get" /\ queue = <<>> /\ qdown
  /\ wpc' = "exited"
  /\ UNCHANGED <<now, queue, delayed, held, again, gotAt, lastSync, qdown, workerDone>>

WorkerQuit ==
  /\ wpc = "get" /\ queue = <<>> /\ qdown
  /\ workerDone' = TRUE
  /\ wpc' = "exited"
  /\ UNCHANGED <<now, queue, delayed, held, again, gotAt, lastSync, qdown>>

Done ==
  /\ queue' = IF again THEN Append(queue, held) ELSE queue
  /\ held' = None /\ again' = FALSE /\ gotAt' = 0
  /\ wpc' = "get"

\* Mutant: the time of the last sync is taken after it, not before.
SyncedAfter ==
  /\ Done
  /\ lastSync' = now
  /\ UNCHANGED <<now, delayed, qdown, workerDone>>

(* The sync function has returned nil. *)
Synced ==
  /\ Done
  /\ lastSync' = gotAt
  /\ UNCHANGED <<now, delayed, qdown, workerDone>>

\* Mutant: an element whose sync failed is dropped.
SyncFailedDropped ==
  /\ Done
  /\ UNCHANGED <<now, delayed, lastSync, qdown, workerDone>>

\* Mutant: an element whose sync failed is never marked as done.
SyncFailedNotDone ==
  /\ delayed' = IF qdown THEN delayed
                ELSE delayed \cup {[key |-> held.key, ts |-> now]}
  /\ wpc' = "get"
  /\ UNCHANGED <<now, queue, held, again, gotAt, lastSync, qdown, workerDone>>

(* It has returned an error: a new element comes back after a while. *)
SyncFailed ==
  /\ Done
  /\ delayed' = IF qdown THEN delayed
                ELSE delayed \cup {[key |-> held.key, ts |-> now]}
  /\ UNCHANGED <<now, lastSync, qdown, workerDone>>

ShutDown ==
  /\ qdown' = TRUE
  /\ UNCHANGED <<now, queue, delayed, held, again, gotAt, lastSync, workerDone, wpc>>

QueueTypeOK ==
  /\ now \in 0..MaxClock /\ gotAt \in 0..MaxClock /\ lastSync \in 0..MaxClock
  /\ queue \in Seq(Element) /\ IsInjective(queue) /\ delayed \subseteq Element
  /\ held \in Element \cup {None} /\ again \in BOOLEAN
  /\ (held # None <=> wpc = "sync")
  /\ qdown \in BOOLEAN /\ workerDone \in BOOLEAN
  /\ wpc \in {"until", "get", "sync", "exited"}
=============================================================================
