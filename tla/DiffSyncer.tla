----------------------------- MODULE DiffSyncer -----------------------------
(***************************************************************************)
(* One call of diff.Syncer.Run, as solver.Solve makes it: the producer     *)
(* goroutine walks the ten phases of the diff and queues an event per      *)
(* object that differs, `parallelism' worker goroutines apply the events   *)
(* to Manba and then to the in-memory currentState, and the caller         *)
(* collects their errors.                                                  *)
(*                                                                         *)
(* The data are abstracted to what the diff looks at.  An object is known  *)
(* by its Identifier() (a server's address, a bind's pair of ids, any      *)
(* other object's name); Conf[o] are the configurations it may have, and   *)
(* Refs[o][v] the objects that o names by id when its configuration is v.  *)
(* Ids are taken to be distinct.                                           *)
(*                                                                         *)
(* Not a step of this module: `done', which Solve's caller leaves nil; the *)
(* Stats, which that caller drops; errors of the in-memory database, whose *)
(* lookups and updates fail only when two objects share an id.             *)
(***************************************************************************)
EXTENDS Naturals, Sequences, FiniteSets

CONSTANTS
  Obj,            \* identifiers of every kind
  Kind,           \* the kind of each identifier
  Conf,           \* the configurations each object may have
  Absent,         \* what a state holds for an object it does not have
  Refs,           \* the objects that a configuration of an object refers to
  Workers,        \* the consumers, `parallelism' of them
  EventChanCap,   \* buffer of eventChan (10 in the code)
  MaxFailures     \* bound on the calls to Manba that fail

Kinds == {"server", "cluster", "bind", "api", "routing"}

(* The kinds in the order of createUpdate; delete goes through them backwards. *)
Rank == [server |-> 1, cluster |-> 2, bind |-> 3, api |-> 4, routing |-> 5]

(* A bind is nothing but its identifier: CompareBind finds no two different. *)
ASSUME ObjAssumption ==
  /\ Kind \in [Obj -> Kinds]
  /\ \A o \in Obj : Absent \notin Conf[o]
  /\ \A o \in Obj : Kind[o] = "bind" => \A v, w \in Conf[o] : v = w

(* A configuration refers to objects of kinds created before its own. *)
ASSUME RefsAssumption ==
  \A o \in Obj : \A v \in Conf[o] :
    /\ Refs[o][v] \subseteq Obj
    /\ \A p \in Refs[o][v] : Rank[Kind[p]] < Rank[Kind[o]]

(* Run returns at once when parallelism < 1. *)
ASSUME RunAssumption ==
  /\ IsFiniteSet(Workers) /\ Workers # {}
  /\ EventChanCap \in Nat \ {0}
  /\ MaxFailures \in Nat

VARIABLES
  manba,      \* what the gateway's API server stores
  cur,        \* currentState, the in-memory copy
  tgt,        \* targetState
  phase,      \* position in createUpdateList followed by deleteList
  todo,       \* objects of GetAll that the phase has still to look at
  ppc,        \* the producer's control point
  pend,       \* the event that queueEvent is sending, or NoEvent
  chan,       \* eventChan's buffer
  closed,     \* eventChan is closed
  inFlight,   \* InFlightOps
  stopped,    \* stopChan is closed
  wpc,        \* each worker's control point
  wev,        \* the event each worker holds, or NoEvent
  mpc,        \* Run's own control point
  errs,       \* the objects whose error Run has collected
  errClosed,  \* errChan is closed
  failed      \* history: objects whose call to Manba returned an error

data  == <<manba, cur, tgt>>
prod  == <<phase, todo, ppc, pend>>
queue == <<chan, closed, inFlight>>
work  == <<wpc, wev>>
main  == <<stopped, mpc, errs, errClosed>>
vars  == <<data, prod, queue, work, main, failed>>

-----------------------------------------------------------------------------
State == {s \in [Obj -> UNION {Conf[o] \cup {Absent} : o \in Obj}] :
            \A o \in Obj : s[o] \in Conf[o] \cup {Absent}}

Ops == {"Create", "Update", "Delete"}

Event == [op : Ops, obj : Obj]

NoEvent == [op |-> "none"]

Has(s, k) == {o \in Obj : Kind[o] = k /\ s[o] # Absent}

(* The references of s that lead to an object s does not have. *)
Dangling(s) ==
  {r \in Obj \X Obj : /\ s[r[1]] # Absent
                      /\ r[2] \in Refs[r[1]][s[r[1]]]
                      /\ s[r[2]] = Absent}

(***************************************************************************)
(* The phases: what each one lists.  A create/update phase lists the       *)
(* target's objects, a delete phase those of the current state.            *)
(***************************************************************************)
createUpdateServers  == Has(tgt, "server")
createUpdateClusters == Has(tgt, "cluster")
createUpdateBinds    == Has(tgt, "bind")
createUpdateAPIs     == Has(tgt, "api")
createUpdateRoutings == Has(tgt, "routing")

deleteServers  == Has(cur, "server")
deleteClusters == Has(cur, "cluster")
deleteBinds    == Has(cur, "bind")
deleteAPIs     == Has(cur, "api")
deleteRoutings == Has(cur, "routing")

createUpdateList ==
  <<createUpdateServers, createUpdateClusters, createUpdateBinds,
    createUpdateAPIs, createUpdateRoutings>>

\* Mutant: servers are deleted before what leads to them.
deleteListServersFirst ==
  <<deleteServers, deleteClusters, deleteBinds, deleteAPIs, deleteRoutings>>

deleteList ==
  <<deleteRoutings, deleteAPIs, deleteBinds, deleteClusters, deleteServers>>

GetAll(p) == IF p <= 5 THEN createUpdateList[p] ELSE deleteList[p - 5]

(* The operation the diff finds for o in phase p; "none" when it finds none. *)
createUpdateOp(o) ==
  IF cur[o] = Absent THEN "Create" ELSE IF cur[o] # tgt[o] THEN "Update" ELSE "none"

deleteOp(o) == IF tgt[o] = Absent THEN "Delete" ELSE "none"

OpOf(p, o) == IF p <= 5 THEN createUpdateOp(o) ELSE deleteOp(o)

(* What Manba, and then the in-memory state, hold once e has been applied. *)
Apply(s, e) ==
  [s EXCEPT ![e.obj] = IF e.op = "Delete" THEN Absent ELSE tgt[e.obj]]

-----------------------------------------------------------------------------
(***************************************************************************)
(* The state that Solve starts from: currentState is what dumping Manba    *)
(* returned, whatever an earlier Run left there; targetState comes from    *)
(* the parser, and may itself name objects that filterInvalidations has    *)
(* dropped.                                                                *)
(***************************************************************************)
Init ==
  /\ manba \in State
  /\ cur = manba
  /\ tgt \in State
  /\ phase = 1 /\ todo = {} /\ ppc = "list" /\ pend = NoEvent
  /\ chan = <<>> /\ closed = FALSE /\ inFlight = 0
  /\ wpc = [w \in Workers |-> "receive"]
  /\ wev = [w \in Workers |-> NoEvent]
  /\ stopped = FALSE /\ mpc = "select" /\ errs = {} /\ errClosed = FALSE
  /\ failed = {}

-----------------------------------------------------------------------------
(***************************************************************************)
(* The producer.                                                           *)
(***************************************************************************)
PList ==
  /\ ppc = "list"
  /\ todo' = GetAll(phase)
  /\ ppc' = "scan"
  /\ UNCHANGED <<data, phase, pend, queue, work, main, failed>>

\* Mutant: InFlightOps is not raised for the event.
PScanUncounted ==
  /\ ppc = "scan"
  /\ \E o \in todo :
       /\ todo' = todo \ {o}
       /\ IF OpOf(phase, o) = "none"
          THEN UNCHANGED <<ppc, pend>>
          ELSE pend' = [op |-> OpOf(phase, o), obj |-> o] /\ ppc' = "send"
  /\ UNCHANGED <<data, phase, queue, work, main, failed>>

(* The objects come in the iteration order of the database: any order. *)
PScan ==
  /\ ppc = "scan"
  /\ \E o \in todo :
       /\ todo' = todo \ {o}
       /\ IF OpOf(phase, o) = "none"
          THEN UNCHANGED <<ppc, pend, inFlight>>
          ELSE /\ pend' = [op |-> OpOf(phase, o), obj |-> o]
               /\ inFlight' = inFlight + 1
               /\ ppc' = "send"
  /\ UNCHANGED <<data, phase, chan, closed, work, main, failed>>

(* The select of queueEvent: either branch when both are ready. *)
PSend ==
  /\ ppc = "send"
  /\ Len(chan) < EventChanCap
  /\ chan' = Append(chan, pend)
  /\ pend' = NoEvent
  /\ ppc' = "scan"
  /\ UNCHANGED <<data, phase, todo, closed, inFlight, work, main, failed>>

PSendStopped ==
  /\ ppc = "send"
  /\ stopped
  /\ ppc' = "fail"
  /\ UNCHANGED <<data, phase, todo, pend, queue, work, main, failed>>

PScanned ==
  /\ ppc = "scan" /\ todo = {}
  /\ ppc' = "wait"
  /\ UNCHANGED <<data, phase, todo, pend, queue, work, main, failed>>

\* Mutant: the next phase starts when the queue is empty, with calls under way.
PWaitForQueue ==
  /\ ppc = "wait"
  /\ chan = <<>>
  /\ IF phase < 10
     THEN phase' = phase + 1 /\ ppc' = "list"
     ELSE ppc' = "close" /\ UNCHANGED phase
  /\ UNCHANGED <<data, todo, pend, queue, work, main, failed>>

PWait ==
  /\ ppc = "wait"
  /\ inFlight = 0
  /\ IF phase < 10
     THEN phase' = phase + 1 /\ ppc' = "list"
     ELSE ppc' = "close" /\ UNCHANGED phase
  /\ UNCHANGED <<data, todo, pend, queue, work, main, failed>>

(* errEnqueueFailed meets Run at the unbuffered errChan, which drops it. *)
PFail ==
  /\ ppc = "fail" /\ mpc = "collect"
  /\ ppc' = "close"
  /\ UNCHANGED <<data, phase, todo, pend, queue, work, main, failed>>

PClose ==
  /\ ppc = "close"
  /\ closed' = TRUE
  /\ ppc' = "exited"
  /\ UNCHANGED <<data, phase, todo, pend, chan, inFlight, work, main, failed>>

Producer ==
  PList \/ PScan \/ PSend \/ PSendStopped \/ PScanned \/ PWait \/ PFail \/ PClose

-----------------------------------------------------------------------------
(***************************************************************************)
(* The workers.                                                            *)
(***************************************************************************)
WReceive(w) ==
  /\ wpc[w] = "receive"
  /\ chan # <<>>
  /\ wev' = [wev EXCEPT ![w] = Head(chan)]
  /\ chan' = Tail(chan)
  /\ wpc' = [wpc EXCEPT ![w] = "do"]
  /\ UNCHANGED <<data, prod, closed, inFlight, main, failed>>

WExit(w) ==
  /\ wpc[w] = "receive"
  /\ chan = <<>> /\ closed
  /\ wpc' = [wpc EXCEPT ![w] = "exited"]
  /\ UNCHANGED <<data, prod, queue, wev, main, failed>>

(* The call to Manba succeeds. *)
WDo(w) ==
  /\ wpc[w] = "do"
  /\ manba' = Apply(manba, wev[w])
  /\ wpc' = [wpc EXCEPT ![w] = "postProcess"]
  /\ UNCHANGED <<cur, tgt, prod, queue, wev, main, failed>>

(* The call returns an error: before Manba applied it, or after. *)
WDoError(w) ==
  /\ wpc[w] = "do"
  /\ Cardinality(failed) < MaxFailures
  /\ manba' \in {manba, Apply(manba, wev[w])}
  /\ failed' = failed \cup {wev[w].obj}
  /\ wpc' = [wpc EXCEPT ![w] = "failed"]
  /\ UNCHANGED <<cur, tgt, prod, queue, wev, main>>

\* Mutant: an update is not written back to the in-memory state.
WPostCreateDelete(w) ==
  /\ wpc[w] = "postProcess"
  /\ cur' = IF wev[w].op = "Update" THEN cur ELSE Apply(cur, wev[w])
  /\ wpc' = [wpc EXCEPT ![w] = "done"]
  /\ UNCHANGED <<manba, tgt, prod, queue, wev, main, failed>>

WPost(w) ==
  /\ wpc[w] = "postProcess"
  /\ cur' = Apply(cur, wev[w])
  /\ wpc' = [wpc EXCEPT ![w] = "done"]
  /\ UNCHANGED <<manba, tgt, prod, queue, wev, main, failed>>

\* Mutant: a failed event is not counted as completed.
WCompletedIfDone(w) ==
  /\ wpc[w] \in {"done", "failed"}
  /\ inFlight' = IF wpc[w] = "done" THEN inFlight - 1 ELSE inFlight
  /\ wpc' = [wpc EXCEPT ![w] = IF wpc[w] = "done" THEN "receive" ELSE "report"]
  /\ wev' = [wev EXCEPT ![w] = IF wpc[w] = "done" THEN NoEvent ELSE wev[w]]
  /\ UNCHANGED <<data, prod, chan, closed, main, failed>>

(* eventCompleted, after which an error ends the loop. *)
WCompleted(w) ==
  /\ wpc[w] \in {"done", "failed"}
  /\ inFlight' = inFlight - 1
  /\ wpc' = [wpc EXCEPT ![w] = IF wpc[w] = "done" THEN "receive" ELSE "report"]
  /\ wev' = [wev EXCEPT ![w] = IF wpc[w] = "done" THEN NoEvent ELSE wev[w]]
  /\ UNCHANGED <<data, prod, chan, closed, main, failed>>

\* Mutant: the worker reports only the first error, and drops a later one.
WReportFirst(w) ==
  /\ wpc[w] = "report"
  /\ wpc' = [wpc EXCEPT ![w] = "exited"]
  /\ mpc' = IF mpc = "select" THEN "stop" ELSE mpc
  /\ errs' = IF mpc = "select" THEN errs \cup {wev[w].obj} ELSE errs
  /\ wev' = [wev EXCEPT ![w] = NoEvent]
  /\ UNCHANGED <<data, prod, queue, stopped, errClosed, failed>>

(* The error meets Run at the unbuffered errChan: in its select, or in its *)
(* collecting loop.                                                        *)
WReport(w) ==
  /\ wpc[w] = "report"
  /\ mpc \in {"select", "collect"}
  /\ wpc' = [wpc EXCEPT ![w] = "exited"]
  /\ mpc' = IF mpc = "select" THEN "stop" ELSE "collect"
  /\ errs' = errs \cup {wev[w].obj}
  /\ wev' = [wev EXCEPT ![w] = NoEvent]
  /\ UNCHANGED <<data, prod, queue, stopped, errClosed, failed>>

Worker(w) ==
  \/ WReceive(w) \/ WExit(w) \/ WDo(w) \/ WDoError(w)
  \/ WPost(w) \/ WCompleted(w) \/ WReport(w)

-----------------------------------------------------------------------------
(***************************************************************************)
(* The goroutine that closes errChan, and Run itself.                      *)
(***************************************************************************)
\* Mutant: the error channel is closed as soon as the producer is done.
CloseErrChanEarly ==
  /\ ~errClosed
  /\ ppc = "exited"
  /\ errClosed' = TRUE
  /\ UNCHANGED <<data, prod, queue, work, stopped, mpc, errs, failed>>

CloseErrChan ==
  /\ ~errClosed
  /\ ppc = "exited" /\ \A w \in Workers : wpc[w] = "exited"
  /\ errClosed' = TRUE
  /\ UNCHANGED <<data, prod, queue, work, stopped, mpc, errs, failed>>

MSelectClosed ==
  /\ mpc = "select" /\ errClosed
  /\ mpc' = "stop"
  /\ UNCHANGED <<data, prod, queue, work, stopped, errs, errClosed, failed>>

MStop ==
  /\ mpc = "stop"
  /\ stopped' = TRUE
  /\ mpc' = "collect"
  /\ UNCHANGED <<data, prod, queue, work, errs, errClosed, failed>>

\* Mutant: Run returns after it has stopped the producer, without collecting.
MReturnEarly ==
  /\ mpc = "collect"
  /\ mpc' = "returned"
  /\ UNCHANGED <<data, prod, queue, work, stopped, errs, errClosed, failed>>

MReturn ==
  /\ mpc = "collect" /\ errClosed
  /\ mpc' = "returned"
  /\ UNCHANGED <<data, prod, queue, work, stopped, errs, errClosed, failed>>

Main == MSelectClosed \/ MStop \/ MReturn

(* Run has returned: nothing is left to do. *)
Returned == mpc = "returned" /\ UNCHANGED vars

Next ==
  \/ Producer
  \/ \E w \in Workers : Worker(w)
  \/ CloseErrChan
  \/ Main
  \/ Returned

(* Every goroutine that can take a step is scheduled eventually; every call *)
(* to Manba returns, with an answer or with an error.                       *)
Fairness ==
  /\ WF_vars(Producer)
  /\ \A w \in Workers : WF_vars(Worker(w))
  /\ WF_vars(CloseErrChan)
  /\ WF_vars(Main)

Spec == Init /\ [][Next]_vars

FairSpec == Spec /\ Fairness

-----------------------------------------------------------------------------
Busy == {w \in Workers : wpc[w] \in {"do", "postProcess", "done", "failed"}}

(* The events between queueEvent and eventCompleted. *)
Outstanding ==
  {chan[i] : i \in 1..Len(chan)} \cup {wev[w] : w \in Busy}
    \cup (IF ppc = "send" THEN {pend} ELSE {})

(* The phase that generates e. *)
PhaseOf(e) == IF e.op = "Delete" THEN 11 - Rank[Kind[e.obj]] ELSE Rank[Kind[e.obj]]

(***************************************************************************)
(* The shape of the state.                                                 *)
(***************************************************************************)
TypeOK ==
  /\ manba \in State /\ cur \in State /\ tgt \in State
  /\ phase \in 1..10 /\ todo \subseteq Obj
  /\ ppc \in {"list", "scan", "send", "wait", "fail", "close", "exited"}
  /\ pend \in Event \cup {NoEvent} /\ (ppc = "send" => pend \in Event)
  /\ chan \in Seq(Event) /\ Len(chan) <= EventChanCap
  /\ closed \in BOOLEAN /\ inFlight \in Nat
  /\ wpc \in [Workers -> {"receive", "do", "postProcess", "done", "failed",
                          "report", "exited"}]
  /\ wev \in [Workers -> Event \cup {NoEvent}]
  /\ \A w \in Workers : wpc[w] \notin {"receive", "exited"} => wev[w] \in Event
  /\ stopped \in BOOLEAN /\ errs \subseteq Obj /\ errClosed \in BOOLEAN
  /\ mpc \in {"select", "stop", "collect", "returned"}
  /\ failed \subseteq Obj

(***************************************************************************)
(* InFlightOps counts the events that are queued, being sent or being      *)
(* handled, and the one that queueEvent gave up: the counter wait() polls  *)
(* is never below the work that is left, and above it only once the        *)
(* producer has failed and will not wait again.                            *)
(***************************************************************************)
InFlightExact ==
  inFlight = Len(chan) + Cardinality(Busy)
             + (IF pend # NoEvent THEN 1 ELSE 0)

(***************************************************************************)
(* The phases do not overlap: whatever the workers still hold belongs to   *)
(* the phase the producer is in, and before a phase lists its objects      *)
(* nothing is outstanding.                                                 *)
(***************************************************************************)
PhaseBarrier ==
  /\ \A e \in Outstanding : PhaseOf(e) = phase
  /\ ppc \in {"list", "close"} /\ pend = NoEvent => Outstanding = {}

(***************************************************************************)
(* The order of the phases keeps references intact: a call to Manba leaves *)
(* a reference without its object only when the call for one of the two    *)
(* has failed, or when the target wants it so.  (Run goes on to later      *)
(* phases after a failure.)                                                *)
(***************************************************************************)
DanglingBlamesFailure ==
  [][Dangling(manba') \subseteq
       Dangling(manba) \cup Dangling(tgt)
         \cup {r \in Obj \X Obj : r[1] \in failed' \/ r[2] \in failed'}]_vars

(***************************************************************************)
(* The in-memory state follows Manba: they differ only for an object whose *)
(* call failed, or has been answered and awaits post-processing.           *)
(***************************************************************************)
MirrorsManba ==
  \A o \in Obj : cur[o] # manba[o] =>
    \/ o \in failed
    \/ \E w \in Workers : wpc[w] = "postProcess" /\ wev[w].obj = o

(***************************************************************************)
(* The errors that Run returns are those of the calls to Manba that        *)
(* failed: none is lost between the worker that meets it and the caller,   *)
(* although Run stops listening once errChan is closed.                    *)
(***************************************************************************)
NoErrorLost == mpc = "returned" => errs = failed

(***************************************************************************)
(* Solve reports success only when Manba, and the in-memory state, are at  *)
(* the target.                                                             *)
(***************************************************************************)
SuccessMeansSynced ==
  mpc = "returned" /\ errs = {} => manba = tgt /\ cur = tgt

(***************************************************************************)
(* Run returns, as long as fewer calls fail than there are workers.        *)
(***************************************************************************)
Termination == <>(mpc = "returned")

(***************************************************************************)
(* Closing stopChan stops the producer, as Run's comment says.             *)
(***************************************************************************)
StopStopsProducer == stopped ~> ppc = "exited"

-----------------------------------------------------------------------------
(***************************************************************************)
(* What the caller of Solve sees of a Run.                                 *)
(***************************************************************************)
result ==
  IF mpc # "returned" THEN "running" ELSE IF errs # {} THEN "error" ELSE "ok"

R == INSTANCE Reconcile

(***************************************************************************)
(* A Run reconciles Manba with the target: it moves one object at a time   *)
(* straight to its target, touches no other, and nothing once it returned. *)
(***************************************************************************)
ReconcileSpec == R!Spec
=============================================================================
