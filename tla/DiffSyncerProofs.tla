-------------------------- MODULE DiffSyncerProofs --------------------------
(***************************************************************************)
(* Safety of a Run for every set of objects and references, any number of  *)
(* workers, any buffer and any number of failing calls.                    *)
(***************************************************************************)
EXTENDS DiffSyncer, FiniteSetTheorems, SequenceTheorems, TLAPS

(* The phase whose turn it is to settle o. *)
TurnOf(o) ==
  IF tgt[o] = Absent THEN 11 - Rank[Kind[o]] ELSE Rank[Kind[o]]

(* What an event must satisfy from queueEvent to eventCompleted. *)
Timely(e) ==
  /\ TurnOf(e.obj) = phase
  /\ e.op = "Delete" <=> tgt[e.obj] = Absent

(* The producer or a worker has still to bring o to its target. *)
Unsettled(o) ==
  \/ phase < TurnOf(o)
  \/ phase = TurnOf(o) /\ (ppc = "list" \/ o \in todo)
  \/ pend # NoEvent /\ pend.obj = o
  \/ \E i \in 1..Len(chan) : chan[i].obj = o
  \/ \E w \in Busy : wev[w].obj = o

EventsTimely ==
  /\ pend # NoEvent => Timely(pend)
  /\ \A i \in 1..Len(chan) : Timely(chan[i])
  /\ \A w \in Busy : Timely(wev[w])

TodoTimely ==
  \A o \in todo : IF phase <= 5 THEN Rank[Kind[o]] = phase /\ tgt[o] # Absent
                                ELSE Rank[Kind[o]] = 11 - phase

ProducerShape ==
  /\ ppc \in {"list", "scan", "wait"} => pend = NoEvent
  /\ ppc \in {"send", "fail"} => pend # NoEvent
  /\ ppc \in {"list", "wait"} => todo = {}
  /\ ppc = "list" => inFlight = 0
  /\ ppc \in {"close", "exited"} /\ pend = NoEvent =>
       inFlight = 0 /\ todo = {} /\ phase = 10
  /\ pend # NoEvent => ppc = "send" \/ errs # {}

RunShape ==
  /\ errClosed => ppc = "exited" /\ \A w \in Workers : wpc[w] = "exited"
  /\ mpc = "returned" => errClosed
  /\ stopped \/ mpc = "stop" => errs # {} \/ errClosed

ErrorsKept ==
  /\ errs \subseteq failed
  /\ \A o \in failed : \/ o \in errs
                       \/ \E w \in Workers : wpc[w] \in {"failed", "report"} /\ wev[w].obj = o
  /\ \A w \in Workers : wpc[w] \in {"failed", "report"} => wev[w].obj \in failed

Answered ==
  \A w \in Workers : wpc[w] \in {"postProcess", "done"} => manba[wev[w].obj] = tgt[wev[w].obj]

Settled ==
  \A o \in Obj : \/ manba[o] = tgt[o] /\ cur[o] = tgt[o]
                 \/ o \in failed
                 \/ Unsettled(o)

IInv ==
  /\ TypeOK /\ InFlightExact
  /\ EventsTimely /\ TodoTimely /\ ProducerShape /\ RunShape
  /\ ErrorsKept /\ Answered /\ MirrorsManba /\ Settled

-----------------------------------------------------------------------------
(* A state after an event is a state, and differs from it at one object. *)
LEMMA ApplyIsState ==
  ASSUME NEW s \in State, tgt \in State, NEW e \in Event
  PROVE  /\ Apply(s, e) \in State
         /\ \A o \in Obj : Apply(s, e)[o] =
              IF o = e.obj THEN IF e.op = "Delete" THEN Absent ELSE tgt[o] ELSE s[o]
<1> DEFINE V == UNION {Conf[o] \cup {Absent} : o \in Obj}
           new == IF e.op = "Delete" THEN Absent ELSE tgt[e.obj]
<1>1. e.obj \in Obj
  BY DEF Event
<1>2. /\ s \in [Obj -> V] /\ \A o \in Obj : s[o] \in Conf[o] \cup {Absent}
      /\ tgt[e.obj] \in Conf[e.obj] \cup {Absent}
  BY <1>1 DEF State
<1>3. new \in Conf[e.obj] \cup {Absent} /\ new \in V
  BY <1>1, <1>2
<1>4. Apply(s, e) = [s EXCEPT ![e.obj] = new]
  BY DEF Apply
<1> HIDE DEF V, new
<1>5. Apply(s, e) \in [Obj -> V]
  BY <1>2, <1>3, <1>4
<1>6. \A o \in Obj : Apply(s, e)[o] = IF o = e.obj THEN new ELSE s[o]
  BY <1>2, <1>4
<1>7. \A o \in Obj : Apply(s, e)[o] \in Conf[o] \cup {Absent}
  BY <1>2, <1>3, <1>6
<1>8. Apply(s, e) \in State
  BY <1>5, <1>7 DEF State, V
<1> QED
  BY <1>6, <1>8 DEF new

(* What a phase lists: objects of its kind, of the target or of the current *)
(* state.                                                                   *)
LEMMA GetAllLists ==
  ASSUME phase \in 1..10
  PROVE  GetAll(phase) =
           {o \in Obj : /\ Rank[Kind[o]] = IF phase <= 5 THEN phase ELSE 11 - phase
                        /\ IF phase <= 5 THEN tgt[o] # Absent ELSE cur[o] # Absent}
<1>1. \A o \in Obj : Kind[o] \in Kinds
  BY ObjAssumption
<1> DEFINE Listed == {o \in Obj : /\ Rank[Kind[o]] = IF phase <= 5 THEN phase ELSE 11 - phase
                        /\ IF phase <= 5 THEN tgt[o] # Absent ELSE cur[o] # Absent}
<1>2. CASE phase = 1
  BY <1>1, <1>2 DEF Kinds, Rank, Has, GetAll, createUpdateList, createUpdateServers
<1>3. CASE phase = 2
  BY <1>1, <1>3 DEF Kinds, Rank, Has, GetAll, createUpdateList, createUpdateClusters
<1>4. CASE phase = 3
  BY <1>1, <1>4 DEF Kinds, Rank, Has, GetAll, createUpdateList, createUpdateBinds
<1>5. CASE phase = 4
  BY <1>1, <1>5 DEF Kinds, Rank, Has, GetAll, createUpdateList, createUpdateAPIs
<1>6. CASE phase = 5
  BY <1>1, <1>6 DEF Kinds, Rank, Has, GetAll, createUpdateList, createUpdateRoutings
<1>7. CASE phase = 6
  BY <1>1, <1>7 DEF Kinds, Rank, Has, GetAll, deleteList, deleteRoutings
<1>8. CASE phase = 7
  BY <1>1, <1>8 DEF Kinds, Rank, Has, GetAll, deleteList, deleteAPIs
<1>9. CASE phase = 8
  BY <1>1, <1>9 DEF Kinds, Rank, Has, GetAll, deleteList, deleteBinds
<1>10. CASE phase = 9
  BY <1>1, <1>10 DEF Kinds, Rank, Has, GetAll, deleteList, deleteClusters
<1>11. CASE phase = 10
  BY <1>1, <1>11 DEF Kinds, Rank, Has, GetAll, deleteList, deleteServers
<1> QED
  BY <1>2, <1>3, <1>4, <1>5, <1>6, <1>7, <1>8, <1>9, <1>10, <1>11

(* Sending appends one event, receiving removes the first. *)
LEMMA AppendEvent ==
  ASSUME chan \in Seq(Event), NEW e \in Event
  PROVE  /\ Append(chan, e) \in Seq(Event)
         /\ Len(Append(chan, e)) = Len(chan) + 1
         /\ \A i \in 1..Len(chan) : Append(chan, e)[i] = chan[i]
         /\ Append(chan, e)[Len(chan) + 1] = e
BY AppendProperties

LEMMA TailEvent ==
  ASSUME chan \in Seq(Event), chan # <<>>
  PROVE  /\ Head(chan) \in Event /\ Head(chan) = chan[1]
         /\ Tail(chan) \in Seq(Event)
         /\ Len(Tail(chan)) = Len(chan) - 1 /\ Len(chan) \in Nat \ {0}
         /\ \A i \in 1..Len(Tail(chan)) : Tail(chan)[i] = chan[i + 1]
BY HeadTailProperties

-----------------------------------------------------------------------------
LEMMA InitTypeOK == Init => TypeOK
<1> SUFFICES ASSUME Init PROVE TypeOK
  OBVIOUS
<1>1. chan \in Seq(Event) /\ Len(chan) <= EventChanCap
  BY RunAssumption DEF Init
<1>2. /\ wpc \in [Workers -> {"receive", "do", "postProcess", "done", "failed",
                            "report", "exited"}]
      /\ wev \in [Workers -> Event \cup {NoEvent}]
  BY DEF Init
<1>3. manba \in State /\ cur \in State /\ tgt \in State
  BY DEF Init
<1>4. \A w \in Workers : wpc[w] = "receive"
  BY DEF Init
<1>5. /\ phase \in 1..10 /\ todo \subseteq Obj /\ failed \subseteq Obj /\ errs \subseteq Obj
      /\ pend \in Event \cup {NoEvent} /\ inFlight \in Nat
      /\ ppc = "list" /\ mpc = "select"
  BY DEF Init
<1>6. closed \in BOOLEAN /\ stopped \in BOOLEAN /\ errClosed \in BOOLEAN
  BY DEF Init
<1> QED
  BY <1>1, <1>2, <1>3, <1>4, <1>5, <1>6 DEF TypeOK

LEMMA StepTypeOK == TypeOK /\ InFlightExact /\ [Next]_vars => TypeOK'
<1> SUFFICES ASSUME TypeOK, InFlightExact, [Next]_vars PROVE TypeOK'
  OBVIOUS
<1> USE DEF data, prod, queue, work, main
<1>1. CASE PList
  BY <1>1, GetAllLists DEF PList, TypeOK
<1>2. CASE PScan
  <2>1. PICK o \in todo :
          /\ todo' = todo \ {o}
          /\ IF OpOf(phase, o) = "none"
             THEN UNCHANGED <<ppc, pend, inFlight>>
             ELSE /\ pend' = [op |-> OpOf(phase, o), obj |-> o]
                  /\ inFlight' = inFlight + 1
                  /\ ppc' = "send"
    BY <1>2 DEF PScan
  <2>2. OpOf(phase, o) # "none" => [op |-> OpOf(phase, o), obj |-> o] \in Event
    BY DEF OpOf, createUpdateOp, deleteOp, Event, Ops, TypeOK
  <2> QED
    BY <1>2, <2>1, <2>2 DEF PScan, TypeOK
<1>3. CASE PSend
  <2>1. pend \in Event /\ chan \in Seq(Event) /\ Len(chan) \in Nat
    BY <1>3, LenProperties DEF PSend, TypeOK
  <2>2. chan' \in Seq(Event) /\ Len(chan') = Len(chan) + 1
    BY <1>3, <2>1, AppendEvent DEF PSend
  <2> QED
    BY <1>3, <2>1, <2>2, RunAssumption DEF PSend, TypeOK
<1>4. CASE PSendStopped
  BY <1>4 DEF PSendStopped, TypeOK
<1>5. CASE PScanned
  BY <1>5 DEF PScanned, TypeOK
<1>6. CASE PWait
  BY <1>6 DEF PWait, TypeOK
<1>7. CASE PFail
  BY <1>7 DEF PFail, TypeOK
<1>8. CASE PClose
  BY <1>8 DEF PClose, TypeOK
<1>9. ASSUME NEW w \in Workers, WReceive(w) PROVE TypeOK'
  <2>1. Head(chan) \in Event /\ chan' \in Seq(Event) /\ Len(chan') = Len(chan) - 1
    BY <1>9, TailEvent DEF WReceive, TypeOK
  <2>2. Len(chan) \in Nat /\ chan \in Seq(Event)
    BY LenProperties DEF TypeOK
  <2> HIDE DEF Event
  <2> QED
    BY <1>9, <2>1, <2>2, RunAssumption DEF WReceive, TypeOK
<1>10. ASSUME NEW w \in Workers, WExit(w) PROVE TypeOK'
  BY <1>10 DEF WExit, TypeOK
<1>11. ASSUME NEW w \in Workers, WDo(w) PROVE TypeOK'
  BY <1>11, ApplyIsState DEF WDo, TypeOK
<1>12. ASSUME NEW w \in Workers, WDoError(w) PROVE TypeOK'
  <2>1. wev[w] \in Event /\ wev[w].obj \in Obj
    BY <1>12 DEF WDoError, TypeOK, Event
  <2>2. manba' \in State
    BY <1>12, <2>1, ApplyIsState DEF WDoError, TypeOK
  <2> QED
    BY <1>12, <2>1, <2>2 DEF WDoError, TypeOK
<1>13. ASSUME NEW w \in Workers, WPost(w) PROVE TypeOK'
  BY <1>13, ApplyIsState DEF WPost, TypeOK
<1>14. ASSUME NEW w \in Workers, WCompleted(w) PROVE TypeOK'
  <2>1. inFlight \in Nat \ {0}
    <3>1. IsFiniteSet(Busy) /\ w \in Busy
      BY <1>14, RunAssumption, FS_Subset DEF WCompleted, Busy
    <3>2. Cardinality(Busy) \in Nat \ {0}
      BY <3>1, FS_CardinalityType, FS_EmptySet
    <3> QED
      BY <3>2, LenProperties DEF InFlightExact, TypeOK
  <2> QED
    BY <1>14, <2>1 DEF WCompleted, TypeOK
<1>15. ASSUME NEW w \in Workers, WReport(w) PROVE TypeOK'
  <2>1. wev[w].obj \in Obj
    BY <1>15 DEF WReport, TypeOK, Event
  <2> QED
    BY <1>15, <2>1 DEF WReport, TypeOK
<1>16. CASE CloseErrChan
  BY <1>16 DEF CloseErrChan, TypeOK
<1>17. CASE Main
  BY <1>17 DEF Main, MSelectClosed, MStop, MReturn, TypeOK
<1>18. CASE UNCHANGED vars
  BY <1>18 DEF vars, TypeOK
<1> QED
  BY <1>1, <1>2, <1>3, <1>4, <1>5, <1>6, <1>7, <1>8, <1>9, <1>10, <1>11, <1>12,
     <1>13, <1>14, <1>15, <1>16, <1>17, <1>18
     DEF Next, Producer, Worker, Returned

-----------------------------------------------------------------------------
(* The two steps that change the number of busy workers. *)
LEMMA BusyGrows ==
  ASSUME NEW w \in Workers, w \notin Busy, Busy' = Busy \cup {w}
  PROVE  Cardinality(Busy') = Cardinality(Busy) + 1
<1>1. IsFiniteSet(Busy)
  BY RunAssumption, FS_Subset DEF Busy
<1> QED
  BY <1>1, FS_AddElement

LEMMA BusyShrinks ==
  ASSUME NEW w \in Busy, Busy' = Busy \ {w}
  PROVE  Cardinality(Busy') = Cardinality(Busy) - 1
<1>1. IsFiniteSet(Busy)
  BY RunAssumption, FS_Subset DEF Busy
<1> QED
  BY <1>1, FS_RemoveElement

LEMMA BusyCount == Cardinality(Busy) \in Nat
BY RunAssumption, FS_Subset, FS_CardinalityType DEF Busy

LEMMA InitInFlight == Init => InFlightExact
<1> SUFFICES ASSUME Init PROVE InFlightExact
  OBVIOUS
<1>1. Busy = {} /\ Len(chan) = 0 /\ pend = NoEvent /\ inFlight = 0
  BY DEF Init, Busy
<1> QED
  BY <1>1, FS_EmptySet DEF InFlightExact

(* InFlightOps is raised with `pend' and lowered with Busy. *)
LEMMA StepInFlight ==
  TypeOK /\ ProducerShape /\ InFlightExact /\ [Next]_vars => InFlightExact'
<1> SUFFICES ASSUME TypeOK, ProducerShape, InFlightExact, [Next]_vars
             PROVE  InFlightExact'
  OBVIOUS
<1> USE DEF data, prod, queue, work, main
<1>0. inFlight \in Nat /\ Len(chan) \in Nat /\ Cardinality(Busy) \in Nat
  BY BusyCount, LenProperties DEF TypeOK
<1>1. CASE PScan
  <2>1. /\ UNCHANGED <<chan, wpc>> /\ pend = NoEvent
        /\ \/ UNCHANGED <<pend, inFlight>>
           \/ inFlight' = inFlight + 1 /\ pend' # NoEvent
    BY <1>1 DEF PScan, ProducerShape, NoEvent, OpOf, createUpdateOp, deleteOp
  <2>2. UNCHANGED Cardinality(Busy)
    BY <2>1 DEF Busy
  <2> QED
    BY <1>0, <2>1, <2>2 DEF InFlightExact
<1>2. CASE PSend
  <2>1. pend # NoEvent /\ pend' = NoEvent /\ UNCHANGED <<inFlight, wpc>>
    BY <1>2 DEF PSend, ProducerShape
  <2>2. Len(chan') = Len(chan) + 1
    BY <1>2, AppendEvent DEF PSend, TypeOK
  <2>3. UNCHANGED Cardinality(Busy)
    BY <2>1 DEF Busy
  <2> QED
    BY <1>0, <2>1, <2>2, <2>3 DEF InFlightExact
<1>3. CASE PList \/ PSendStopped \/ PScanned \/ PWait \/ PFail \/ PClose
  BY <1>3 DEF PList, PSendStopped, PScanned, PWait, PFail, PClose, InFlightExact, Busy
<1>4. ASSUME NEW w \in Workers, WReceive(w) PROVE InFlightExact'
  <2>1. Len(chan') = Len(chan) - 1
    BY <1>4, TailEvent DEF WReceive, TypeOK
  <2>2. w \notin Busy /\ Busy' = Busy \cup {w} /\ UNCHANGED <<pend, inFlight>>
    BY <1>4 DEF WReceive, Busy, TypeOK
  <2>3. Cardinality(Busy') = Cardinality(Busy) + 1
    BY <2>2, BusyGrows
  <2> QED
    BY <1>0, <2>1, <2>2, <2>3 DEF InFlightExact
<1>5. ASSUME NEW w \in Workers, WExit(w) \/ WDo(w) \/ WDoError(w) \/ WPost(w) \/ WReport(w)
      PROVE  InFlightExact'
  <2>1. Busy' = Busy /\ UNCHANGED <<chan, pend, inFlight>>
    BY <1>5 DEF WExit, WDo, WDoError, WPost, WReport, Busy, TypeOK
  <2> QED
    BY <2>1 DEF InFlightExact
<1>6. ASSUME NEW w \in Workers, WCompleted(w) PROVE InFlightExact'
  <2>1. w \in Busy /\ Busy' = Busy \ {w} /\ UNCHANGED <<chan, pend>> /\ inFlight' = inFlight - 1
    BY <1>6 DEF WCompleted, Busy, TypeOK
  <2>2. Cardinality(Busy') = Cardinality(Busy) - 1
    BY <2>1, BusyShrinks
  <2> QED
    BY <1>0, <2>1, <2>2 DEF InFlightExact
<1>7. CASE CloseErrChan \/ Main \/ UNCHANGED vars
  BY <1>7 DEF CloseErrChan, Main, MSelectClosed, MStop, MReturn, vars, InFlightExact, Busy
<1> QED
  BY <1>1, <1>2, <1>3, <1>4, <1>5, <1>6, <1>7 DEF Next, Producer, Worker, Returned

(* What wait() waits for. *)
LEMMA NothingInFlight ==
  ASSUME TypeOK, InFlightExact, inFlight = 0
  PROVE  Len(chan) = 0 /\ Busy = {} /\ pend = NoEvent
<1>1. Len(chan) \in Nat /\ IsFiniteSet(Busy)
  BY LenProperties, RunAssumption, FS_Subset DEF TypeOK, Busy
<1>2. Cardinality(Busy) \in Nat
  BY BusyCount
<1>3. Len(chan) = 0 /\ Cardinality(Busy) = 0 /\ pend = NoEvent
  BY <1>1, <1>2 DEF InFlightExact
<1> QED
  BY <1>1, <1>3, FS_EmptySet

-----------------------------------------------------------------------------
(* The goroutines' control points fit together. *)
Shape == TypeOK /\ InFlightExact /\ ProducerShape /\ RunShape

LEMMA StepShape == Shape /\ [Next]_vars => ProducerShape' /\ RunShape'
<1> SUFFICES ASSUME Shape, [Next]_vars
             PROVE  ProducerShape' /\ RunShape'
  OBVIOUS
<1> USE DEF Shape, data, prod, queue, work, main
<1>1. CASE PList \/ PSend \/ PScanned \/ PFail \/ PClose
  BY <1>1 DEF PList, PSend, PScanned, PFail, PClose, ProducerShape, RunShape
<1>2. CASE PScan
  <2>1. /\ UNCHANGED <<phase, wpc, stopped, mpc, errs, errClosed>> /\ ppc = "scan"
        /\ \/ UNCHANGED <<pend, ppc, inFlight>>
           \/ ppc' = "send" /\ pend' # NoEvent
    BY <1>2 DEF PScan, NoEvent, OpOf, createUpdateOp, deleteOp
  <2> QED
    BY <2>1 DEF ProducerShape, RunShape
<1>3. CASE PSendStopped
  BY <1>3 DEF PSendStopped, ProducerShape, RunShape
<1>4. CASE PWait
  BY <1>4 DEF PWait, ProducerShape, RunShape, TypeOK
<1>5. ASSUME NEW w \in Workers, Worker(w) PROVE ProducerShape' /\ RunShape'
  <2>1. wpc[w] # "exited" /\ UNCHANGED prod
    BY <1>5 DEF Worker, WReceive, WExit, WDo, WDoError, WPost, WCompleted, WReport
  <2>2. ~errClosed
    BY <2>1 DEF RunShape
  <2>3. errs \subseteq errs' /\ UNCHANGED <<errClosed, stopped>>
    BY <1>5 DEF Worker, WReceive, WExit, WDo, WDoError, WPost, WCompleted, WReport
  <2>4. UNCHANGED mpc \/ (mpc' \in {"stop", "collect"} /\ errs' # {})
    BY <1>5 DEF Worker, WReceive, WExit, WDo, WDoError, WPost, WCompleted, WReport
  <2>5. UNCHANGED inFlight \/ w \in Busy
    BY <1>5 DEF Worker, WReceive, WExit, WDo, WDoError, WPost, WCompleted, WReport, Busy
  <2>6. UNCHANGED inFlight \/ inFlight # 0
    BY <2>5, NothingInFlight
  <2> QED
    BY <2>1, <2>2, <2>3, <2>4, <2>6 DEF ProducerShape, RunShape
<1>6. CASE CloseErrChan
  BY <1>6 DEF CloseErrChan, ProducerShape, RunShape
<1>7. CASE Main
  BY <1>7 DEF Main, MSelectClosed, MStop, MReturn, ProducerShape, RunShape
<1>8. CASE UNCHANGED vars
  BY <1>8 DEF vars, ProducerShape, RunShape
<1> QED
  BY <1>1, <1>2, <1>3, <1>4, <1>5, <1>6, <1>7, <1>8 DEF Next, Producer, Returned

LEMMA InitShape == Init => Shape
<1> SUFFICES ASSUME Init PROVE Shape
  OBVIOUS
<1>1. ProducerShape /\ RunShape
  BY DEF Init, ProducerShape, RunShape
<1> QED
  BY <1>1, InitTypeOK, InitInFlight DEF Shape

(***************************************************************************)
(* The variables of a Run keep their types; in particular InFlightOps,     *)
(* which workers lower without a test, never goes below zero.              *)
(***************************************************************************)
THEOREM TypeCorrect == Spec => []TypeOK
<1>1. Shape /\ [Next]_vars => Shape'
  BY StepTypeOK, StepInFlight, StepShape DEF Shape
<1>2. Shape => TypeOK
  BY DEF Shape
<1> QED
  BY InitShape, <1>1, <1>2, PTL DEF Spec

-----------------------------------------------------------------------------
LEMMA RankOfObj == \A o \in Obj : Rank[Kind[o]] \in 1..5
<1> SUFFICES ASSUME NEW o \in Obj PROVE Rank[Kind[o]] \in 1..5
  OBVIOUS
<1>1. Kind[o] \in Kinds
  BY ObjAssumption
<1> QED
  BY <1>1 DEF Kinds, Rank

LEMMA TargetFixed == [Next]_vars => UNCHANGED tgt
BY DEF Next, Producer, PList, PScan, PSend, PSendStopped, PScanned, PWait, PFail, PClose,
       Worker, WReceive, WExit, WDo, WDoError, WPost, WCompleted, WReport, CloseErrChan,
       Main, MSelectClosed, MStop, MReturn, Returned, vars, data

LEMMA FailedGrows == [Next]_vars => failed \subseteq failed'
BY DEF Next, Producer, PList, PScan, PSend, PSendStopped, PScanned, PWait, PFail, PClose,
       Worker, WReceive, WExit, WDo, WDoError, WPost, WCompleted, WReport, CloseErrChan,
       Main, MSelectClosed, MStop, MReturn, Returned, vars

(* The steps of a worker between receiving an event and completing it. *)
LEMMA BusySteps ==
  ASSUME TypeOK, NEW w \in Workers,
         WExit(w) \/ WDo(w) \/ WDoError(w) \/ WPost(w) \/ WReport(w)
  PROVE  /\ Busy' = Busy /\ \A v \in Busy : wev'[v] = wev[v]
         /\ UNCHANGED <<prod, queue, tgt>>
BY DEF WExit, WDo, WDoError, WPost, WReport, Busy, TypeOK, data, prod, queue, work, main

LEMMA CompletedStep ==
  ASSUME TypeOK, NEW w \in Workers, WCompleted(w)
  PROVE  /\ w \in Busy /\ Busy' = Busy \ {w}
         /\ \A v \in Busy' : wev'[v] = wev[v]
         /\ UNCHANGED <<data, prod, chan>>
BY DEF WCompleted, Busy, TypeOK, prod

LEMMA ReceiveStep ==
  ASSUME TypeOK, NEW w \in Workers, WReceive(w)
  PROVE  /\ w \notin Busy /\ Busy' = Busy \cup {w}
         /\ wev'[w] = chan[1] /\ 1 \in 1..Len(chan)
         /\ \A v \in Busy : wev'[v] = wev[v]
         /\ \A i \in 1..Len(chan') : i + 1 \in 1..Len(chan) /\ chan'[i] = chan[i + 1]
         /\ \A i \in 1..Len(chan) : i = 1 \/ (i - 1 \in 1..Len(chan') /\ chan'[i - 1] = chan[i])
         /\ UNCHANGED <<data, prod>>
<1>1. w \notin Busy /\ Busy' = Busy \cup {w} /\ \A v \in Busy : wev'[v] = wev[v]
  BY DEF WReceive, Busy, TypeOK
<1>2. /\ wev'[w] = chan[1] /\ chan' = Tail(chan)
      /\ Len(chan) \in Nat \ {0} /\ Len(chan') = Len(chan) - 1
      /\ \A i \in 1..Len(chan') : chan'[i] = chan[i + 1]
  BY TailEvent DEF WReceive, TypeOK
<1>3. \A i \in 1..Len(chan) : i = 1 \/ (i - 1 \in 1..Len(chan') /\ chan'[i - 1] = chan[i])
  <2> SUFFICES ASSUME NEW i \in 1..Len(chan), i # 1
               PROVE  i - 1 \in 1..Len(chan') /\ chan'[i - 1] = chan[i]
    OBVIOUS
  <2>1. i - 1 \in 1..Len(chan') /\ (i - 1) + 1 = i
    BY <1>2
  <2> QED
    BY <1>2, <2>1
<1>4. \A i \in 1..Len(chan') : i + 1 \in 1..Len(chan)
  BY <1>2
<1> QED
  BY <1>1, <1>2, <1>3, <1>4 DEF WReceive, prod

(***************************************************************************)
(* Events and the objects of the current scan belong to the current phase. *)
(***************************************************************************)
LEMMA StepTimely ==
  Shape /\ EventsTimely /\ TodoTimely /\ [Next]_vars => EventsTimely' /\ TodoTimely'
<1> SUFFICES ASSUME Shape, EventsTimely, TodoTimely, [Next]_vars
             PROVE  EventsTimely' /\ TodoTimely'
  OBVIOUS
<1>0. tgt' = tgt /\ TypeOK
  BY TargetFixed DEF Shape
<1>a. ASSUME UNCHANGED <<phase, todo>> PROVE TodoTimely'
  BY <1>0, <1>a DEF TodoTimely
<1>b. ASSUME UNCHANGED phase, NEW e, Timely(e) PROVE Timely(e)'
  BY <1>0, <1>b DEF Timely, TurnOf
<1> USE DEF prod, queue, work, main
<1>1. CASE PList
  <2>1. todo' = GetAll(phase) /\ UNCHANGED <<phase, pend, chan, wpc, wev>>
    BY <1>1 DEF PList
  <2>2. TodoTimely'
    BY <1>0, <2>1, GetAllLists DEF TodoTimely, TypeOK
  <2>3. EventsTimely'
    BY <1>0, <2>1 DEF EventsTimely, Timely, TurnOf, Busy
  <2> QED
    BY <2>2, <2>3
<1>2. CASE PScan
  <2>1. PICK o \in todo :
          /\ todo' = todo \ {o}
          /\ \/ UNCHANGED pend
             \/ OpOf(phase, o) # "none" /\ pend' = [op |-> OpOf(phase, o), obj |-> o]
    BY <1>2 DEF PScan
  <2>2. UNCHANGED <<phase, chan, wpc, wev>>
    BY <1>2 DEF PScan
  <2>3. TodoTimely'
    BY <1>0, <2>1, <2>2 DEF TodoTimely
  <2>4. ASSUME OpOf(phase, o) # "none"
        PROVE  Timely([op |-> OpOf(phase, o), obj |-> o])
    <3>1. Rank[Kind[o]] \in 1..5 /\ phase \in 1..10
      BY <1>0, RankOfObj DEF TypeOK
    <3> QED
      BY <2>4, <3>1 DEF Timely, TurnOf, OpOf, createUpdateOp, deleteOp, TodoTimely
  <2>5. EventsTimely'
    BY <1>b, <1>0, <2>1, <2>2, <2>4 DEF EventsTimely, Busy
  <2> QED
    BY <2>3, <2>5
<1>3. CASE PSend
  <2>1. /\ UNCHANGED <<phase, todo, wpc, wev>> /\ pend' = NoEvent /\ pend # NoEvent
        /\ chan' = Append(chan, pend) /\ pend \in Event /\ chan \in Seq(Event)
    BY <1>3 DEF PSend, Shape, ProducerShape, TypeOK
  <2>2. \A i \in 1..Len(chan') : Timely(chan'[i])
    BY <2>1, AppendEvent, LenProperties DEF EventsTimely
  <2>3. \A i \in 1..Len(chan') : Timely(chan[i])'
    BY <1>0, <2>1, <2>2 DEF Timely, TurnOf
  <2>4. \A w \in Busy' : Timely(wev[w])'
    BY <1>0, <2>1 DEF EventsTimely, Timely, TurnOf, Busy
  <2> QED
    BY <1>a, <2>1, <2>3, <2>4 DEF EventsTimely
<1>4. CASE PSendStopped \/ PScanned \/ PFail \/ PClose
  <2>1. UNCHANGED <<phase, todo, pend, chan, wpc, wev>>
    BY <1>4 DEF PSendStopped, PScanned, PFail, PClose
  <2> QED
    BY <1>0, <1>a, <2>1 DEF EventsTimely, Timely, TurnOf, Busy
<1>5. CASE PWait
  <2>1. /\ UNCHANGED <<todo, pend, chan, wpc, wev>> /\ inFlight = 0 /\ todo = {}
    BY <1>5 DEF PWait, Shape, ProducerShape
  <2>2. Len(chan) = 0 /\ Busy = {} /\ pend = NoEvent
    BY <2>1, NothingInFlight DEF Shape
  <2> QED
    BY <2>1, <2>2 DEF EventsTimely, TodoTimely, Busy
<1>6. ASSUME NEW w \in Workers, WReceive(w) PROVE EventsTimely' /\ TodoTimely'
  <2>1. UNCHANGED <<phase, todo, pend>>
    BY <1>0, <1>6, ReceiveStep
  <2>2. \A i \in 1..Len(chan') : Timely(chan'[i])
    BY <1>0, <1>6, ReceiveStep DEF EventsTimely
  <2>3. \A v \in Busy' : Timely(wev'[v])
    BY <1>0, <1>6, ReceiveStep DEF EventsTimely
  <2>4. /\ \A i \in 1..Len(chan') : Timely(chan[i])'
        /\ \A v \in Busy' : Timely(wev[v])'
        /\ pend' # NoEvent => Timely(pend)'
    BY <1>0, <2>1, <2>2, <2>3 DEF EventsTimely, Timely, TurnOf
  <2> QED
    BY <1>a, <2>1, <2>4 DEF EventsTimely
<1>7. ASSUME NEW w \in Workers, WExit(w) \/ WDo(w) \/ WDoError(w) \/ WPost(w) \/ WReport(w)
      PROVE  EventsTimely' /\ TodoTimely'
  BY <1>0, <1>7, <1>a, BusySteps DEF EventsTimely, Timely, TurnOf
<1>8. ASSUME NEW w \in Workers, WCompleted(w) PROVE EventsTimely' /\ TodoTimely'
  BY <1>0, <1>8, <1>a, CompletedStep DEF EventsTimely, Timely, TurnOf
<1>9. CASE CloseErrChan \/ Main \/ UNCHANGED vars
  <2>1. UNCHANGED <<phase, todo, pend, chan, wpc, wev>>
    BY <1>9 DEF CloseErrChan, Main, MSelectClosed, MStop, MReturn, vars
  <2> QED
    BY <1>0, <1>a, <2>1 DEF EventsTimely, Timely, TurnOf, Busy
<1> QED
  BY <1>1, <1>2, <1>3, <1>4, <1>5, <1>6, <1>7, <1>8, <1>9 DEF Next, Producer, Worker, Returned

-----------------------------------------------------------------------------
(* A timely event moves its object to the target and no other object. *)
LEMMA ApplySettles ==
  ASSUME TypeOK, NEW s \in State, NEW e \in Event, Timely(e)
  PROVE  \A o \in Obj : Apply(s, e)[o] = IF o = e.obj THEN tgt[o] ELSE s[o]
BY ApplyIsState DEF TypeOK, Timely

(* No step moves an object of Manba or of the current state but to its target. *)
LEMMA DataSteps ==
  ASSUME TypeOK, EventsTimely, [Next]_vars
  PROVE  /\ \A o \in Obj : manba'[o] \in {manba[o], tgt[o]}
         /\ \A o \in Obj : cur'[o] \in {cur[o], tgt[o]}
<1> USE DEF data, prod, queue, work, main
<1>1. CASE \E w \in Workers : WDo(w) \/ WDoError(w) \/ WPost(w)
  <2> PICK w \in Workers : WDo(w) \/ WDoError(w) \/ WPost(w)
    BY <1>1
  <2>1. wev[w] \in Event /\ Timely(wev[w]) /\ manba \in State /\ cur \in State
    BY DEF WDo, WDoError, WPost, TypeOK, EventsTimely, Busy
  <2>2. /\ manba' = manba \/ manba' = Apply(manba, wev[w])
        /\ cur' = cur \/ cur' = Apply(cur, wev[w])
    BY DEF WDo, WDoError, WPost
  <2> QED
    BY <2>1, <2>2, ApplySettles
<1>2. CASE UNCHANGED <<manba, cur>>
  BY <1>2
<1> QED
  BY <1>1, <1>2
     DEF Next, Producer, PList, PScan, PSend, PSendStopped, PScanned, PWait, PFail, PClose,
         Worker, WReceive, WExit, WCompleted, WReport, CloseErrChan,
         Main, MSelectClosed, MStop, MReturn, Returned, vars

(* A failed call is known to Run, or to the worker that is to report it. *)
LEMMA StepErrors == TypeOK /\ ErrorsKept /\ [Next]_vars => ErrorsKept'
<1> SUFFICES ASSUME TypeOK, ErrorsKept, [Next]_vars PROVE ErrorsKept'
  OBVIOUS
<1> USE DEF data, prod, queue, work, main
<1>1. ASSUME NEW w \in Workers, WReceive(w) \/ WExit(w) \/ WDo(w) \/ WPost(w)
      PROVE  ErrorsKept'
  <2>1. /\ UNCHANGED <<errs, failed>>
        /\ \A v \in Workers : wpc'[v] \in {"failed", "report"} <=> wpc[v] \in {"failed", "report"}
        /\ \A v \in Workers : wpc[v] \in {"failed", "report"} => wev'[v] = wev[v]
    BY <1>1 DEF WReceive, WExit, WDo, WPost, TypeOK
  <2> QED
    BY <2>1 DEF ErrorsKept
<1>2. ASSUME NEW w \in Workers, WDoError(w) PROVE ErrorsKept'
  BY <1>2 DEF WDoError, ErrorsKept, TypeOK
<1>3. ASSUME NEW w \in Workers, WCompleted(w) PROVE ErrorsKept'
  <2>1. /\ UNCHANGED <<errs, failed>>
        /\ \A v \in Workers : wpc'[v] \in {"failed", "report"} <=> wpc[v] \in {"failed", "report"}
        /\ \A v \in Workers : wpc[v] \in {"failed", "report"} => wev'[v] = wev[v]
    BY <1>3 DEF WCompleted, TypeOK
  <2> QED
    BY <2>1 DEF ErrorsKept
<1>4. ASSUME NEW w \in Workers, WReport(w) PROVE ErrorsKept'
  BY <1>4 DEF WReport, ErrorsKept, TypeOK
<1>5. CASE UNCHANGED <<wpc, wev, errs, failed>>
  BY <1>5 DEF ErrorsKept
<1> QED
  BY <1>1, <1>2, <1>3, <1>4, <1>5
     DEF Next, Producer, PList, PScan, PSend, PSendStopped, PScanned, PWait, PFail, PClose,
         Worker, CloseErrChan, Main, MSelectClosed, MStop, MReturn, Returned, vars

(* The in-memory state follows Manba. *)
LEMMA StepMirror ==
  TypeOK /\ EventsTimely /\ Answered /\ MirrorsManba /\ [Next]_vars
    => Answered' /\ MirrorsManba'
<1> SUFFICES ASSUME TypeOK, EventsTimely, Answered, MirrorsManba, [Next]_vars
             PROVE  Answered' /\ MirrorsManba'
  OBVIOUS
<1>0. tgt' = tgt /\ \A o \in Obj : manba[o] = tgt[o] => manba'[o] = tgt[o]
  BY TargetFixed, DataSteps
<1> USE DEF data, prod, queue, work, main
<1>1. ASSUME NEW w \in Workers, WReceive(w) \/ WExit(w) \/ WCompleted(w) \/ WReport(w)
      PROVE  Answered' /\ MirrorsManba'
  <2>1. /\ UNCHANGED <<manba, cur, tgt, failed>>
        /\ \A v \in Workers : wpc'[v] \in {"postProcess", "done"} =>
             wpc[v] \in {"postProcess", "done"} /\ wev'[v] = wev[v]
        /\ \A v \in Workers : wpc[v] = "postProcess" => wpc'[v] = "postProcess" /\ wev'[v] = wev[v]
    BY <1>1 DEF WReceive, WExit, WCompleted, WReport, TypeOK
  <2> QED
    BY <2>1 DEF Answered, MirrorsManba
<1>2. ASSUME NEW w \in Workers, WDo(w) \/ WDoError(w) PROVE Answered' /\ MirrorsManba'
  <2>1. /\ wev[w] \in Event /\ Timely(wev[w]) /\ manba \in State
        /\ UNCHANGED <<cur, wev>>
    BY <1>2 DEF WDo, WDoError, TypeOK, EventsTimely, Busy
  <2>2. \A o \in Obj : Apply(manba, wev[w])[o] = IF o = wev[w].obj THEN tgt[o] ELSE manba[o]
    BY <2>1, ApplySettles
  <2>3. wev[w].obj \in Obj /\ \A v \in Workers : wpc[v] \in {"postProcess", "done"} => wev[v].obj \in Obj
    BY <2>1 DEF Event, TypeOK
  <2>4. CASE WDo(w)
    <3>1. manba' = Apply(manba, wev[w]) /\ wpc' = [wpc EXCEPT ![w] = "postProcess"]
          /\ failed' = failed
      BY <2>4 DEF WDo
    <3>2. Answered'
      BY <1>0, <2>1, <2>2, <2>3, <3>1 DEF Answered, TypeOK
    <3>3. MirrorsManba'
      BY <2>1, <2>2, <3>1 DEF MirrorsManba, TypeOK
    <3> QED
      BY <3>2, <3>3
  <2>5. CASE WDoError(w)
    <3>1. /\ manba' \in {manba, Apply(manba, wev[w])} /\ wpc' = [wpc EXCEPT ![w] = "failed"]
          /\ failed' = failed \cup {wev[w].obj} /\ wpc[w] = "do"
      BY <2>5 DEF WDoError
    <3>2. Answered'
      BY <1>0, <2>1, <2>3, <3>1 DEF Answered, TypeOK
    <3>3. MirrorsManba'
      BY <2>1, <2>2, <3>1 DEF MirrorsManba, TypeOK
    <3> QED
      BY <3>2, <3>3
  <2> QED
    BY <1>2, <2>4, <2>5
<1>3. ASSUME NEW w \in Workers, WPost(w) PROVE Answered' /\ MirrorsManba'
  <2>1. /\ wev[w] \in Event /\ Timely(wev[w]) /\ cur \in State
        /\ wpc[w] = "postProcess" /\ wpc' = [wpc EXCEPT ![w] = "done"]
        /\ UNCHANGED <<manba, wev, failed>> /\ cur' = Apply(cur, wev[w])
    BY <1>3 DEF WPost, TypeOK, EventsTimely, Busy
  <2>2. \A o \in Obj : cur'[o] = IF o = wev[w].obj THEN tgt[o] ELSE cur[o]
    BY <2>1, ApplySettles
  <2>3. Answered'
    BY <1>0, <2>1 DEF Answered, TypeOK
  <2>4. MirrorsManba'
    BY <2>1, <2>2 DEF MirrorsManba, Answered, TypeOK
  <2> QED
    BY <2>3, <2>4
<1>4. CASE UNCHANGED <<manba, cur, wpc, wev, failed>>
  BY <1>0, <1>4 DEF Answered, MirrorsManba
<1> QED
  BY <1>1, <1>2, <1>3, <1>4
     DEF Next, Producer, PList, PScan, PSend, PSendStopped, PScanned, PWait, PFail, PClose,
         Worker, CloseErrChan, Main, MSelectClosed, MStop, MReturn, Returned, vars

-----------------------------------------------------------------------------
(***************************************************************************)
(* No object is forgotten: what is not at its target has failed, or is     *)
(* still to be looked at, queued or handled.                               *)
(***************************************************************************)
LEMMA StepSettled ==
  IInv /\ [Next]_vars => Settled'
<1> SUFFICES ASSUME IInv, [Next]_vars PROVE Settled'
  OBVIOUS
<1>d. \A x \in Obj : /\ manba[x] = tgt[x] => manba'[x] = tgt'[x]
                     /\ cur[x] = tgt[x] => cur'[x] = tgt'[x]
  BY TargetFixed, DataSteps DEF IInv
<1>f. failed \subseteq failed'
  BY FailedGrows
<1> SUFFICES ASSUME NEW o \in Obj, o \notin failed, Unsettled(o),
                    ~(manba[o] = tgt[o] /\ cur[o] = tgt[o])
             PROVE  o \in failed' \/ Unsettled(o)'
  BY <1>d, <1>f DEF Settled, IInv
<1>0. TypeOK /\ Shape /\ TurnOf(o)' = TurnOf(o) /\ TurnOf(o) \in 1..10
  <2>1. TypeOK /\ Shape
    BY DEF IInv, Shape
  <2>2. TurnOf(o)' = TurnOf(o)
    BY TargetFixed DEF TurnOf
  <2>3. TurnOf(o) \in 1..10
    BY RankOfObj DEF TurnOf
  <2> QED
    BY <2>1, <2>2, <2>3
<1>m. manba[o] # cur[o] => \E w \in Busy : wpc[w] = "postProcess" /\ wev[w].obj = o
  BY DEF IInv, MirrorsManba, Busy
<1> USE DEF prod, queue, work, main
<1>1. CASE PList
  <2>1. todo' = GetAll(phase) /\ UNCHANGED <<phase, pend, chan, wpc, wev>> /\ todo = {}
    BY <1>1, <1>0 DEF PList, Shape, ProducerShape
  <2>2. CASE phase = TurnOf(o) /\ ppc = "list" /\ Busy = {}
    <3>1. manba[o] = cur[o]
      BY <1>m, <2>2
    <3>2. phase \in 1..10 /\ Rank[Kind[o]] \in 1..5
      BY <1>0, RankOfObj DEF TypeOK
    <3>3. o \in todo'
      BY <2>1, <2>2, <3>1, <3>2, GetAllLists DEF TurnOf
    <3> QED
      BY <1>0, <2>1, <2>2, <3>3 DEF Unsettled
  <2>3. Busy = {}
    BY <1>0, <1>1, NothingInFlight DEF PList, Shape, ProducerShape
  <2> QED
    BY <1>0, <2>1, <2>2, <2>3 DEF Unsettled, Busy
<1>2. CASE PScan
  <2>1. PICK x \in todo :
          /\ todo' = todo \ {x}
          /\ IF OpOf(phase, x) = "none"
             THEN UNCHANGED <<ppc, pend, inFlight>>
             ELSE /\ pend' = [op |-> OpOf(phase, x), obj |-> x]
                  /\ inFlight' = inFlight + 1
                  /\ ppc' = "send"
    BY <1>2 DEF PScan
  <2>2. UNCHANGED <<phase, chan, wpc, wev>> /\ ppc = "scan" /\ pend = NoEvent
    BY <1>0, <1>2 DEF PScan, Shape, ProducerShape
  <2>3. CASE o = x /\ phase = TurnOf(o) /\ OpOf(phase, o) = "none"
    <3>1. phase \in 1..10 /\ Rank[Kind[o]] \in 1..5
      BY <1>0, RankOfObj DEF TypeOK
    <3>2. cur[o] = tgt[o]
      BY <2>1, <2>3, <3>1 DEF IInv, TodoTimely, TurnOf, OpOf, createUpdateOp, deleteOp
    <3>3. PICK w \in Busy : wev[w].obj = o
      BY <1>m, <3>2
    <3> QED
      BY <2>2, <3>3 DEF Unsettled, Busy
  <2>4. CASE o = x /\ OpOf(phase, o) # "none"
    <3>1. pend' # NoEvent /\ pend'.obj = o
      BY <2>1, <2>4 DEF NoEvent, OpOf, createUpdateOp, deleteOp
    <3> QED
      BY <3>1 DEF Unsettled
  <2>5. CASE o # x \/ phase # TurnOf(o)
    BY <1>0, <2>1, <2>2, <2>5 DEF Unsettled, Busy
  <2> QED
    BY <2>3, <2>4, <2>5
<1>3. CASE PSend
  <2>1. /\ UNCHANGED <<phase, todo, wpc, wev>> /\ ppc # "list"
        /\ chan' = Append(chan, pend) /\ pend \in Event /\ chan \in Seq(Event)
        /\ Len(chan) \in Nat
    BY <1>0, <1>3, LenProperties DEF PSend, TypeOK
  <2>2. /\ \A i \in 1..Len(chan) : i \in 1..Len(chan') /\ chan'[i] = chan[i]
        /\ Len(chan) + 1 \in 1..Len(chan') /\ chan'[Len(chan) + 1] = pend
    BY <2>1, AppendEvent
  <2> QED
    BY <1>0, <2>1, <2>2 DEF Unsettled, Busy
<1>4. CASE PSendStopped \/ PScanned \/ PFail \/ PClose
  <2>1. UNCHANGED <<phase, todo, pend, chan, wpc, wev>> /\ ppc # "list"
    BY <1>4 DEF PSendStopped, PScanned, PFail, PClose
  <2> QED
    BY <1>0, <2>1 DEF Unsettled, Busy
<1>5. CASE PWait
  <2>1. /\ UNCHANGED <<todo, pend, chan, wpc, wev>> /\ inFlight = 0 /\ todo = {} /\ ppc # "list"
        /\ phase \in 1..10
        /\ (phase' = phase + 1 /\ ppc' = "list") \/ phase = 10
    BY <1>0, <1>5 DEF PWait, Shape, ProducerShape, TypeOK
  <2>2. Len(chan) = 0 /\ Busy = {} /\ pend = NoEvent
    BY <1>0, <2>1, NothingInFlight DEF Shape
  <2>3. phase < TurnOf(o)
    BY <2>1, <2>2 DEF Unsettled
  <2> QED
    BY <1>0, <2>1, <2>3 DEF Unsettled
<1>6. ASSUME NEW w \in Workers, WReceive(w) PROVE Unsettled(o)'
  <2>1. UNCHANGED <<phase, todo, ppc, pend>>
    BY <1>0, <1>6, ReceiveStep
  <2>2. ASSUME NEW i \in 1..Len(chan), chan[i].obj = o PROVE Unsettled(o)'
    BY <1>0, <1>6, <2>2, ReceiveStep DEF Unsettled
  <2>3. ASSUME NEW v \in Busy, wev[v].obj = o PROVE Unsettled(o)'
    BY <1>0, <1>6, <2>3, ReceiveStep DEF Unsettled
  <2> QED
    BY <1>0, <2>1, <2>2, <2>3 DEF Unsettled
<1>7. ASSUME NEW w \in Workers, WExit(w) \/ WDo(w) \/ WDoError(w) \/ WPost(w) \/ WReport(w)
      PROVE  Unsettled(o)'
  BY <1>0, <1>7, BusySteps DEF Unsettled
<1>8. ASSUME NEW w \in Workers, WCompleted(w) PROVE Unsettled(o)'
  <2>1. /\ UNCHANGED <<phase, todo, ppc, pend, chan>>
        /\ \A v \in Busy : v # w => v \in Busy' /\ wev'[v] = wev[v]
    BY <1>0, <1>8, CompletedStep
  <2>2. ASSUME wev[w].obj = o PROVE \E v \in Busy : v # w /\ wev[v].obj = o
    <3>1. wpc[w] = "done"
      BY <1>8, <2>2 DEF WCompleted, IInv, ErrorsKept
    <3>2. manba[o] # cur[o]
      BY <2>2, <3>1 DEF IInv, Answered
    <3> QED
      BY <1>m, <3>1, <3>2
  <2> QED
    BY <1>0, <2>1, <2>2 DEF Unsettled
<1>9. CASE CloseErrChan \/ Main \/ UNCHANGED vars
  <2>1. UNCHANGED <<phase, todo, ppc, pend, chan, wpc, wev>>
    BY <1>9 DEF CloseErrChan, Main, MSelectClosed, MStop, MReturn, vars
  <2> QED
    BY <1>0, <2>1 DEF Unsettled, Busy
<1> QED
  BY <1>1, <1>2, <1>3, <1>4, <1>5, <1>6, <1>7, <1>8, <1>9 DEF Next, Producer, Worker, Returned

-----------------------------------------------------------------------------
LEMMA InitIInv == Init => IInv
<1> SUFFICES ASSUME Init PROVE IInv
  OBVIOUS
<1>1. /\ pend = NoEvent /\ Len(chan) = 0 /\ todo = {} /\ cur = manba /\ failed = {} /\ errs = {}
      /\ phase = 1 /\ ppc = "list" /\ \A w \in Workers : wpc[w] = "receive"
  BY DEF Init
<1>2. Shape
  BY InitShape
<1>3. EventsTimely /\ TodoTimely /\ ErrorsKept /\ Answered /\ MirrorsManba
  BY <1>1 DEF EventsTimely, TodoTimely, ErrorsKept, Answered, MirrorsManba, Busy
<1>4. Settled
  <2> SUFFICES ASSUME NEW o \in Obj PROVE Unsettled(o)
    BY DEF Settled
  <2>1. Rank[Kind[o]] \in 1..5
    BY RankOfObj
  <2> QED
    BY <1>1, <2>1 DEF Unsettled, TurnOf
<1> QED
  BY <1>1, <1>2, <1>3, <1>4 DEF IInv, Shape

LEMMA StepIInv == IInv /\ [Next]_vars => IInv'
<1> SUFFICES ASSUME IInv, [Next]_vars PROVE IInv'
  OBVIOUS
<1>1. TypeOK' /\ InFlightExact' /\ ProducerShape' /\ RunShape'
  BY StepTypeOK, StepInFlight, StepShape DEF IInv, Shape
<1>2. EventsTimely' /\ TodoTimely'
  BY StepTimely DEF IInv, Shape
<1>3. ErrorsKept' /\ Answered' /\ MirrorsManba'
  BY StepErrors, StepMirror DEF IInv
<1>4. Settled'
  BY StepSettled
<1> QED
  BY <1>1, <1>2, <1>3, <1>4 DEF IInv

LEMMA Invariance == Spec => []IInv
BY InitIInv, StepIInv, PTL DEF Spec

(***************************************************************************)
(* InFlightOps is the number of events queued, being sent or handled.      *)
(***************************************************************************)
THEOREM InFlightCorrect == Spec => []InFlightExact
<1>1. IInv => InFlightExact
  BY DEF IInv
<1> QED
  BY Invariance, <1>1, PTL

(***************************************************************************)
(* The phases of the diff do not overlap, whatever the number of workers.  *)
(***************************************************************************)
THEOREM PhasesDoNotOverlap == Spec => []PhaseBarrier
<1>1. IInv => PhaseBarrier
  <2> SUFFICES ASSUME IInv PROVE PhaseBarrier
    OBVIOUS
  <2>1. TypeOK
    BY DEF IInv
  <2>2. ASSUME NEW e, Timely(e) PROVE PhaseOf(e) = phase
    BY <2>2 DEF Timely, TurnOf, PhaseOf
  <2>3. \A e \in Outstanding : PhaseOf(e) = phase
    BY <2>2 DEF IInv, EventsTimely, Outstanding, ProducerShape
  <2>4. ASSUME ppc \in {"list", "close"}, pend = NoEvent PROVE Outstanding = {}
    <3>1. Len(chan) = 0 /\ Busy = {}
      BY <2>4, NothingInFlight DEF IInv, ProducerShape
    <3> QED
      BY <2>4, <3>1 DEF Outstanding
  <2> QED
    BY <2>3, <2>4 DEF PhaseBarrier
<1> QED
  BY Invariance, <1>1, PTL

(***************************************************************************)
(* The in-memory currentState follows Manba, but for failed calls.         *)
(***************************************************************************)
THEOREM MirrorCorrect == Spec => []MirrorsManba
<1>1. IInv => MirrorsManba
  BY DEF IInv
<1> QED
  BY Invariance, <1>1, PTL

(***************************************************************************)
(* Run returns the errors of all the calls that failed, and no other.      *)
(***************************************************************************)
THEOREM ErrorsReported == Spec => []NoErrorLost
<1>1. IInv => NoErrorLost
  BY DEF IInv, NoErrorLost, RunShape, ErrorsKept
<1> QED
  BY Invariance, <1>1, PTL

(* Once every goroutine is done, an empty list of errors means success. *)
LEMMA DoneMeansSynced ==
  ASSUME IInv, errClosed, errs = {}
  PROVE  manba = tgt /\ cur = tgt
<1>1. TypeOK /\ InFlightExact
  BY DEF IInv
<1>2. ppc = "exited" /\ (\A w \in Workers : wpc[w] = "exited") /\ failed = {}
  BY DEF IInv, RunShape, ErrorsKept
<1>3. pend = NoEvent
  BY <1>2 DEF IInv, ProducerShape
<1>4. inFlight = 0 /\ todo = {} /\ phase = 10
  BY <1>2, <1>3 DEF IInv, ProducerShape
<1>5. Len(chan) = 0 /\ Busy = {}
  BY <1>1, <1>4, NothingInFlight
<1>6. \A o \in Obj : manba[o] = tgt[o] /\ cur[o] = tgt[o]
  <2> SUFFICES ASSUME NEW o \in Obj PROVE ~Unsettled(o)
    BY <1>2 DEF IInv, Settled
  <2>1. TurnOf(o) \in 1..10
    BY RankOfObj DEF TurnOf
  <2> QED
    BY <1>2, <1>3, <1>4, <1>5, <2>1 DEF Unsettled
<1> QED
  BY <1>1, <1>6 DEF TypeOK, State

(***************************************************************************)
(* When Solve reports success, Manba and the in-memory state are at the    *)
(* target.                                                                 *)
(***************************************************************************)
THEOREM SuccessCorrect == Spec => []SuccessMeansSynced
<1>1. IInv => SuccessMeansSynced
  BY DoneMeansSynced DEF SuccessMeansSynced, IInv, RunShape
<1> QED
  BY Invariance, <1>1, PTL

-----------------------------------------------------------------------------
(* An object whose turn has passed is at its target, or has failed. *)
LEMMA PastTurn ==
  ASSUME IInv, NEW o \in Obj, TurnOf(o) < phase, o \notin failed
  PROVE  manba[o] = tgt[o]
<1>1. TurnOf(o) \in 1..10 /\ phase \in 1..10
  BY RankOfObj DEF TurnOf, IInv, TypeOK
<1>2. ~Unsettled(o)
  BY <1>1 DEF Unsettled, IInv, EventsTimely, Timely
<1> QED
  BY <1>2 DEF IInv, Settled

(* The steps that change what Manba stores. *)
LEMMA ManbaSteps ==
  ASSUME IInv, [Next]_vars
  PROVE  \/ UNCHANGED manba
         \/ \E o \in Obj : /\ TurnOf(o) = phase
                           /\ manba' = [manba EXCEPT ![o] = tgt[o]]
                           /\ UNCHANGED <<tgt, phase, mpc, errs>> /\ ~errClosed
<1> USE DEF data, prod, queue, work, main
<1>1. CASE \E w \in Workers : WDo(w) \/ WDoError(w)
  <2> PICK w \in Workers : WDo(w) \/ WDoError(w)
    BY <1>1
  <2>1. wev[w] \in Event /\ Timely(wev[w]) /\ wev[w].obj \in Obj
    BY DEF WDo, WDoError, IInv, TypeOK, EventsTimely, Busy, Event
  <2>2. Apply(manba, wev[w]) = [manba EXCEPT ![wev[w].obj] = tgt[wev[w].obj]]
    BY <2>1 DEF Apply, Timely
  <2>3. UNCHANGED manba \/ manba' = Apply(manba, wev[w])
    BY DEF WDo, WDoError
  <2>4. UNCHANGED <<tgt, phase, mpc, errs>> /\ ~errClosed
    BY DEF WDo, WDoError, IInv, RunShape
  <2> QED
    BY <2>1, <2>2, <2>3, <2>4 DEF Timely
<1> QED
  BY <1>1
     DEF Next, Producer, PList, PScan, PSend, PSendStopped, PScanned, PWait, PFail, PClose,
         Worker, WReceive, WExit, WPost, WCompleted, WReport, CloseErrChan,
         Main, MSelectClosed, MStop, MReturn, Returned, vars

(***************************************************************************)
(* A call to Manba leaves a reference without its object only when the     *)
(* call for one of the two has failed, or when the target wants it so.     *)
(***************************************************************************)
THEOREM ReferencesKept == Spec => DanglingBlamesFailure
<1> DEFINE Step == Dangling(manba') \subseteq
             Dangling(manba) \cup Dangling(tgt)
               \cup {r \in Obj \X Obj : r[1] \in failed' \/ r[2] \in failed'}
<1>1. IInv /\ [Next]_vars => Step
  <2> SUFFICES ASSUME IInv, [Next]_vars, NEW x \in Obj, NEW y \in Obj,
                      <<x, y>> \in Dangling(manba'), <<x, y>> \notin Dangling(manba),
                      <<x, y>> \notin Dangling(tgt),
                      x \notin failed, y \notin failed
               PROVE  FALSE
    BY FailedGrows DEF Dangling
  <2>1. PICK o \in Obj : TurnOf(o) = phase /\ manba' = [manba EXCEPT ![o] = tgt[o]]
    BY ManbaSteps
  <2>2. \A z \in Obj : manba'[z] = IF z = o THEN tgt[z] ELSE manba[z]
    BY <2>1 DEF IInv, TypeOK, State
  <2>3. manba'[x] # Absent /\ y \in Refs[x][manba'[x]] /\ manba'[y] = Absent
    BY DEF Dangling
  <2>4. ~(manba[x] # Absent /\ y \in Refs[x][manba[x]] /\ manba[y] = Absent)
    BY DEF Dangling
  <2>5. manba'[x] \in Conf[x]
    <3>1. \A s \in State : s[x] \in Conf[x] \cup {Absent}
      BY DEF State
    <3>2. manba[x] \in Conf[x] \cup {Absent} /\ tgt[x] \in Conf[x] \cup {Absent}
      BY <3>1 DEF IInv, TypeOK
    <3> QED
      BY <2>2, <2>3, <3>2
  <2>6. Rank[Kind[y]] < Rank[Kind[x]]
    BY <2>3, <2>5, RefsAssumption
  <2>7. Rank[Kind[x]] \in 1..5 /\ Rank[Kind[y]] \in 1..5
    BY RankOfObj
  <2>8. ~(tgt[x] # Absent /\ y \in Refs[x][tgt[x]] /\ tgt[y] = Absent)
    BY DEF Dangling
  <2>9. CASE o = x
    <3>1. tgt[x] # Absent /\ y \in Refs[x][tgt[x]] /\ x # y
      BY <2>2, <2>3, <2>6, <2>7, <2>9
    <3>2. tgt[y] # Absent /\ manba[y] = Absent
      BY <2>2, <2>3, <2>8, <2>9, <3>1
    <3>3. TurnOf(y) < phase
      BY <2>1, <2>6, <2>7, <2>9, <3>1, <3>2 DEF TurnOf
    <3> QED
      BY <3>2, <3>3, PastTurn
  <2>10. CASE o = y /\ x # y
    <3>1. manba[x] # Absent /\ y \in Refs[x][manba[x]] /\ tgt[y] = Absent
      BY <2>2, <2>3, <2>10
    <3>2. TurnOf(x) < phase
      BY <2>1, <2>6, <2>7, <2>10, <3>1 DEF TurnOf
    <3>3. manba[x] = tgt[x]
      BY <3>2, PastTurn
    <3> QED
      BY <2>8, <3>1, <3>3
  <2> QED
    BY <2>2, <2>3, <2>4, <2>9, <2>10
<1>2. IInv /\ [Next]_vars => [Step]_vars
  BY <1>1
<1> QED
  BY Invariance, <1>2, PTL DEF Spec, DanglingBlamesFailure

(***************************************************************************)
(* A Run implements Reconcile: its initial states are Reconcile's, and     *)
(* each of its steps changes one object to its target, returns, or is      *)
(* invisible to the caller.                                                *)
(***************************************************************************)
THEOREM RunReconciles == Spec => ReconcileSpec
<1>1. Init => R!Init
  BY DEF Init, R!Init, result
<1>2. IInv /\ [Next]_vars => [R!Next]_(R!vars)
  <2> SUFFICES ASSUME IInv, [Next]_vars PROVE [R!Next]_(R!vars)
    OBVIOUS
  <2>0. tgt' = tgt
    BY TargetFixed
  <2>1. CASE ~UNCHANGED manba
    <3>1. PICK o \in Obj : /\ manba' = [manba EXCEPT ![o] = tgt[o]]
                           /\ UNCHANGED <<mpc, errs>> /\ ~errClosed
      BY <2>1, ManbaSteps
    <3>2. result = "running" /\ result' = result
      BY <3>1 DEF result, IInv, RunShape
    <3>3. manba[o] # tgt[o]
      BY <2>1, <3>1 DEF IInv, TypeOK, State
    <3> QED
      BY <2>0, <3>1, <3>2, <3>3 DEF R!Next, R!Change
  <2>2. CASE MReturn
    <3>1. UNCHANGED <<manba, errs>> /\ result = "running" /\ result' = IF errs # {} THEN "error" ELSE "ok"
      BY <2>2 DEF MReturn, result, data
    <3>2. errs = {} => manba = tgt
      BY <2>2, DoneMeansSynced DEF MReturn
    <3> QED
      BY <2>0, <3>1, <3>2 DEF R!Next, R!ReturnOk, R!ReturnError
  <2>3. CASE ~MReturn /\ UNCHANGED manba
    <3>1. \/ UNCHANGED <<mpc, errs>>
          \/ mpc # "returned" /\ mpc' # "returned"
      BY <2>3
         DEF Next, Producer, PList, PScan, PSend, PSendStopped, PScanned, PWait, PFail, PClose,
             Worker, WReceive, WExit, WDo, WDoError, WPost, WCompleted, WReport, CloseErrChan,
             Main, MSelectClosed, MStop, Returned, vars, main
    <3>2. UNCHANGED result
      BY <3>1 DEF result
    <3> QED
      BY <2>0, <2>3, <3>2 DEF R!vars
  <2> QED
    BY <2>1, <2>2, <2>3
<1> QED
  BY Invariance, <1>1, <1>2, PTL DEF Spec, ReconcileSpec, R!Spec

=============================================================================
