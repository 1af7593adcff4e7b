--------------------------- MODULE SyncLoopProofs ---------------------------
(***************************************************************************)
(* The way from the informers to Manba, for any resources and values, any  *)
(* ring and any number of events, failures and clock readings: no reported *)
(* update is lost, and nil means synced unless a failed Solve has left     *)
(* changes behind.                                                         *)
(***************************************************************************)
EXTENDS SyncLoop, SequenceTheorems, TLAPS

(* The element that is processed is not in the list; times lie in the past. *)
QueueShape ==
  /\ QueueTypeOK
  /\ held \notin ToSet(queue)
  /\ again => held # None
  /\ gotAt <= now /\ lastSync <= now

InformerShape ==
  /\ store \in Config /\ notes \in [Res -> Seq(Note)]
  /\ unreported \subseteq Res /\ events \in 0..MaxEvents

(* Start has a key whenever it is about to enqueue. *)
LoopShape ==
  /\ ring \in Seq(Res) /\ Len(ring) <= RingCap
  /\ lpc \in {"receive", "enqueue", "add"} /\ lkey \in Keys \cup {None} /\ lts \in 0..MaxClock
  /\ lpc # "receive" => lkey \in Keys

(* What Build has read so far is a part of a configuration. *)
BuildShape ==
  /\ spc \in {"idle", "accept", "build", "hash", "hung"} /\ unread \subseteq Res
  /\ target \in [Res -> (UNION {Values(r) : r \in Res}) \cup {None}]
  /\ \A r \in Res : target[r] \in Values(r) \cup {None}
  /\ spc \in {"build", "hash"} => \A r \in Res \ unread : target[r] \in Values(r)
  /\ spc = "hash" => unread = {}

ResultShape ==
  /\ hash \in Config \cup {None} /\ built \in Config \cup {None}
  /\ ret \in {"none", "nil", "error"} /\ manba \in Config
  /\ partial \in BOOLEAN /\ failures \in 0..MaxFailures

(* The queue shuts down only after Stop has raised its flag. *)
StopShape ==
  /\ stop \in {"running", "flagged", "closed", "down", "acked"} /\ isShuttingDown \in BOOLEAN
  /\ qdown => isShuttingDown
  /\ stop # "running" => isShuttingDown

Shape ==
  /\ QueueShape /\ InformerShape /\ LoopShape /\ BuildShape /\ ResultShape /\ StopShape
  /\ spc = "idle" <=> wpc # "sync"

(* An event in the ring or in Start, or an element that is not superseded by *)
(* a sync whose element was got at time t, leads to a sync.                  *)
Pending(t) ==
  \/ ring # <<>>
  \/ lpc = "enqueue"
  \/ lpc = "add" /\ lts >= t
  \/ \E e \in ToSet(queue) \cup delayed : e.ts >= t
  \/ again /\ held.ts >= t

(* So does a notification of r that its handler reports. *)
Carrier(r, t) ==
  \/ \E i \in 1..Len(notes[r]) : Reported(r, notes[r][i])
  \/ Pending(t)

(* The sync that runs has read a value of r that has changed since. *)
Stale(r) == spc \in {"build", "hash"} /\ r \notin unread /\ target[r] # Seen(r)

Accepted(r) == built # None /\ built[r] = Seen(r)

(* Until a sync has succeeded one is to come. *)
Begun == ~isShuttingDown /\ spc = "idle" /\ built = None => Pending(lastSync)

(* Whatever the running sync has missed, and whatever the last one has, is   *)
(* on its way, and the end of the running sync does not supersede it.        *)
Covered ==
  ~isShuttingDown => \A r \in Res \ unreported :
    /\ Stale(r) => Carrier(r, gotAt)
    /\ spc = "idle" /\ ~Accepted(r) => Carrier(r, lastSync)

(* The hash is of what Manba has, unless a failed Solve has changed it. *)
HashShape ==
  /\ ~partial /\ hash # None => manba = hash
  /\ ret = "nil" => hash # None /\ built = hash

IInv == Shape /\ Begun /\ Covered /\ HashShape

-----------------------------------------------------------------------------
LEMMA ShapeTypeOK == Shape => TypeOK
BY DEF Shape, QueueShape, InformerShape, LoopShape, BuildShape, ResultShape, StopShape, TypeOK

(* The elements of a list that grows or shrinks by one. *)
LEMMA AppendSet ==
  ASSUME NEW S, NEW s \in Seq(S), NEW e \in S
  PROVE  /\ Append(s, e) \in Seq(S)
         /\ ToSet(Append(s, e)) = ToSet(s) \cup {e}
         /\ IsInjective(s) /\ e \notin ToSet(s) => IsInjective(Append(s, e))
<1>1. /\ Append(s, e) \in Seq(S)
      /\ Len(Append(s, e)) = Len(s) + 1 /\ Len(s) \in Nat
      /\ \A i \in 1..Len(s) : Append(s, e)[i] = s[i]
      /\ Append(s, e)[Len(s) + 1] = e
      /\ DOMAIN s = 1..Len(s) /\ DOMAIN Append(s, e) = 1..(Len(s) + 1)
  BY AppendProperties, LenProperties
<1>2. ToSet(Append(s, e)) = ToSet(s) \cup {e}
  BY <1>1 DEF ToSet
<1>3. IsInjective(s) /\ e \notin ToSet(s) => IsInjective(Append(s, e))
  BY <1>1 DEF ToSet, IsInjective
<1>4. QED
  BY <1>1, <1>2, <1>3

LEMMA TailSet ==
  ASSUME NEW S, NEW s \in Seq(S), s # <<>>
  PROVE  /\ Head(s) \in S /\ Tail(s) \in Seq(S)
         /\ ToSet(s) = ToSet(Tail(s)) \cup {Head(s)}
         /\ IsInjective(s) => IsInjective(Tail(s)) /\ Head(s) \notin ToSet(Tail(s))
<1>1. /\ Head(s) \in S /\ Tail(s) \in Seq(S)
      /\ Len(Tail(s)) = Len(s) - 1 /\ Len(s) \in Nat \ {0}
      /\ \A i \in 1..(Len(s) - 1) : Tail(s)[i] = s[i + 1]
      /\ Head(s) = s[1]
      /\ DOMAIN s = 1..Len(s) /\ DOMAIN Tail(s) = 1..(Len(s) - 1)
  BY HeadTailProperties, LenProperties, EmptySeq
<1>2. ToSet(s) = ToSet(Tail(s)) \cup {Head(s)}
  <2>1. \A i \in 1..Len(s) : i = 1 \/ (i - 1 \in 1..(Len(s) - 1) /\ s[i] = Tail(s)[i - 1])
    BY <1>1
  <2>2. \A i \in 1..(Len(s) - 1) : i + 1 \in 1..Len(s) /\ Tail(s)[i] = s[i + 1]
    BY <1>1
  <2>3. ASSUME NEW x \in ToSet(s) PROVE x \in ToSet(Tail(s)) \cup {Head(s)}
    <3>1. PICK i \in 1..Len(s) : x = s[i]
      BY <1>1 DEF ToSet
    <3>2. CASE i = 1
      BY <1>1, <3>1, <3>2
    <3>3. CASE i # 1
      <4>1. i - 1 \in DOMAIN Tail(s) /\ x = Tail(s)[i - 1]
        BY <1>1, <2>1, <3>1, <3>3
      <4>2. QED
        BY <4>1 DEF ToSet
    <3>4. QED
      BY <3>2, <3>3
  <2>4. ASSUME NEW x \in ToSet(Tail(s)) \cup {Head(s)} PROVE x \in ToSet(s)
    BY <1>1, <2>2 DEF ToSet
  <2>5. QED
    BY <2>3, <2>4
<1>3. ASSUME IsInjective(s) PROVE IsInjective(Tail(s)) /\ Head(s) \notin ToSet(Tail(s))
  <2>1. \A i, j \in 1..Len(s) : s[i] = s[j] => i = j
    BY <1>1, <1>3 DEF IsInjective
  <2>2. \A i \in 1..(Len(s) - 1) : i + 1 \in 1..Len(s) /\ i + 1 # 1 /\ Tail(s)[i] = s[i + 1]
    BY <1>1
  <2>3. QED
    BY <1>1, <2>1, <2>2 DEF IsInjective, ToSet
<1>4. QED
  BY <1>1, <1>2, <1>3

(* Add keeps what is there, and what it is given unless the queue shuts down. *)
LEMMA AddStep ==
  ASSUME QueueShape, NEW e \in Element, Add(e)
  PROVE  /\ queue' \in Seq(Element) /\ IsInjective(queue') /\ again' \in BOOLEAN
         /\ held \notin ToSet(queue') /\ (again' => held # None)
         /\ ToSet(queue) \subseteq ToSet(queue') /\ (again => again')
         /\ ~qdown => e \in ToSet(queue') \/ (again' /\ e = held)
<1> USE DEF QueueShape, QueueTypeOK
<1>1. CASE qdown \/ e \in ToSet(queue)
  BY <1>1 DEF Add
<1>2. CASE ~(qdown \/ e \in ToSet(queue)) /\ e = held
  BY <1>2, NoneAssumption DEF Add
<1>3. CASE ~(qdown \/ e \in ToSet(queue)) /\ e # held
  <2>1. queue' = Append(queue, e) /\ again' = again
    BY <1>3 DEF Add
  <2>2. /\ queue' \in Seq(Element) /\ IsInjective(queue')
        /\ ToSet(queue') = ToSet(queue) \cup {e}
    BY <1>3, <2>1, AppendSet
  <2>3. QED
    BY <1>3, <2>1, <2>2
<1>4. QED
  BY <1>1, <1>2, <1>3

(* When the worker is done with its element the list is as before, and has *)
(* that element again if it was added meanwhile.                           *)
LEMMA DoneStep ==
  ASSUME QueueShape, wpc = "sync", Done
  PROVE  /\ queue' \in Seq(Element) /\ IsInjective(queue')
         /\ held' = None /\ again' = FALSE /\ gotAt' = 0 /\ wpc' = "get"
         /\ held' \notin ToSet(queue')
         /\ ToSet(queue') = ToSet(queue) \cup (IF again THEN {held} ELSE {})
         /\ held \in Element
<1> USE DEF QueueShape, QueueTypeOK
<1>1. held \in Element
  OBVIOUS
<1>2. /\ queue' \in Seq(Element) /\ IsInjective(queue')
      /\ ToSet(queue') = ToSet(queue) \cup (IF again THEN {held} ELSE {})
  BY <1>1, AppendSet DEF Done
<1>3. ToSet(queue') \subseteq Element
  BY <1>2, LenProperties DEF ToSet
<1>4. QED
  BY <1>1, <1>2, <1>3, NoneAssumption DEF Done

(* Every step of the queue and of its worker. *)
LEMMA QueueSteps ==
  ASSUME QueueShape,
         \/ Tick
         \/ \E key \in Keys, ts \in 0..MaxClock : Enqueue(key, ts)
         \/ DelayedFires
         \/ \E closed \in BOOLEAN : WorkerStart(closed)
         \/ WorkerSkip \/ WorkerGet \/ WorkerQuit
         \/ wpc = "sync" /\ Synced
         \/ wpc = "sync" /\ SyncFailed
         \/ ShutDown
         \/ UNCHANGED queueVars
  PROVE  QueueShape'
<1>1. CASE Tick
  BY <1>1, LoopAssumption DEF Tick, QueueShape, QueueTypeOK
<1>2. ASSUME NEW key \in Keys, NEW ts \in 0..MaxClock, Enqueue(key, ts) PROVE QueueShape'
  <2>1. [key |-> key, ts |-> ts] \in Element
    BY DEF Element
  <2>2. Add([key |-> key, ts |-> ts])
    BY <1>2 DEF Enqueue
  <2>3. /\ queue' \in Seq(Element) /\ IsInjective(queue') /\ again' \in BOOLEAN
        /\ held \notin ToSet(queue') /\ (again' => held # None)
    BY <2>1, <2>2, AddStep
  <2>4. UNCHANGED <<now, delayed, held, gotAt, lastSync, qdown, workerDone, wpc>>
    BY <1>2 DEF Enqueue
  <2>5. QED
    BY <2>3, <2>4 DEF QueueShape, QueueTypeOK
<1>3. CASE DelayedFires
  <2>1. PICK e \in delayed : /\ delayed' = delayed \ {e} /\ Add(e)
                            /\ UNCHANGED <<now, held, gotAt, lastSync, qdown, workerDone, wpc>>
    BY <1>3 DEF DelayedFires
  <2>2. e \in Element
    BY <2>1 DEF QueueShape, QueueTypeOK
  <2>3. /\ queue' \in Seq(Element) /\ IsInjective(queue') /\ again' \in BOOLEAN
        /\ held \notin ToSet(queue') /\ (again' => held # None)
    BY <2>1, <2>2, AddStep
  <2>4. QED
    BY <2>1, <2>3 DEF QueueShape, QueueTypeOK
<1>4. ASSUME NEW closed \in BOOLEAN, WorkerStart(closed) PROVE QueueShape'
  BY <1>4 DEF WorkerStart, QueueShape, QueueTypeOK
<1>5. CASE WorkerSkip \/ WorkerGet
  <2>1. /\ Head(queue) \in Element /\ queue' = Tail(queue)
        /\ queue' \in Seq(Element) /\ IsInjective(queue')
        /\ Head(queue) \notin ToSet(queue') /\ ToSet(queue') \subseteq ToSet(queue)
    <3>1. queue \in Seq(Element) /\ queue # <<>> /\ IsInjective(queue) /\ queue' = Tail(queue)
      BY <1>5 DEF WorkerSkip, WorkerGet, QueueShape, QueueTypeOK
    <3>2. QED
      BY <3>1, TailSet
  <2>2. CASE WorkerSkip
    BY <2>1, <2>2 DEF WorkerSkip, QueueShape, QueueTypeOK
  <2>3. CASE WorkerGet
    BY <2>1, <2>3, NoneAssumption, LoopAssumption DEF WorkerGet, QueueShape, QueueTypeOK
  <2>4. QED
    BY <1>5, <2>2, <2>3
<1>6. CASE WorkerQuit
  BY <1>6 DEF WorkerQuit, QueueShape, QueueTypeOK
<1>7. CASE wpc = "sync" /\ (Synced \/ SyncFailed)
  <2>1. Done /\ UNCHANGED <<now, qdown, workerDone>>
    BY <1>7 DEF Synced, SyncFailed
  <2>2. /\ queue' \in Seq(Element) /\ IsInjective(queue')
        /\ held' = None /\ again' = FALSE /\ gotAt' = 0 /\ wpc' = "get"
        /\ held' \notin ToSet(queue') /\ held \in Element
    BY <1>7, <2>1, DoneStep
  <2>3. delayed' \subseteq Element /\ lastSync' \in 0..MaxClock /\ lastSync' <= now
    <3>1. now \in 0..MaxClock /\ held.key \in Keys /\ delayed \subseteq Element
      BY <2>2 DEF Element, QueueShape, QueueTypeOK
    <3>2. [key |-> held.key, ts |-> now] \in Element
      BY <3>1 DEF Element
    <3>3. delayed' \subseteq Element
      BY <1>7, <3>1, <3>2 DEF Synced, SyncFailed
    <3>4. lastSync' \in {gotAt, lastSync}
      BY <1>7 DEF Synced, SyncFailed
    <3>5. QED
      BY <3>3, <3>4 DEF QueueShape, QueueTypeOK
  <2>4. QED
    <3>1. /\ now' = now /\ qdown' = qdown /\ workerDone' = workerDone
          /\ now \in 0..MaxClock /\ qdown \in BOOLEAN /\ workerDone \in BOOLEAN
          /\ gotAt' \in 0..MaxClock /\ gotAt' <= now
      BY <2>1, <2>2, LoopAssumption DEF QueueShape, QueueTypeOK
    <3>2. QED
      BY <2>2, <2>3, <3>1 DEF QueueShape, QueueTypeOK
<1>8. CASE ShutDown
  BY <1>8 DEF ShutDown, QueueShape, QueueTypeOK
<1>9. CASE UNCHANGED queueVars
  BY <1>9 DEF queueVars, QueueShape, QueueTypeOK
<1>10. QED
  BY <1>1, <1>2, <1>3, <1>4, <1>5, <1>6, <1>7, <1>8, <1>9

LEMMA InitShape == Init => Shape
<1>1. ASSUME Init PROVE Shape
  <2> USE <1>1 DEF Init
  <2>1. QueueShape
    <3>1. <<>> \in Seq(Element) /\ DOMAIN <<>> = {}
      BY EmptySeq
    <3>0. ToSet(<<>>) = {} /\ IsInjective(<<>>)
      BY <3>1 DEF ToSet, IsInjective
    <3>2. QueueInit
      OBVIOUS
    <3>3. now \in 0..MaxClock /\ gotAt \in 0..MaxClock /\ lastSync \in 0..MaxClock
      BY ONLY <3>2, LoopAssumption DEF QueueInit
    <3>4. again \in BOOLEAN /\ qdown \in BOOLEAN /\ workerDone \in BOOLEAN /\ ~again
      BY ONLY <3>2 DEF QueueInit
    <3>5. QED
      BY ONLY <3>0, <3>1, <3>2, <3>3, <3>4 DEF QueueInit, QueueShape, QueueTypeOK
  <2>2. InformerShape
    <3>1. <<>> \in Seq(Note)
      BY EmptySeq
    <3>2. [r \in Res |-> <<>>] \in [Res -> Seq(Note)]
      BY <3>1
    <3>3. store \in Config /\ notes = [r \in Res |-> <<>>] /\ unreported = {} /\ events = 0
      OBVIOUS
    <3>4. QED
      BY <3>2, <3>3, LoopAssumption DEF InformerShape
  <2>3. LoopShape
    BY LoopAssumption, EmptySeq DEF LoopShape
  <2>4. BuildShape
    BY DEF BuildShape, NoTarget
  <2>5. ResultShape
    <3>1. /\ hash = None /\ built = None /\ ret = "none" /\ manba \in Config
          /\ partial = FALSE /\ failures = 0
      OBVIOUS
    <3>2. failures \in 0..MaxFailures
      BY <3>1, LoopAssumption
    <3>3. partial \in BOOLEAN
      BY ONLY <3>1
    <3>4. QED
      BY ONLY <3>1, <3>2, <3>3 DEF ResultShape
  <2>6. StopShape /\ (spc = "idle" <=> wpc # "sync")
    BY DEF StopShape, QueueInit
  <2>7. QED
    BY <2>1, <2>2, <2>3, <2>4, <2>5, <2>6 DEF Shape
<1>2. QED
  BY <1>1

(* Parts of the state that a step leaves alone keep their shape. *)
LEMMA Unchanged ==
  /\ InformerShape /\ UNCHANGED informer => InformerShape'
  /\ LoopShape /\ UNCHANGED loop => LoopShape'
  /\ BuildShape /\ UNCHANGED <<spc, unread, target>> => BuildShape'
  /\ ResultShape /\ UNCHANGED <<hash, ret, built, manba, partial, failures>> => ResultShape'
  /\ StopShape /\ UNCHANGED <<qdown, stopping>> => StopShape'
<1>1. InformerShape /\ UNCHANGED informer => InformerShape'
  BY DEF InformerShape, informer
<1>2. LoopShape /\ UNCHANGED loop => LoopShape'
  BY DEF LoopShape, loop
<1>3. BuildShape /\ UNCHANGED <<spc, unread, target>> => BuildShape'
  BY DEF BuildShape
<1>4. ResultShape /\ UNCHANGED <<hash, ret, built, manba, partial, failures>> => ResultShape'
  BY DEF ResultShape
<1>5. StopShape /\ UNCHANGED <<qdown, stopping>> => StopShape'
  BY DEF StopShape, stopping
<1>6. QED
  BY <1>1, <1>2, <1>3, <1>4, <1>5

LEMMA InformerShapes ==
  ASSUME Shape, InformerUpdate \/ OnEvent
  PROVE  Shape'
<1>1. /\ UNCHANGED queueVars /\ UNCHANGED <<qdown, stopping>>
      /\ UNCHANGED <<spc, unread, target>> /\ UNCHANGED wpc
      /\ UNCHANGED <<hash, ret, built, manba, partial, failures>>
  BY DEF InformerUpdate, OnEvent, queueVars, sync, stopping
<1>2. QueueShape' /\ BuildShape' /\ ResultShape' /\ StopShape' /\ (spc = "idle" <=> wpc # "sync")'
  BY <1>1, QueueSteps, Unchanged DEF Shape
<1>3. CASE InformerUpdate
  <2>1. LoopShape'
    BY <1>3, Unchanged DEF Shape, InformerUpdate
  <2> PICK r \in Res : \E v \in Values(r), tombstone \in BOOLEAN :
          /\ notes' = [notes EXCEPT ![r] = Append(@, [old |-> store[r], new |-> v, tombstone |-> tombstone])]
          /\ unreported' \in {unreported, unreported \cup {r}}
          /\ store' = [store EXCEPT ![r] = v]
    BY <1>3 DEF InformerUpdate
  <2>2. PICK v \in Values(r), tombstone \in BOOLEAN :
          /\ notes' = [notes EXCEPT ![r] = Append(@, [old |-> store[r], new |-> v, tombstone |-> tombstone])]
          /\ unreported' \in {unreported, unreported \cup {r}}
          /\ store' = [store EXCEPT ![r] = v]
    OBVIOUS
  <2>3. store' \in Config
    BY <2>2 DEF Config, Shape, InformerShape
  <2>4. store[r] \in UNION {Values(q) : q \in Res} /\ v \in UNION {Values(q) : q \in Res}
    BY <2>2 DEF Config, Shape, InformerShape
  <2>5. [old |-> store[r], new |-> v, tombstone |-> tombstone] \in Note
    BY <2>4 DEF Note
  <2>6. notes' \in [Res -> Seq(Note)]
    BY <2>2, <2>5, AppendProperties DEF Shape, InformerShape
  <2>7. unreported' \subseteq Res /\ events' \in 0..MaxEvents
    BY <1>3, <2>2, LoopAssumption DEF InformerUpdate, Shape, InformerShape
  <2>8. QED
    BY <1>2, <2>1, <2>3, <2>6, <2>7 DEF Shape, InformerShape
<1>4. CASE OnEvent
  <2>1. PICK r \in Res :
          /\ notes[r] # <<>>
          /\ ring' \in {ring, RingPush(r)}
          /\ notes' = [notes EXCEPT ![r] = Tail(@)]
          /\ UNCHANGED <<store, unreported, events, lpc, lkey, lts>>
    BY <1>4 DEF OnEvent
  <2>2. notes' \in [Res -> Seq(Note)]
    BY <2>1, HeadTailProperties DEF Shape, InformerShape
  <2>3. RingPush(r) \in Seq(Res) /\ Len(RingPush(r)) <= RingCap
    <3>1. ring \in Seq(Res) /\ Len(ring) <= RingCap /\ RingCap \in Nat \ {0}
      BY LoopAssumption DEF Shape, LoopShape
    <3>2. CASE Len(ring) = RingCap
      <4>1. ring # <<>>
        BY <3>1, <3>2, EmptySeq
      <4>2. Tail(ring) \in Seq(Res) /\ Len(Tail(ring)) = RingCap - 1
        BY <3>1, <3>2, <4>1, HeadTailProperties
      <4>3. QED
        BY <2>1, <3>1, <3>2, <4>2, AppendProperties DEF RingPush
    <3>3. CASE Len(ring) # RingCap
      BY <2>1, <3>1, <3>3, AppendProperties, LenProperties DEF RingPush
    <3>4. QED
      BY <3>2, <3>3
  <2>4. QED
    BY <1>2, <2>1, <2>2, <2>3 DEF Shape, InformerShape, LoopShape
<1>5. QED
  BY <1>3, <1>4

LEMMA LoopShapes ==
  ASSUME Shape, Loop
  PROVE  Shape'
<1>1. /\ UNCHANGED informer /\ UNCHANGED <<spc, unread, target>>
      /\ UNCHANGED <<hash, ret, built, manba, partial, failures>>
      /\ UNCHANGED <<qdown, stopping>> /\ UNCHANGED wpc
  BY DEF Loop, LoopReceive, LoopStamp, LoopAdd, Enqueue, queueVars, sync
<1>2. InformerShape' /\ BuildShape' /\ ResultShape' /\ StopShape' /\ (spc = "idle" <=> wpc # "sync")'
  BY <1>1, Unchanged DEF Shape
<1>3. CASE LoopReceive
  <2>1. Head(ring) \in Res /\ Tail(ring) \in Seq(Res) /\ Len(Tail(ring)) <= RingCap
    BY <1>3, LoopAssumption, HeadTailProperties DEF LoopReceive, Shape, LoopShape
  <2>2. LoopShape'
    BY <1>3, <2>1, LoopAssumption DEF LoopReceive, Shape, LoopShape
  <2>3. QueueShape'
    BY <1>3, QueueSteps DEF LoopReceive, Shape
  <2>4. QED
    BY <1>2, <2>2, <2>3 DEF Shape
<1>4. CASE LoopStamp
  <2>1. LoopShape'
    BY <1>4 DEF LoopStamp, Shape, LoopShape, QueueShape, QueueTypeOK
  <2>2. QueueShape'
    BY <1>4, QueueSteps DEF LoopStamp, Shape
  <2>3. QED
    BY <1>2, <2>1, <2>2 DEF Shape
<1>5. CASE LoopAdd
  <2>1. LoopShape'
    BY <1>5, LoopAssumption DEF LoopAdd, Shape, LoopShape
  <2>2. lkey \in Keys /\ lts \in 0..MaxClock /\ Enqueue(lkey, lts)
    BY <1>5 DEF LoopAdd, Shape, LoopShape
  <2>3. QueueShape'
    BY <2>2, QueueSteps DEF Shape
  <2>4. QED
    BY <1>2, <2>1, <2>3 DEF Shape
<1>6. QED
  BY <1>3, <1>4, <1>5 DEF Loop

LEMMA WorkerShapes ==
  ASSUME Shape, QueueStep \/ WorkerStep \/ WorkerSync
  PROVE  Shape'
<1>1. UNCHANGED informer /\ UNCHANGED loop /\ UNCHANGED <<qdown, stopping>>
  BY DEF QueueStep, WorkerStep, WorkerSync, Tick, DelayedFires, WorkerStart, WorkerSkip,
         WorkerQuit, WorkerGet
<1>2. InformerShape' /\ LoopShape' /\ StopShape'
  BY <1>1, Unchanged DEF Shape
<1>3. QueueShape'
  <2>1. stopClosed \in BOOLEAN
    BY DEF stopClosed
  <2>2. \/ Tick \/ DelayedFires \/ WorkerSkip \/ WorkerGet \/ WorkerQuit
        \/ \E closed \in BOOLEAN : WorkerStart(closed)
    BY <2>1 DEF QueueStep, WorkerStep, WorkerSync
  <2>3. QED
    BY <2>2, QueueSteps DEF Shape
<1>4. UNCHANGED <<hash, ret, built, manba, partial, failures>>
  BY DEF QueueStep, WorkerStep, WorkerSync, sync
<1>5. ResultShape'
  BY <1>4, Unchanged DEF Shape
<1>6. CASE QueueStep \/ WorkerStep
  <2>1. UNCHANGED <<spc, unread, target>>
    BY <1>6 DEF QueueStep, WorkerStep, sync
  <2>2. wpc # "sync" <=> wpc' # "sync"
    BY <1>6 DEF QueueStep, WorkerStep, Tick, DelayedFires, WorkerStart, WorkerSkip, WorkerQuit
  <2>3. BuildShape' /\ (spc = "idle" <=> wpc # "sync")'
    BY <2>1, <2>2, Unchanged DEF Shape
  <2>4. QED
    BY <1>2, <1>3, <1>5, <2>3 DEF Shape
<1>7. CASE WorkerSync
  <2>1. BuildShape' /\ (spc = "idle" <=> wpc # "sync")'
    BY <1>7 DEF WorkerSync, WorkerGet, Shape, BuildShape
  <2>2. QED
    BY <1>2, <1>3, <1>5, <2>1 DEF Shape
<1>8. QED
  BY <1>6, <1>7

(* A configuration that has been built is one. *)
LEMMA BuiltConfig ==
  ASSUME BuildShape, spc = "hash"
  PROVE  target \in Config /\ target # None /\ unread = {}
<1>1. \A r \in Res : target[r] \in Values(r)
  BY DEF BuildShape
<1>2. target \in [Res -> UNION {Values(r) : r \in Res}]
  <2>1. \A r \in Res : target[r] \in UNION {Values(q) : q \in Res}
    BY <1>1
  <2>2. QED
    BY <2>1 DEF BuildShape
<1>3. target \in Config
  BY <1>1, <1>2 DEF Config
<1>4. QED
  BY <1>3, NoneAssumption DEF BuildShape

LEMMA SyncShapes ==
  ASSUME Shape, Sync
  PROVE  Shape'
<1>1. UNCHANGED informer /\ UNCHANGED loop /\ UNCHANGED <<qdown, stopping>>
  BY DEF Sync, SyncRefused, SyncAccepted, Build, BuildFailed, OnUpdateSkips, OnUpdateSolved,
         OnUpdateFailed, OnUpdateHangs, Synced, SyncFailed, queueVars
<1>2. InformerShape' /\ LoopShape' /\ StopShape'
  BY <1>1, Unchanged DEF Shape
<1>3. spc # "idle" /\ wpc = "sync"
  BY DEF Sync, SyncRefused, SyncAccepted, Build, BuildFailed, OnUpdateSkips, OnUpdateSolved,
         OnUpdateFailed, OnUpdateHangs, Shape
<1>4. QueueShape'
  <2>1. Synced \/ SyncFailed \/ UNCHANGED queueVars
    BY DEF Sync, SyncRefused, SyncAccepted, Build, BuildFailed, OnUpdateSkips, OnUpdateSolved,
           OnUpdateFailed, OnUpdateHangs
  <2>2. QED
    BY <1>3, <2>1, QueueSteps DEF Shape
<1>5. (spc = "idle" <=> wpc # "sync")'
  BY <1>3 DEF Sync, SyncRefused, SyncAccepted, Build, BuildFailed, OnUpdateSkips, OnUpdateSolved,
              OnUpdateFailed, OnUpdateHangs, Synced, SyncFailed, Done, queueVars
<1>6. BuildShape' /\ ResultShape'
  <2>1. CASE SyncRefused
    BY <2>1 DEF SyncRefused, Shape, BuildShape, ResultShape
  <2>2. CASE SyncAccepted
    BY <2>2 DEF SyncAccepted, Shape, BuildShape, ResultShape
  <2>3. CASE Build
    <3>1. PICK r \in unread : /\ target' = [target EXCEPT ![r] = Seen(r)]
                              /\ unread' = unread \ {r}
                              /\ spc' = IF unread' = {} THEN "hash" ELSE "build"
      BY <2>3 DEF Build
    <3>2. r \in Res /\ Seen(r) \in Values(r)
      BY <3>1 DEF Shape, BuildShape, InformerShape, Config, Seen, Values
    <3>3. BuildShape'
      BY <2>3, <3>1, <3>2 DEF Build, Shape, BuildShape
    <3>4. ResultShape'
      BY <2>3, Unchanged DEF Build, Shape
    <3>5. QED
      BY <3>3, <3>4
  <2>4. ASSUME spc' = "idle", target' = NoTarget, unread' = {} \/ unread' = unread PROVE BuildShape'
    BY <2>4 DEF NoTarget, Shape, BuildShape
  <2>5. CASE BuildFailed
    BY <2>4, <2>5, LoopAssumption DEF BuildFailed, Shape, ResultShape
  <2>6. CASE OnUpdateSkips \/ OnUpdateSolved
    <3>1. target \in Config
      BY <2>6, BuiltConfig DEF OnUpdateSkips, OnUpdateSolved, Shape
    <3>2. ResultShape'
      BY <2>6, <3>1 DEF OnUpdateSkips, OnUpdateSolved, Shape, ResultShape
    <3>3. BuildShape'
      BY <2>4, <2>6 DEF OnUpdateSkips, OnUpdateSolved
    <3>4. QED
      BY <3>2, <3>3
  <2>7. CASE OnUpdateFailed \/ OnUpdateHangs
    <3>1. target \in Config /\ manba \in Config
      BY <2>7, BuiltConfig DEF OnUpdateFailed, OnUpdateHangs, Shape, ResultShape
    <3>0. CallFails
      BY <2>7 DEF OnUpdateFailed, OnUpdateHangs
    <3>2. PICK done \in SUBSET Res :
            manba' = [r \in Res |-> IF r \in done THEN target[r] ELSE manba[r]]
      BY <3>0 DEF CallFails
    <3>3. manba' \in Config
      BY <3>1, <3>2 DEF Config
    <3>4. partial' \in BOOLEAN
      BY <3>0 DEF CallFails
    <3>5. failures' \in 0..MaxFailures
      BY <3>0, LoopAssumption DEF CallFails, Shape, ResultShape
    <3>6. ret' \in {"error", ret} /\ UNCHANGED <<hash, built>>
      BY <2>7 DEF OnUpdateFailed, OnUpdateHangs
    <3>7. ResultShape'
      BY <3>3, <3>4, <3>5, <3>6 DEF Shape, ResultShape
    <3>8. CASE OnUpdateFailed
      BY <2>4, <3>7, <3>8 DEF OnUpdateFailed
    <3>9. CASE OnUpdateHangs
      BY <3>7, <3>9 DEF OnUpdateHangs, Shape, BuildShape
    <3>10. QED
      BY <2>7, <3>8, <3>9
  <2>8. QED
    BY <2>1, <2>2, <2>3, <2>5, <2>6, <2>7 DEF Sync
<1>7. QED
  BY <1>2, <1>4, <1>5, <1>6 DEF Shape

LEMMA StopShapes ==
  ASSUME Shape, Stop
  PROVE  Shape'
<1>1. /\ UNCHANGED informer /\ UNCHANGED loop /\ UNCHANGED <<spc, unread, target>>
      /\ UNCHANGED <<hash, ret, built, manba, partial, failures>> /\ UNCHANGED wpc
      /\ ShutDown \/ UNCHANGED queueVars
  BY DEF Stop, StopFlag, StopClose, StopShutDown, StopAcked, ShutDown, sync, queueVars
<1>2. InformerShape' /\ LoopShape' /\ BuildShape' /\ ResultShape' /\ QueueShape'
  BY <1>1, Unchanged, QueueSteps DEF Shape
<1>3. StopShape' /\ (spc = "idle" <=> wpc # "sync")'
  BY <1>1 DEF Stop, StopFlag, StopClose, StopShutDown, StopAcked, ShutDown, queueVars, Shape, StopShape
<1>4. QED
  BY <1>2, <1>3 DEF Shape

LEMMA NextShape ==
  ASSUME Shape, [Next]_vars
  PROVE  Shape'
<1>1. CASE UNCHANGED vars
  <2>1. /\ UNCHANGED queueVars /\ UNCHANGED informer /\ UNCHANGED loop
        /\ UNCHANGED <<spc, unread, target>> /\ UNCHANGED wpc
        /\ UNCHANGED <<hash, ret, built, manba, partial, failures>>
        /\ UNCHANGED <<qdown, stopping>>
    BY <1>1 DEF vars, queueVars, sync
  <2>2. QED
    BY <2>1, Unchanged, QueueSteps DEF Shape
<1>2. CASE Next
  BY <1>1, <1>2, InformerShapes, LoopShapes, WorkerShapes, SyncShapes, StopShapes
  DEF Next, Worker, Stopped
<1>3. QED
  BY <1>1, <1>2

-----------------------------------------------------------------------------
(* What Build sees of a resource changes only with a notification that its *)
(* handler reports, or the resource is unreported.                         *)
LEMMA ChangeReported ==
  ASSUME Shape, NEW r \in Res, NEW n, n.old = store[r], n.new = store'[r],
         ~Unreported(r, n), Seen(r)' # Seen(r)
  PROVE  Reported(r, n)
<1>1. ResKind[r] \in {"endpoints", "ingress", "object"}
  BY LoopAssumption
<1>2. n.old # n.new
  BY DEF Seen
<1>3. CASE ResKind[r] = "endpoints"
  BY <1>2, <1>3 DEF Reported
<1>4. CASE ResKind[r] = "ingress"
  BY <1>4 DEF Reported, Unreported, Seen
<1>5. CASE ResKind[r] = "object"
  BY <1>5 DEF Reported, Unreported
<1>6. QED
  BY <1>1, <1>3, <1>4, <1>5

(* A running controller's queue takes what it is given. *)
LEMMA Running == Shape /\ ~isShuttingDown => ~qdown /\ stop = "running"
BY DEF Shape, StopShape

LEMMA InformerCovered ==
  ASSUME Shape, Covered, InformerUpdate
  PROVE  Covered'
<1> SUFFICES ASSUME ~isShuttingDown', NEW r \in Res \ unreported'
             PROVE  /\ Stale(r)' => Carrier(r, gotAt)'
                    /\ (spc = "idle" /\ ~Accepted(r))' => Carrier(r, lastSync)'
  BY DEF Covered
<1>1. PICK q \in Res : \E v \in Values(q), tombstone \in BOOLEAN :
        LET n == [old |-> store[q], new |-> v, tombstone |-> tombstone]
        IN  /\ notes' = [notes EXCEPT ![q] = Append(@, n)]
            /\ unreported' = IF Unreported(q, n) THEN unreported \cup {q} ELSE unreported
            /\ store' = [store EXCEPT ![q] = v]
  BY DEF InformerUpdate
<1>2. PICK v \in Values(q), tombstone \in BOOLEAN :
        LET n == [old |-> store[q], new |-> v, tombstone |-> tombstone]
        IN  /\ notes' = [notes EXCEPT ![q] = Append(@, n)]
            /\ unreported' = IF Unreported(q, n) THEN unreported \cup {q} ELSE unreported
            /\ store' = [store EXCEPT ![q] = v]
  BY <1>1
<1> DEFINE n == [old |-> store[q], new |-> v, tombstone |-> tombstone]
<1>3. /\ UNCHANGED <<queue, delayed, held, again, gotAt, lastSync>>
      /\ UNCHANGED <<ring, lpc, lts>> /\ UNCHANGED <<spc, unread, target, built>>
      /\ UNCHANGED isShuttingDown
  BY DEF InformerUpdate, queueVars, loop, sync, stopping
<1>4. ~isShuttingDown /\ r \in Res \ unreported
  BY <1>2, <1>3
<1>5. /\ n \in Note
      /\ \A i \in 1..Len(notes[q]) : i \in 1..Len(notes'[q]) /\ notes'[q][i] = notes[q][i]
      /\ Len(notes'[q]) \in 1..Len(notes'[q]) /\ notes'[q][Len(notes'[q])] = n
      /\ \A p \in Res \ {q} : notes'[p] = notes[p] /\ store'[p] = store[p]
      /\ store'[q] = v
  <2>1. notes[q] \in Seq(Note) /\ notes \in [Res -> Seq(Note)] /\ store \in Config
    BY DEF Shape, InformerShape
  <2>2. store[q] \in UNION {Values(p) : p \in Res} /\ v \in UNION {Values(p) : p \in Res}
    BY <2>1 DEF Config
  <2>3. n \in Note
    BY <2>2 DEF Note
  <2>4. notes'[q] = Append(notes[q], n) /\ \A p \in Res \ {q} : notes'[p] = notes[p]
    BY <1>2, <2>1
  <2>5. store'[q] = v /\ \A p \in Res \ {q} : store'[p] = store[p]
    BY <1>2, <2>1 DEF Config
  <2>6. QED
    BY <2>1, <2>3, <2>4, <2>5, AppendProperties, LenProperties
<1> HIDE DEF n
<1>6. ASSUME NEW t, Carrier(r, t) PROVE Carrier(r, t)'
  BY <1>3, <1>5, <1>6 DEF Carrier, Pending, Reported
<1>7. CASE Seen(r)' = Seen(r)
  BY <1>3, <1>4, <1>6, <1>7 DEF Covered, Stale, Accepted
<1>8. CASE Seen(r)' # Seen(r)
  <2>1. r = q
    BY <1>5, <1>8 DEF Seen
  <2>2. ~Unreported(q, n)
    BY <1>2, <2>1 DEF n
  <2>3. n.old = store[q] /\ n.new = store'[q]
    BY <1>5 DEF n
  <2>4. Reported(q, n)
    BY <1>8, <2>1, <2>2, <2>3, ChangeReported
  <2>5. ASSUME NEW t PROVE Carrier(r, t)'
    BY <1>5, <2>1, <2>4 DEF Carrier, Pending, Reported
  <2>6. QED
    BY <2>5
<1>9. QED
  BY <1>7, <1>8

(* What is pushed into the ring is in it, also when it makes room first. *)
LEMMA PushNotEmpty ==
  ASSUME Shape, NEW r \in Res
  PROVE  RingPush(r) # <<>>
<1>1. ring \in Seq(Res) /\ (Len(ring) = RingCap => ring # <<>>)
  BY LoopAssumption, EmptySeq DEF Shape, LoopShape
<1>2. (IF Len(ring) = RingCap THEN Tail(ring) ELSE ring) \in Seq(Res)
  BY <1>1, HeadTailProperties
<1>3. QED
  BY <1>2, AppendProperties DEF RingPush

LEMMA EventCovered ==
  ASSUME Shape, Covered, OnEvent
  PROVE  Covered'
<1> SUFFICES ASSUME ~isShuttingDown', NEW r \in Res \ unreported'
             PROVE  /\ Stale(r)' => Carrier(r, gotAt)'
                    /\ (spc = "idle" /\ ~Accepted(r))' => Carrier(r, lastSync)'
  BY DEF Covered
<1>1. PICK q \in Res : /\ notes[q] # <<>>
                       /\ ring' = IF Reported(q, Head(notes[q])) THEN RingPush(q) ELSE ring
                       /\ notes' = [notes EXCEPT ![q] = Tail(@)]
  BY DEF OnEvent
<1>2. /\ UNCHANGED <<queue, delayed, held, again, gotAt, lastSync>>
      /\ UNCHANGED <<store, unreported, lpc, lts>> /\ UNCHANGED <<spc, unread, target, built>>
      /\ UNCHANGED isShuttingDown
  BY DEF OnEvent, queueVars, sync, stopping
<1>3. /\ notes[q] \in Seq(Note) /\ notes'[q] = Tail(notes[q])
      /\ \A p \in Res \ {q} : notes'[p] = notes[p]
  BY <1>1 DEF Shape, InformerShape
<1>4. /\ Head(notes[q]) = notes[q][1] /\ Len(notes'[q]) = Len(notes[q]) - 1
      /\ Len(notes[q]) \in Nat \ {0}
      /\ \A i \in 1..(Len(notes[q]) - 1) : notes'[q][i] = notes[q][i + 1]
  <2> DEFINE s == notes[q]
  <2>1. s \in Seq(Note) /\ s # <<>> /\ notes'[q] = Tail(s)
    BY <1>1, <1>3
  <2> HIDE DEF s
  <2>2. /\ Head(s) = s[1] /\ Len(Tail(s)) = Len(s) - 1 /\ Len(s) \in Nat \ {0}
        /\ \A i \in 1..(Len(s) - 1) : Tail(s)[i] = s[i + 1]
    BY <2>1, HeadTailProperties, LenProperties, EmptySeq
  <2>3. QED
    BY <2>1, <2>2 DEF s
<1>5. RingPush(q) # <<>>
  BY PushNotEmpty
<1>6. ring # <<>> => ring' # <<>>
  BY <1>1, <1>5
<1>7. ASSUME NEW i \in 1..Len(notes[r]), Reported(r, notes[r][i])
      PROVE  ring' # <<>> \/ \E j \in 1..Len(notes'[r]) : Reported(r, notes'[r][j])
  <2>1. CASE r = q /\ i = 1
    BY <1>1, <1>4, <1>5, <1>7, <2>1
  <2>2. CASE r = q /\ i # 1
    <3>1. i - 1 \in 1..Len(notes'[r]) /\ notes'[r][i - 1] = notes[r][i]
      BY <1>4, <2>2
    <3>2. QED
      BY <1>7, <3>1
  <2>3. CASE r # q
    BY <1>3, <1>7, <2>3
  <2>4. QED
    BY <2>1, <2>2, <2>3
<1>8. ASSUME NEW t, Carrier(r, t) PROVE Carrier(r, t)'
  <2>1. CASE \E i \in 1..Len(notes[r]) : Reported(r, notes[r][i])
    <3>1. ring' # <<>> \/ \E j \in 1..Len(notes'[r]) : Reported(r, notes'[r][j])
      BY <1>7, <2>1
    <3>2. QED
      BY <3>1 DEF Carrier, Pending, Reported
  <2>2. CASE ~\E i \in 1..Len(notes[r]) : Reported(r, notes[r][i])
    BY <1>2, <1>6, <1>8, <2>2 DEF Carrier, Pending
  <2>3. QED
    BY <2>1, <2>2
<1>9. QED
  BY <1>2, <1>8 DEF Covered, Stale, Accepted, Seen

(* A step that leaves what Build sees and what it has built alone, and takes *)
(* no carrier away, leaves everything covered.                               *)
LEMMA CarriersKept ==
  ASSUME Begun, Covered, UNCHANGED <<store, unreported, spc, unread, target, built>>,
         UNCHANGED <<gotAt, lastSync>>, isShuttingDown' = isShuttingDown, UNCHANGED notes,
         ~isShuttingDown => /\ spc # "idle" /\ Pending(gotAt) => Pending(gotAt)'
                            /\ Pending(lastSync) => Pending(lastSync)'
  PROVE  Begun' /\ Covered'
<1>1. Begun'
  BY DEF Begun
<1>2. \A r \in Res : Seen(r)' = Seen(r)
  BY DEF Seen
<1>3. ASSUME ~isShuttingDown, NEW r \in Res
      PROVE  /\ spc # "idle" /\ Carrier(r, gotAt) => Carrier(r, gotAt)'
             /\ Carrier(r, lastSync) => Carrier(r, lastSync)'
  BY <1>3 DEF Carrier, Reported
<1>4. Covered'
  BY <1>2, <1>3 DEF Covered, Stale, Accepted
<1>5. QED
  BY <1>1, <1>4

LEMMA LoopPending ==
  ASSUME Shape, Loop, ~isShuttingDown, NEW t \in 0..MaxClock, t <= now, Pending(t)
  PROVE  Pending(t)'
<1>1. UNCHANGED <<delayed, held>>
  BY DEF Loop, LoopReceive, LoopStamp, LoopAdd, Enqueue, queueVars
<1>2. CASE LoopReceive
  BY <1>2 DEF LoopReceive, Pending
<1>3. CASE LoopStamp
  <2>1. lpc' = "add" /\ lts' = now /\ now \in 0..MaxClock
    BY <1>3, Running DEF LoopStamp, Shape, QueueShape, QueueTypeOK
  <2>2. QED
    BY <2>1 DEF Pending
<1>4. CASE LoopAdd
  <2> DEFINE e == [key |-> lkey, ts |-> lts]
  <2>1. e \in Element /\ Add(e)
    BY <1>4 DEF LoopAdd, Enqueue, Element, Shape, LoopShape
  <2>2. e.ts = lts
    OBVIOUS
  <2> HIDE DEF e
  <2>3. /\ ToSet(queue) \subseteq ToSet(queue') /\ (again => again')
        /\ e \in ToSet(queue') \/ (again' /\ e = held)
    BY <2>1, AddStep, Running DEF Shape
  <2>4. UNCHANGED ring /\ lpc = "add"
    BY <1>4 DEF LoopAdd
  <2>5. QED
    BY <1>1, <2>2, <2>3, <2>4 DEF Pending
<1>5. QED
  BY <1>2, <1>3, <1>4 DEF Loop

LEMMA LoopCovered ==
  ASSUME Shape, Begun, Covered, Loop
  PROVE  Begun' /\ Covered'
<1>1. /\ UNCHANGED <<store, unreported, spc, unread, target, built>> /\ UNCHANGED notes
      /\ UNCHANGED <<gotAt, lastSync>> /\ isShuttingDown' = isShuttingDown
  BY DEF Loop, LoopReceive, LoopStamp, LoopAdd, Enqueue, queueVars, informer, sync, stopping
<1>2. gotAt \in 0..MaxClock /\ lastSync \in 0..MaxClock /\ gotAt <= now /\ lastSync <= now
  BY DEF Shape, QueueShape, QueueTypeOK
<1>3. ASSUME ~isShuttingDown
      PROVE  /\ Pending(gotAt) => Pending(gotAt)'
             /\ Pending(lastSync) => Pending(lastSync)'
  BY <1>1, <1>2, <1>3, LoopPending DEF Pending
<1>4. QED
  BY <1>1, <1>3, CarriersKept

LEMMA QueuePending ==
  ASSUME Shape, QueueStep \/ WorkerStep, ~WorkerSkip, ~isShuttingDown, NEW t, Pending(t)
  PROVE  Pending(t)'
<1>1. UNCHANGED <<ring, lpc, lts, held>>
  BY DEF QueueStep, WorkerStep, Tick, DelayedFires, WorkerStart, WorkerQuit, loop
<1>2. CASE DelayedFires
  <2>1. PICK e \in delayed : delayed' = delayed \ {e} /\ Add(e)
    BY <1>2 DEF DelayedFires
  <2>2. e \in Element
    BY <2>1 DEF Shape, QueueShape, QueueTypeOK
  <2>3. /\ ToSet(queue) \subseteq ToSet(queue') /\ (again => again')
        /\ e \in ToSet(queue') \/ (again' /\ e = held)
    BY <2>1, <2>2, AddStep, Running DEF Shape
  <2>4. \A d \in ToSet(queue) \cup delayed :
          d \in ToSet(queue') \cup delayed' \/ (again' /\ d = held)
    BY <2>1, <2>3
  <2>5. QED
    BY <1>1, <2>3, <2>4 DEF Pending
<1>3. CASE ~DelayedFires
  <2>1. UNCHANGED <<queue, delayed, again>>
    BY <1>3 DEF QueueStep, WorkerStep, Tick, WorkerStart, WorkerQuit
  <2>2. QED
    BY <1>1, <2>1 DEF Pending
<1>4. QED
  BY <1>2, <1>3

(* An element that the worker skips is older than the last sync. *)
LEMMA SkipPending ==
  ASSUME Shape, WorkerStep, WorkerSkip, Pending(lastSync)
  PROVE  Pending(lastSync)'
<1>1. /\ queue \in Seq(Element) /\ queue # <<>> /\ queue' = Tail(queue)
      /\ lastSync > Head(queue).ts /\ UNCHANGED <<delayed, held, again, lastSync, ring, lpc, lts>>
  BY DEF WorkerStep, WorkerSkip, Superseded, Shape, QueueShape, QueueTypeOK, loop
<1>2. ToSet(queue) = ToSet(queue') \cup {Head(queue)} /\ Head(queue) \in Element
  BY <1>1, TailSet
<1>3. ~(Head(queue).ts >= lastSync)
  BY <1>1, <1>2 DEF Element, Shape, QueueShape, QueueTypeOK
<1>4. QED
  BY <1>1, <1>2, <1>3 DEF Pending

LEMMA QueueCovered ==
  ASSUME Shape, Begun, Covered, QueueStep \/ WorkerStep
  PROVE  Begun' /\ Covered'
<1>1. /\ UNCHANGED <<store, unreported, spc, unread, target, built>> /\ UNCHANGED notes
      /\ UNCHANGED <<gotAt, lastSync>> /\ isShuttingDown' = isShuttingDown
  BY DEF QueueStep, WorkerStep, Tick, DelayedFires, WorkerStart, WorkerSkip, WorkerQuit,
         informer, sync, stopping
<1>2. CASE ~WorkerSkip
  <2>1. ASSUME ~isShuttingDown
        PROVE  /\ Pending(gotAt) => Pending(gotAt)'
               /\ Pending(lastSync) => Pending(lastSync)'
    BY <1>1, <1>2, <2>1, QueuePending DEF Pending
  <2>2. QED
    BY <1>1, <2>1, CarriersKept
<1>3. CASE WorkerSkip
  <2>1. WorkerStep
    BY <1>3 DEF QueueStep, Tick, DelayedFires, WorkerSkip
  <2>2. Pending(lastSync) => Pending(lastSync)'
    BY <1>3, <2>1, SkipPending
  <2>3. spc = "idle"
    BY <1>3 DEF WorkerSkip, Shape
  <2>4. QED
    BY <1>1, <2>2, <2>3, CarriersKept
<1>4. QED
  BY <1>2, <1>3

(* A sync that failed comes back as an element of its own. *)
LEMMA FailurePending ==
  ASSUME Shape, ~isShuttingDown, SyncFailed
  PROVE  Pending(lastSync)'
<1>1. [key |-> held.key, ts |-> now] \in delayed' /\ lastSync' = lastSync
  BY Running DEF SyncFailed
<1>2. now >= lastSync
  BY DEF Shape, QueueShape, QueueTypeOK
<1>3. \E e \in delayed' : e.ts >= lastSync
  BY <1>1, <1>2
<1>4. QED
  BY <1>1, <1>3 DEF Pending

(* A sync that succeeds leaves behind what is not older than its start. *)
LEMMA SyncCovered ==
  ASSUME Shape, Covered, WorkerSync \/ Sync
  PROVE  Covered'
<1> SUFFICES ASSUME ~isShuttingDown', NEW r \in Res \ unreported'
             PROVE  /\ Stale(r)' => Carrier(r, gotAt)'
                    /\ (spc = "idle" /\ ~Accepted(r))' => Carrier(r, lastSync)'
  BY DEF Covered
<1>1. UNCHANGED <<store, notes, unreported>> /\ UNCHANGED <<ring, lpc, lts>> /\ isShuttingDown' = isShuttingDown
  BY DEF WorkerSync, Sync, SyncRefused, SyncAccepted, Build, BuildFailed, OnUpdateSkips,
         OnUpdateSolved, OnUpdateFailed, OnUpdateHangs, informer, loop, stopping
<1>2. ~isShuttingDown /\ ~qdown /\ r \in Res \ unreported
  BY <1>1, Running
<1>3. CASE WorkerSync
  BY <1>3 DEF WorkerSync, Stale
<1>4. CASE SyncRefused
  BY <1>2, <1>4 DEF SyncRefused
<1>5. CASE SyncAccepted
  BY <1>5 DEF SyncAccepted, Stale
<1>6. CASE Build
  <2>1. PICK q \in unread : /\ target' = [target EXCEPT ![q] = Seen(q)]
                            /\ unread' = unread \ {q}
                            /\ spc' = IF unread' = {} THEN "hash" ELSE "build"
    BY <1>6 DEF Build
  <2>2. /\ UNCHANGED <<queue, delayed, held, again>> /\ gotAt' = gotAt
        /\ spc = "build"
    BY <1>6 DEF Build, queueVars
  <2>3. Seen(r)' = Seen(r) /\ spc' # "idle"
    BY <1>1, <2>1 DEF Seen
  <2>4. q \in Res /\ target \in [Res -> (UNION {Values(p) : p \in Res}) \cup {None}]
    BY <2>1 DEF Shape, BuildShape
  <2>5. Stale(r)' => Stale(r)
    BY <2>1, <2>2, <2>3, <2>4 DEF Stale
  <2>6. Carrier(r, gotAt) => Carrier(r, gotAt)'
    BY <1>1, <2>2 DEF Carrier, Pending, Reported
  <2>7. QED
    BY <1>2, <2>3, <2>5, <2>6 DEF Covered
<1>7. CASE BuildFailed \/ OnUpdateFailed
  <2>1. spc' = "idle" /\ SyncFailed /\ spc # "idle"
    BY <1>7 DEF BuildFailed, OnUpdateFailed
  <2>2. Pending(lastSync)'
    BY <1>2, <2>1, FailurePending
  <2>3. QED
    BY <2>1, <2>2 DEF Stale, Carrier
<1>8. CASE OnUpdateSkips \/ OnUpdateSolved
  <2>1. Synced /\ spc = "hash" /\ spc' = "idle" /\ built' = target
    BY <1>8 DEF OnUpdateSkips, OnUpdateSolved
  <2>2. target # None /\ unread = {}
    BY <2>1, BuiltConfig DEF Shape
  <2>3. Seen(r)' = Seen(r)
    BY <1>1 DEF Seen
  <2>4. ~Accepted(r)' => Stale(r)
    BY <2>1, <2>2, <2>3 DEF Accepted, Stale
  <2>5. Done /\ delayed' = delayed /\ lastSync' = gotAt /\ wpc = "sync"
    BY <2>1 DEF Synced, Shape
  <2>6. ToSet(queue') = ToSet(queue) \cup (IF again THEN {held} ELSE {})
    BY <2>5, DoneStep DEF Shape
  <2>7. Carrier(r, gotAt) => Carrier(r, lastSync)'
    BY <1>1, <2>5, <2>6 DEF Carrier, Pending, Reported
  <2>8. QED
    BY <1>2, <2>1, <2>4, <2>7 DEF Covered, Stale
<1>9. CASE OnUpdateHangs
  BY <1>9 DEF OnUpdateHangs, Stale
<1>10. QED
  BY <1>3, <1>4, <1>5, <1>6, <1>7, <1>8, <1>9 DEF Sync

LEMMA StopCovered ==
  ASSUME Shape, Stop
  PROVE  Covered'
<1>1. isShuttingDown'
  BY DEF Stop, StopFlag, StopClose, StopShutDown, StopAcked, Shape, StopShape
<1>2. QED
  BY <1>1 DEF Covered

(* The first sync. *)
LEMMA OtherBegun ==
  ASSUME Shape, Begun, InformerUpdate \/ OnEvent \/ WorkerSync \/ Sync \/ Stop
  PROVE  Begun'
<1>1. CASE InformerUpdate
  <2>1. /\ UNCHANGED <<queue, delayed, held, again, lastSync>>
        /\ UNCHANGED <<ring, lpc, lts>> /\ UNCHANGED <<spc, built, isShuttingDown>>
    BY <1>1 DEF InformerUpdate, queueVars, loop, sync, stopping
  <2>2. QED
    BY <2>1 DEF Begun, Pending
<1>2. CASE OnEvent
  <2>1. /\ UNCHANGED <<queue, delayed, held, again, lastSync>>
        /\ UNCHANGED <<lpc, lts>> /\ UNCHANGED <<spc, built, isShuttingDown>>
    BY <1>2 DEF OnEvent, queueVars, sync, stopping
  <2>2. ring # <<>> => ring' # <<>>
    BY <1>2, PushNotEmpty DEF OnEvent
  <2>3. QED
    BY <2>1, <2>2 DEF Begun, Pending
<1>3. CASE WorkerSync \/ SyncAccepted \/ Build \/ OnUpdateHangs
  BY <1>3 DEF WorkerSync, SyncAccepted, Build, OnUpdateHangs, Begun
<1>4. CASE SyncRefused
  BY <1>4 DEF SyncRefused, Begun, Shape, StopShape, stopping
<1>5. CASE BuildFailed \/ OnUpdateFailed
  BY <1>5, FailurePending DEF BuildFailed, OnUpdateFailed, Begun, stopping
<1>6. CASE OnUpdateSkips \/ OnUpdateSolved
  BY <1>6, BuiltConfig DEF OnUpdateSkips, OnUpdateSolved, Begun, Shape
<1>7. CASE Stop
  BY <1>7 DEF Stop, StopFlag, StopClose, StopShutDown, StopAcked, Begun, Shape, StopShape
<1>8. QED
  BY <1>1, <1>2, <1>3, <1>4, <1>5, <1>6, <1>7 DEF Sync

LEMMA NextCovered ==
  ASSUME Shape, Begun, Covered, [Next]_vars
  PROVE  Begun' /\ Covered'
<1>1. CASE UNCHANGED vars
  <2>1. /\ UNCHANGED <<store, unreported, spc, unread, target, built>>
        /\ UNCHANGED <<gotAt, lastSync>> /\ isShuttingDown' = isShuttingDown
        /\ UNCHANGED <<notes, ring, lpc, lts>> /\ UNCHANGED <<queue, delayed, held, again>>
    BY <1>1 DEF vars, queueVars, informer, loop, sync, stopping
  <2>2. /\ Pending(gotAt) => Pending(gotAt)'
        /\ Pending(lastSync) => Pending(lastSync)'
    BY <2>1 DEF Pending
  <2>3. QED
    BY <2>1, <2>2, CarriersKept
<1>2. CASE Next
  BY <1>1, <1>2, InformerCovered, EventCovered, LoopCovered, QueueCovered, SyncCovered, StopCovered,
     OtherBegun
  DEF Next, Worker, Stopped
<1>3. QED
  BY <1>1, <1>2

-----------------------------------------------------------------------------
LEMMA NextHash ==
  ASSUME Shape, HashShape, [Next]_vars
  PROVE  HashShape'
<1>1. CASE UNCHANGED <<hash, ret, built, manba, partial>>
  BY <1>1 DEF HashShape
<1>2. CASE SyncRefused \/ SyncAccepted
  BY <1>2 DEF SyncRefused, SyncAccepted, HashShape
<1>3. CASE OnUpdateSkips \/ OnUpdateSolved
  <2>1. target # None
    BY <1>3, BuiltConfig DEF OnUpdateSkips, OnUpdateSolved, Shape
  <2>2. QED
    BY <1>3, <2>1 DEF OnUpdateSkips, OnUpdateSolved, HashShape
<1>4. CASE OnUpdateFailed \/ OnUpdateHangs
  <2>1. /\ partial' = (partial \/ manba' # manba) /\ ret' \in {"error", ret}
        /\ UNCHANGED <<hash, built>> /\ partial \in BOOLEAN
    BY <1>4 DEF OnUpdateFailed, OnUpdateHangs, CallFails, Shape, ResultShape
  <2>2. QED
    BY <2>1 DEF HashShape
<1>5. \/ UNCHANGED <<hash, ret, built, manba, partial>>
      \/ SyncRefused \/ SyncAccepted \/ OnUpdateSkips \/ OnUpdateSolved \/ OnUpdateFailed
      \/ OnUpdateHangs
  BY DEF Next, InformerUpdate, OnEvent, Loop, LoopReceive, LoopStamp, LoopAdd, QueueStep, Worker,
         WorkerStep, WorkerSync, Sync, Build, BuildFailed, Stop, StopFlag, StopClose, StopShutDown,
         StopAcked, Stopped, vars, sync
<1>6. QED
  BY <1>1, <1>2, <1>3, <1>4, <1>5

LEMMA InitIInv == Init => IInv
<1>1. ASSUME Init PROVE Begun /\ Covered /\ HashShape
  BY <1>1 DEF Init, Begun, Covered, HashShape, Stale, Carrier, Pending
<1>2. QED
  BY <1>1, InitShape DEF IInv

LEMMA Invariant == Spec => []IInv
<1>1. IInv /\ [Next]_vars => IInv'
  BY NextShape, NextCovered, NextHash DEF IInv
<1>2. QED
  BY <1>1, InitIInv, PTL DEF Spec

(***************************************************************************)
(* The controller's loop keeps its shape for any resources, ring and       *)
(* bounds: the work queue holds no element twice, the worker syncs exactly *)
(* while it holds an element, and the ring never holds more than its size. *)
(***************************************************************************)
THEOREM LoopTypeCorrect == Spec => []TypeOK
<1>1. IInv => TypeOK
  BY ShapeTypeOK DEF IInv
<1>2. QED
  BY <1>1, Invariant, PTL

(***************************************************************************)
(* No update is lost between the informers and OnUpdate: with nothing on   *)
(* its way to the worker of a running controller, the configuration last   *)
(* accepted as synced is what Build would see now, whatever the ring has   *)
(* dropped, the worker has skipped and Build has read while it changed.    *)
(***************************************************************************)
THEOREM UpdatesKept == Spec => []NoLostUpdate
<1>1. ASSUME IInv PROVE NoLostUpdate
  <2>1. SUFFICES ASSUME Quiet, ~isShuttingDown PROVE UpToDate
    BY DEF NoLostUpdate
  <2>2. spc = "idle" /\ ~again
    BY <1>1, <2>1 DEF Quiet, IInv, Shape, QueueShape, QueueTypeOK
  <2>3. ~Pending(lastSync) /\ \A r \in Res : ~Carrier(r, lastSync)
    <3>1. ToSet(queue) \cup delayed = {} /\ \A r \in Res : Len(notes[r]) = 0
      BY <2>1, EmptySeq DEF Quiet, ToSet
    <3>2. QED
      BY <2>1, <2>2, <3>1 DEF Quiet, Carrier, Pending
  <2>4. \A r \in Res \ unreported : Accepted(r)
    BY <1>1, <2>1, <2>2, <2>3 DEF IInv, Covered
  <2>5. built # None
    BY <1>1, <2>1, <2>2, <2>3 DEF IInv, Begun
  <2>6. QED
    BY <2>4, <2>5 DEF UpToDate, Accepted
<1>2. QED
  BY <1>1, Invariant, PTL

(***************************************************************************)
(* When OnUpdate returns nil, by a Solve or because the hash has not       *)
(* changed, Manba has the configuration that was built, unless a failed    *)
(* Solve has left changes of its own behind.                               *)
(***************************************************************************)
THEOREM NilCorrect == Spec => []NilMeansSyncedIfWhole
<1>1. IInv => NilMeansSyncedIfWhole
  BY DEF IInv, HashShape, NilMeansSyncedIfWhole
<1>2. QED
  BY <1>1, Invariant, PTL
=============================================================================
