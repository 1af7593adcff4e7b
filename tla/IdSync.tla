------------------------------- MODULE IdSync -------------------------------
(***************************************************************************)
(* onUpdate with the ids: Kubernetes knows objects by name, Manba by id.   *)
(* Every replica of the controller dumps Manba, gives each object of the   *)
(* configuration that Build returned the id it has there or a new one,     *)
(* translates the names that objects refer to into ids, drops what Manba   *)
(* would refuse, and applies the difference.  The replicas do not          *)
(* coordinate; calls fail, answers are lost, a replica crashes and starts  *)
(* again, someone else changes Manba.                                      *)
(*                                                                         *)
(* The goroutines of Solve are the subject of DiffSyncer; here its events  *)
(* happen one at a time, those of a phase in any order.                    *)
(***************************************************************************)
EXTENDS Collections, SequencesExt

CONSTANTS
  Replicas,
  Order,        \* per kind, every name in the order that toStable sorts by
  Wishes,       \* the configurations that Build may return
  Invalid,      \* kinds and names of the objects that package pb finds invalid
  IdMod,        \* what ids are taken modulo (20000000 in the code)
  Gaps,         \* how far sonyflake's numbers may jump between two syncs
  MaxStamp,     \* bound on sonyflake's numbers
  MaxSyncs,     \* bound on the syncs of each replica
  MaxFailures,  \* bound on failed calls and crashes
  MaxDrifts     \* bound on changes that someone else makes in Manba

Kinds == Named \cup {"bind"}

(* A wish gives, per kind, each name its value and the names it refers to;   *)
(* and the binds, as a list of pairs of names.                               *)
ASSUME SyncAssumption ==
  /\ IdMod \in Nat \ {0, 1} /\ Ids = 1..(IdMod - 1)
  /\ \A w \in Wishes :
       /\ DOMAIN w = Kinds /\ w.bind \in Seq([cluster : Str, server : Str])
       /\ \A k \in Named : /\ DOMAIN w[k] \subseteq ToSet(Order[k])
                           /\ \A n \in DOMAIN w[k] : \A x \in w[k][n].refs : x[1] \in Named
  /\ \A k \in Named :
       /\ Order[k] \in Seq(Str) /\ ToSet(Order[k]) \cap Range(Decimal) = {}
       /\ \A i, j \in 1..Len(Order[k]) : Order[k][i] = Order[k][j] => i = j
  /\ Gaps \subseteq Nat /\ MaxStamp \in Nat /\ MaxSyncs \in Nat /\ MaxFailures \in Nat /\ MaxDrifts \in Nat

VARIABLES
  manba,      \* per kind, the objects that Manba has; and its binds
  stamp,      \* the last number of sonyflake, which counts up with time
  pc,         \* each replica's control point
  wish,       \* the configuration it is applying, or has applied last
  raw,        \* what it has dumped
  cur, tgt,   \* currentState and targetState
  phase, todo,\* the phase of the diff, and what it has still to look at
  failed,     \* an event of this Solve failed
  hash,       \* the configuration whose hash is runningConfigHash
  ret,        \* what OnUpdate returned last
  syncs, failures, drifts, \* bounds
  clash,      \* history: an id was drawn that was 0, or taken
  lost,       \* history: a call of this sync returned an error
  meddled     \* history: Manba was changed by someone else since the last dump began

own  == <<pc, wish, raw, cur, tgt, phase, todo, failed, hash, ret, lost>>
vars == <<manba, stamp, own, syncs, failures, drifts, clash, meddled>>

None == "none"

(* Before the first sync, and after a crash. *)
NoWish == [none |-> TRUE]

Empty == [api |-> {}, routing |-> {}, cluster |-> {}, server |-> {}, bind |-> {}]

Init ==
  /\ manba = Empty /\ stamp = 0 /\ clash = FALSE /\ meddled = FALSE
  /\ pc = [r \in Replicas |-> "idle"] /\ wish = [r \in Replicas |-> NoWish]
  /\ raw = [r \in Replicas |-> Empty]
  /\ cur = [r \in Replicas |-> NewManbaState] /\ tgt = [r \in Replicas |-> NewManbaState]
  /\ phase = [r \in Replicas |-> 0] /\ todo = [r \in Replicas |-> {}]
  /\ failed = [r \in Replicas |-> FALSE] /\ lost = [r \in Replicas |-> FALSE]
  /\ hash = [r \in Replicas |-> NoWish] /\ ret = [r \in Replicas |-> None]
  /\ syncs = [r \in Replicas |-> 0] /\ failures = 0 /\ drifts = 0

-----------------------------------------------------------------------------
(***************************************************************************)
(* From a wish to a target state.                                          *)
(***************************************************************************)
SnowID(n) == n % IdMod

(* The elements of a list that are in S. *)
Only(list, S) ==
  LET keep(acc, x) == IF x \in S THEN Append(acc, x) ELSE acc IN FoldLeft(keep, <<>>, list)

\* Mutant: the current state is not consulted.
NewNamesAll(w, s) ==
  LET of(k) == Only(Order[k], DOMAIN w[k])
      seq(k) == [i \in 1..Len(of(k)) |-> <<k, of(k)[i]>>]
  IN  seq("server") \o seq("cluster") \o seq("api") \o seq("routing")

(* The objects that the current state does not have, in the order in which *)
(* setTargetsIDs meets them in the lists that toStable sorted.             *)
NewNames(w, s) ==
  LET of(k) == Only(Order[k], {n \in DOMAIN w[k] : Get(s[k], n) = NoRow})
      seq(k) == [i \in 1..Len(of(k)) |-> <<k, of(k)[i]>>]
  IN  seq("server") \o seq("cluster") \o seq("api") \o seq("routing")

(* The id of every object that w names. *)
IdOf(w, s, n0) ==
  LET new == NewNames(w, s)
  IN  [k \in Named |-> [n \in DOMAIN w[k] |->
         IF <<k, n>> \in ToSet(new)
         THEN SnowID(n0 + SelectInSeq(new, LAMBDA x : x = <<k, n>>))
         ELSE Get(s[k], n).id]]

\* Mutant: names are translated by the current state, which lacks what is new.
setTargetsIDsFromCurrent(w, s, n0) ==
  LET id == IdOf(w, s, n0)
      ref(x) == <<x[1], Get(s[x[1]], x[2]).id>>
      object(k, n) == [id |-> id[k][n], name |-> n,
                       conf |-> [v |-> w[k][n].v, refs |-> {ref(x) : x \in w[k][n].refs}]]
  IN  [k \in Kinds |->
         IF k = "bind"
         THEN [i \in 1..Len(w.bind) |-> [cluster |-> id.cluster[w.bind[i].cluster],
                                         server  |-> id.server[w.bind[i].server]]]
         ELSE [i \in 1..Len(Order[k]) |->
                 IF Order[k][i] \in DOMAIN w[k] THEN object(k, Order[k][i]) ELSE NoRow]]

(* Per kind the target's objects in order, with their ids and references; a  *)
(* reference to what the target does not have is 0.                          *)
setTargetsIDs(w, s, n0) ==
  LET id == IdOf(w, s, n0)
      get(k, n) == IF n \in DOMAIN w[k] THEN id[k][n] ELSE 0
      object(k, n) == [id |-> id[k][n], name |-> n,
                       conf |-> [v |-> w[k][n].v,
                                 refs |-> {<<x[1], get(x[1], x[2])>> : x \in w[k][n].refs}]]
      bind(b) == IF b.cluster \in DOMAIN w.cluster /\ b.server \in DOMAIN w.server
                 THEN [cluster |-> id.cluster[b.cluster], server |-> id.server[b.server]]
                 ELSE [cluster |-> 0, server |-> 0]
  IN  [k \in Kinds |->
         IF k = "bind"
         THEN [i \in 1..Len(w.bind) |-> bind(w.bind[i])]
         ELSE [i \in 1..Len(Order[k]) |->
                 IF Order[k][i] \in DOMAIN w[k] THEN object(k, Order[k][i]) ELSE NoRow]]

(* Invalid objects are left out, and the binds of invalid ones; an API or a *)
(* routing goes on referring to an invalid cluster.                         *)
filterInvalidations(t) ==
  LET valid(k) == {o \in ToSet(t[k]) : o # NoRow /\ <<k, o.name>> \notin Invalid}
      ids(k)   == {o.id : o \in valid(k)}
  IN  [k \in Kinds |->
         IF k = "bind"
         THEN Only(t.bind, [cluster : ids("cluster"), server : ids("server")])
         ELSE Only(t[k], valid(k))]

(* state.Get: the lists are added to a new state, until an addition fails.   *)
(* Of two servers under one id the second is passed over.                    *)
Added(k, acc, o) ==
  LET r == CASE k = "api"     -> AddAPI(acc.s, o)
             [] k = "routing" -> AddRouting(acc.s, o)
             [] k = "cluster" -> AddCluster(acc.s, o)
             [] k = "server"  -> AddServer(acc.s, o)
             [] k = "bind"    -> AddBind(acc.s, o)
  IN  IF acc.err # "nil" \/ (k = "server" /\ r.err = "ErrAlreadyExists") THEN acc ELSE r

AddAll(k, acc0, list) ==
  LET add(acc, o) == Added(k, acc, o) IN FoldLeft(add, acc0, list)

StateGet(t) ==
  LET apis     == AddAll("api", [s |-> NewManbaState, err |-> "nil"], t.api)
      routings == AddAll("routing", apis, t.routing)
      clusters == AddAll("cluster", routings, t.cluster)
      servers  == AddAll("server", clusters, t.server)
  IN  AddAll("bind", servers, t.bind)

-----------------------------------------------------------------------------
(***************************************************************************)
(* OnUpdate up to Solve.                                                   *)
(***************************************************************************)
At(r, x, y) == pc[r] = x /\ pc' = [pc EXCEPT ![r] = y]

Return(r, x, y) == At(r, x, "idle") /\ ret' = [ret EXCEPT ![r] = y]

\* Mutant: the sync goes on with the configuration that the last one had.
StartStale(r) ==
  /\ syncs[r] < MaxSyncs
  /\ \E w \in Wishes :
       /\ \/ hash[r] = w /\ Return(r, "idle", "nil")
             /\ UNCHANGED meddled
          \/ hash[r] # w /\ At(r, "idle", "clusters") /\ ret' = [ret EXCEPT ![r] = None]
             /\ meddled' = FALSE
  /\ syncs' = [syncs EXCEPT ![r] = @ + 1]
  /\ failed' = [failed EXCEPT ![r] = FALSE] /\ lost' = [lost EXCEPT ![r] = FALSE]
  /\ UNCHANGED <<manba, stamp, wish, raw, cur, tgt, phase, todo, hash, failures, drifts, clash>>

(* A sync begins with what Build returns. *)
Start(r) ==
  /\ syncs[r] < MaxSyncs
  /\ \E w \in Wishes :
       /\ wish' = [wish EXCEPT ![r] = w]
       /\ \/ hash[r] = w /\ Return(r, "idle", "nil")
             /\ UNCHANGED meddled
          \/ hash[r] # w /\ At(r, "idle", "clusters") /\ ret' = [ret EXCEPT ![r] = None]
             /\ meddled' = FALSE
  /\ syncs' = [syncs EXCEPT ![r] = @ + 1]
  /\ failed' = [failed EXCEPT ![r] = FALSE] /\ lost' = [lost EXCEPT ![r] = FALSE]
  /\ UNCHANGED <<manba, stamp, raw, cur, tgt, phase, todo, hash, failures, drifts, clash>>

(* dump.Get lists one kind after the other, and the binds of each cluster it *)
(* has listed with a call of their own.                                      *)
Dump(r, k) ==
  /\ raw' = [raw EXCEPT ![r][k] = manba[k]]
  /\ todo' = [todo EXCEPT ![r] = IF k = "server" THEN raw[r].cluster ELSE {}]
  /\ UNCHANGED <<manba, stamp, wish, cur, tgt, phase, failed, hash, ret, lost,
                 syncs, failures, drifts, clash, meddled>>

DumpClusters(r) == At(r, "clusters", "servers") /\ Dump(r, "cluster")
DumpServers(r)  == At(r, "servers", "binds") /\ Dump(r, "server")
DumpAPIs(r)     == todo[r] = {} /\ At(r, "binds", "routings") /\ Dump(r, "api")
DumpRoutings(r) == At(r, "routings", "prepare") /\ Dump(r, "routing")

DumpBinds(r) ==
  /\ pc[r] = "binds"
  /\ \E c \in todo[r] :
       /\ raw' = [raw EXCEPT ![r].bind = @ \cup {b \in manba.bind : b.cluster = c.id}]
       /\ todo' = [todo EXCEPT ![r] = @ \ {c}]
  /\ UNCHANGED <<manba, stamp, pc, wish, cur, tgt, phase, failed, hash, ret, lost,
                 syncs, failures, drifts, clash, meddled>>

(* A call of dump.Get failed. *)
DumpFailed(r) ==
  /\ failures < MaxFailures /\ failures' = failures + 1
  /\ \E x \in {"clusters", "servers", "binds", "routings"} : Return(r, x, "error")
  /\ raw' = [raw EXCEPT ![r] = Empty] /\ todo' = [todo EXCEPT ![r] = {}]
  /\ lost' = [lost EXCEPT ![r] = TRUE]
  /\ UNCHANGED <<manba, stamp, wish, cur, tgt, phase, failed, hash,
                 syncs, drifts, clash, meddled>>

(* An id that is new, but 0 or not free: Manba has it, or had it when it was *)
(* dumped, or binds are left of a cluster that had it.                       *)
Clashes(w, s, n0) ==
  LET id == IdOf(w, s, n0)
  IN  \E x \in ToSet(NewNames(w, s)) :
        LET i == id[x[1]][x[2]]
        IN  \/ i = 0
            \/ \E o \in manba[x[1]] \cup GetAll(s[x[1]]) : o.id = i
            \/ x[1] = "cluster" /\ \E b \in manba.bind : b.cluster = i
            \/ \E n \in DOMAIN w[x[1]] : n # x[2] /\ id[x[1]][n] = i
            \/ \E r \in Replicas : pc[r] = "solve" /\ tgt[r][x[1]].row[i] # NoRow

(* The orders in which Manba may have listed what it has. *)
Listings(m) ==
  [api : SetToSeqs(m.api), routing : SetToSeqs(m.routing), cluster : SetToSeqs(m.cluster),
   server : SetToSeqs(m.server), bind : SetToSeqs(m.bind)]

(* The two states that Solve is given. *)
Prepare(r) ==
  /\ pc[r] = "prepare"
  /\ \E listed \in Listings(raw[r]), gap \in Gaps :
          LET c == StateGet(listed)
              n0 == stamp + gap
              t == StateGet(filterInvalidations(setTargetsIDs(wish[r], c.s, n0)))
          IN  /\ n0 + Len(NewNames(wish[r], c.s)) <= MaxStamp
              /\ stamp' = n0 + Len(NewNames(wish[r], c.s))
              /\ clash' = (clash \/ Clashes(wish[r], c.s, n0))
              /\ IF c.err = "nil" /\ t.err = "nil"
                 THEN /\ At(r, "prepare", "solve") /\ UNCHANGED ret
                      /\ cur' = [cur EXCEPT ![r] = c.s] /\ tgt' = [tgt EXCEPT ![r] = t.s]
                      /\ phase' = [phase EXCEPT ![r] = 1]
                      /\ todo' = [todo EXCEPT ![r] = GetAllServers(t.s)]
                 ELSE Return(r, "prepare", "error") /\ UNCHANGED <<cur, tgt, phase, todo>>
  /\ raw' = [raw EXCEPT ![r] = Empty]
  /\ UNCHANGED <<manba, wish, failed, hash, lost, syncs, failures, drifts, meddled>>

-----------------------------------------------------------------------------
(***************************************************************************)
(* Solve.                                                                  *)
(***************************************************************************)
PhaseKind == <<"server", "cluster", "bind", "api", "routing",
               "routing", "api", "bind", "cluster", "server">>

List(s, k) ==
  CASE k = "server"  -> GetAllServers(s)
    [] k = "cluster" -> GetAllClusters(s)
    [] k = "bind"    -> GetAllBinds(s)
    [] k = "api"     -> GetAllAPIs(s)
    [] k = "routing" -> GetAllRoutings(s)

Lookup(s, k, o) ==
  CASE k = "server"  -> GetServer(s, Identifier(o))
    [] k = "cluster" -> GetCluster(s, Identifier(o))
    [] k = "api"     -> GetAPI(s, Identifier(o))
    [] k = "routing" -> GetRouting(s, Identifier(o))
    [] k = "bind"    -> IF HasBind(s, o) THEN o ELSE NoRow

Same(k, o, p) ==
  CASE k = "server"  -> CompareServer(o, p)
    [] k = "cluster" -> CompareCluster(o, p)
    [] k = "api"     -> CompareAPI(o, p)
    [] k = "routing" -> CompareRouting(o, p)
    [] k = "bind"    -> CompareBind(o, p)

\* Mutant: an object is deleted unless the target has it unchanged.
OpForDeleteStale(r, p, o) ==
  LET k == PhaseKind[p]
  IN  IF p > 5 THEN (IF Lookup(tgt[r], k, o) # o THEN "Delete" ELSE None)
      ELSE IF Lookup(cur[r], k, o) = NoRow THEN "Create"
      ELSE IF ~Same(k, Lookup(cur[r], k, o), o) THEN "Update" ELSE None

(* The operation that phase p finds for o, or none. *)
OpFor(r, p, o) ==
  LET k == PhaseKind[p]
  IN  IF p > 5 THEN (IF Lookup(tgt[r], k, o) = NoRow THEN "Delete" ELSE None)
      ELSE IF Lookup(cur[r], k, o) = NoRow THEN "Create"
      ELSE IF ~Same(k, Lookup(cur[r], k, o), o) THEN "Update" ELSE None

(* Manba keeps one object of a kind under an id: what is committed replaces  *)
(* what was there.                                                           *)
Put(m, k, o) == [m EXCEPT ![k] = {p \in @ : p.id # o.id} \cup {o}]

Cut(m, k, i) == [m EXCEPT ![k] = {p \in @ : p.id # i}]

RawServer(m, op, o)  == IF op = "Delete" THEN Cut(m, "server", o.id) ELSE Put(m, "server", o)
RawCluster(m, op, o) == IF op = "Delete" THEN Cut(m, "cluster", o.id) ELSE Put(m, "cluster", o)
RawAPI(m, op, o)     == IF op = "Delete" THEN Cut(m, "api", o.id) ELSE Put(m, "api", o)
RawRouting(m, op, o) == IF op = "Delete" THEN Cut(m, "routing", o.id) ELSE Put(m, "routing", o)

RawBind(m, op, b) ==
  CASE op = "Create" -> [m EXCEPT !.bind = @ \cup {b}]
    [] op = "Delete" -> [m EXCEPT !.bind = @ \ {b}]
    [] op = "Update" -> m

RawDo(m, k, op, o) ==
  CASE k = "server"  -> RawServer(m, op, o)
    [] k = "cluster" -> RawCluster(m, op, o)
    [] k = "api"     -> RawAPI(m, op, o)
    [] k = "routing" -> RawRouting(m, op, o)
    [] k = "bind"    -> RawBind(m, op, o)

(* An object of the phase is looked at and, if there is a difference, Manba  *)
(* and then the current state are changed; a post action may return an error. *)
SolveEvent(r) ==
  /\ pc[r] = "solve"
  /\ \E o \in todo[r] :
       LET k == PhaseKind[phase[r]]
           op == OpFor(r, phase[r], o)
           post == PostProcess(cur[r], k, op, o)
       IN  /\ todo' = [todo EXCEPT ![r] = @ \ {o}]
           /\ IF op = None THEN UNCHANGED <<manba, cur, failed>>
              ELSE /\ manba' = RawDo(manba, k, op, o)
                   /\ cur' = [cur EXCEPT ![r] = post.s]
                   /\ failed' = [failed EXCEPT ![r] = @ \/ post.err # "nil"]
  /\ UNCHANGED <<stamp, pc, wish, raw, tgt, phase, hash, ret, lost,
                 syncs, failures, drifts, clash, meddled>>

(* The call to Manba returns an error; Manba may have done it all the same. *)
SolveEventFailed(r) ==
  /\ pc[r] = "solve"
  /\ failures < MaxFailures /\ failures' = failures + 1
  /\ \E o \in todo[r] :
       LET op == OpFor(r, phase[r], o)
       IN  /\ op # None
           /\ todo' = [todo EXCEPT ![r] = @ \ {o}]
           /\ manba' \in {manba, RawDo(manba, PhaseKind[phase[r]], op, o)}
  /\ failed' = [failed EXCEPT ![r] = TRUE] /\ lost' = [lost EXCEPT ![r] = TRUE]
  /\ UNCHANGED <<stamp, pc, wish, raw, cur, tgt, phase, hash, ret, syncs, drifts, clash, meddled>>

SolvePhase(r) ==
  /\ pc[r] = "solve" /\ todo[r] = {} /\ phase[r] < 10
  /\ LET p == phase[r] + 1
     IN  /\ phase' = [phase EXCEPT ![r] = p]
         /\ todo' = [todo EXCEPT ![r] = List(IF p > 5 THEN cur[r] ELSE tgt[r], PhaseKind[p])]
  /\ UNCHANGED <<manba, stamp, pc, wish, raw, cur, tgt, failed, hash, ret, lost,
                 syncs, failures, drifts, clash, meddled>>

(* Solve returns: after the last phase, or anywhere after an error. *)
SolveReturn(r) ==
  /\ failed[r] \/ (todo[r] = {} /\ phase[r] = 10)
  /\ Return(r, "solve", IF failed[r] THEN "error" ELSE "nil")
  /\ hash' = [hash EXCEPT ![r] = IF failed[r] THEN @ ELSE wish[r]]
  /\ todo' = [todo EXCEPT ![r] = {}] /\ phase' = [phase EXCEPT ![r] = 0]
  /\ cur' = [cur EXCEPT ![r] = NewManbaState] /\ tgt' = [tgt EXCEPT ![r] = NewManbaState]
  /\ UNCHANGED <<manba, stamp, wish, raw, failed, lost, syncs, failures, drifts, clash, meddled>>

-----------------------------------------------------------------------------
(* The process dies and is started again: what it knew is gone. *)
Crash(r) ==
  /\ failures < MaxFailures /\ failures' = failures + 1
  /\ pc' = [pc EXCEPT ![r] = "idle"] /\ ret' = [ret EXCEPT ![r] = None]
  /\ hash' = [hash EXCEPT ![r] = NoWish] /\ wish' = [wish EXCEPT ![r] = NoWish]
  /\ raw' = [raw EXCEPT ![r] = Empty]
  /\ cur' = [cur EXCEPT ![r] = NewManbaState] /\ tgt' = [tgt EXCEPT ![r] = NewManbaState]
  /\ todo' = [todo EXCEPT ![r] = {}] /\ phase' = [phase EXCEPT ![r] = 0]
  /\ failed' = [failed EXCEPT ![r] = FALSE] /\ lost' = [lost EXCEPT ![r] = FALSE]
  /\ UNCHANGED <<manba, stamp, syncs, drifts, clash, meddled>>

(* Someone removes an object by Manba's own means. *)
Drift ==
  /\ drifts < MaxDrifts /\ drifts' = drifts + 1 /\ meddled' = TRUE
  /\ \E k \in Named : \E o \in manba[k] : manba' = Cut(manba, k, o.id)
  /\ UNCHANGED <<stamp, own, syncs, failures, clash>>

(* Nothing is left to do, or no id to draw. *)
Finished ==
  /\ \A r \in Replicas : \/ pc[r] = "idle" /\ syncs[r] = MaxSyncs
                         \/ pc[r] = "prepare"
  /\ UNCHANGED vars

Next ==
  \/ \E r \in Replicas :
       \/ Start(r) \/ DumpClusters(r) \/ DumpServers(r) \/ DumpBinds(r) \/ DumpAPIs(r)
       \/ DumpRoutings(r) \/ DumpFailed(r) \/ Prepare(r)
       \/ SolveEvent(r) \/ SolveEventFailed(r) \/ SolvePhase(r) \/ SolveReturn(r) \/ Crash(r)
  \/ Drift
  \/ Finished

Spec == Init /\ [][Next]_vars

-----------------------------------------------------------------------------
(***************************************************************************)
(* The shape of the state.                                                 *)
(***************************************************************************)
Row(k, o) == o.id \in Ids /\ o.name \in ToSet(Order[k])

TypeOK ==
  /\ \A k \in Named : \A o \in manba[k] : Row(k, o)
  /\ \A k \in Named : \A o, p \in manba[k] : o.id = p.id => o = p
  /\ \A r \in Replicas :
       /\ pc[r] \in {"idle", "clusters", "servers", "binds", "routings", "prepare", "solve"}
       /\ ret[r] \in {None, "nil", "error"} /\ phase[r] \in 0..10
       /\ wish[r] \in Wishes \cup {NoWish} /\ hash[r] \in Wishes \cup {NoWish}
       /\ pc[r] # "idle" => wish[r] # NoWish
       /\ \A k \in Named : \A o \in GetAll(tgt[r][k]) : Row(k, o)
  /\ stamp \in 0..MaxStamp /\ failures \in 0..MaxFailures

(* What w asks Manba for, package pb permitting. *)
Wished(w, k) == {n \in DOMAIN w[k] : <<k, n>> \notin Invalid}

NameOf(k, i) ==
  IF \E o \in manba[k] : o.id = i THEN (CHOOSE o \in manba[k] : o.id = i).name ELSE NoName

(* Manba's object o is what w says of the name n. *)
Matches(w, k, n, o) ==
  /\ o.name = n /\ o.conf.v = w[k][n].v
  /\ {<<x[1], NameOf(x[1], x[2])>> : x \in o.conf.refs}
       = {<<x[1], IF x[2] \in Wished(w, x[1]) THEN x[2] ELSE NoName>> : x \in w[k][n].refs}

(* Manba has what w asks for, by name, and nothing else; a bind of a cluster  *)
(* that Manba does not have is nowhere to be seen.                            *)
Faithful(w) ==
  /\ \A k \in Named : Cardinality(manba[k]) = Cardinality(Wished(w, k))
  /\ \A k \in Named : \A n \in Wished(w, k) : \E o \in manba[k] : Matches(w, k, n, o)
  /\ {<<NameOf("cluster", b.cluster), NameOf("server", b.server)>> :
         b \in {x \in manba.bind : NameOf("cluster", x.cluster) # NoName}}
       = {<<b.cluster, b.server>> : b \in {x \in ToSet(w.bind) :
             x.cluster \in Wished(w, "cluster") /\ x.server \in Wished(w, "server")}}

Returns(r) ==
  /\ pc'[r] = "idle" /\ ret'[r] = "nil"
  /\ pc[r] = "solve" \/ syncs'[r] # syncs[r]

(***************************************************************************)
(* Whenever Solve ends without an error, and whenever OnUpdate skips a     *)
(* configuration and nothing ever went wrong, Manba has what the           *)
(* configuration asks for: every name with its value, every reference and  *)
(* every bind leading to the object of the right name, and nothing more;   *)
(* after any earlier crash, lost answer, half-done sync or change by       *)
(* someone else.  Ids are taken to be fresh, and nobody else to write      *)
(* during the sync itself.                                                 *)
(***************************************************************************)
NilMeansFaithful ==
  [][\A r \in Replicas :
       (Returns(r) /\ ~clash /\ ~meddled /\ (pc[r] = "solve" \/ failures + drifts = 0)) => Faithful(wish[r])']_vars

(***************************************************************************)
(* One replica never has two objects of a kind and name in Manba, even     *)
(* when it retries a creation of which it has lost the answer, or after a  *)
(* crash: setTargetsIDs finds them in the dump.                            *)
(***************************************************************************)
OneRowPerName ==
  ~clash => \A k \in Named : \A o, p \in manba[k] : o.name = p.name => o.id = p.id

(***************************************************************************)
(* An object that the configuration goes on asking for is never taken away *)
(* and never put under another id: what traffic uses it keeps being there. *)
(***************************************************************************)
WishedKept ==
  [][(~clash' /\ drifts' = drifts) => \A k \in Named : \A o \in manba[k] :
       \/ \E p \in manba'[k] : p.id = o.id /\ p.name = o.name
       \/ \E r \in Replicas : pc[r] = "solve" /\ o.name \notin Wished(wish[r], k)]_vars

(***************************************************************************)
(* OnUpdate returns an error only when a call of this very sync returned   *)
(* one, or for a configuration in which a cluster has a server twice:      *)
(* whatever an earlier sync, a crash or someone else has left in Manba,    *)
(* the collections, searched and changed by name and by id, never refuse   *)
(* what the diff asks of them, so that a retry whose calls succeed does.   *)
(***************************************************************************)
ErrorsExplained ==
  \A r \in Replicas : ret[r] = "error" =>
    \/ lost[r] \/ clash
    \/ \E i, j \in 1..Len(wish[r].bind) : i # j /\ wish[r].bind[i] = wish[r].bind[j]

(***************************************************************************)
(* With several replicas that have all applied the same configuration,     *)
(* every API that it asks for leads to a cluster of the right name that is *)
(* bound to all its servers, whatever the replicas created twice.          *)
(***************************************************************************)
Served(w) ==
  \A n \in Wished(w, "api") : \E a \in manba.api :
    /\ Matches(w, "api", n, a)
    /\ \A x \in a.conf.refs : \A b \in ToSet(w.bind) :
         (b.cluster = NameOf("cluster", x[2]) /\ b.server \in Wished(w, "server")) =>
           \E s \in manba.server :
             /\ s.name = b.server
             /\ [cluster |-> x[2], server |-> s.id] \in manba.bind

ReplicasServe ==
  \A w \in Wishes :
    (~clash /\ \A r \in Replicas : pc[r] = "idle" /\ ret[r] = "nil" /\ wish[r] = w) => Served(w)

(***************************************************************************)
(* A nil from OnUpdate means that the synchronization finished correctly,  *)
(* as its comment says, whatever ids were drawn.                           *)
(***************************************************************************)
NilMeansCorrect == [][\A r \in Replicas : Returns(r) => Faithful(wish[r])']_vars
=============================================================================
