----------------------------- MODULE StateCalls -----------------------------
(***************************************************************************)
(* The life of a currentState: state.Get fills it with what dumping Manba  *)
(* returned, an object at a time, and the post actions then repeat on it   *)
(* the changes that the diff found and Manba has made.                     *)
(***************************************************************************)
EXTENDS Collections

CONSTANTS
  Names,      \* the names that objects have, NoName among them or not
  Conf,       \* the configurations that objects have
  MayRepeat,  \* the names that two objects of one kind in Manba may share
  MaxRows     \* bound on the objects in the state

ASSUME CallsAssumption ==
  /\ Names \subseteq Str \cup {NoName} /\ MayRepeat \subseteq Names
  /\ MaxRows \in Nat

VARIABLES
  db,         \* the state
  phase,      \* "load" in state.Get, "sync" afterwards, "failed" when that returned an error
  ret,        \* the last call and what it returned
  repeated    \* history: kinds and names that two loaded objects had

vars == <<db, phase, ret, repeated>>

Object == [id : Ids, name : Names, conf : Conf]

Bind == [cluster : Ids, server : Ids]

Rows(s, k) == IF k = "bind" THEN GetAllBinds(s) ELSE GetAll(s[k])

(* Each object with its kind. *)
Contents(s) == UNION {{k} \X Rows(s, k) : k \in Named \cup {"bind"}}

Size(s) == Cardinality(Contents(s))

Called(k, op, o, err) == [kind |-> k, op |-> op, obj |-> o, err |-> err]

Init ==
  /\ db = NewManbaState /\ phase = "load"
  /\ ret = Called("none", "none", NoRow, "nil") /\ repeated = {}

-----------------------------------------------------------------------------
(* state.Get adds what Manba listed, in which no two objects of a kind have *)
(* one id.  A server that is refused as present is passed over.             *)
LoadAdd(k, o) ==
  CASE k = "api"     -> AddAPI(db, o)
    [] k = "routing" -> AddRouting(db, o)
    [] k = "cluster" -> AddCluster(db, o)
    [] k = "server"  -> AddServer(db, o)

Load ==
  /\ phase = "load" /\ Size(db) < MaxRows
  /\ \E k \in Named, o \in Object :
       LET twin == {p \in GetAll(db[k]) : p.name = o.name /\ o.name # NoName}
           r    == LoadAdd(k, o)
       IN  /\ db[k].row[o.id] = NoRow
           /\ twin # {} => o.name \in MayRepeat
           /\ db' = r.s
           /\ ret' = Called(k, "Create", o, r.err)
           /\ phase' = IF r.err = "nil" \/ (k = "server" /\ r.err = "ErrAlreadyExists")
                       THEN "load" ELSE "failed"
           /\ repeated' = IF twin # {} THEN repeated \cup {<<k, o.name>>} ELSE repeated

LoadBind ==
  /\ phase = "load" /\ Size(db) < MaxRows
  /\ \E b \in Bind \ db.bind :
       LET r == AddBind(db, b)
       IN  db' = r.s /\ ret' = Called("bind", "Create", b, r.err)
  /\ UNCHANGED <<phase, repeated>>

Loaded ==
  /\ phase = "load"
  /\ phase' = "sync"
  /\ UNCHANGED <<db, ret, repeated>>

-----------------------------------------------------------------------------
(* The events that the diff finds: an object whose identifier the state does *)
(* not have is created, under an id that is new; one that it has, under the  *)
(* id it has, is updated; and one that GetAll lists is deleted.              *)
Found(k, op, o) ==
  LET current == Get(db[k], Identifier(o))
  IN  CASE op = "Create" -> current = NoRow /\ db[k].row[o.id] = NoRow /\ Size(db) < MaxRows
        [] op = "Update" -> current # NoRow /\ o.id = current.id /\ o # current
        [] op = "Delete" -> o \in GetAll(db[k])

Post ==
  /\ phase = "sync"
  /\ \E k \in Named, op \in {"Create", "Update", "Delete"}, o \in Object :
       LET r == PostProcess(db, k, op, o)
       IN  /\ Found(k, op, o)
           /\ db' = r.s
           /\ ret' = Called(k, op, o, r.err)
  /\ UNCHANGED <<phase, repeated>>

PostBinds ==
  /\ phase = "sync"
  /\ \E op \in {"Create", "Delete"}, b \in Bind :
       LET r == PostProcess(db, "bind", op, b)
       IN  /\ op = "Create" => ~HasBind(db, b) /\ Size(db) < MaxRows
           /\ op = "Delete" => b \in GetAllBinds(db)
           /\ db' = r.s
           /\ ret' = Called("bind", op, b, r.err)
  /\ UNCHANGED <<phase, repeated>>

Next == Load \/ LoadBind \/ Loaded \/ Post \/ PostBinds

Spec == Init /\ [][Next]_vars

-----------------------------------------------------------------------------
(***************************************************************************)
(* The shape of a state: a row is at its own id, an entry of the name      *)
(* index leads to a row of that name.                                      *)
(***************************************************************************)
TypeOK ==
  /\ \A k \in Named :
       /\ db[k].row \in [Ids -> Object \cup {NoRow}] /\ db[k].byName \in [Str -> Ids \cup {0}]
       /\ \A i \in Ids : db[k].row[i] # NoRow => db[k].row[i].id = i
       /\ \A s \in Str : db[k].byName[s] # 0 => db[k].row[db[k].byName[s]].name = s
  /\ db.bind \subseteq Bind
  /\ phase \in {"load", "sync", "failed"}
  /\ repeated \subseteq Named \X Names

(***************************************************************************)
(* A change that Manba has made can be repeated on the current state: the  *)
(* post action returns an error only for a kind of which Manba had two     *)
(* objects of one name, where the index leads to the later one alone and   *)
(* is lost when either goes (package state, post actions of package crud). *)
(***************************************************************************)
PostErrorBlamesRepeat ==
  phase = "sync" /\ ret.err # "nil" => \E n \in Names : <<ret.kind, n>> \in repeated

(***************************************************************************)
(* While names do not repeat, an object of the state is found under its    *)
(* identifier, and no other is: what the diff's lookups by Identifier rest *)
(* on, after any sequence of additions, updates and deletions.             *)
(***************************************************************************)
FoundByIdentifier ==
  \A k \in Named : (\A n \in Names : <<k, n>> \notin repeated) =>
    \A o \in GetAll(db[k]) : Get(db[k], Identifier(o)) = o

(***************************************************************************)
(* The five collections implement the set of objects that the diff takes   *)
(* them for, as long as Manba repeats no name.                             *)
(***************************************************************************)
Objects ==
  INSTANCE NamedObjects WITH
    objs  <- Contents(db),
    call  <- ret,
    twins <- repeated # {}

ObjectsSpec == Objects!Spec
=============================================================================
