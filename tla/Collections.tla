---------------------------- MODULE Collections -----------------------------
(***************************************************************************)
(* Package state: the in-memory database that the diff works on.  A state  *)
(* has a table per kind.  APIs, routings, clusters and servers are indexed *)
(* by their id and by their name (a server by its address); a bind by its  *)
(* pair of ids alone.  What an operation does to a state is a function of  *)
(* it: every operation is one transaction, and one that fails is aborted.  *)
(*                                                                         *)
(* An object is a record with an id, a name and a configuration.  Metadata *)
(* and the bytes that protobuf did not recognise are left out.             *)
(***************************************************************************)
EXTENDS Naturals, FiniteSets

CONSTANTS
  Ids,      \* the ids that objects have; 0 is that of an object without one
  Str,      \* what collections are searched by: names, and ids in decimal
  NoName,   \* the empty string
  Decimal   \* the decimal form of each id

ASSUME IdAssumption ==
  /\ Ids \subseteq Nat \ {0} /\ IsFiniteSet(Ids)
  /\ Decimal \in [Ids -> Str] /\ NoName \notin Str
  /\ \A i, j \in Ids : Decimal[i] = Decimal[j] => i = j

Named == {"api", "routing", "cluster", "server"}

NoRow == [id |-> 0, name |-> NoName]

-----------------------------------------------------------------------------
(***************************************************************************)
(* memdb's table: the rows by id, and the id that the name index has for   *)
(* each name, or 0.  The name index is unique in that it has one entry for *)
(* a name; nothing refuses a second row of that name, which takes over the *)
(* entry.                                                                  *)
(***************************************************************************)
EmptyTable == [row |-> [i \in Ids |-> NoRow], byName |-> [s \in Str |-> 0]]

\* Mutant: the row goes, the entry of its name stays.
memdbDeleteRow(t, i) == [t EXCEPT !.row[i] = NoRow]

memdbDelete(t, i) ==
  [row    |-> [t.row EXCEPT ![i] = NoRow],
   byName |-> [s \in Str |-> IF s = t.row[i].name THEN 0 ELSE t.byName[s]]]

memdbInsert(t, o) ==
  [row    |-> [t.row EXCEPT ![o.id] = o],
   byName |-> [s \in Str |-> IF s = o.name THEN o.id
                             ELSE IF s = t.row[o.id].name THEN 0 ELSE t.byName[s]]]

\* Mutant: only the id is searched.
LookupIdOnly(t, s) ==
  LET byId == {i \in Ids : Decimal[i] = s /\ t.row[i] # NoRow}
  IN  IF byId # {} THEN CHOOSE i \in byId : TRUE ELSE 0

(* The id of the row that a search by name or id finds, or 0; the name index *)
(* comes first.                                                              *)
multiIndexLookup(t, s) ==
  LET byId == {i \in Ids : Decimal[i] = s /\ t.row[i] # NoRow}
  IN  IF t.byName[s] # 0 THEN t.byName[s]
      ELSE IF byId # {} THEN CHOOSE i \in byId : TRUE ELSE 0

-----------------------------------------------------------------------------
(* The operations of a collection that is indexed by name. *)
Result(t, err) == [t |-> t, err |-> err]

(* An object is added under its id, whether or not its name is taken. *)
Add(t, o) ==
  IF o.id = 0 THEN Result(t, "errIDRequired")
  ELSE IF multiIndexLookup(t, Decimal[o.id]) # 0 THEN Result(t, "ErrAlreadyExists")
  ELSE Result(memdbInsert(t, o), "nil")

Get(t, s) ==
  LET i == multiIndexLookup(t, s) IN IF i = 0 THEN NoRow ELSE t.row[i]

\* Mutant: the new object is added without deleting the old one first.
UpdateByAdd(t, o) ==
  IF o.id = 0 THEN Result(t, "errIDRequired") ELSE Add(t, o)

Update(t, o) ==
  LET i == multiIndexLookup(t, Decimal[o.id])
  IN  IF o.id = 0 THEN Result(t, "errIDRequired")
      ELSE IF i = 0 THEN Result(t, "ErrNotFound")
      ELSE Result(memdbInsert(memdbDelete(t, i), o), "nil")

\* Mutant: the key is looked up among the ids alone.
DeleteById(t, s) ==
  LET i == LookupIdOnly(t, s)
  IN  IF i = 0 THEN Result(t, "ErrNotFound") ELSE Result(memdbDelete(t, i), "nil")

\* Mutant: everything under the index that all rows share is deleted.
DeleteAll(t, s) ==
  IF multiIndexLookup(t, s) = 0 THEN Result(t, "ErrNotFound") ELSE Result(EmptyTable, "nil")

Delete(t, s) ==
  LET i == multiIndexLookup(t, s)
  IN  IF i = 0 THEN Result(t, "ErrNotFound") ELSE Result(memdbDelete(t, i), "nil")

GetAll(t) == {t.row[i] : i \in Ids} \ {NoRow}

(* What an object is looked up by in the other state. *)
Identifier(o) == IF o.name # NoName THEN o.name ELSE Decimal[o.id]

-----------------------------------------------------------------------------
(***************************************************************************)
(* The state, and the collections it is made of.                           *)
(***************************************************************************)
NewManbaState ==
  [api |-> EmptyTable, routing |-> EmptyTable, cluster |-> EmptyTable,
   server |-> EmptyTable, bind |-> {}]

In(s, k, r) == [s |-> [s EXCEPT ![k] = r.t], err |-> r.err]

AddAPI(s, o)        == In(s, "api", Add(s.api, o))
GetAPI(s, key)      == Get(s.api, key)
UpdateAPI(s, o)     == In(s, "api", Update(s.api, o))
DeleteAPI(s, key)   == In(s, "api", Delete(s.api, key))
GetAllAPIs(s)       == GetAll(s.api)
CompareAPI(o, p)    == o = p

AddRouting(s, o)      == In(s, "routing", Add(s.routing, o))
GetRouting(s, key)    == Get(s.routing, key)
UpdateRouting(s, o)   == In(s, "routing", Update(s.routing, o))
DeleteRouting(s, key) == In(s, "routing", Delete(s.routing, key))
GetAllRoutings(s)     == GetAll(s.routing)
CompareRouting(o, p)  == o = p

AddCluster(s, o)      == In(s, "cluster", Add(s.cluster, o))
GetCluster(s, key)    == Get(s.cluster, key)
UpdateCluster(s, o)   == In(s, "cluster", Update(s.cluster, o))
DeleteCluster(s, key) == In(s, "cluster", Delete(s.cluster, key))
GetAllClusters(s)     == GetAll(s.cluster)
CompareCluster(o, p)  == o = p

AddServer(s, o)      == In(s, "server", Add(s.server, o))
GetServer(s, key)    == Get(s.server, key)
UpdateServer(s, o)   == In(s, "server", Update(s.server, o))
DeleteServer(s, key) == In(s, "server", Delete(s.server, key))
GetAllServers(s)     == GetAll(s.server)
CompareServer(o, p)  == o = p

(* A bind is a pair of ids, and that pair is its key: binds under one key do *)
(* not differ, and no bind is ever updated.                                  *)
AddBind(s, b) ==
  IF b.cluster = 0 \/ b.server = 0 THEN [s |-> s, err |-> "errIDRequired"]
  ELSE IF b \in s.bind THEN [s |-> s, err |-> "ErrAlreadyExists"]
  ELSE [s |-> [s EXCEPT !.bind = @ \cup {b}], err |-> "nil"]

HasBind(s, b) == b \in s.bind

DeleteBind(s, b) ==
  IF b \in s.bind THEN [s |-> [s EXCEPT !.bind = @ \ {b}], err |-> "nil"]
  ELSE [s |-> s, err |-> "ErrNotFound"]

GetAllBinds(s) == s.bind

CompareBind(b, c) == b = c

-----------------------------------------------------------------------------
(***************************************************************************)
(* The post actions of package crud: what the registry does to the current *)
(* state once Manba has done op.                                           *)
(***************************************************************************)
PostAPI(s, op, o) ==
  CASE op = "Create" -> AddAPI(s, o)
    [] op = "Update" -> UpdateAPI(s, o)
    [] op = "Delete" -> DeleteAPI(s, Identifier(o))

PostRouting(s, op, o) ==
  CASE op = "Create" -> AddRouting(s, o)
    [] op = "Update" -> UpdateRouting(s, o)
    [] op = "Delete" -> DeleteRouting(s, Identifier(o))

PostCluster(s, op, o) ==
  CASE op = "Create" -> AddCluster(s, o)
    [] op = "Update" -> UpdateCluster(s, o)
    [] op = "Delete" -> DeleteCluster(s, Identifier(o))

PostServer(s, op, o) ==
  CASE op = "Create" -> AddServer(s, o)
    [] op = "Update" -> UpdateServer(s, o)
    [] op = "Delete" -> DeleteServer(s, Identifier(o))

PostBind(s, op, b) ==
  CASE op = "Create" -> AddBind(s, b)
    [] op = "Delete" -> DeleteBind(s, b)

(* The registry's Do: the action of the kind. *)
PostProcess(s, k, op, o) ==
  CASE k = "api"     -> PostAPI(s, op, o)
    [] k = "routing" -> PostRouting(s, op, o)
    [] k = "cluster" -> PostCluster(s, op, o)
    [] k = "server"  -> PostServer(s, op, o)
    [] k = "bind"    -> PostBind(s, op, o)
=============================================================================
