-------------------------- MODULE StateCallsProofs --------------------------
(***************************************************************************)
(* The in-memory state, for any ids, names and configurations and any      *)
(* number of objects: its tables stay whole, and while Manba repeats no    *)
(* name they are the set of named objects that the diff takes them for.    *)
(***************************************************************************)
EXTENDS StateCalls, TLAPS

(***************************************************************************)
(* No name reads as an id.  The names that the controller gives have a dot *)
(* in them and the addresses of its servers a colon.  The lookups take the *)
(* name index first, so that an object that someone else has named like    *)
(* the id of another hides that one.                                       *)
(***************************************************************************)
NamesAreNoIds == \A i \in Ids : Decimal[i] \notin Names

Table == [row : [Ids -> Object \cup {NoRow}], byName : [Str -> Ids \cup {0}]]

(* A row is at its own id, an entry of the name index leads to a row of that *)
(* name.                                                                     *)
Whole(t) ==
  /\ \A i \in Ids : t.row[i] # NoRow => t.row[i].id = i
  /\ \A s \in Str : t.byName[s] # 0 => t.row[t.byName[s]].name = s

(* The name index leads to every row that has a name: no two have the same. *)
Indexed(t) ==
  \A i \in Ids : t.row[i] # NoRow /\ t.row[i].name # NoName => t.byName[t.row[i].name] = i

Shape ==
  /\ db \in [api : Table, routing : Table, cluster : Table, server : Table, bind : SUBSET Bind]
  /\ \A k \in Named : Whole(db[k])
  /\ phase \in {"load", "sync", "failed"}
  /\ repeated \subseteq Named \X Names

NoRepeat(k) == \A n \in Names : <<k, n>> \notin repeated

(* An error blames a name that repeats, in whatever phase. *)
Blamed == ret.err # "nil" => \E n \in Names : <<ret.kind, n>> \in repeated

IInv == Shape /\ (\A k \in Named : NoRepeat(k) => Indexed(db[k])) /\ Blamed

-----------------------------------------------------------------------------
(* Objects, rows and what they are looked up by. *)
LEMMA ObjectFacts ==
  /\ NoRow \notin Object /\ 0 \notin Ids /\ NoName \notin Str
  /\ \A o \in Object : o.id \in Ids /\ o.name \in Names /\ o # NoRow /\ Identifier(o) \in Str
  /\ \A n \in Names : n # NoName => n \in Str
<1>1. 0 \notin Ids /\ NoName \notin Str /\ Decimal \in [Ids -> Str]
  BY IdAssumption
<1>2. \A n \in Names : n # NoName => n \in Str
  BY CallsAssumption
<1>3. \A o \in Object : o.id \in Ids /\ o.name \in Names
  BY DEF Object
<1>4. \A o \in Object : o # NoRow
  <2>1. NoRow.id = 0
    BY DEF NoRow
  <2>2. QED
    BY <1>1, <1>3, <2>1
<1>5. \A o \in Object : Identifier(o) \in Str
  BY <1>1, <1>2, <1>3 DEF Identifier
<1>6. QED
  BY <1>1, <1>2, <1>3, <1>4, <1>5

LEMMA TableFacts ==
  ASSUME NEW t \in Table
  PROVE  /\ t.row \in [Ids -> Object \cup {NoRow}] /\ t.byName \in [Str -> Ids \cup {0}]
         /\ \A i \in Ids : t.row[i] \in Object \cup {NoRow}
         /\ \A s \in Str : t.byName[s] \in Ids \cup {0}
BY DEF Table

LEMMA DeleteTable ==
  ASSUME NEW t \in Table, Whole(t), NEW i \in Ids
  PROVE  /\ memdbDelete(t, i) \in Table /\ Whole(memdbDelete(t, i))
         /\ GetAll(memdbDelete(t, i)) = GetAll(t) \ {t.row[i]}
         /\ Indexed(t) => Indexed(memdbDelete(t, i))
<1> DEFINE u == memdbDelete(t, i)
<1>1. u.row = [t.row EXCEPT ![i] = NoRow]
  BY DEF memdbDelete
<1>2. u.byName = [s \in Str |-> IF s = t.row[i].name THEN 0 ELSE t.byName[s]]
  BY DEF memdbDelete
<1>3. u \in Table
  BY TableFacts DEF memdbDelete, Table
<1> HIDE DEF u
<1>4. /\ u.row[i] = NoRow /\ \A j \in Ids : j # i => u.row[j] = t.row[j]
      /\ \A s \in Str : u.byName[s] = IF s = t.row[i].name THEN 0 ELSE t.byName[s]
  BY <1>1, <1>2, TableFacts
<1>5. Whole(u)
  <2>1. ASSUME NEW s \in Str, u.byName[s] # 0 PROVE u.row[u.byName[s]].name = s
    <3>1. s # t.row[i].name /\ u.byName[s] = t.byName[s]
      BY <1>4, <2>1
    <3>2. t.byName[s] \in Ids /\ t.row[t.byName[s]].name = s
      BY <2>1, <3>1, TableFacts DEF Whole
    <3>3. t.byName[s] # i
      BY <3>1, <3>2
    <3>4. QED
      BY <1>4, <3>1, <3>2, <3>3
  <2>2. QED
    BY <1>4, <2>1 DEF Whole
<1>6. GetAll(u) = GetAll(t) \ {t.row[i]}
  <2>1. ASSUME NEW j \in Ids, j # i, t.row[j] # NoRow PROVE t.row[j] # t.row[i]
    <3>1. t.row[j].id = j /\ (t.row[i] # NoRow => t.row[i].id = i)
      BY <2>1 DEF Whole
    <3>2. QED
      BY <2>1, <3>1
  <2>2. QED
    BY <1>4, <2>1 DEF GetAll
<1>7. ASSUME Indexed(t) PROVE Indexed(u)
  <2>1. SUFFICES ASSUME NEW j \in Ids, u.row[j] # NoRow, u.row[j].name # NoName
                 PROVE  u.byName[u.row[j].name] = j
    BY DEF Indexed
  <2>2. j # i /\ u.row[j] = t.row[j]
    BY <1>4, <2>1
  <2>3. t.row[j] \in Object /\ t.row[j].name \in Str
    BY <2>1, <2>2, TableFacts, ObjectFacts
  <2>4. t.byName[t.row[j].name] = j
    BY <1>7, <2>1, <2>2 DEF Indexed
  <2>5. t.row[j].name # t.row[i].name
    <3>1. CASE t.row[i] = NoRow
      BY <2>3, <3>1, ObjectFacts DEF NoRow
    <3>2. CASE t.row[i] # NoRow
      BY <1>7, <2>1, <2>2, <2>4, <3>2 DEF Indexed
    <3>3. QED
      BY <3>1, <3>2
  <2>6. QED
    BY <1>4, <2>2, <2>3, <2>4, <2>5
<1>8. QED
  BY <1>3, <1>5, <1>6, <1>7 DEF u

LEMMA InsertTable ==
  ASSUME NEW t \in Table, Whole(t), NEW o \in Object
  PROVE  /\ memdbInsert(t, o) \in Table /\ Whole(memdbInsert(t, o))
         /\ GetAll(memdbInsert(t, o)) = (GetAll(t) \ {t.row[o.id]}) \cup {o}
         /\ Indexed(t) /\ t.row[o.id] = NoRow
              /\ (\A p \in GetAll(t) : o.name # NoName => p.name # o.name)
            => Indexed(memdbInsert(t, o))
<1> DEFINE u == memdbInsert(t, o)
<1>1. u.row = [t.row EXCEPT ![o.id] = o]
  BY DEF memdbInsert
<1>2. u.byName = [s \in Str |-> IF s = o.name THEN o.id
                                ELSE IF s = t.row[o.id].name THEN 0 ELSE t.byName[s]]
  BY DEF memdbInsert
<1>3. u \in Table
  BY TableFacts, ObjectFacts DEF memdbInsert, Table
<1> HIDE DEF u
<1>4. /\ o.id \in Ids /\ u.row[o.id] = o /\ \A j \in Ids : j # o.id => u.row[j] = t.row[j]
      /\ \A s \in Str : u.byName[s] = IF s = o.name THEN o.id
                                      ELSE IF s = t.row[o.id].name THEN 0 ELSE t.byName[s]
  BY <1>1, <1>2, TableFacts, ObjectFacts
<1>5. Whole(u)
  <2>1. ASSUME NEW s \in Str, u.byName[s] # 0 PROVE u.row[u.byName[s]].name = s
    <3>1. CASE s = o.name
      BY <1>4, <3>1
    <3>2. CASE s # o.name
      <4>1. s # t.row[o.id].name /\ u.byName[s] = t.byName[s]
        BY <1>4, <2>1, <3>2
      <4>2. t.byName[s] \in Ids /\ t.row[t.byName[s]].name = s
        BY <2>1, <4>1, TableFacts DEF Whole
      <4>3. t.byName[s] # o.id
        BY <4>1, <4>2
      <4>4. QED
        BY <1>4, <4>1, <4>2, <4>3
    <3>3. QED
      BY <3>1, <3>2
  <2>2. QED
    BY <1>4, <2>1 DEF Whole
<1>6. GetAll(u) = (GetAll(t) \ {t.row[o.id]}) \cup {o}
  <2>1. ASSUME NEW j \in Ids, j # o.id, t.row[j] # NoRow PROVE t.row[j] # t.row[o.id]
    <3>1. t.row[j].id = j /\ (t.row[o.id] # NoRow => t.row[o.id].id = o.id)
      BY <1>4, <2>1 DEF Whole
    <3>2. QED
      BY <2>1, <3>1
  <2>2. QED
    BY <1>4, <2>1, ObjectFacts DEF GetAll
<1>7. ASSUME Indexed(t), t.row[o.id] = NoRow,
             \A p \in GetAll(t) : o.name # NoName => p.name # o.name
      PROVE  Indexed(u)
  <2>1. SUFFICES ASSUME NEW j \in Ids, u.row[j] # NoRow, u.row[j].name # NoName
                 PROVE  u.byName[u.row[j].name] = j
    BY DEF Indexed
  <2>2. CASE j = o.id
    BY <1>4, <2>1, <2>2, ObjectFacts
  <2>3. CASE j # o.id
    <3>1. u.row[j] = t.row[j] /\ t.row[j] \in Object /\ t.row[j].name \in Str
      BY <1>4, <2>1, <2>3, TableFacts, ObjectFacts
    <3>2. t.byName[t.row[j].name] = j
      BY <1>7, <2>1, <3>1 DEF Indexed
    <3>3. t.row[j].name # t.row[o.id].name
      BY <1>7, <3>1, ObjectFacts DEF NoRow
    <3>4. t.row[j].name # o.name
      BY <1>7, <2>1, <3>1 DEF GetAll
    <3>5. QED
      BY <1>4, <3>1, <3>2, <3>3, <3>4
  <2>4. QED
    BY <2>2, <2>3
<1>8. QED
  BY <1>3, <1>5, <1>6, <1>7 DEF u

-----------------------------------------------------------------------------
(* What the three operations do to a table of named objects. *)
Op(t, op, o) ==
  CASE op = "Create" -> Add(t, o)
    [] op = "Update" -> Update(t, o)
    [] op = "Delete" -> Delete(t, Identifier(o))

Ops == {"Create", "Update", "Delete"}

LEMMA LookupFacts ==
  ASSUME NEW t \in Table, Whole(t), NEW s \in Str
  PROVE  multiIndexLookup(t, s) \in Ids \cup {0}
<1> DEFINE byId == {i \in Ids : Decimal[i] = s /\ t.row[i] # NoRow}
<1>1. byId # {} => (CHOOSE i \in byId : TRUE) \in Ids
  OBVIOUS
<1>2. t.byName[s] \in Ids \cup {0}
  BY TableFacts
<1>3. QED
  BY <1>1, <1>2 DEF multiIndexLookup

LEMMA OpWhole ==
  ASSUME NEW t \in Table, Whole(t), NEW op \in Ops, NEW o \in Object
  PROVE  Op(t, op, o).t \in Table /\ Whole(Op(t, op, o).t)
<1>1. Decimal[o.id] \in Str /\ Identifier(o) \in Str
  BY ObjectFacts, IdAssumption
<1>2. CASE op = "Create"
  <2>1. Op(t, op, o).t \in {t, memdbInsert(t, o)}
    BY <1>2 DEF Op, Add, Result
  <2>2. QED
    BY <2>1, InsertTable
<1>3. CASE op = "Update"
  <2> DEFINE i == multiIndexLookup(t, Decimal[o.id])
  <2>1. i \in Ids \cup {0}
    BY <1>1, LookupFacts
  <2>2. /\ Op(t, op, o).t \in {t, memdbInsert(memdbDelete(t, i), o)}
        /\ i = 0 => Op(t, op, o).t = t
    BY <1>3 DEF Op, Update, Result
  <2> HIDE DEF i
  <2>3. QED
    BY <2>1, <2>2, DeleteTable, InsertTable
<1>4. CASE op = "Delete"
  <2> DEFINE i == multiIndexLookup(t, Identifier(o))
  <2>1. i \in Ids \cup {0}
    BY <1>1, LookupFacts
  <2>2. Op(t, op, o).t \in {t, memdbDelete(t, i)} /\ (i = 0 => Op(t, op, o).t = t)
    BY <1>4 DEF Op, Delete, Result
  <2> HIDE DEF i
  <2>3. QED
    BY <2>1, <2>2, DeleteTable
<1>5. QED
  BY <1>2, <1>3, <1>4 DEF Ops

(* With names that are no ids, a search by id finds the row of that id, *)
(* and a search by name what the name index has.                        *)
LEMMA LookupId ==
  ASSUME NamesAreNoIds, NEW t \in Table, Whole(t), NEW i \in Ids
  PROVE  multiIndexLookup(t, Decimal[i]) = IF t.row[i] # NoRow THEN i ELSE 0
<1> DEFINE s == Decimal[i]
           byId == {j \in Ids : Decimal[j] = s /\ t.row[j] # NoRow}
<1>1. s \in Str /\ s \notin Names
  BY IdAssumption DEF NamesAreNoIds
<1>2. t.byName[s] = 0
  <2>1. SUFFICES ASSUME t.byName[s] # 0 PROVE FALSE
    OBVIOUS
  <2>2. t.byName[s] \in Ids /\ t.row[t.byName[s]].name = s
    BY <1>1, <2>1, TableFacts DEF Whole
  <2>3. t.row[t.byName[s]] # NoRow
    BY <1>1, <2>2, ObjectFacts DEF NoRow
  <2>4. t.row[t.byName[s]] \in Object
    BY <2>2, <2>3, TableFacts
  <2>5. QED
    BY <1>1, <2>2, <2>4, ObjectFacts
<1>3. byId = IF t.row[i] # NoRow THEN {i} ELSE {}
  BY IdAssumption
<1>4. multiIndexLookup(t, s) = IF byId # {} THEN CHOOSE j \in byId : TRUE ELSE 0
  BY <1>2 DEF multiIndexLookup
<1>5. QED
  BY <1>3, <1>4

LEMMA LookupName ==
  ASSUME NamesAreNoIds, NEW t \in Table, NEW n \in Names, n # NoName
  PROVE  multiIndexLookup(t, n) = t.byName[n]
<1>1. {i \in Ids : Decimal[i] = n /\ t.row[i] # NoRow} = {}
  BY DEF NamesAreNoIds
<1>2. n \in Str /\ t.byName[n] \in Ids \cup {0}
  BY ObjectFacts, TableFacts
<1>3. QED
  BY <1>1 DEF multiIndexLookup

(* An object of a table whose names do not repeat is found, and it alone. *)
LEMMA LookupObject ==
  ASSUME NamesAreNoIds, NEW t \in Table, Whole(t), Indexed(t), NEW o \in GetAll(t)
  PROVE  /\ o \in Object /\ t.row[o.id] = o
         /\ multiIndexLookup(t, Identifier(o)) = o.id
<1>1. PICK i \in Ids : o = t.row[i] /\ o # NoRow
  BY DEF GetAll
<1>2. o \in Object /\ o.id = i
  BY <1>1, TableFacts DEF Whole
<1>3. CASE o.name # NoName
  BY <1>1, <1>2, <1>3, LookupName, ObjectFacts DEF Indexed, Identifier
<1>4. CASE o.name = NoName
  BY <1>1, <1>2, <1>4, LookupId DEF Identifier
<1>5. QED
  BY <1>1, <1>2, <1>3, <1>4

-----------------------------------------------------------------------------
(* The change makes no two objects of one name, and is about one that is *)
(* there or, for a creation, is not.                                     *)
Fits(t, op, o) ==
  /\ op = "Create" => t.row[o.id] = NoRow
  /\ op = "Update" => t.row[o.id] # NoRow
  /\ op = "Delete" => o \in GetAll(t)
  /\ op # "Delete" /\ o.name # NoName => \A p \in GetAll(t) : p.id # o.id => p.name # o.name

LEMMA OpDone ==
  ASSUME NamesAreNoIds, NEW t \in Table, Whole(t), NEW op \in Ops, NEW o \in Object,
         op = "Delete" => Indexed(t), Fits(t, op, o)
  PROVE  /\ Op(t, op, o).err = "nil"
         /\ op = "Create" => GetAll(Op(t, op, o).t) = GetAll(t) \cup {o}
         /\ op = "Update" => GetAll(Op(t, op, o).t) = (GetAll(t) \ {t.row[o.id]}) \cup {o}
         /\ op = "Delete" => GetAll(Op(t, op, o).t) = GetAll(t) \ {o}
         /\ Indexed(t) => Indexed(Op(t, op, o).t)
<1>1. o.id \in Ids /\ o.id # 0
  BY ObjectFacts
<1>2. \A p \in GetAll(t) : p.id \in Ids /\ t.row[p.id] = p /\ p # NoRow
  BY TableFacts DEF GetAll, Whole
<1>3. CASE op = "Create"
  <2>1. Op(t, op, o) = Result(memdbInsert(t, o), "nil")
    BY <1>1, <1>3, LookupId DEF Op, Add, Fits
  <2>2. GetAll(t) \ {t.row[o.id]} = GetAll(t)
    BY <1>3 DEF Fits, GetAll
  <2>3. \A p \in GetAll(t) : o.name # NoName => p.name # o.name
    BY <1>2, <1>3 DEF Fits
  <2>4. QED
    BY <1>3, <2>1, <2>2, <2>3, InsertTable DEF Result, Fits
<1>4. CASE op = "Update"
  <2> DEFINE u == memdbDelete(t, o.id)
  <2>1. Op(t, op, o) = Result(memdbInsert(u, o), "nil")
    BY <1>1, <1>4, LookupId DEF Op, Update, Fits
  <2>2. u.row[o.id] = NoRow
    BY <1>1, TableFacts DEF memdbDelete
  <2>3. /\ u \in Table /\ Whole(u) /\ GetAll(u) = GetAll(t) \ {t.row[o.id]}
        /\ Indexed(t) => Indexed(u)
    BY <1>1, DeleteTable
  <2> HIDE DEF u
  <2>4. \A p \in GetAll(u) : o.name # NoName => p.name # o.name
    BY <1>2, <1>4, <2>3 DEF Fits
  <2>5. GetAll(u) \ {u.row[o.id]} = GetAll(u)
    BY <2>2 DEF GetAll
  <2>6. QED
    BY <1>4, <2>1, <2>2, <2>3, <2>4, <2>5, InsertTable DEF Result
<1>5. CASE op = "Delete"
  <2>1. o \in GetAll(t) /\ t.row[o.id] = o
    BY <1>2, <1>5 DEF Fits
  <2>2. Op(t, op, o) = Result(memdbDelete(t, o.id), "nil")
    BY <1>1, <1>5, <2>1, LookupObject DEF Op, Delete
  <2>3. QED
    BY <1>1, <1>5, <2>1, <2>2, DeleteTable DEF Result
<1>6. QED
  BY <1>3, <1>4, <1>5 DEF Ops

(* What the diff finds fits, where names do not repeat; where they do, a *)
(* creation or an update still has its row free or taken.                *)
LEMMA FoundFits ==
  ASSUME NamesAreNoIds, Shape, NEW k \in Named, NEW op \in Ops, NEW o \in Object, Found(k, op, o)
  PROVE  /\ op = "Create" => db[k].row[o.id] = NoRow
         /\ op = "Update" => db[k].row[o.id] # NoRow
         /\ Indexed(db[k]) => Fits(db[k], op, o)
<1> DEFINE t == db[k]
           i == multiIndexLookup(t, Identifier(o))
<1>1. t \in Table /\ Whole(t)
  BY DEF Shape, Named
<1> HIDE DEF t
<1>2. o.id \in Ids /\ o.name \in Names /\ Identifier(o) \in Str /\ i \in Ids \cup {0}
  BY <1>1, ObjectFacts, LookupFacts
<1>3. \A p \in GetAll(t) : p.id \in Ids /\ t.row[p.id] = p /\ p # NoRow /\ p \in Object
  BY <1>1, TableFacts DEF GetAll, Whole
<1>4. CASE op = "Create"
  <2>1. Get(t, Identifier(o)) = NoRow /\ t.row[o.id] = NoRow
    BY <1>4 DEF Found, t
  <2>2. ASSUME Indexed(t), o.name # NoName, NEW p \in GetAll(t), p.name = o.name PROVE FALSE
    <3>1. multiIndexLookup(t, Identifier(p)) = p.id /\ Identifier(p) = Identifier(o)
      BY <1>1, <2>2, LookupObject DEF Identifier
    <3>2. Get(t, Identifier(o)) = p
      BY <1>2, <1>3, <2>2, <3>1, ObjectFacts DEF Get
    <3>3. QED
      BY <1>3, <2>1, <2>2, <3>2
  <2>3. QED
    BY <1>4, <2>1, <2>2 DEF Fits, t
<1>5. CASE op = "Update"
  <2>1. Get(t, Identifier(o)) # NoRow /\ o.id = Get(t, Identifier(o)).id
    BY <1>5 DEF Found, t
  <2>2. i \in Ids /\ t.row[i] # NoRow /\ o.id = t.row[i].id
    BY <1>2, <2>1 DEF Get
  <2>3. o.id = i
    BY <1>1, <2>2 DEF Whole
  <2> HIDE DEF i
  <2>4. ASSUME Indexed(t), o.name # NoName, NEW p \in GetAll(t), p.name = o.name PROVE p.id = o.id
    <3>1. multiIndexLookup(t, Identifier(p)) = p.id /\ Identifier(p) = Identifier(o)
      BY <1>1, <2>4, LookupObject DEF Identifier
    <3>2. QED
      BY <2>3, <3>1 DEF i
  <2>5. QED
    BY <1>5, <2>2, <2>3, <2>4 DEF Fits, t
<1>6. CASE op = "Delete"
  BY <1>6 DEF Found, Fits
<1>7. QED
  BY <1>4, <1>5, <1>6 DEF Ops

-----------------------------------------------------------------------------
(* The collections, and the post actions on them, differ in their table alone. *)
LEMMA PostNamed ==
  ASSUME NEW k \in Named, NEW op \in Ops, NEW o
  PROVE  /\ PostProcess(db, k, op, o).s = [db EXCEPT ![k] = Op(db[k], op, o).t]
         /\ PostProcess(db, k, op, o).err = Op(db[k], op, o).err
         /\ LoadAdd(k, o).s = [db EXCEPT ![k] = Op(db[k], "Create", o).t]
         /\ LoadAdd(k, o).err = Op(db[k], "Create", o).err
<1> USE DEF PostProcess, LoadAdd, In, Op
<1>1. CASE k = "api"
  BY <1>1 DEF PostAPI, AddAPI, UpdateAPI, DeleteAPI, Ops
<1>2. CASE k = "routing"
  BY <1>2 DEF PostRouting, AddRouting, UpdateRouting, DeleteRouting, Ops
<1>3. CASE k = "cluster"
  BY <1>3 DEF PostCluster, AddCluster, UpdateCluster, DeleteCluster, Ops
<1>4. CASE k = "server"
  BY <1>4 DEF PostServer, AddServer, UpdateServer, DeleteServer, Ops
<1>5. QED
  BY <1>1, <1>2, <1>3, <1>4 DEF Named

(* A step of a named kind, and one of the binds. *)
LEMMA LoadIs ==
  ASSUME Load
  PROVE  \E k \in Named, o \in Object :
           LET twin == {p \in GetAll(db[k]) : p.name = o.name /\ o.name # NoName}
           IN  /\ db[k].row[o.id] = NoRow
               /\ db' = [db EXCEPT ![k] = Op(db[k], "Create", o).t]
               /\ ret' = Called(k, "Create", o, Op(db[k], "Create", o).err)
               /\ phase' \in {"load", "failed"}
               /\ repeated' = IF twin # {} THEN repeated \cup {<<k, o.name>>} ELSE repeated
<1>1. PICK k \in Named, o \in Object :
        /\ db[k].row[o.id] = NoRow
        /\ db' = LoadAdd(k, o).s
        /\ ret' = Called(k, "Create", o, LoadAdd(k, o).err)
        /\ phase' \in {"load", "failed"}
        /\ repeated' = IF {p \in GetAll(db[k]) : p.name = o.name /\ o.name # NoName} # {}
                       THEN repeated \cup {<<k, o.name>>} ELSE repeated
  BY DEF Load
<1>2. /\ LoadAdd(k, o).s = [db EXCEPT ![k] = Op(db[k], "Create", o).t]
      /\ LoadAdd(k, o).err = Op(db[k], "Create", o).err
  BY PostNamed DEF Ops
<1>3. QED
  BY <1>1, <1>2

LEMMA PostIs ==
  ASSUME Post
  PROVE  \E k \in Named, op \in Ops, o \in Object :
           /\ Found(k, op, o)
           /\ db' = [db EXCEPT ![k] = Op(db[k], op, o).t]
           /\ ret' = Called(k, op, o, Op(db[k], op, o).err)
           /\ UNCHANGED <<phase, repeated>>
BY PostNamed DEF Post, Ops

LEMMA BindIs ==
  ASSUME Shape, LoadBind \/ PostBinds
  PROVE  /\ \E b \in Bind :
              \/ /\ b \notin db.bind /\ db' = [db EXCEPT !.bind = @ \cup {b}]
                 /\ ret' = Called("bind", "Create", b, "nil")
              \/ /\ b \in db.bind /\ db' = [db EXCEPT !.bind = @ \ {b}]
                 /\ ret' = Called("bind", "Delete", b, "nil")
         /\ UNCHANGED <<phase, repeated>>
<1>1. \A b \in Bind : b.cluster # 0 /\ b.server # 0
  BY ObjectFacts DEF Bind
<1>2. CASE LoadBind
  BY <1>1, <1>2 DEF LoadBind, AddBind
<1>3. CASE PostBinds
  BY <1>1, <1>3 DEF PostBinds, PostProcess, PostBind, AddBind, DeleteBind, HasBind, GetAllBinds
<1>4. QED
  BY <1>2, <1>3

-----------------------------------------------------------------------------
LEMMA InitInv == Init => IInv
<1>1. ASSUME Init PROVE IInv
  <2>1. EmptyTable \in Table
    BY DEF EmptyTable, Table
  <2>2. Whole(EmptyTable) /\ Indexed(EmptyTable)
    BY DEF EmptyTable, Whole, Indexed
  <2>3. db \in [api : Table, routing : Table, cluster : Table, server : Table, bind : SUBSET Bind]
    BY <1>1, <2>1 DEF Init, NewManbaState
  <2>4. \A k \in Named : db[k] = EmptyTable
    BY <1>1 DEF Init, NewManbaState, Named
  <2>5. Shape
    BY <1>1, <2>2, <2>3, <2>4 DEF Init, Shape
  <2>6. Blamed
    BY <1>1 DEF Init, Called, Blamed
  <2>7. QED
    BY <2>2, <2>4, <2>5, <2>6 DEF IInv
<1>2. QED
  BY <1>1

(* What replaces a table leaves the others alone. *)
LEMMA TableStep ==
  ASSUME Shape, NEW k \in Named, NEW u \in Table, Whole(u), db' = [db EXCEPT ![k] = u]
  PROVE  /\ db' \in [api : Table, routing : Table, cluster : Table, server : Table, bind : SUBSET Bind]
         /\ db'[k] = u /\ db'.bind = db.bind /\ \A j \in Named \ {k} : db'[j] = db[j]
         /\ \A j \in Named : Whole(db'[j])
<1>1. k \in {"api", "routing", "cluster", "server"}
  BY DEF Named
<1>2. /\ db' \in [api : Table, routing : Table, cluster : Table, server : Table, bind : SUBSET Bind]
      /\ db'[k] = u /\ db'.bind = db.bind /\ \A j \in Named \ {k} : db'[j] = db[j]
  BY <1>1 DEF Shape, Named
<1>3. QED
  BY <1>2 DEF Shape

LEMMA BindStep ==
  ASSUME Shape, LoadBind \/ PostBinds
  PROVE  Shape' /\ UNCHANGED repeated /\ ret'.err = "nil" /\ \A j \in Named : db'[j] = db[j]
<1>1. PICK b \in Bind :
        /\ db' = [db EXCEPT !.bind = @ \cup {b}] \/ db' = [db EXCEPT !.bind = @ \ {b}]
        /\ ret'.err = "nil"
  BY BindIs DEF Called
<1>2. /\ db' \in [api : Table, routing : Table, cluster : Table, server : Table, bind : SUBSET Bind]
      /\ \A j \in Named : db'[j] = db[j]
  BY <1>1 DEF Shape, Named
<1>3. UNCHANGED <<phase, repeated>>
  BY BindIs
<1>4. QED
  BY <1>1, <1>2, <1>3 DEF Shape

LEMMA NextShape ==
  ASSUME Shape, [Next]_vars
  PROVE  Shape'
<1>1. ASSUME NEW k \in Named, NEW op \in Ops, NEW o \in Object,
             db' = [db EXCEPT ![k] = Op(db[k], op, o).t]
      PROVE  /\ db' \in [api : Table, routing : Table, cluster : Table, server : Table, bind : SUBSET Bind]
             /\ \A j \in Named : Whole(db'[j])
  <2>1. db[k] \in Table /\ Whole(db[k])
    BY DEF Shape, Named
  <2>2. Op(db[k], op, o).t \in Table /\ Whole(Op(db[k], op, o).t)
    BY <2>1, OpWhole
  <2>3. QED
    BY <1>1, <2>2, TableStep
<1>2. CASE Load
  <2>1. PICK k \in Named, o \in Object :
          /\ db' = [db EXCEPT ![k] = Op(db[k], "Create", o).t]
          /\ phase' \in {"load", "failed"}
          /\ repeated' \in {repeated, repeated \cup {<<k, o.name>>}}
    BY <1>2, LoadIs
  <2>2. <<k, o.name>> \in Named \X Names
    BY ObjectFacts
  <2>3. repeated' \subseteq Named \X Names
    BY <2>1, <2>2 DEF Shape
  <2>4. QED
    BY <1>1, <2>1, <2>3 DEF Shape, Ops
<1>3. CASE Post
  BY <1>1, <1>3, PostIs DEF Shape
<1>4. CASE LoadBind \/ PostBinds
  BY <1>4, BindStep
<1>5. CASE Loaded \/ UNCHANGED vars
  BY <1>5 DEF Loaded, vars, Shape
<1>6. QED
  BY <1>2, <1>3, <1>4, <1>5 DEF Next

(***************************************************************************)
(* The tables of the in-memory state stay whole under any sequence of      *)
(* loads and post actions, whatever names Manba repeats and even when a    *)
(* name reads as an id: rows are at their ids and the name index leads to  *)
(* rows of that name.                                                      *)
(***************************************************************************)
THEOREM TablesTypeCorrect == Spec => []TypeOK
<1>1. Init => Shape
  BY InitInv DEF IInv
<1>2. Shape /\ [Next]_vars => Shape'
  BY NextShape
<1>3. Shape => TypeOK
  <2>1. ASSUME Shape, NEW k \in Named PROVE db[k] \in Table
    BY <2>1 DEF Shape, Named
  <2>2. QED
    BY <2>1, TableFacts DEF Shape, Whole, TypeOK
<1>4. QED
  BY <1>1, <1>2, <1>3, PTL DEF Spec

-----------------------------------------------------------------------------
(* A change of a named kind succeeds, and keeps the names apart, where none *)
(* repeats.                                                                 *)
LEMMA LoadFits ==
  ASSUME NamesAreNoIds, Shape, Load
  PROVE  \E k \in Named, o \in Object :
           /\ db' = [db EXCEPT ![k] = Op(db[k], "Create", o).t]
           /\ ret' = Called(k, "Create", o, Op(db[k], "Create", o).err)
           /\ repeated \subseteq repeated'
           /\ NoRepeat(k)' => Fits(db[k], "Create", o)
<1>1. PICK k \in Named, o \in Object :
        /\ db[k].row[o.id] = NoRow
        /\ db' = [db EXCEPT ![k] = Op(db[k], "Create", o).t]
        /\ ret' = Called(k, "Create", o, Op(db[k], "Create", o).err)
        /\ repeated' = IF {p \in GetAll(db[k]) : p.name = o.name /\ o.name # NoName} # {}
                       THEN repeated \cup {<<k, o.name>>} ELSE repeated
  BY LoadIs
<1>2. ASSUME NoRepeat(k)' PROVE Fits(db[k], "Create", o)
  <2>1. o.name \in Names
    BY ObjectFacts
  <2>2. {p \in GetAll(db[k]) : p.name = o.name /\ o.name # NoName} = {}
    BY <1>1, <1>2, <2>1 DEF NoRepeat
  <2>3. QED
    BY <1>1, <2>2 DEF Fits
<1>3. QED
  BY <1>1, <1>2

LEMMA NamedStep ==
  ASSUME NamesAreNoIds, Shape, \A j \in Named : NoRepeat(j) => Indexed(db[j]),
         NEW k \in Named, NEW op \in Ops, NEW o \in Object,
         db' = [db EXCEPT ![k] = Op(db[k], op, o).t],
         ret' = Called(k, op, o, Op(db[k], op, o).err),
         repeated \subseteq repeated',
         NoRepeat(k)' => Fits(db[k], op, o)
  PROVE  (\A j \in Named : NoRepeat(j) => Indexed(db[j]))' /\ Blamed'
<1>1. db[k] \in Table /\ Whole(db[k])
  BY DEF Shape, Named
<1>2. \A j \in Named : NoRepeat(j)' => NoRepeat(j)
  BY DEF NoRepeat
<1>3. ASSUME NoRepeat(k)' PROVE Op(db[k], op, o).err = "nil" /\ Indexed(Op(db[k], op, o).t)
  BY <1>1, <1>2, <1>3, OpDone
<1>4. /\ Op(db[k], op, o).t \in Table /\ Whole(Op(db[k], op, o).t)
  BY <1>1, OpWhole
<1>5. db'[k] = Op(db[k], op, o).t /\ \A j \in Named \ {k} : db'[j] = db[j]
  BY <1>4, TableStep
<1>6. ASSUME NEW j \in Named, NoRepeat(j)' PROVE Indexed(db[j])'
  <2>1. CASE j = k
    BY <1>3, <1>5, <1>6, <2>1
  <2>2. CASE j # k
    BY <1>2, <1>5, <1>6, <2>2
  <2>3. QED
    BY <2>1, <2>2
<1>7. Blamed'
  <2>1. ret'.kind = k /\ ret'.err = Op(db[k], op, o).err
    BY DEF Called
  <2>2. QED
    BY <1>3, <2>1 DEF Blamed, NoRepeat
<1>8. QED
  BY <1>6, <1>7

LEMMA NextInv ==
  ASSUME NamesAreNoIds, IInv, [Next]_vars
  PROVE  IInv'
<1> USE DEF IInv
<1>1. Shape'
  BY NextShape
<1>2. CASE Load
  BY <1>1, <1>2, LoadFits, NamedStep DEF Ops
<1>3. CASE Post
  <2>1. PICK k \in Named, op \in Ops, o \in Object :
          /\ Found(k, op, o)
          /\ db' = [db EXCEPT ![k] = Op(db[k], op, o).t]
          /\ ret' = Called(k, op, o, Op(db[k], op, o).err)
          /\ UNCHANGED repeated
    BY <1>3, PostIs
  <2>2. NoRepeat(k)' => Fits(db[k], op, o)
    BY <2>1, FoundFits DEF NoRepeat
  <2>3. QED
    BY <1>1, <2>1, <2>2, NamedStep
<1>4. CASE LoadBind \/ PostBinds
  BY <1>1, <1>4, BindStep DEF NoRepeat, Blamed
<1>5. CASE Loaded \/ UNCHANGED vars
  BY <1>1, <1>5 DEF Loaded, vars, NoRepeat, Blamed
<1>6. QED
  BY <1>2, <1>3, <1>4, <1>5 DEF Next

LEMMA Invariant ==
  ASSUME NamesAreNoIds
  PROVE  Spec => []IInv
BY InitInv, NextInv, PTL DEF Spec

(***************************************************************************)
(* Where names are no ids, every object of a kind without repeated names   *)
(* is found under its identifier after any sequence of loads and post      *)
(* actions: what the diff's lookups rest on.                               *)
(***************************************************************************)
THEOREM IdentifiersFind ==
  ASSUME NamesAreNoIds
  PROVE  Spec => []FoundByIdentifier
<1>1. ASSUME IInv PROVE FoundByIdentifier
  <2>1. SUFFICES ASSUME NEW k \in Named, NoRepeat(k), NEW o \in GetAll(db[k])
                 PROVE  Get(db[k], Identifier(o)) = o
    BY DEF FoundByIdentifier, NoRepeat
  <2>2. db[k] \in Table /\ Whole(db[k]) /\ Indexed(db[k])
    BY <1>1, <2>1 DEF IInv, Shape, Named
  <2>3. o \in Object /\ db[k].row[o.id] = o /\ multiIndexLookup(db[k], Identifier(o)) = o.id
    BY <2>1, <2>2, LookupObject
  <2>4. QED
    BY <2>3, ObjectFacts DEF Get
<1>2. QED
  BY <1>1, Invariant, PTL

(***************************************************************************)
(* Where names are no ids, a post action fails only for a kind of which    *)
(* Manba listed two objects of one name.                                   *)
(***************************************************************************)
THEOREM PostErrorsExplained ==
  ASSUME NamesAreNoIds
  PROVE  Spec => []PostErrorBlamesRepeat
<1>1. IInv => PostErrorBlamesRepeat
  BY DEF IInv, Blamed, PostErrorBlamesRepeat
<1>2. QED
  BY <1>1, Invariant, PTL

-----------------------------------------------------------------------------
(* The set of objects that a state stands for. *)
LEMMA Members ==
  ASSUME NEW s
  PROVE  /\ \A k, o : <<k, o>> \in Contents(s) <=> k \in Named \cup {"bind"} /\ o \in Rows(s, k)
         /\ \A p \in Contents(s) : p = <<p[1], p[2]>>
BY DEF Contents

(* A state of which the objects of one kind have changed. *)
LEMMA ContentsMembers ==
  ASSUME NEW s, NEW u, NEW k \in Named \cup {"bind"},
         \A j \in (Named \cup {"bind"}) \ {k} : Rows(u, j) = Rows(s, j),
         NEW p
  PROVE  p \in Contents(u) <=> \/ (p \in Contents(s) /\ p[1] # k)
                               \/ (p = <<k, p[2]>> /\ p[2] \in Rows(u, k))
<1>1. ASSUME p \in Contents(u)
      PROVE  (p \in Contents(s) /\ p[1] # k) \/ (p = <<k, p[2]>> /\ p[2] \in Rows(u, k))
  <2>1. p = <<p[1], p[2]>> /\ p[1] \in Named \cup {"bind"} /\ p[2] \in Rows(u, p[1])
    BY <1>1, Members
  <2>2. CASE p[1] = k
    BY <2>1, <2>2
  <2>3. CASE p[1] # k
    <3>1. p[2] \in Rows(s, p[1])
      BY <2>1, <2>3
    <3> DEFINE q == <<p[1], p[2]>>
    <3>2. q \in Contents(s) /\ p = q
      BY <2>1, <3>1, Members
    <3> HIDE DEF q
    <3>3. p \in Contents(s)
      BY ONLY <3>2
    <3>4. QED
      BY ONLY <2>3, <3>3
  <2>4. QED
    BY <2>2, <2>3
<1>2. ASSUME p \in Contents(s), p[1] # k PROVE p \in Contents(u)
  <2>1. p = <<p[1], p[2]>> /\ p[1] \in Named \cup {"bind"} /\ p[2] \in Rows(s, p[1])
    BY <1>2, Members
  <2>2. QED
    BY <1>2, <2>1, Members
<1>3. ASSUME p = <<k, p[2]>>, p[2] \in Rows(u, k) PROVE p \in Contents(u)
  BY <1>3, Members
<1>4. QED
  BY <1>1, <1>2, <1>3

LEMMA ContentsAdd ==
  ASSUME NEW s, NEW u, NEW k \in Named \cup {"bind"}, NEW o,
         \A j \in (Named \cup {"bind"}) \ {k} : Rows(u, j) = Rows(s, j),
         Rows(u, k) = Rows(s, k) \cup {o}
  PROVE  Contents(u) = Contents(s) \cup {<<k, o>>}
<1>1. ASSUME NEW p PROVE p \in Contents(u) <=> p \in Contents(s) \/ p = <<k, o>>
  <2> DEFINE isK == p = <<k, p[2]>>
             isO == p = <<k, o>>
  <2>1. p \in Contents(u) <=> (p \in Contents(s) /\ p[1] # k) \/ (isK /\ p[2] \in Rows(u, k))
    BY ContentsMembers
  <2>2. p \in Contents(s) <=> (p \in Contents(s) /\ p[1] # k) \/ (isK /\ p[2] \in Rows(s, k))
    BY ContentsMembers
  <2>3. /\ isK => p[1] = k
        /\ isO <=> isK /\ p[2] = o
    OBVIOUS
  <2> HIDE DEF isK, isO
  <2>4. p \in Contents(u) <=> p \in Contents(s) \/ isO
    BY ONLY <2>1, <2>2, <2>3, Rows(u, k) = Rows(s, k) \cup {o}
  <2>5. QED
    BY <2>4 DEF isO
<1>2. QED
  BY <1>1

LEMMA ContentsRemove ==
  ASSUME NEW s, NEW u, NEW k \in Named \cup {"bind"}, NEW o,
         \A j \in (Named \cup {"bind"}) \ {k} : Rows(u, j) = Rows(s, j),
         Rows(u, k) = Rows(s, k) \ {o}
  PROVE  Contents(u) = Contents(s) \ {<<k, o>>}
<1>1. ASSUME NEW p PROVE p \in Contents(u) <=> p \in Contents(s) /\ p # <<k, o>>
  <2> DEFINE isK == p = <<k, p[2]>>
             isO == p = <<k, o>>
  <2>1. p \in Contents(u) <=> (p \in Contents(s) /\ p[1] # k) \/ (isK /\ p[2] \in Rows(u, k))
    BY ContentsMembers
  <2>2. p \in Contents(s) <=> (p \in Contents(s) /\ p[1] # k) \/ (isK /\ p[2] \in Rows(s, k))
    BY ContentsMembers
  <2>3. /\ isK => p[1] = k
        /\ isO <=> isK /\ p[2] = o
    OBVIOUS
  <2> HIDE DEF isK, isO
  <2>4. p \in Contents(u) <=> p \in Contents(s) /\ ~isO
    BY ONLY <2>1, <2>2, <2>3, Rows(u, k) = Rows(s, k) \ {o}
  <2>5. QED
    BY <2>4 DEF isO
<1>2. QED
  BY <1>1

LEMMA ContentsReplace ==
  ASSUME NEW s, NEW u, NEW k \in Named \cup {"bind"}, NEW c, NEW o,
         \A j \in (Named \cup {"bind"}) \ {k} : Rows(u, j) = Rows(s, j),
         Rows(u, k) = (Rows(s, k) \ {c}) \cup {o}
  PROVE  Contents(u) = (Contents(s) \ {<<k, c>>}) \cup {<<k, o>>}
<1>1. ASSUME NEW p PROVE p \in Contents(u) <=> (p \in Contents(s) /\ p # <<k, c>>) \/ p = <<k, o>>
  <2> DEFINE isK == p = <<k, p[2]>>
             isC == p = <<k, c>>
             isO == p = <<k, o>>
  <2>1. p \in Contents(u) <=> (p \in Contents(s) /\ p[1] # k) \/ (isK /\ p[2] \in Rows(u, k))
    BY ContentsMembers
  <2>2. p \in Contents(s) <=> (p \in Contents(s) /\ p[1] # k) \/ (isK /\ p[2] \in Rows(s, k))
    BY ContentsMembers
  <2>3. /\ isK => p[1] = k
        /\ isC <=> isK /\ p[2] = c
        /\ isO <=> isK /\ p[2] = o
    OBVIOUS
  <2> HIDE DEF isK, isC, isO
  <2>4. p \in Contents(u) <=> (p \in Contents(s) /\ ~isC) \/ isO
    BY ONLY <2>1, <2>2, <2>3, Rows(u, k) = (Rows(s, k) \ {c}) \cup {o}
  <2>5. QED
    BY <2>4 DEF isC, isO
<1>2. QED
  BY <1>1

(* A change that fits is the one that the diff takes it for. *)
LEMMA NamedChange ==
  ASSUME NamesAreNoIds, Shape, NEW k \in Named, NEW op \in Ops, NEW o \in Object,
         Indexed(db[k]), Fits(db[k], op, o),
         db' = [db EXCEPT ![k] = Op(db[k], op, o).t],
         ret' = Called(k, op, o, Op(db[k], op, o).err)
  PROVE  ret'.err = "nil" /\ Objects!Change(ret'.kind, ret'.op, ret'.obj)
<1> DEFINE t == db[k]
           u == Op(db[k], op, o).t
<1>1. t \in Table /\ Whole(t)
  BY DEF Shape, Named
<1>2. Op(t, op, o).err = "nil" /\ u \in Table /\ Whole(u)
  BY <1>1, OpDone, OpWhole
<1>3. ret'.kind = k /\ ret'.op = op /\ ret'.obj = o /\ ret'.err = "nil"
  BY <1>2 DEF Called
<1>4. db'[k] = u /\ db'.bind = db.bind /\ \A j \in Named \ {k} : db'[j] = db[j]
  BY <1>2, TableStep
<1>5. /\ k \in Named \cup {"bind"} /\ k # "bind" /\ Rows(db, k) = GetAll(t) /\ Rows(db', k) = GetAll(u)
      /\ \A j \in (Named \cup {"bind"}) \ {k} : Rows(db', j) = Rows(db, j)
  BY <1>4 DEF Rows, GetAllBinds, Named
<1>6. \A p \in GetAll(t) : p.id \in Ids /\ t.row[p.id] = p /\ p # NoRow
  BY <1>1, TableFacts DEF GetAll, Whole
<1>7. /\ op = "Create" => GetAll(u) = GetAll(t) \cup {o}
      /\ op = "Update" => GetAll(u) = (GetAll(t) \ {t.row[o.id]}) \cup {o}
      /\ op = "Delete" => GetAll(u) = GetAll(t) \ {o}
  BY <1>1, OpDone
<1> HIDE DEF t, u
<1>8. CASE op = "Create"
  <2>1. t.row[o.id] = NoRow /\ (o.name # NoName => \A p \in GetAll(t) : p.id # o.id => p.name # o.name)
    BY <1>8 DEF Fits, t
  <2>2. o \notin GetAll(t) /\ \A p \in GetAll(t) : p.id # o.id
    BY <1>6, <2>1
  <2>3. Rows(db', k) = Rows(db, k) \cup {o}
    BY <1>5, <1>7, <1>8
  <2>5. Contents(db') = Contents(db) \cup {<<k, o>>}
    BY ONLY <1>5, <2>3, ContentsAdd
  <2>6. <<k, o>> \notin Contents(db)
    BY <1>5, <2>2, Members
  <2>7. \A p \in Contents(db) : p[1] = k => p[2].id # o.id /\ (o.name # NoName => p[2].name # o.name)
    <3>1. \A p \in Contents(db) : p[1] = k => p[2] \in GetAll(t)
      BY <1>5, Members
    <3>2. QED
      BY <2>1, <2>2, <3>1
  <2>8. QED
    BY <1>3, <1>8, <2>5, <2>6, <2>7 DEF Objects!Change, Objects!Create, Objects!Distinct
<1>9. CASE op = "Update"
  <2> DEFINE c == t.row[o.id]
  <2>1. o.id \in Ids /\ c # NoRow
    BY <1>9, ObjectFacts DEF Fits, t
  <2>2. c \in GetAll(t) /\ c.id = o.id
    BY <1>1, <2>1 DEF GetAll, Whole
  <2>3. Rows(db', k) = (Rows(db, k) \ {c}) \cup {o}
    BY <1>5, <1>7, <1>9
  <2> HIDE DEF c
  <2>5. Contents(db') = (Contents(db) \ {<<k, c>>}) \cup {<<k, o>>}
    BY ONLY <1>5, <2>3, ContentsReplace
  <2>6. <<k, c>> \in Contents(db)
    BY <1>5, <2>2, Members
  <2>7. \E p \in Contents(db) : /\ p[1] = k /\ p[2].id = o.id
                                /\ Contents(db') = (Contents(db) \ {p}) \cup {<<k, o>>}
    BY <2>2, <2>5, <2>6
  <2>8. QED
    BY <1>3, <1>9, <2>7 DEF Objects!Change, Objects!Update
<1>10. CASE op = "Delete"
  <2>1. o \in GetAll(t)
    BY <1>10 DEF Fits, t
  <2>2. Rows(db', k) = Rows(db, k) \ {o}
    BY <1>5, <1>7, <1>10
  <2>4. Contents(db') = Contents(db) \ {<<k, o>>}
    BY ONLY <1>5, <2>2, ContentsRemove
  <2>5. <<k, o>> \in Contents(db)
    BY <1>5, <2>1, Members
  <2>6. QED
    BY <1>3, <1>10, <2>4, <2>5 DEF Objects!Change, Objects!Delete
<1>11. QED
  BY <1>3, <1>8, <1>9, <1>10 DEF Ops

LEMMA BindChange ==
  ASSUME Shape, LoadBind \/ PostBinds
  PROVE  ret'.err = "nil" /\ Objects!Change(ret'.kind, ret'.op, ret'.obj)
<1>1. PICK b \in Bind :
        \/ /\ b \notin db.bind /\ db' = [db EXCEPT !.bind = @ \cup {b}]
           /\ ret' = Called("bind", "Create", b, "nil")
        \/ /\ b \in db.bind /\ db' = [db EXCEPT !.bind = @ \ {b}]
           /\ ret' = Called("bind", "Delete", b, "nil")
  BY BindIs
<1>2. /\ \A j \in Named : db'[j] = db[j] /\ j # "bind"
      /\ db'.bind \in {db.bind \cup {b}, db.bind \ {b}}
  BY <1>1 DEF Shape, Named
<1> DEFINE k == "bind"
<1>0. k \in Named \cup {"bind"}
  OBVIOUS
<1>3. \A j \in (Named \cup {"bind"}) \ {k} : Rows(db', j) = Rows(db, j)
  BY <1>2 DEF Rows
<1>4. Rows(db, k) = db.bind /\ Rows(db', k) = db'.bind
  BY DEF Rows, GetAllBinds
<1> HIDE DEF k
<1>5. CASE b \notin db.bind /\ db'.bind = db.bind \cup {b} /\ ret' = Called("bind", "Create", b, "nil")
  <2>1. Rows(db', k) = Rows(db, k) \cup {b}
    BY <1>4, <1>5
  <2>3. Contents(db') = Contents(db) \cup {<<k, b>>}
    BY ONLY <1>0, <1>3, <2>1, ContentsAdd
  <2>4. <<k, b>> \notin Contents(db)
    BY <1>0, <1>4, <1>5, Members
  <2>5. ret'.kind = k /\ ret'.op = "Create" /\ ret'.obj = b /\ ret'.err = "nil"
    BY <1>5 DEF Called, k
  <2>6. QED
    BY <2>3, <2>4, <2>5 DEF Objects!Change, Objects!Create, Objects!Distinct, k
<1>6. CASE b \in db.bind /\ db'.bind = db.bind \ {b} /\ ret' = Called("bind", "Delete", b, "nil")
  <2>1. Rows(db', k) = Rows(db, k) \ {b}
    BY <1>4, <1>6
  <2>3. Contents(db') = Contents(db) \ {<<k, b>>}
    BY ONLY <1>0, <1>3, <2>1, ContentsRemove
  <2>4. <<k, b>> \in Contents(db)
    BY <1>0, <1>4, <1>6, Members
  <2>5. ret'.kind = k /\ ret'.op = "Delete" /\ ret'.obj = b /\ ret'.err = "nil"
    BY <1>6 DEF Called, k
  <2>6. QED
    BY <2>3, <2>4, <2>5 DEF Objects!Change, Objects!Delete
<1>7. QED
  BY <1>1, <1>5, <1>6 DEF Shape

(***************************************************************************)
(* Where names are no ids, the five collections implement the set of named *)
(* objects that the diff takes them for, as long as Manba repeats no name: *)
(* every load and every post action is a change of exactly the object it   *)
(* is about, and none fails.                                               *)
(***************************************************************************)
THEOREM CollectionsImplement ==
  ASSUME NamesAreNoIds
  PROVE  Spec => ObjectsSpec
<1>1. Init => Objects!Init
  <2>1. ASSUME Init PROVE Contents(db) = {}
    <3>1. \A k \in Named \cup {"bind"} : Rows(db, k) = {}
      BY <2>1 DEF Init, NewManbaState, EmptyTable, Rows, GetAll, GetAllBinds, Named
    <3>2. QED
      BY <3>1 DEF Contents
  <2>2. QED
    BY <2>1 DEF Init, Called, Objects!Init
<1>2. IInv /\ [Next]_vars => [Objects!Next]_(Objects!vars)
  <2> SUFFICES ASSUME IInv, [Next]_vars PROVE [Objects!Next]_(Objects!vars)
    OBVIOUS
  <2>1. CASE repeated' # {}
    BY <2>1 DEF Objects!Next
  <2>2. CASE repeated' = {} /\ Load
    <3>1. PICK k \in Named, o \in Object :
            /\ db' = [db EXCEPT ![k] = Op(db[k], "Create", o).t]
            /\ ret' = Called(k, "Create", o, Op(db[k], "Create", o).err)
            /\ repeated \subseteq repeated'
            /\ NoRepeat(k)' => Fits(db[k], "Create", o)
      BY <2>2, LoadFits DEF IInv
    <3>2. Indexed(db[k]) /\ Fits(db[k], "Create", o)
      BY <2>2, <3>1 DEF IInv, NoRepeat
    <3>3. ret'.err = "nil" /\ Objects!Change(ret'.kind, ret'.op, ret'.obj)
      BY <3>1, <3>2, NamedChange DEF IInv, Ops
    <3>4. QED
      BY <2>2, <3>3 DEF Objects!Next
  <2>3. CASE repeated' = {} /\ Post
    <3>1. PICK k \in Named, op \in Ops, o \in Object :
            /\ Found(k, op, o)
            /\ db' = [db EXCEPT ![k] = Op(db[k], op, o).t]
            /\ ret' = Called(k, op, o, Op(db[k], op, o).err)
            /\ UNCHANGED repeated
      BY <2>3, PostIs
    <3>2. Indexed(db[k]) /\ Fits(db[k], op, o)
      BY <2>3, <3>1, FoundFits DEF IInv, NoRepeat
    <3>3. ret'.err = "nil" /\ Objects!Change(ret'.kind, ret'.op, ret'.obj)
      BY <3>1, <3>2, NamedChange DEF IInv
    <3>4. QED
      BY <2>3, <3>3 DEF Objects!Next
  <2>4. CASE repeated' = {} /\ (LoadBind \/ PostBinds)
    BY <2>4, BindChange DEF IInv, Objects!Next
  <2>5. CASE Loaded \/ UNCHANGED vars
    BY <2>5 DEF Loaded, vars, Objects!vars
  <2>6. QED
    BY <2>1, <2>2, <2>3, <2>4, <2>5 DEF Next
<1>3. QED
  BY <1>1, <1>2, Invariant, PTL DEF Spec, ObjectsSpec, Objects!Spec
=============================================================================
