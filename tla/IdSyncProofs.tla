---------------------------- MODULE IdSyncProofs ----------------------------
(***************************************************************************)
(* Theorems about IdSync, for any configurations, names and ids and any    *)
(* number of syncs, failures, crashes and changes by someone else.         *)
(***************************************************************************)
EXTENDS IdSync, FiniteSetTheorems, TLAPS

(* A function with the domain D; what it maps to is not said. *)
IsMap(f, D) == f = [x \in D |-> f[x]]

Names(k) == ToSet(Order[k])

(* Maps f and g differ at most in x. *)
Differs(f, g, D, x) == IsMap(g, D) /\ \A y \in D : y # x => g[y] = f[y]

-----------------------------------------------------------------------------
(***************************************************************************)
(* Lists.                                                                  *)
(***************************************************************************)
IsList(s) == s \in Seq(ToSet(s))

Injective(s) == \A i, j \in 1..Len(s) : s[i] = s[j] => i = j

(* The indices of a list. *)
LEMMA ListDomain ==
  ASSUME NEW s, IsList(s)
  PROVE  Len(s) \in Nat /\ DOMAIN s = 1..Len(s) /\ \A x : x \in ToSet(s) <=> \E i \in 1..Len(s) : x = s[i]
BY DEF IsList, ToSet

(* A function on 1..n is a list. *)
LEMMA ListMade ==
  ASSUME NEW n \in Nat, NEW s, IsMap(s, 1..n)
  PROVE  IsList(s) /\ Len(s) = n
<1> DEFINE T == {s[i] : i \in 1..n}
<1>1. s \in [1..n -> T]
  <2>1. \A i \in 1..n : s[i] \in T
    OBVIOUS
  <2> HIDE DEF T
  <2> QED
    BY <2>1 DEF IsMap
<1>2. T = ToSet(s)
  BY <1>1 DEF ToSet
<1> HIDE DEF T
<1>3. s \in Seq(T) /\ Len(s) = n
  BY <1>1
<1> QED
  BY <1>2, <1>3 DEF IsList

(* So is a sequence. *)
LEMMA SeqListed ==
  ASSUME NEW S, NEW s \in Seq(S)
  PROVE  IsList(s) /\ \A i \in 1..Len(s) : s[i] \in S
<1>1. IsMap(s, 1..Len(s)) /\ Len(s) \in Nat /\ \A i \in 1..Len(s) : s[i] \in S
  BY DEF IsMap
<1> QED
  BY <1>1, ListMade

(* The empty list. *)
LEMMA ListEmpty == IsList(<<>>) /\ ToSet(<<>>) = {} /\ Len(<<>>) = 0
BY DEF IsList, ToSet

(* A list and one element more. *)
LEMMA ListAppend ==
  ASSUME NEW s, NEW x, IsList(s)
  PROVE  /\ IsList(Append(s, x)) /\ ToSet(Append(s, x)) = ToSet(s) \cup {x}
         /\ Injective(s) /\ x \notin ToSet(s) => Injective(Append(s, x))
<1> DEFINE T == ToSet(s) \cup {x}  u == Append(s, x)
<1>1. s \in Seq(T) /\ x \in T
  BY DEF IsList
<1>2. /\ u \in Seq(T) /\ Len(u) = Len(s) + 1 /\ Len(s) \in Nat
      /\ \A i \in 1..Len(s) : u[i] = s[i]
      /\ u[Len(s) + 1] = x
  <2> HIDE DEF T
  <2> QED
    BY <1>1
<1> HIDE DEF u, T
<1>3. IsMap(u, 1..Len(u)) /\ Len(u) \in Nat
  BY <1>2 DEF IsMap
<1>4. IsList(u)
  BY <1>3, ListMade
<1>5. \A y : y \in ToSet(u) <=> y \in ToSet(s) \cup {x}
  BY <1>2, <1>4, ListDomain
<1>6. ASSUME Injective(s), x \notin ToSet(s) PROVE Injective(u)
  <2>1. \A i \in 1..Len(s) : s[i] # x
    BY <1>6, ListDomain
  <2> QED
    BY <1>2, <1>6, <2>1 DEF Injective
<1> QED
  BY <1>4, <1>5, <1>6 DEF u

(* Any way of listing a finite set is a list of its elements, each once. *)
LEMMA SetListed ==
  ASSUME NEW S, IsFiniteSet(S), NEW list \in SetToSeqs(S)
  PROVE  IsList(list) /\ ToSet(list) = S /\ Injective(list)
<1> DEFINE n == Cardinality(S)
<1>1. n \in Nat
  BY FS_CardinalityType
<1>0. n = Cardinality(S)
  OBVIOUS
<1>2. list \in [1..n -> S] /\ \A i, j \in 1..n : i # j => list[i] # list[j]
  BY DEF SetToSeqs
<1> HIDE DEF n
<1>3. IsMap(list, 1..n)
  BY <1>2 DEF IsMap
<1>4. IsList(list) /\ Len(list) = n
  BY <1>1, <1>3, ListMade
<1>5. list \in Injection(1..n, S)
  BY <1>2 DEF Injection, IsInjective
<1>6. Cardinality(1..n) = n
  <2>1. 1 \in Int /\ n \in Int
    BY <1>1
  <2>2. Cardinality(1..n) = IF 1 > n THEN 0 ELSE n - 1 + 1
    BY <2>1, FS_Interval
  <2> QED
    BY <1>1, <2>2
<1>7. list \in Surjection(1..n, S)
  BY <1>0, <1>5, <1>6, FS_Injection
<1>8. \A x \in S : \E i \in 1..n : list[i] = x
  BY <1>7 DEF Surjection
<1>9. \A x : x \in ToSet(list) <=> \E i \in 1..n : x = list[i]
  BY <1>4, ListDomain
<1>10. \A x : x \in ToSet(list) <=> x \in S
  BY <1>2, <1>8, <1>9
<1>11. Injective(list)
  BY <1>2, <1>4 DEF Injective
<1> QED
  BY <1>4, <1>10, <1>11

-----------------------------------------------------------------------------
(* Only: what a loop keeps of a list.  c is the list and the set. *)
OnlyOp(c, acc, x) == IF x \in c[2] THEN Append(acc, x) ELSE acc

OnlyInv(c, i, acc) ==
  /\ IsList(acc)
  /\ \A x : x \in ToSet(acc) <=> x \in c[2] /\ \E j \in 1..i : x = c[1][j]
  /\ (\A a, b \in 1..Len(c[1]) : c[1][a] = c[1][b] /\ c[1][a] \in c[2] => a = b) => Injective(acc)

Selecting == INSTANCE FoldTheorems WITH Op <- OnlyOp, Inv <- OnlyInv

(* Only keeps the elements of the set, and makes no repetitions. *)
LEMMA OnlyKept ==
  ASSUME NEW list, NEW S, IsList(list)
  PROVE  /\ IsList(Only(list, S)) /\ ToSet(Only(list, S)) = ToSet(list) \cap S
         /\ (\A a, b \in 1..Len(list) : list[a] = list[b] /\ list[a] \in S => a = b)
              => Injective(Only(list, S))
<1> DEFINE c == <<list, S>>  n == Len(list)
<1>1. n \in Nat /\ DOMAIN list = 1..n
  BY ListDomain
<1>2. c[1] = list /\ c[2] = S
  OBVIOUS
<1> HIDE DEF c, n
<1>3. OnlyInv(c, 0, <<>>)
  <2>1. Injective(<<>>)
    BY ListEmpty DEF Injective
  <2> QED
    BY <2>1, ListEmpty DEF OnlyInv
<1>4. ASSUME NEW j \in 1..n, NEW a, OnlyInv(c, j - 1, a)
      PROVE  OnlyInv(c, j, OnlyOp(c, a, list[j]))
  <2>1. \A x : (\E i \in 1..j : x = list[i]) <=> (x = list[j] \/ \E i \in 1..(j - 1) : x = list[i])
    BY <1>1
  <2>2. CASE list[j] \notin S
    BY <1>2, <1>4, <2>1, <2>2 DEF OnlyInv, OnlyOp
  <2>3. CASE list[j] \in S
    <3>1. OnlyOp(c, a, list[j]) = Append(a, list[j])
      BY <1>2, <2>3 DEF OnlyOp
    <3>2. IsList(a)
      BY <1>4 DEF OnlyInv
    <3>3. /\ IsList(Append(a, list[j])) /\ ToSet(Append(a, list[j])) = ToSet(a) \cup {list[j]}
          /\ Injective(a) /\ list[j] \notin ToSet(a) => Injective(Append(a, list[j]))
      BY <3>2, ListAppend
    <3>4. ASSUME \A p, q \in 1..n : list[p] = list[q] /\ list[p] \in S => p = q
          PROVE  Injective(a) /\ list[j] \notin ToSet(a)
      <4>1. Injective(a)
        BY <1>2, <1>4, <3>4 DEF OnlyInv, n
      <4>2. \A i \in 1..(j - 1) : list[i] # list[j]
        BY <1>1, <2>3, <3>4
      <4> QED
        BY <1>2, <1>4, <4>1, <4>2 DEF OnlyInv
    <3> QED
      BY <1>2, <1>4, <2>1, <2>3, <3>1, <3>3, <3>4 DEF OnlyInv, n
  <2> QED
    BY <2>2, <2>3
<1>5. OnlyInv(c, n, Selecting!Fold(c, <<>>, list))
  BY <1>1, <1>3, <1>4, Selecting!FoldKeeps
<1>6. Only(list, S) = Selecting!Fold(c, <<>>, list)
  BY DEF c, Only, OnlyOp, Selecting!Fold, Selecting!MapThenFoldSet, Selecting!Last,
       FoldLeft, MapThenFoldSet, Max
<1>7. \A x : x \in ToSet(list) <=> \E i \in 1..n : x = list[i]
  BY ListDomain DEF n
<1> QED
  BY <1>2, <1>5, <1>6, <1>7 DEF OnlyInv, n

-----------------------------------------------------------------------------
(***************************************************************************)
(* The tables of a state.  A row is at its own id; an entry of the name    *)
(* index leads to a row of that name.                                      *)
(***************************************************************************)
Tab(k, t) ==
  /\ IsMap(t.row, Ids) /\ t.byName \in [Str -> Ids \cup {0}]
  /\ \A i \in Ids : t.row[i] = NoRow \/ (Row(k, t.row[i]) /\ t.row[i].id = i)
  /\ \A s \in Str : t.byName[s] # 0 => t.row[t.byName[s]] # NoRow /\ t.row[t.byName[s]].name = s

(* The name index leads to every row: no two have the same name. *)
Indexed(t) == \A i \in Ids : t.row[i] # NoRow => t.byName[t.row[i].name] = i

Good(k, t) == Tab(k, t) /\ Indexed(t)

(* What tells objects apart: ids, names, and that a name is no id. *)
LEMMA RowFacts ==
  ASSUME NEW k \in Named
  PROVE  /\ 0 \notin Ids /\ NoName \notin Str /\ Decimal \in [Ids -> Str]
         /\ Names(k) \subseteq Str /\ \A i \in Ids : Decimal[i] \notin Names(k)
         /\ NoRow.id = 0 /\ NoRow.name = NoName
         /\ \A o : Row(k, o) => /\ o # NoRow /\ o.id \in Ids /\ o.name \in Names(k) /\ o.name \in Str
                                /\ Identifier(o) = o.name
<1>1. 0 \notin Ids /\ NoName \notin Str /\ Decimal \in [Ids -> Str]
  BY IdAssumption
<1>2. Names(k) \subseteq Str
  <2>1. Order[k] \in Seq(Str)
    BY SyncAssumption
  <2> QED
    BY <2>1 DEF Names, ToSet
<1>3. \A i \in Ids : Decimal[i] \notin Names(k)
  <2>1. Names(k) \cap Range(Decimal) = {}
    BY SyncAssumption DEF Names
  <2>2. \A i \in Ids : Decimal[i] \in Range(Decimal)
    BY <1>1 DEF Range
  <2> QED
    BY <2>1, <2>2
<1>4. NoRow.id = 0 /\ NoRow.name = NoName
  BY DEF NoRow
<1>5. \A o : Row(k, o) => o.id \in Ids /\ o.name \in Names(k)
  BY DEF Row, Names
<1>6. \A o : Row(k, o) => o # NoRow /\ o.name \in Str /\ Identifier(o) = o.name
  BY <1>1, <1>2, <1>4, <1>5 DEF Identifier
<1> QED
  BY <1>1, <1>2, <1>3, <1>4, <1>5, <1>6

(* The objects of a table, and where they are. *)
LEMMA TabRows ==
  ASSUME NEW k \in Named, NEW t, Tab(k, t)
  PROVE  /\ \A o : o \in GetAll(t) <=> o # NoRow /\ o.id \in Ids /\ t.row[o.id] = o
         /\ \A o \in GetAll(t) : Row(k, o)
         /\ \A i \in Ids : t.row[i] # NoRow => t.row[i] \in GetAll(t) /\ t.row[i].id = i
<1>1. \A o : o \in GetAll(t) <=> \E i \in Ids : o = t.row[i] /\ o # NoRow
  BY DEF GetAll
<1>2. \A i \in Ids : t.row[i] # NoRow => t.row[i].id = i /\ Row(k, t.row[i])
  BY DEF Tab
<1> QED
  BY <1>1, <1>2

LEMMA EmptyGood ==
  ASSUME NEW k \in Named
  PROVE  Good(k, EmptyTable) /\ GetAll(EmptyTable) = {}
<1>1. EmptyTable.row = [i \in Ids |-> NoRow] /\ EmptyTable.byName = [s \in Str |-> 0]
  BY DEF EmptyTable
<1>2. IsMap(EmptyTable.row, Ids) /\ EmptyTable.byName \in [Str -> Ids \cup {0}]
  BY <1>1 DEF IsMap
<1> QED
  BY <1>1, <1>2 DEF Good, Tab, Indexed, GetAll

LEMMA DeleteTab ==
  ASSUME NEW k \in Named, NEW t, Tab(k, t), NEW i \in Ids
  PROVE  /\ Tab(k, memdbDelete(t, i)) /\ GetAll(memdbDelete(t, i)) = GetAll(t) \ {t.row[i]}
         /\ memdbDelete(t, i).row[i] = NoRow
         /\ Indexed(t) => Indexed(memdbDelete(t, i))
<1> DEFINE u == memdbDelete(t, i)
<1>1. /\ u.row = [t.row EXCEPT ![i] = NoRow]
      /\ u.byName = [s \in Str |-> IF s = t.row[i].name THEN 0 ELSE t.byName[s]]
  BY DEF memdbDelete
<1> HIDE DEF u
<1>2. IsMap(t.row, Ids) /\ t.byName \in [Str -> Ids \cup {0}]
  BY DEF Tab
<1>3. /\ IsMap(u.row, Ids) /\ u.row[i] = NoRow /\ \A j \in Ids : j # i => u.row[j] = t.row[j]
      /\ u.byName \in [Str -> Ids \cup {0}]
      /\ \A s \in Str : u.byName[s] = IF s = t.row[i].name THEN 0 ELSE t.byName[s]
  BY <1>1, <1>2 DEF IsMap
<1>4. ASSUME NEW s \in Str, u.byName[s] # 0
      PROVE  u.row[u.byName[s]] # NoRow /\ u.row[u.byName[s]].name = s
  <2>1. s # t.row[i].name /\ u.byName[s] = t.byName[s]
    BY <1>3, <1>4
  <2>2. t.byName[s] \in Ids /\ t.row[t.byName[s]] # NoRow /\ t.row[t.byName[s]].name = s
    BY <1>2, <1>4, <2>1 DEF Tab
  <2>3. t.byName[s] # i
    BY <2>1, <2>2
  <2> QED
    BY <1>3, <2>1, <2>2, <2>3
<1>5. Tab(k, u)
  BY <1>3, <1>4 DEF Tab
<1>6. GetAll(u) = GetAll(t) \ {t.row[i]}
  <2>1. \A j \in Ids : j # i /\ t.row[j] # NoRow => t.row[j] # t.row[i]
    BY DEF Tab
  <2> QED
    BY <1>3, <2>1 DEF GetAll
<1>7. ASSUME Indexed(t), NEW j \in Ids, u.row[j] # NoRow
      PROVE  u.byName[u.row[j].name] = j
  <2>1. j # i /\ u.row[j] = t.row[j] /\ Row(k, t.row[j])
    BY <1>3, <1>7 DEF Tab
  <2>2. t.row[j].name \in Str /\ t.byName[t.row[j].name] = j
    BY <1>7, <2>1, RowFacts DEF Indexed
  <2>3. t.row[j].name # t.row[i].name
    BY <1>7, <2>1, <2>2, RowFacts DEF Indexed
  <2> QED
    BY <1>3, <2>1, <2>2, <2>3
<1> QED
  BY <1>3, <1>5, <1>6, <1>7 DEF u, Indexed

LEMMA InsertTab ==
  ASSUME NEW k \in Named, NEW t, Tab(k, t), NEW o, Row(k, o)
  PROVE  /\ Tab(k, memdbInsert(t, o))
         /\ GetAll(memdbInsert(t, o)) = (GetAll(t) \ {t.row[o.id]}) \cup {o}
         /\ Indexed(t) /\ t.row[o.id] = NoRow /\ (\A p \in GetAll(t) : p.name # o.name)
            => Indexed(memdbInsert(t, o))
<1> DEFINE u == memdbInsert(t, o)
<1>1. /\ u.row = [t.row EXCEPT ![o.id] = o]
      /\ u.byName = [s \in Str |-> IF s = o.name THEN o.id
                                   ELSE IF s = t.row[o.id].name THEN 0 ELSE t.byName[s]]
  BY DEF memdbInsert
<1> HIDE DEF u
<1>2. /\ IsMap(t.row, Ids) /\ t.byName \in [Str -> Ids \cup {0}]
      /\ o.id \in Ids /\ o.name \in Str /\ o # NoRow
  BY RowFacts DEF Tab
<1>3. /\ IsMap(u.row, Ids) /\ u.row[o.id] = o /\ \A j \in Ids : j # o.id => u.row[j] = t.row[j]
      /\ u.byName \in [Str -> Ids \cup {0}]
      /\ \A s \in Str : u.byName[s] = IF s = o.name THEN o.id
                                      ELSE IF s = t.row[o.id].name THEN 0 ELSE t.byName[s]
  BY <1>1, <1>2 DEF IsMap
<1>4. ASSUME NEW s \in Str, u.byName[s] # 0
      PROVE  u.row[u.byName[s]] # NoRow /\ u.row[u.byName[s]].name = s
  <2>1. CASE s = o.name
    BY <1>2, <1>3, <2>1
  <2>2. CASE s # o.name
    <3>1. s # t.row[o.id].name /\ u.byName[s] = t.byName[s]
      BY <1>3, <1>4, <2>2
    <3>2. t.byName[s] \in Ids /\ t.row[t.byName[s]] # NoRow /\ t.row[t.byName[s]].name = s
      BY <1>2, <1>4, <3>1 DEF Tab
    <3>3. t.byName[s] # o.id
      BY <3>1, <3>2
    <3> QED
      BY <1>3, <3>1, <3>2, <3>3
  <2> QED
    BY <2>1, <2>2
<1>5. Tab(k, u)
  BY <1>3, <1>4 DEF Tab
<1>6. GetAll(u) = (GetAll(t) \ {t.row[o.id]}) \cup {o}
  <2>1. \A j \in Ids : j # o.id /\ t.row[j] # NoRow => t.row[j] # t.row[o.id]
    BY <1>2 DEF Tab
  <2> QED
    BY <1>2, <1>3, <2>1 DEF GetAll
<1>7. ASSUME Indexed(t), t.row[o.id] = NoRow, \A p \in GetAll(t) : p.name # o.name,
             NEW j \in Ids, u.row[j] # NoRow
      PROVE  u.byName[u.row[j].name] = j
  <2>1. CASE j = o.id
    BY <1>2, <1>3, <2>1
  <2>2. CASE j # o.id
    <3>1. u.row[j] = t.row[j] /\ Row(k, t.row[j]) /\ t.row[j] \in GetAll(t)
      BY <1>3, <1>7, <2>2, TabRows DEF Tab
    <3>2. t.row[j].name \in Str /\ t.byName[t.row[j].name] = j /\ t.row[j].name # o.name
      BY <1>7, <3>1, RowFacts DEF Indexed
    <3>3. t.row[j].name # t.row[o.id].name
      BY <1>7, <3>2, RowFacts
    <3> QED
      BY <1>3, <3>1, <3>2, <3>3
  <2> QED
    BY <2>1, <2>2
<1> QED
  BY <1>5, <1>6, <1>7 DEF u, Indexed

(* A search by id finds the row of that id, a search by name what the name *)
(* index has.                                                              *)
LEMMA LookupId ==
  ASSUME NEW k \in Named, NEW t, Tab(k, t), NEW i \in Ids
  PROVE  multiIndexLookup(t, Decimal[i]) = IF t.row[i] # NoRow THEN i ELSE 0
<1> DEFINE s == Decimal[i]
           byId == {j \in Ids : Decimal[j] = s /\ t.row[j] # NoRow}
<1>1. s \in Str /\ s \notin Names(k)
  BY RowFacts
<1>2. t.byName[s] = 0
  <2>1. SUFFICES ASSUME t.byName[s] # 0 PROVE FALSE
    OBVIOUS
  <2>2. t.byName[s] \in Ids /\ t.row[t.byName[s]] # NoRow /\ t.row[t.byName[s]].name = s
    BY <1>1, <2>1 DEF Tab
  <2>3. Row(k, t.row[t.byName[s]])
    BY <2>2 DEF Tab
  <2> QED
    BY <1>1, <2>2, <2>3, RowFacts
<1>3. byId = IF t.row[i] # NoRow THEN {i} ELSE {}
  BY IdAssumption
<1>4. multiIndexLookup(t, s) = IF byId # {} THEN CHOOSE j \in byId : TRUE ELSE 0
  BY <1>2 DEF multiIndexLookup
<1> QED
  BY <1>3, <1>4

LEMMA LookupName ==
  ASSUME NEW k \in Named, NEW t, Tab(k, t), NEW n \in Names(k)
  PROVE  multiIndexLookup(t, n) = t.byName[n] /\ n \in Str /\ t.byName[n] \in Ids \cup {0}
<1>1. {i \in Ids : Decimal[i] = n /\ t.row[i] # NoRow} = {}
  BY RowFacts
<1>2. n \in Str /\ t.byName[n] \in Ids \cup {0}
  BY RowFacts DEF Tab
<1> QED
  BY <1>1, <1>2 DEF multiIndexLookup

(* What Get finds under a name has that name, and it finds it if the name *)
(* index is whole.                                                        *)
LEMMA GetByName ==
  ASSUME NEW k \in Named, NEW t, Tab(k, t), NEW n \in Names(k)
  PROVE  /\ Get(t, n) # NoRow => Get(t, n) \in GetAll(t) /\ Get(t, n).name = n
         /\ Indexed(t) => \A o \in GetAll(t) : o.name = n => Get(t, n) = o
<1>1. multiIndexLookup(t, n) = t.byName[n] /\ n \in Str /\ t.byName[n] \in Ids \cup {0}
  BY LookupName
<1>2. Get(t, n) = IF t.byName[n] = 0 THEN NoRow ELSE t.row[t.byName[n]]
  BY <1>1 DEF Get
<1>3. ASSUME Get(t, n) # NoRow PROVE Get(t, n) \in GetAll(t) /\ Get(t, n).name = n
  <2>1. t.byName[n] # 0 /\ t.byName[n] \in Ids
    BY <1>1, <1>2, <1>3
  <2>2. t.row[t.byName[n]] # NoRow /\ t.row[t.byName[n]].name = n
    BY <1>1, <2>1 DEF Tab
  <2> QED
    BY <1>2, <2>1, <2>2, TabRows
<1>4. ASSUME Indexed(t), NEW o \in GetAll(t), o.name = n PROVE Get(t, n) = o
  <2>1. o # NoRow /\ o.id \in Ids /\ t.row[o.id] = o
    BY <1>4, TabRows
  <2>2. t.byName[n] = o.id /\ o.id # 0
    BY <1>4, <2>1, RowFacts DEF Indexed
  <2> QED
    BY <1>2, <2>1, <2>2
<1> QED
  BY <1>3, <1>4

(* Get finds nothing exactly when no object has the name. *)
LEMMA GetNothing ==
  ASSUME NEW k \in Named, NEW t, Good(k, t), NEW n \in Names(k)
  PROVE  Get(t, n) = NoRow <=> \A o \in GetAll(t) : o.name # n
<1>1. Tab(k, t) /\ Indexed(t)
  BY DEF Good
<1>2. \A o \in GetAll(t) : o # NoRow
  BY <1>1, TabRows
<1> QED
  BY <1>1, <1>2, GetByName

-----------------------------------------------------------------------------
(***************************************************************************)
(* The operations of a collection, on a table without twins.               *)
(***************************************************************************)
(* An object that differs from all others in id and name is added. *)
LEMMA AddGood ==
  ASSUME NEW k \in Named, NEW t, Good(k, t), NEW o, Row(k, o),
         \A p \in GetAll(t) : p.id # o.id /\ p.name # o.name
  PROVE  /\ Add(t, o).err = "nil" /\ Good(k, Add(t, o).t)
         /\ GetAll(Add(t, o).t) = GetAll(t) \cup {o}
<1>1. Tab(k, t) /\ Indexed(t) /\ o.id \in Ids /\ o.id # 0
  BY RowFacts DEF Good
<1>2. t.row[o.id] = NoRow
  BY <1>1, TabRows
<1>3. Add(t, o) = Result(memdbInsert(t, o), "nil")
  BY <1>1, <1>2, LookupId DEF Add
<1>4. GetAll(t) \ {t.row[o.id]} = GetAll(t)
  BY <1>2 DEF GetAll
<1> QED
  BY <1>1, <1>2, <1>3, <1>4, InsertTab DEF Good, Result

(* An object takes the place of the one with its id and name. *)
LEMMA UpdateGood ==
  ASSUME NEW k \in Named, NEW t, Good(k, t), NEW o, Row(k, o),
         NEW p \in GetAll(t), p.id = o.id, p.name = o.name
  PROVE  /\ Update(t, o).err = "nil" /\ Good(k, Update(t, o).t)
         /\ GetAll(Update(t, o).t) = (GetAll(t) \ {p}) \cup {o}
<1> DEFINE u == memdbDelete(t, o.id)
<1>1. Tab(k, t) /\ Indexed(t) /\ o.id \in Ids /\ o.id # 0
  BY RowFacts DEF Good
<1>2. t.row[o.id] = p /\ p # NoRow
  BY <1>1, TabRows
<1>3. Update(t, o) = Result(memdbInsert(u, o), "nil")
  BY <1>1, <1>2, LookupId DEF Update
<1>4. Tab(k, u) /\ Indexed(u) /\ GetAll(u) = GetAll(t) \ {p} /\ u.row[o.id] = NoRow
  BY <1>1, <1>2, DeleteTab
<1> HIDE DEF u
<1>5. ASSUME NEW q \in GetAll(u) PROVE q.name # o.name
  <2>1. q \in GetAll(t) /\ q # p
    BY <1>4
  <2>2. q.id \in Ids /\ t.row[q.id] = q /\ q # NoRow
    BY <1>1, <2>1, TabRows
  <2>3. t.byName[q.name] = q.id /\ t.byName[p.name] = p.id
    BY <1>1, <1>2, <2>2 DEF Indexed
  <2> QED
    BY <1>2, <2>1, <2>2, <2>3
<1>6. GetAll(u) \ {u.row[o.id]} = GetAll(u)
  BY <1>4 DEF GetAll
<1> QED
  BY <1>3, <1>4, <1>5, <1>6, InsertTab DEF Good, Result

(* An object that is there is deleted, and nothing else. *)
LEMMA DeleteGood ==
  ASSUME NEW k \in Named, NEW t, Good(k, t), NEW o \in GetAll(t)
  PROVE  /\ Delete(t, Identifier(o)).err = "nil" /\ Good(k, Delete(t, Identifier(o)).t)
         /\ GetAll(Delete(t, Identifier(o)).t) = GetAll(t) \ {o}
<1>1. Tab(k, t) /\ Indexed(t) /\ Row(k, o) /\ o.id \in Ids /\ t.row[o.id] = o /\ o # NoRow /\ o.id # 0
  BY TabRows, RowFacts DEF Good
<1>2. Identifier(o) = o.name /\ o.name \in Names(k)
  BY <1>1, RowFacts
<1>3. multiIndexLookup(t, o.name) = o.id
  BY <1>1, <1>2, LookupName DEF Indexed
<1>4. Delete(t, Identifier(o)) = Result(memdbDelete(t, o.id), "nil")
  BY <1>1, <1>2, <1>3 DEF Delete
<1> QED
  BY <1>1, <1>4, DeleteTab DEF Good, Result

-----------------------------------------------------------------------------
(***************************************************************************)
(* state.Get.                                                              *)
(***************************************************************************)
IsState(s) == IsMap(s, Kinds) /\ \A k \in Named : Tab(k, s[k])

LEMMA NewState ==
  /\ IsMap(NewManbaState, Kinds) /\ NewManbaState.bind = {}
  /\ \A k \in Named : NewManbaState[k] = EmptyTable
<1>1. IsMap(NewManbaState, Kinds)
  BY DEF IsMap, NewManbaState, Kinds, Named
<1> QED
  BY <1>1 DEF NewManbaState, Named

(* No two rows with one id or one name. *)
Distinct(S) == \A o, p \in S : o.id = p.id \/ o.name = p.name => o = p

(* One object of a named kind is added to a state. *)
LEMMA AddedIs ==
  ASSUME NEW k \in Named, NEW acc, NEW o
  PROVE  LET r == Add(acc.s[k], o)
         IN  Added(k, acc, o) =
               IF acc.err # "nil" \/ (k = "server" /\ r.err = "ErrAlreadyExists") THEN acc
               ELSE [s |-> [acc.s EXCEPT ![k] = r.t], err |-> r.err]
<1>1. CASE k = "api"
  BY <1>1 DEF Added, AddAPI, In
<1>2. CASE k = "routing"
  BY <1>2 DEF Added, AddRouting, In
<1>3. CASE k = "cluster"
  BY <1>3 DEF Added, AddCluster, In
<1>4. CASE k = "server"
  BY <1>4 DEF Added, AddServer, In
<1> QED
  BY <1>1, <1>2, <1>3, <1>4 DEF Named

(* A list that can be added without an error. *)
Clean(list) == Injective(list) /\ Distinct(ToSet(list)) /\ \A o \in ToSet(list) : o.id # 0

(* The objects of a list, whose ids may be missing. *)
Listed(k, list) == IsList(list) /\ \A o \in ToSet(list) : o.id \in Ids \cup {0} /\ o.name \in Names(k)

AddOp(c, acc, o) == Added(c[1], acc, o)

(* c is the kind, what the loop began with and the list. *)
AddInv(c, i, acc) ==
  LET k == c[1]  acc0 == c[2]  list == c[3]
  IN  /\ Differs(acc0.s, acc.s, Kinds, k) /\ Tab(k, acc.s[k])
      /\ \A o \in GetAll(acc.s[k]) : \E j \in 1..i : o = list[j]
      /\ acc.err = "nil" => acc0.err = "nil"
      /\ acc0.err = "nil" /\ Clean(list) =>
           /\ acc.err = "nil" /\ Indexed(acc.s[k])
           /\ \A j \in 1..i : list[j] \in GetAll(acc.s[k])

Loading == INSTANCE FoldTheorems WITH Op <- AddOp, Inv <- AddInv

(* An iteration of state.Get. *)
LEMMA AddStep ==
  ASSUME NEW k \in Named, NEW acc0, IsMap(acc0.s, Kinds), NEW list, Listed(k, list),
         NEW j \in 1..Len(list), NEW acc, AddInv(<<k, acc0, list>>, j - 1, acc)
  PROVE  AddInv(<<k, acc0, list>>, j, Added(k, acc, list[j]))
<1> DEFINE o == list[j]  t == acc.s[k]  r == Add(t, o)  new == Added(k, acc, o)
<1> SUFFICES AddInv(<<k, acc0, list>>, j, new)
  OBVIOUS
<1>1. Len(list) \in Nat /\ o \in ToSet(list) /\ o.id \in Ids \cup {0} /\ o.name \in Names(k)
  BY ListDomain DEF Listed
<1>2. /\ Differs(acc0.s, acc.s, Kinds, k) /\ Tab(k, t)
      /\ \A x \in GetAll(t) : \E i \in 1..(j - 1) : x = list[i]
      /\ acc.err = "nil" => acc0.err = "nil"
      /\ acc0.err = "nil" /\ Clean(list) =>
           acc.err = "nil" /\ Indexed(t) /\ \A i \in 1..(j - 1) : list[i] \in GetAll(t)
  BY DEF AddInv
<1>3. new = IF acc.err # "nil" \/ (k = "server" /\ r.err = "ErrAlreadyExists") THEN acc
            ELSE [s |-> [acc.s EXCEPT ![k] = r.t], err |-> r.err]
  BY AddedIs
<1>4. k \in Kinds
  BY DEF Kinds
<1>5. CASE new = acc
  <2>1. ~(acc0.err = "nil" /\ Clean(list))
    <3>1. SUFFICES ASSUME acc0.err = "nil", Clean(list) PROVE FALSE
      OBVIOUS
    <3>2. acc.err = "nil" /\ Good(k, t) /\ Row(k, o)
      BY <1>1, <1>2, <3>1 DEF Good, Clean, Row, Names
    <3>3. ASSUME NEW p \in GetAll(t) PROVE p.id # o.id /\ p.name # o.name
      <4>1. PICK i \in 1..(j - 1) : p = list[i]
        BY <1>2
      <4>2. i \in 1..Len(list) /\ i # j /\ list[i] \in ToSet(list)
        BY <1>1, ListDomain DEF Listed
      <4> QED
        BY <1>1, <3>1, <4>1, <4>2 DEF Clean, Injective, Distinct
    <3>4. r.err = "nil" /\ GetAll(r.t) = GetAll(t) \cup {o}
      BY <3>2, <3>3, AddGood
    <3>5. acc.s = [acc.s EXCEPT ![k] = r.t]
      <4>1. new.s = [acc.s EXCEPT ![k] = r.t]
        BY <1>3, <3>2, <3>4
      <4> QED
        BY <1>5, <4>1
    <3>6. t = r.t
      <4>1. IsMap(acc.s, Kinds)
        BY <1>2 DEF Differs
      <4> HIDE DEF r
      <4>2. acc.s[k] = r.t
        BY <1>4, <3>5, <4>1 DEF IsMap
      <4> QED
        BY <4>2
    <3>7. o \in GetAll(t)
      BY <3>4, <3>6
    <3> QED
      BY <3>3, <3>7
  <2> QED
    BY <1>1, <1>2, <1>5, <2>1 DEF AddInv
<1>6. CASE new # acc
  <2>1. acc.err = "nil" /\ new = [s |-> [acc.s EXCEPT ![k] = r.t], err |-> r.err]
    BY <1>3, <1>6
  <2>2. Differs(acc0.s, new.s, Kinds, k) /\ new.err = r.err /\ new.s[k] = r.t
    <3> HIDE DEF r, new
    <3>1. IsMap(acc.s, Kinds) /\ new.s = [acc.s EXCEPT ![k] = r.t] /\ new.err = r.err
      BY <1>2, <2>1 DEF Differs
    <3>2. Differs(acc.s, new.s, Kinds, k) /\ new.s[k] = r.t
      BY <1>4, <3>1 DEF IsMap, Differs
    <3> QED
      BY <1>2, <3>1, <3>2 DEF Differs
  <2>3. CASE o.id = 0
    <3>1. r = Result(t, "errIDRequired")
      BY <2>3 DEF Add
    <3>2. ~Clean(list) /\ r.t = t /\ r.err = "errIDRequired"
      BY <1>1, <2>3, <3>1 DEF Clean, Result
    <3>3. acc0.err = "nil" /\ Tab(k, new.s[k]) /\ new.err # "nil"
      BY <1>2, <2>1, <2>2, <3>2
    <3>4. \A x \in GetAll(new.s[k]) : \E i \in 1..j : x = list[i]
      BY <1>1, <1>2, <2>2, <3>2
    <3> HIDE DEF new
    <3> QED
      BY <2>2, <3>2, <3>3, <3>4 DEF AddInv
  <2>4. CASE o.id # 0
    <3>1. Row(k, o)
      BY <1>1, <2>4 DEF Row, Names
    <3>2. r.t \in {t, memdbInsert(t, o)}
      BY DEF Add, Result
    <3>3. Tab(k, r.t) /\ GetAll(r.t) \subseteq GetAll(t) \cup {o}
      BY <1>2, <3>1, <3>2, InsertTab
    <3>4. ASSUME acc0.err = "nil", Clean(list)
          PROVE  r.err = "nil" /\ Indexed(r.t) /\ GetAll(r.t) = GetAll(t) \cup {o}
      <4>1. Good(k, t)
        BY <1>2, <3>4 DEF Good
      <4>2. ASSUME NEW p \in GetAll(t) PROVE p.id # o.id /\ p.name # o.name
        <5>1. PICK i \in 1..(j - 1) : p = list[i]
          BY <1>2
        <5>2. i \in 1..Len(list) /\ i # j /\ list[i] \in ToSet(list)
          BY <1>1, ListDomain DEF Listed
        <5> QED
          BY <1>1, <3>4, <5>1, <5>2 DEF Clean, Injective, Distinct
      <4> QED
        BY <3>1, <4>1, <4>2, AddGood DEF Good
    <3>5. \A x \in GetAll(r.t) : \E i \in 1..j : x = list[i]
      BY <1>1, <1>2, <3>3
    <3>6. \A i \in 1..j : i \in 1..(j - 1) \/ i = j
      BY <1>1
    <3>7. acc0.err = "nil" /\ Tab(k, new.s[k]) /\ \A x \in GetAll(new.s[k]) : \E i \in 1..j : x = list[i]
      BY <1>2, <2>1, <2>2, <3>3, <3>5
    <3>8. ASSUME Clean(list)
          PROVE  new.err = "nil" /\ Indexed(new.s[k]) /\ \A i \in 1..j : list[i] \in GetAll(new.s[k])
      <4>1. \A i \in 1..(j - 1) : list[i] \in GetAll(t)
        BY <1>2, <3>7, <3>8
      <4>2. r.err = "nil" /\ Indexed(r.t) /\ GetAll(r.t) = GetAll(t) \cup {o}
        BY <3>4, <3>7, <3>8
      <4> HIDE DEF new, r, t
      <4> QED
        BY <2>2, <3>6, <4>1, <4>2
    <3> HIDE DEF new
    <3> QED
      BY <2>2, <3>7, <3>8 DEF AddInv
  <2> QED
    BY <2>3, <2>4
<1> QED
  BY <1>5, <1>6

(* The loop over the objects of a kind. *)
LEMMA AllAdded ==
  ASSUME NEW k \in Named, NEW acc0, IsMap(acc0.s, Kinds), acc0.s[k] = EmptyTable,
         NEW list, Listed(k, list)
  PROVE  LET acc == AddAll(k, acc0, list)
         IN  /\ Differs(acc0.s, acc.s, Kinds, k) /\ Tab(k, acc.s[k])
             /\ GetAll(acc.s[k]) \subseteq ToSet(list)
             /\ acc.err = "nil" => acc0.err = "nil"
             /\ acc0.err = "nil" /\ Clean(list) =>
                  acc.err = "nil" /\ Good(k, acc.s[k]) /\ GetAll(acc.s[k]) = ToSet(list)
<1> DEFINE c == <<k, acc0, list>>  n == Len(list)  all == Loading!Fold(c, acc0, list)
<1>1. n \in Nat /\ DOMAIN list = 1..n /\ \A x : x \in ToSet(list) <=> \E i \in 1..n : x = list[i]
  BY ListDomain DEF Listed
<1>2. AddInv(c, 0, acc0)
  <2>1. Tab(k, acc0.s[k]) /\ Indexed(acc0.s[k]) /\ GetAll(acc0.s[k]) = {}
    BY EmptyGood DEF Good
  <2>2. Differs(acc0.s, acc0.s, Kinds, k)
    BY DEF Differs
  <2> QED
    BY <2>1, <2>2 DEF AddInv
<1>3. \A j \in 1..n : \A a : AddInv(c, j - 1, a) => AddInv(c, j, AddOp(c, a, list[j]))
  BY AddStep DEF AddOp
<1>4. AddInv(c, n, all)
  <2> HIDE DEF c, n
  <2> QED
    BY <1>1, <1>2, <1>3, Loading!FoldKeeps
<1>5. AddAll(k, acc0, list) = all
  BY DEF AddAll, AddOp, Loading!Fold, Loading!MapThenFoldSet, Loading!Last,
       FoldLeft, MapThenFoldSet, Max
<1> HIDE DEF all
<1>6. /\ Differs(acc0.s, all.s, Kinds, k) /\ Tab(k, all.s[k])
      /\ \A o \in GetAll(all.s[k]) : \E j \in 1..n : o = list[j]
      /\ all.err = "nil" => acc0.err = "nil"
      /\ acc0.err = "nil" /\ Clean(list) =>
           all.err = "nil" /\ Indexed(all.s[k]) /\ \A j \in 1..n : list[j] \in GetAll(all.s[k])
  BY <1>4 DEF AddInv
<1> QED
  BY <1>1, <1>5, <1>6 DEF Good

(* The loop over the binds. *)
BindInv(c, i, acc) ==
  LET acc0 == c[2]  list == c[3]
  IN  /\ Differs(acc0.s, acc.s, Kinds, "bind")
      /\ acc.err = "nil" => acc0.err = "nil" /\ acc.s.bind = {list[j] : j \in 1..i}
      /\ acc0.err = "nil" /\ Injective(list) /\ (\A j \in 1..Len(list) : list[j].cluster # 0 /\ list[j].server # 0)
           => acc.err = "nil"

Binding == INSTANCE FoldTheorems WITH Op <- AddOp, Inv <- BindInv

LEMMA BindStep ==
  ASSUME NEW acc0, IsMap(acc0.s, Kinds), NEW list, IsList(list),
         NEW j \in 1..Len(list), NEW acc, BindInv(<<"bind", acc0, list>>, j - 1, acc)
  PROVE  BindInv(<<"bind", acc0, list>>, j, Added("bind", acc, list[j]))
<1> DEFINE b == list[j]  r == AddBind(acc.s, b)  new == Added("bind", acc, b)
<1> SUFFICES BindInv(<<"bind", acc0, list>>, j, new)
  OBVIOUS
<1>1. Len(list) \in Nat
  BY ListDomain
<1>2. /\ Differs(acc0.s, acc.s, Kinds, "bind")
      /\ acc.err = "nil" => acc0.err = "nil" /\ acc.s.bind = {list[i] : i \in 1..(j - 1)}
      /\ acc0.err = "nil" /\ Injective(list) /\ (\A i \in 1..Len(list) : list[i].cluster # 0 /\ list[i].server # 0)
           => acc.err = "nil"
  BY DEF BindInv
<1>3. new = IF acc.err # "nil" THEN acc ELSE r
  BY DEF Added
<1>4. CASE acc.err # "nil"
  <2> HIDE DEF new
  <2> QED
    BY <1>2, <1>3, <1>4 DEF BindInv
<1>5. CASE acc.err = "nil"
  <2>1. new = r /\ acc0.err = "nil" /\ acc.s.bind = {list[i] : i \in 1..(j - 1)} /\ "bind" \in Kinds
    BY <1>2, <1>3, <1>5 DEF Kinds
  <2>2. {list[i] : i \in 1..j} = {list[i] : i \in 1..(j - 1)} \cup {b}
    BY <1>1
  <2>3. CASE r.err = "nil"
    <3>1. r.s = [acc.s EXCEPT !.bind = @ \cup {b}]
      BY <2>3 DEF AddBind
    <3>2. IsMap(acc.s, Kinds)
      BY <1>2 DEF Differs
    <3> HIDE DEF r, new, b
    <3>3. Differs(acc.s, r.s, Kinds, "bind") /\ r.s.bind = acc.s.bind \cup {b}
      BY <2>1, <3>1, <3>2 DEF IsMap, Differs
    <3>4. Differs(acc0.s, r.s, Kinds, "bind")
      BY <1>2, <3>3 DEF Differs
    <3> QED
      BY <2>1, <2>2, <2>3, <3>3, <3>4 DEF BindInv, b
  <2>4. CASE r.err # "nil"
    <3>1. r.s = acc.s /\ (b.cluster = 0 \/ b.server = 0 \/ b \in acc.s.bind)
      BY <2>4 DEF AddBind
    <3>2. b \in acc.s.bind => ~Injective(list)
      BY <1>1, <2>1 DEF Injective
    <3> HIDE DEF r, new
    <3> QED
      BY <1>2, <2>1, <2>4, <3>1, <3>2 DEF BindInv
  <2> QED
    BY <2>3, <2>4
<1> QED
  BY <1>4, <1>5

LEMMA BindsAdded ==
  ASSUME NEW acc0, IsMap(acc0.s, Kinds), acc0.s.bind = {}, NEW list, IsList(list)
  PROVE  LET acc == AddAll("bind", acc0, list)
         IN  /\ Differs(acc0.s, acc.s, Kinds, "bind")
             /\ acc.err = "nil" => acc0.err = "nil" /\ acc.s.bind = ToSet(list)
             /\ acc0.err = "nil" /\ Injective(list) /\ (\A b \in ToSet(list) : b.cluster # 0 /\ b.server # 0)
                  => acc.err = "nil"
<1> DEFINE c == <<"bind", acc0, list>>  n == Len(list)  all == Binding!Fold(c, acc0, list)
<1>1. n \in Nat /\ DOMAIN list = 1..n /\ \A x : x \in ToSet(list) <=> \E i \in 1..n : x = list[i]
  BY ListDomain
<1>2. BindInv(c, 0, acc0)
  <2>1. Differs(acc0.s, acc0.s, Kinds, "bind") /\ {list[j] : j \in 1..0} = {}
    BY DEF Differs
  <2> QED
    BY <2>1 DEF BindInv
<1>3. \A j \in 1..n : \A a : BindInv(c, j - 1, a) => BindInv(c, j, AddOp(c, a, list[j]))
  BY BindStep DEF AddOp
<1>4. BindInv(c, n, all)
  <2> HIDE DEF c, n
  <2> QED
    BY <1>1, <1>2, <1>3, Binding!FoldKeeps
<1>5. AddAll("bind", acc0, list) = all
  BY DEF AddAll, AddOp, Binding!Fold, Binding!MapThenFoldSet, Binding!Last,
       FoldLeft, MapThenFoldSet, Max
<1> HIDE DEF all
<1>6. /\ Differs(acc0.s, all.s, Kinds, "bind")
      /\ all.err = "nil" => acc0.err = "nil" /\ all.s.bind = {list[j] : j \in 1..n}
      /\ acc0.err = "nil" /\ Injective(list) /\ (\A j \in 1..n : list[j].cluster # 0 /\ list[j].server # 0)
           => all.err = "nil"
  BY <1>4 DEF BindInv
<1>7. \A j \in 1..n : list[j] \in ToSet(list)
  BY <1>1
<1>8. {list[j] : j \in 1..n} = ToSet(list)
  BY <1>1
<1> QED
  BY <1>5, <1>6, <1>7, <1>8

(* What state.Get makes of lists: rows out of the lists; all of them, each *)
(* found by its name, if no id or name repeats; and the binds, unless one  *)
(* repeats.                                                                *)
LEMMA StateGot ==
  ASSUME NEW t, \A k \in Named : Listed(k, t[k]), IsList(t.bind)
  PROVE  LET g == StateGet(t)
         IN  /\ IsState(g.s) /\ \A k \in Named : GetAll(g.s[k]) \subseteq ToSet(t[k])
             /\ g.err = "nil" => g.s.bind = ToSet(t.bind)
             /\ (\A k \in Named : Clean(t[k])) =>
                  /\ \A k \in Named : Good(k, g.s[k]) /\ GetAll(g.s[k]) = ToSet(t[k])
                  /\ Injective(t.bind) /\ (\A b \in ToSet(t.bind) : b.cluster # 0 /\ b.server # 0) => g.err = "nil"
<1> DEFINE s0 == [s |-> NewManbaState, err |-> "nil"]
           s1 == AddAll("api", s0, t.api)
           s2 == AddAll("routing", s1, t.routing)
           s3 == AddAll("cluster", s2, t.cluster)
           s4 == AddAll("server", s3, t.server)
           g  == AddAll("bind", s4, t.bind)
<1>0. StateGet(t) = g
  BY DEF StateGet
<1>1. /\ IsMap(s0.s, Kinds) /\ s0.s.bind = {} /\ s0.err = "nil"
      /\ \A k \in Named : s0.s[k] = EmptyTable
  BY NewState
<1>2. Kinds = {"api", "routing", "cluster", "server", "bind"} /\ Named = {"api", "routing", "cluster", "server"}
  BY DEF Kinds, Named
<1>3. Listed("api", t.api) /\ Listed("routing", t.routing) /\ Listed("cluster", t.cluster) /\ Listed("server", t.server)
  BY <1>2
<1> HIDE DEF s0
<1>4. /\ Differs(s0.s, s1.s, Kinds, "api") /\ Tab("api", s1.s.api) /\ GetAll(s1.s.api) \subseteq ToSet(t.api)
      /\ s1.err = "nil" => s0.err = "nil"
      /\ s0.err = "nil" /\ Clean(t.api) => s1.err = "nil" /\ Good("api", s1.s.api) /\ GetAll(s1.s.api) = ToSet(t.api)
  <2>1. "api" \in Named /\ s0.s.api = EmptyTable
    BY <1>1, <1>2
  <2> QED
    BY <1>1, <1>3, <2>1, AllAdded
<1> HIDE DEF s1
<1>5. /\ Differs(s1.s, s2.s, Kinds, "routing") /\ Tab("routing", s2.s.routing) /\ GetAll(s2.s.routing) \subseteq ToSet(t.routing)
      /\ s2.err = "nil" => s1.err = "nil"
      /\ s1.err = "nil" /\ Clean(t.routing) => s2.err = "nil" /\ Good("routing", s2.s.routing) /\ GetAll(s2.s.routing) = ToSet(t.routing)
  <2>1. "routing" \in Named /\ IsMap(s1.s, Kinds) /\ s1.s.routing = EmptyTable
    BY <1>1, <1>2, <1>4 DEF Differs
  <2> QED
    BY <1>3, <2>1, AllAdded
<1> HIDE DEF s2
<1>6. /\ Differs(s2.s, s3.s, Kinds, "cluster") /\ Tab("cluster", s3.s.cluster) /\ GetAll(s3.s.cluster) \subseteq ToSet(t.cluster)
      /\ s3.err = "nil" => s2.err = "nil"
      /\ s2.err = "nil" /\ Clean(t.cluster) => s3.err = "nil" /\ Good("cluster", s3.s.cluster) /\ GetAll(s3.s.cluster) = ToSet(t.cluster)
  <2>1. "cluster" \in Named /\ IsMap(s2.s, Kinds) /\ s2.s.cluster = EmptyTable
    BY <1>1, <1>2, <1>4, <1>5 DEF Differs
  <2> QED
    BY <1>3, <2>1, AllAdded
<1> HIDE DEF s3
<1>7. /\ Differs(s3.s, s4.s, Kinds, "server") /\ Tab("server", s4.s.server) /\ GetAll(s4.s.server) \subseteq ToSet(t.server)
      /\ s4.err = "nil" => s3.err = "nil"
      /\ s3.err = "nil" /\ Clean(t.server) => s4.err = "nil" /\ Good("server", s4.s.server) /\ GetAll(s4.s.server) = ToSet(t.server)
  <2>1. "server" \in Named /\ IsMap(s3.s, Kinds) /\ s3.s.server = EmptyTable
    BY <1>1, <1>2, <1>4, <1>5, <1>6 DEF Differs
  <2> QED
    BY <1>3, <2>1, AllAdded
<1> HIDE DEF s4
<1>8. /\ Differs(s4.s, g.s, Kinds, "bind")
      /\ g.err = "nil" => s4.err = "nil" /\ g.s.bind = ToSet(t.bind)
      /\ s4.err = "nil" /\ Injective(t.bind) /\ (\A b \in ToSet(t.bind) : b.cluster # 0 /\ b.server # 0) => g.err = "nil"
  <2>1. IsMap(s4.s, Kinds) /\ s4.s.bind = {}
    BY <1>1, <1>2, <1>4, <1>5, <1>6, <1>7 DEF Differs
  <2> QED
    BY <2>1, BindsAdded
<1> HIDE DEF g
<1>9. /\ IsMap(g.s, Kinds) /\ g.s.api = s1.s.api /\ g.s.routing = s2.s.routing /\ g.s.cluster = s3.s.cluster
      /\ g.s.server = s4.s.server
  BY <1>2, <1>4, <1>5, <1>6, <1>7, <1>8 DEF Differs
<1>10. IsState(g.s)
  BY <1>2, <1>4, <1>5, <1>6, <1>7, <1>9 DEF IsState
<1>11. \A k \in Named : GetAll(g.s[k]) \subseteq ToSet(t[k])
  BY <1>2, <1>4, <1>5, <1>6, <1>7, <1>9
<1>12. ASSUME \A k \in Named : Clean(t[k])
       PROVE  s4.err = "nil" /\ \A k \in Named : Good(k, g.s[k]) /\ GetAll(g.s[k]) = ToSet(t[k])
  <2>1. Clean(t.api) /\ Clean(t.routing) /\ Clean(t.cluster) /\ Clean(t.server)
    BY <1>2, <1>12
  <2> QED
    BY <1>1, <1>2, <1>4, <1>5, <1>6, <1>7, <1>9, <2>1
<1> QED
  BY <1>0, <1>8, <1>10, <1>11, <1>12

-----------------------------------------------------------------------------
(***************************************************************************)
(* setTargetsIDs.                                                          *)
(***************************************************************************)
(* A list followed by a list. *)
LEMMA ListConcat ==
  ASSUME NEW s, NEW t, IsList(s), IsList(t)
  PROVE  IsList(s \o t) /\ ToSet(s \o t) = ToSet(s) \cup ToSet(t)
<1> DEFINE T == ToSet(s) \cup ToSet(t)  u == s \o t
<1>1. s \in Seq(T) /\ t \in Seq(T)
  BY DEF IsList
<1>2. /\ u \in Seq(T) /\ Len(u) = Len(s) + Len(t) /\ Len(s) \in Nat /\ Len(t) \in Nat
      /\ \A i \in 1..Len(u) : u[i] = IF i <= Len(s) THEN s[i] ELSE t[i - Len(s)]
  <2> HIDE DEF T
  <2> QED
    BY <1>1
<1> HIDE DEF T, u
<1>3. IsMap(u, 1..Len(u)) /\ Len(u) \in Nat
  BY <1>2 DEF IsMap
<1>4. IsList(u)
  BY <1>3, ListMade
<1>5. ToSet(u) \subseteq T
  BY <1>2, <1>4, ListDomain
<1>6. ASSUME NEW x \in ToSet(s) PROVE x \in ToSet(u)
  <2>1. PICK i \in 1..Len(s) : x = s[i]
    BY ListDomain
  <2>2. i \in 1..Len(u) /\ u[i] = x
    BY <1>2, <2>1
  <2> QED
    BY <2>2, <1>4, ListDomain
<1>7. ASSUME NEW x \in ToSet(t) PROVE x \in ToSet(u)
  <2>1. PICK i \in 1..Len(t) : x = t[i]
    BY ListDomain
  <2>2. i + Len(s) \in 1..Len(u) /\ u[i + Len(s)] = x
    BY <1>2, <2>1
  <2> QED
    BY <2>2, <1>4, ListDomain
<1> QED
  BY <1>4, <1>5, <1>6, <1>7 DEF T, u

(* The names of a kind are a list of strings without repetitions. *)
LEMMA Ordered ==
  ASSUME NEW k \in Named
  PROVE  IsList(Order[k]) /\ Injective(Order[k])
<1>1. Order[k] \in Seq(Str) /\ Injective(Order[k])
  BY SyncAssumption DEF Injective
<1> QED
  BY <1>1, SeqListed

(* What is new in w: the names that a search in s does not find. *)
LEMMA NewNamed ==
  ASSUME NEW w \in Wishes, NEW s
  PROVE  /\ IsList(NewNames(w, s))
         /\ \A x : x \in ToSet(NewNames(w, s)) <=>
              \E k \in Named : \E n \in DOMAIN w[k] : x = <<k, n>> /\ Get(s[k], n) = NoRow
<1> DEFINE new(k) == {n \in DOMAIN w[k] : Get(s[k], n) = NoRow}
           of(k) == Only(Order[k], new(k))
           seq(k) == [i \in 1..Len(of(k)) |-> <<k, of(k)[i]>>]
<1>1. ASSUME NEW k \in Named
      PROVE  IsList(seq(k)) /\ \A x : x \in ToSet(seq(k)) <=> \E n \in new(k) : x = <<k, n>>
  <2>1. IsList(of(k)) /\ ToSet(of(k)) = Names(k) \cap new(k)
    BY Ordered, OnlyKept DEF Names
  <2>2. new(k) \subseteq Names(k)
    BY SyncAssumption DEF Names
  <2> HIDE DEF new, of
  <2>3. Len(of(k)) \in Nat /\ \A n : n \in new(k) <=> \E i \in 1..Len(of(k)) : n = of(k)[i]
    BY <2>1, <2>2, ListDomain
  <2> DEFINE sk == seq(k)
  <2>4. IsMap(sk, 1..Len(of(k))) /\ \A i \in 1..Len(of(k)) : sk[i] = <<k, of(k)[i]>>
    BY DEF IsMap
  <2> HIDE DEF sk
  <2>5. IsList(sk) /\ Len(sk) = Len(of(k))
    BY <2>3, <2>4, ListMade
  <2>6. \A x : x \in ToSet(sk) <=> \E n \in new(k) : x = <<k, n>>
    <3>1. \A x : x \in ToSet(sk) <=> \E i \in 1..Len(of(k)) : x = sk[i]
      BY <2>5, ListDomain
    <3>2. \A x : x \in ToSet(sk) <=> \E i \in 1..Len(of(k)) : x = <<k, of(k)[i]>>
      BY <2>4, <3>1
    <3> DEFINE ok == of(k)  nk == new(k)
    <3>3. \A n : n \in nk <=> \E i \in 1..Len(ok) : n = ok[i]
      BY <2>3
    <3> HIDE DEF ok, nk
    <3>4. \A x : (\E i \in 1..Len(ok) : x = <<k, ok[i]>>) <=> \E n \in nk : x = <<k, n>>
      BY <3>3
    <3> QED
      BY <3>2, <3>4 DEF ok, nk
  <2> QED
    BY <2>5, <2>6 DEF sk
<1>2. NewNames(w, s) = seq("server") \o seq("cluster") \o seq("api") \o seq("routing")
  BY DEF NewNames
<1> HIDE DEF seq
<1>3. Named = {"server", "cluster", "api", "routing"}
  BY DEF Named
<1> DEFINE all == seq("server") \o seq("cluster") \o seq("api") \o seq("routing")
<1>4. IsList(seq("server")) /\ IsList(seq("cluster")) /\ IsList(seq("api")) /\ IsList(seq("routing"))
  BY <1>1, <1>3
<1>5. IsList(all) /\ ToSet(all) = ToSet(seq("server")) \cup ToSet(seq("cluster")) \cup ToSet(seq("api")) \cup ToSet(seq("routing"))
  BY <1>4, ListConcat
<1> HIDE DEF all, new
<1>6. \A x : x \in ToSet(all) <=> \E k \in Named : \E n \in new(k) : x = <<k, n>>
  <2>1. \A x : x \in ToSet(all) <=> \E k \in Named : x \in ToSet(seq(k))
    BY <1>3, <1>5
  <2> QED
    BY <1>1, <2>1
<1> QED
  BY <1>2, <1>5, <1>6 DEF all, new

(* A search in a list finds a position of it, or 0. *)
LEMMA Position ==
  ASSUME NEW m \in Nat, NEW I \in SUBSET (1..m)
  PROVE  (IF I # {} THEN Min(I) ELSE 0) \in Nat
<1>1. ASSUME I # {} PROVE Min(I) \in I
  <2>1. I \in SUBSET Nat
    OBVIOUS
  <2>2. PICK y \in I : \A z \in I : ~(z < y)
    BY <1>1, <2>1, Selecting!LeastNumber
  <2>3. \A z \in I : y <= z
    BY <2>1, <2>2
  <2> QED
    BY <2>2, <2>3 DEF Min
<1> DEFINE x == Min(I)
<1>2. I # {} => x \in I
  BY <1>1
<1> HIDE DEF x
<1>3. (IF I # {} THEN x ELSE 0) \in Nat
  <2>1. CASE I # {}
    <3>1. x \in 1..m
      BY <1>2, <2>1
    <3>2. x \in Nat
      BY <3>1
    <3> QED
      BY <2>1, <3>2
  <2>2. CASE I = {}
    BY <2>2
  <2> QED
    BY <2>1, <2>2
<1> QED
  BY <1>3 DEF x

(* An object that w names gets the id it has, or one that was drawn. *)
LEMMA IdsGiven ==
  ASSUME NEW w \in Wishes, NEW s, IsState(s), NEW n0 \in Nat, NEW k \in Named, NEW n \in DOMAIN w[k]
  PROVE  /\ IdOf(w, s, n0)[k][n] \in Ids \cup {0} /\ n \in Names(k)
         /\ Get(s[k], n) # NoRow => IdOf(w, s, n0)[k][n] = Get(s[k], n).id
<1> DEFINE new == NewNames(w, s)  p == SelectInSeq(new, LAMBDA x : x = <<k, n>>)
<1>1. IdOf(w, s, n0)[k][n] = IF <<k, n>> \in ToSet(new) THEN SnowID(n0 + p) ELSE Get(s[k], n).id
  BY DEF IdOf
<1>2. n \in Names(k)
  BY SyncAssumption DEF Names
<1>3. IsList(new) /\ (<<k, n>> \in ToSet(new) <=> Get(s[k], n) = NoRow)
  BY NewNamed
<1>4. p \in Nat
  <2>1. Len(new) \in Nat
    BY <1>3, ListDomain
  <2> DEFINE I == {i \in 1..Len(new) : new[i] = <<k, n>>}
  <2>2. p = IF I # {} THEN Min(I) ELSE 0
    BY DEF SelectInSeq
  <2>3. I \in SUBSET (1..Len(new))
    OBVIOUS
  <2> HIDE DEF new, I, p
  <2> QED
    BY <2>1, <2>2, <2>3, Position
<1> HIDE DEF p, new
<1>5. SnowID(n0 + p) \in Ids \cup {0}
  <2>1. IdMod \in Nat \ {0, 1} /\ Ids = 1..(IdMod - 1)
    BY SyncAssumption
  <2>2. n0 + p \in Nat
    BY <1>4
  <2>3. (n0 + p) % IdMod \in 0..(IdMod - 1)
    BY <2>1, <2>2
  <2> QED
    BY <2>1, <2>3 DEF SnowID
<1>6. Get(s[k], n) # NoRow => Get(s[k], n).id \in Ids
  BY <1>2, GetByName, TabRows DEF IsState
<1> QED
  BY <1>1, <1>2, <1>3, <1>5, <1>6

-----------------------------------------------------------------------------
(***************************************************************************)
(* The target: what a wish comes to, once its names have ids.              *)
(***************************************************************************)
Ref(w, id, k, n) == IF n \in DOMAIN w[k] THEN id[k][n] ELSE 0

Obj(w, id, k, n) ==
  [id |-> id[k][n], name |-> n,
   conf |-> [v |-> w[k][n].v, refs |-> {<<x[1], Ref(w, id, x[1], x[2])>> : x \in w[k][n].refs}]]

Pair(w, id, b) ==
  IF b.cluster \in DOMAIN w.cluster /\ b.server \in DOMAIN w.server
  THEN [cluster |-> id.cluster[b.cluster], server |-> id.server[b.server]]
  ELSE [cluster |-> 0, server |-> 0]

Objs(w, id, k) == {Obj(w, id, k, n) : n \in Wished(w, k)}

WishedBinds(w) ==
  {b \in ToSet(w.bind) : b.cluster \in Wished(w, "cluster") /\ b.server \in Wished(w, "server")}

(* Every name has an id of its own. *)
Apart(w, id) ==
  \A k \in Named : \A n \in DOMAIN w[k] :
    id[k][n] \in Ids /\ \A m \in DOMAIN w[k] : id[k][n] = id[k][m] => n = m

(* The lists of setTargetsIDs. *)
Lists(w, id) ==
  [k \in Kinds |->
     IF k = "bind" THEN [i \in 1..Len(w.bind) |-> Pair(w, id, w.bind[i])]
     ELSE [i \in 1..Len(Order[k]) |->
             IF Order[k][i] \in DOMAIN w[k] THEN Obj(w, id, k, Order[k][i]) ELSE NoRow]]

LEMMA TargetLists ==
  ASSUME NEW w, NEW s, NEW n0
  PROVE  setTargetsIDs(w, s, n0) = Lists(w, IdOf(w, s, n0))
BY DEF setTargetsIDs, Lists, Obj, Ref, Pair

(* The list of a named kind that filterInvalidations leaves: the wished *)
(* objects, each once.                                                  *)
LEMMA FilteredNamed ==
  ASSUME NEW w \in Wishes, NEW id, NEW k \in Named
  PROVE  LET f == filterInvalidations(Lists(w, id))
         IN  /\ IsList(f[k]) /\ Injective(f[k]) /\ ToSet(f[k]) = Objs(w, id, k)
             /\ {o \in ToSet(Lists(w, id)[k]) : o # NoRow /\ <<k, o.name>> \notin Invalid} = Objs(w, id, k)
<1> DEFINE t == Lists(w, id)[k]  n == Len(Order[k])
           valid == {o \in ToSet(t) : o # NoRow /\ <<k, o.name>> \notin Invalid}
<1>1. k \in Kinds /\ k # "bind"
  BY DEF Kinds, Named
<1>2. filterInvalidations(Lists(w, id))[k] = Only(t, valid)
  BY <1>1 DEF filterInvalidations
<1>3. t = [i \in 1..n |-> IF Order[k][i] \in DOMAIN w[k] THEN Obj(w, id, k, Order[k][i]) ELSE NoRow]
  BY <1>1 DEF Lists
<1>4. /\ n \in Nat /\ Injective(Order[k]) /\ NoName \notin Names(k)
      /\ \A x : x \in Names(k) <=> \E i \in 1..n : x = Order[k][i]
  BY Ordered, ListDomain, RowFacts DEF Names
<1> HIDE DEF t, n
<1>5. IsMap(t, 1..n) /\ \A i \in 1..n : t[i] = IF Order[k][i] \in DOMAIN w[k] THEN Obj(w, id, k, Order[k][i]) ELSE NoRow
  BY <1>3 DEF IsMap
<1>6. IsList(t) /\ Len(t) = n
  BY <1>4, <1>5, ListMade
<1>7. \A m : Obj(w, id, k, m).name = m
  BY DEF Obj
<1>8. \A m \in DOMAIN w[k] : m \in Names(k) /\ Obj(w, id, k, m) # NoRow
  <2>1. DOMAIN w[k] \subseteq Names(k)
    BY SyncAssumption DEF Names
  <2>2. NoRow.name = NoName
    BY DEF NoRow
  <2> QED
    BY <1>4, <1>7, <2>1, <2>2
<1>9. \A o : o \in valid <=> \E m \in DOMAIN w[k] : o = Obj(w, id, k, m) /\ <<k, m>> \notin Invalid
  <2>1. \A o : o \in ToSet(t) <=> \E i \in 1..n : o = t[i]
    BY <1>6, ListDomain
  <2>2. ASSUME NEW o, o \in valid
        PROVE  \E m \in DOMAIN w[k] : o = Obj(w, id, k, m) /\ <<k, m>> \notin Invalid
    <3>1. PICK i \in 1..n : o = t[i]
      BY <2>1, <2>2
    <3>2. o # NoRow /\ <<k, o.name>> \notin Invalid
      BY <2>2
    <3>3. Order[k][i] \in DOMAIN w[k] /\ o = Obj(w, id, k, Order[k][i])
      BY <1>5, <3>1, <3>2
    <3> QED
      BY <1>7, <3>2, <3>3
  <2>3. ASSUME NEW m \in DOMAIN w[k], <<k, m>> \notin Invalid
        PROVE  Obj(w, id, k, m) \in valid
    <3>1. PICK i \in 1..n : m = Order[k][i]
      BY <1>4, <1>8
    <3>2. t[i] = Obj(w, id, k, m)
      BY <1>5, <3>1
    <3> QED
      BY <1>7, <1>8, <2>1, <2>3, <3>2
  <2> QED
    BY <2>2, <2>3
<1>10. valid = Objs(w, id, k)
  BY <1>9 DEF Objs, Wished
<1>11. ASSUME NEW a \in 1..n, NEW b \in 1..n, t[a] = t[b], t[a] \in valid PROVE a = b
  <2>1. t[a] # NoRow
    BY <1>11
  <2>2. t[a] = Obj(w, id, k, Order[k][a]) /\ t[b] = Obj(w, id, k, Order[k][b])
    BY <1>5, <1>11, <2>1
  <2>3. Order[k][a] = Order[k][b]
    BY <1>7, <1>11, <2>2
  <2> QED
    BY <1>4, <2>3 DEF Injective, n
<1>12. valid \subseteq ToSet(t)
  OBVIOUS
<1> HIDE DEF valid
<1>13. IsList(Only(t, valid)) /\ ToSet(Only(t, valid)) = valid /\ Injective(Only(t, valid))
  <2>1. /\ IsList(Only(t, valid)) /\ ToSet(Only(t, valid)) = ToSet(t) \cap valid
        /\ (\A a, b \in 1..Len(t) : t[a] = t[b] /\ t[a] \in valid => a = b) => Injective(Only(t, valid))
    BY <1>6, OnlyKept
  <2>2. \A a, b \in 1..Len(t) : t[a] = t[b] /\ t[a] \in valid => a = b
    BY <1>6, <1>11
  <2> QED
    BY <1>12, <2>1, <2>2
<1> QED
  BY <1>2, <1>10, <1>13 DEF valid, t

(* The binds that it leaves.  If every name has an id of its own they are *)
(* the wished ones, each once unless the wish repeats one.                *)
LEMMA FilteredBinds ==
  ASSUME NEW w \in Wishes, NEW id
  PROVE  LET f == filterInvalidations(Lists(w, id))
         IN  /\ IsList(f.bind)
             /\ Apart(w, id) =>
                  /\ ToSet(f.bind) = {[cluster |-> id.cluster[b.cluster], server |-> id.server[b.server]] : b \in WishedBinds(w)}
                  /\ Injective(w.bind) => Injective(f.bind)
<1> DEFINE t == Lists(w, id).bind  n == Len(w.bind)
           valid(k) == {o \in ToSet(Lists(w, id)[k]) : o # NoRow /\ <<k, o.name>> \notin Invalid}
           ids(k) == {o.id : o \in valid(k)}
           S == [cluster : ids("cluster"), server : ids("server")]
<1>1. "bind" \in Kinds /\ "cluster" \in Named /\ "server" \in Named
  BY DEF Kinds, Named
<1>2. filterInvalidations(Lists(w, id)).bind = Only(t, S)
  BY <1>1 DEF filterInvalidations
<1>3. IsMap(t, 1..n) /\ \A i \in 1..n : t[i] = Pair(w, id, w.bind[i])
  BY <1>1 DEF Lists, IsMap
<1>4. /\ IsList(w.bind) /\ n \in Nat /\ \A b : b \in ToSet(w.bind) <=> \E i \in 1..n : b = w.bind[i]
      /\ \A i \in 1..n : w.bind[i] \in [cluster : Str, server : Str]
  <2>1. w.bind \in Seq([cluster : Str, server : Str])
    BY SyncAssumption
  <2>2. IsList(w.bind) /\ \A i \in 1..n : w.bind[i] \in [cluster : Str, server : Str]
    BY <2>1, SeqListed
  <2> QED
    BY <2>2, ListDomain
<1> HIDE DEF t, n
<1>5. IsList(t) /\ Len(t) = n
  BY <1>3, <1>4, ListMade
<1>6. \A x : x \in ToSet(t) <=> \E i \in 1..n : x = t[i]
  BY <1>5, ListDomain
<1>7. \A k \in Named : ids(k) = {id[k][m] : m \in Wished(w, k)}
  <2>1. SUFFICES ASSUME NEW k \in Named PROVE ids(k) = {id[k][m] : m \in Wished(w, k)}
    OBVIOUS
  <2>2. valid(k) = Objs(w, id, k)
    BY FilteredNamed
  <2>3. \A m : Obj(w, id, k, m).id = id[k][m]
    BY DEF Obj
  <2> HIDE DEF valid
  <2> QED
    BY <2>2, <2>3 DEF Objs
<1> HIDE DEF valid, ids
<1>8. IsList(Only(t, S)) /\ ToSet(Only(t, S)) = ToSet(t) \cap S
  BY <1>5, OnlyKept
<1>9. ASSUME Apart(w, id)
      PROVE  /\ ToSet(Only(t, S)) = {[cluster |-> id.cluster[b.cluster], server |-> id.server[b.server]] : b \in WishedBinds(w)}
             /\ Injective(w.bind) => Injective(Only(t, S))
  <2>1. /\ \A m \in DOMAIN w.cluster : id.cluster[m] \in Ids /\ \A l \in DOMAIN w.cluster : id.cluster[m] = id.cluster[l] => m = l
        /\ \A m \in DOMAIN w.server : id.server[m] \in Ids /\ \A l \in DOMAIN w.server : id.server[m] = id.server[l] => m = l
    BY <1>1, <1>9 DEF Apart
  <2>2. \A c, s : [cluster |-> c, server |-> s] \in S <=>
                    (\E m \in Wished(w, "cluster") : c = id.cluster[m]) /\ (\E m \in Wished(w, "server") : s = id.server[m])
    BY <1>1, <1>7
  <2>3. 0 \notin Ids /\ Wished(w, "cluster") \subseteq DOMAIN w.cluster /\ Wished(w, "server") \subseteq DOMAIN w.server
    BY IdAssumption DEF Wished
  <2>4. ASSUME NEW b, Pair(w, id, b) \in S
        PROVE  /\ b.cluster \in Wished(w, "cluster") /\ b.server \in Wished(w, "server")
               /\ Pair(w, id, b) = [cluster |-> id.cluster[b.cluster], server |-> id.server[b.server]]
    <3>1. b.cluster \in DOMAIN w.cluster /\ b.server \in DOMAIN w.server
      <4>1. SUFFICES ASSUME ~(b.cluster \in DOMAIN w.cluster /\ b.server \in DOMAIN w.server) PROVE FALSE
        OBVIOUS
      <4>2. [cluster |-> 0, server |-> 0] \in S
        BY <2>4, <4>1 DEF Pair
      <4> HIDE DEF S
      <4> QED
        BY <2>1, <2>2, <2>3, <4>2
    <3>2. Pair(w, id, b) = [cluster |-> id.cluster[b.cluster], server |-> id.server[b.server]]
      BY <3>1 DEF Pair
    <3> HIDE DEF S
    <3> QED
      BY <2>1, <2>2, <2>3, <2>4, <3>1, <3>2
  <2>5. ASSUME NEW b, b.cluster \in Wished(w, "cluster"), b.server \in Wished(w, "server")
        PROVE  /\ Pair(w, id, b) = [cluster |-> id.cluster[b.cluster], server |-> id.server[b.server]]
               /\ Pair(w, id, b) \in S
    <3>1. Pair(w, id, b) = [cluster |-> id.cluster[b.cluster], server |-> id.server[b.server]]
      BY <2>3, <2>5 DEF Pair
    <3> HIDE DEF S
    <3> QED
      BY <2>2, <2>5, <3>1
  <2> HIDE DEF S
  <2>6. \A x : x \in ToSet(t) \cap S <=> \E b \in WishedBinds(w) : x = [cluster |-> id.cluster[b.cluster], server |-> id.server[b.server]]
    <3>1. \A x : x \in ToSet(t) <=> \E b \in ToSet(w.bind) : x = Pair(w, id, b)
      BY <1>3, <1>4, <1>6
    <3>2. \A b \in ToSet(w.bind) : Pair(w, id, b) \in S <=> b \in WishedBinds(w)
      BY <2>4, <2>5 DEF WishedBinds
    <3>3. \A b \in WishedBinds(w) : b \in ToSet(w.bind) /\ Pair(w, id, b) = [cluster |-> id.cluster[b.cluster], server |-> id.server[b.server]]
      BY <2>5 DEF WishedBinds
    <3> QED
      BY <3>1, <3>2, <3>3
  <2>7. ASSUME Injective(w.bind), NEW i \in 1..n, NEW j \in 1..n, t[i] = t[j], t[i] \in S PROVE i = j
    <3>1. t[i] = Pair(w, id, w.bind[i]) /\ t[j] = Pair(w, id, w.bind[j])
      BY <1>3
    <3>2. \A l \in {i, j} : /\ w.bind[l].cluster \in DOMAIN w.cluster /\ w.bind[l].server \in DOMAIN w.server
                            /\ t[l] = [cluster |-> id.cluster[w.bind[l].cluster], server |-> id.server[w.bind[l].server]]
      BY <2>3, <2>4, <2>7, <3>1
    <3>3. /\ id.cluster[w.bind[i].cluster] = id.cluster[w.bind[j].cluster]
          /\ id.server[w.bind[i].server] = id.server[w.bind[j].server]
      BY <2>7, <3>2
    <3>4. w.bind[i].cluster = w.bind[j].cluster /\ w.bind[i].server = w.bind[j].server
      BY <2>1, <3>2, <3>3
    <3>5. w.bind[i] \in [cluster : Str, server : Str] /\ w.bind[j] \in [cluster : Str, server : Str]
      BY <1>4
    <3>6. w.bind[i] = w.bind[j]
      BY <3>4, <3>5
    <3> QED
      BY <2>7, <3>6 DEF Injective, n
  <2> QED
    BY <1>5, <1>8, <2>6, <2>7, OnlyKept
<1> QED
  BY <1>2, <1>8, <1>9

-----------------------------------------------------------------------------
(***************************************************************************)
(* The types.  TypeOK is kept because the target's rows are, which need    *)
(* the rows of a dump to have ids; and because every object that Solve     *)
(* sends is one of the target's.                                           *)
(***************************************************************************)
Maps ==
  /\ IsMap(pc, Replicas) /\ IsMap(wish, Replicas) /\ IsMap(raw, Replicas) /\ IsMap(cur, Replicas)
  /\ IsMap(tgt, Replicas) /\ IsMap(phase, Replicas) /\ IsMap(todo, Replicas) /\ IsMap(failed, Replicas)
  /\ IsMap(hash, Replicas) /\ IsMap(ret, Replicas) /\ IsMap(syncs, Replicas) /\ IsMap(lost, Replicas)

(* Rows of every kind, finitely many. *)
RowsOK(m) ==
  /\ IsMap(m, Kinds) /\ \A k \in Kinds : IsFiniteSet(m[k])
  /\ \A k \in Named : \A o \in m[k] : Row(k, o)

ManbaOK(m) == RowsOK(m) /\ \A k \in Named : \A o, p \in m[k] : o.id = p.id => o = p

Control(r) ==
  /\ pc[r] \in {"idle", "clusters", "servers", "binds", "routings", "prepare", "solve"}
  /\ ret[r] \in {None, "nil", "error"} /\ phase[r] \in 0..10
  /\ wish[r] \in Wishes \cup {NoWish} /\ hash[r] \in Wishes \cup {NoWish}
  /\ pc[r] # "idle" => wish[r] # NoWish

Targets(r) ==
  /\ \A k \in Named : \A o \in GetAll(tgt[r][k]) : Row(k, o)
  /\ pc[r] = "solve" => phase[r] \in 1..10 /\ (phase[r] <= 5 => todo[r] \subseteq List(tgt[r], PhaseKind[phase[r]]))

TInv ==
  /\ Maps /\ ManbaOK(manba) /\ stamp \in 0..MaxStamp /\ failures \in 0..MaxFailures /\ drifts \in Nat
  /\ \A r \in Replicas : RowsOK(raw[r]) /\ Control(r) /\ Targets(r)

LEMMA TInvType == TInv => TypeOK
BY DEF TInv, TypeOK, ManbaOK, RowsOK, Control, Targets

LEMMA WishesAreWishes == NoWish \notin Wishes
<1>1. \A w \in Wishes : DOMAIN w = Kinds
  BY SyncAssumption
<1>2. "api" \in Kinds /\ "api" \notin DOMAIN NoWish
  BY DEF Kinds, Named, NoWish
<1> QED
  BY <1>1, <1>2

LEMMA EmptyRows == RowsOK(Empty) /\ ManbaOK(Empty) /\ \A k \in Kinds : Empty[k] = {}
<1>1. IsMap(Empty, Kinds) /\ \A k \in Kinds : Empty[k] = {}
  BY DEF IsMap, Empty, Kinds, Named
<1>2. Named \subseteq Kinds
  BY DEF Kinds
<1> QED
  BY <1>1, <1>2, FS_EmptySet DEF RowsOK, ManbaOK

LEMMA InitTInv == Init => TInv
<1> SUFFICES ASSUME Init PROVE TInv
  OBVIOUS
<1>1. Maps
  BY DEF Init, Maps, IsMap
<1>2. ManbaOK(manba) /\ stamp \in 0..MaxStamp /\ failures \in 0..MaxFailures /\ drifts \in Nat
  BY EmptyRows, SyncAssumption DEF Init
<1>3. ASSUME NEW r \in Replicas
      PROVE  RowsOK(raw[r]) /\ Control(r) /\ Targets(r)
  <2>1. RowsOK(raw[r])
    BY EmptyRows DEF Init
  <2>2. Control(r)
    BY DEF Init, Control
  <2>3. tgt[r] = NewManbaState /\ pc[r] = "idle"
    BY DEF Init
  <2>4. Targets(r)
    BY <2>3, NewState, EmptyGood DEF Targets
  <2> QED
    BY <2>1, <2>2, <2>4
<1> QED
  BY <1>1, <1>2, <1>3 DEF TInv

(* What a call does to Manba. *)
LEMMA RawIs ==
  ASSUME NEW m, NEW k \in Named, NEW op, NEW o
  PROVE  RawDo(m, k, op, o) = IF op = "Delete" THEN Cut(m, k, o.id) ELSE Put(m, k, o)
BY DEF RawDo, RawServer, RawCluster, RawAPI, RawRouting, Named

LEMMA RawManba ==
  ASSUME NEW m, IsMap(m, Kinds), NEW k \in Named, NEW op, NEW o
  PROVE  /\ Differs(m, RawDo(m, k, op, o), Kinds, k)
         /\ op = "Delete" => RawDo(m, k, op, o)[k] = {p \in m[k] : p.id # o.id}
         /\ op # "Delete" => RawDo(m, k, op, o)[k] = {p \in m[k] : p.id # o.id} \cup {o}
<1> DEFINE u == RawDo(m, k, op, o)
<1>1. k \in Kinds
  BY DEF Kinds
<1>2. CASE op = "Delete"
  <2>1. u = [m EXCEPT ![k] = {p \in m[k] : p.id # o.id}]
    BY <1>2, RawIs DEF Cut
  <2> HIDE DEF u
  <2>2. Differs(m, u, Kinds, k) /\ u[k] = {p \in m[k] : p.id # o.id}
    BY <1>1, <2>1 DEF IsMap, Differs
  <2> QED
    BY <1>2, <2>2 DEF u
<1>3. CASE op # "Delete"
  <2>1. u = [m EXCEPT ![k] = {p \in m[k] : p.id # o.id} \cup {o}]
    BY <1>3, RawIs DEF Put
  <2> HIDE DEF u
  <2>2. Differs(m, u, Kinds, k) /\ u[k] = {p \in m[k] : p.id # o.id} \cup {o}
    BY <1>1, <2>1 DEF IsMap, Differs
  <2> QED
    BY <1>3, <2>2 DEF u
<1> QED
  BY <1>2, <1>3

LEMMA RawBinds ==
  ASSUME NEW m, IsMap(m, Kinds), NEW op \in {"Create", "Update", "Delete"}, NEW b
  PROVE  /\ Differs(m, RawDo(m, "bind", op, b), Kinds, "bind")
         /\ op = "Create" => RawDo(m, "bind", op, b).bind = m.bind \cup {b}
         /\ op = "Delete" => RawDo(m, "bind", op, b).bind = m.bind \ {b}
         /\ op = "Update" => RawDo(m, "bind", op, b) = m
<1> DEFINE u == RawDo(m, "bind", op, b)
<1>1. "bind" \in Kinds
  BY DEF Kinds
<1>2. u = CASE op = "Create" -> [m EXCEPT !.bind = @ \cup {b}]
            [] op = "Delete" -> [m EXCEPT !.bind = @ \ {b}]
            [] op = "Update" -> m
  BY DEF RawDo, RawBind
<1> HIDE DEF u
<1>3. /\ Differs(m, u, Kinds, "bind")
      /\ op = "Create" => u.bind = m.bind \cup {b}
      /\ op = "Delete" => u.bind = m.bind \ {b}
      /\ op = "Update" => u = m
  BY <1>1, <1>2 DEF IsMap, Differs
<1> QED
  BY <1>3 DEF u

(* A call leaves rows, one under an id. *)
LEMMA RawOK ==
  ASSUME NEW m, ManbaOK(m), NEW k \in Kinds, NEW op \in {"Create", "Update", "Delete"}, NEW o,
         k \in Named /\ op # "Delete" => Row(k, o)
  PROVE  ManbaOK(RawDo(m, k, op, o))
<1> DEFINE u == RawDo(m, k, op, o)
<1>1. IsMap(m, Kinds) /\ IsFiniteSet(m[k])
  BY DEF ManbaOK, RowsOK
<1>2. CASE k = "bind"
  <2>1. Differs(m, u, Kinds, "bind") /\ u.bind \in {m.bind \cup {o}, m.bind \ {o}, m.bind}
    BY <1>1, <1>2, RawBinds
  <2>2. IsFiniteSet(u.bind)
    BY <1>1, <1>2, <2>1, FS_AddElement, FS_RemoveElement
  <2>3. "bind" \notin Named
    BY DEF Named
  <2> HIDE DEF u
  <2>4. IsMap(u, Kinds) /\ \A x \in Kinds : x # "bind" => u[x] = m[x]
    BY <2>1 DEF Differs
  <2>5. \A x \in Kinds : IsFiniteSet(u[x])
    BY <2>2, <2>4 DEF ManbaOK, RowsOK
  <2>6. \A x \in Named : u[x] = m[x]
    BY <2>3, <2>4 DEF Kinds
  <2>7. ManbaOK(u)
    BY <2>4, <2>5, <2>6 DEF ManbaOK, RowsOK
  <2> QED
    BY <2>7 DEF u
<1>3. CASE k # "bind"
  <2>1. k \in Named
    BY <1>3 DEF Kinds
  <2>2. /\ Differs(m, u, Kinds, k)
        /\ op = "Delete" => u[k] = {p \in m[k] : p.id # o.id}
        /\ op # "Delete" => u[k] = {p \in m[k] : p.id # o.id} \cup {o}
    BY <1>1, <2>1, RawManba
  <2> HIDE DEF u
  <2>3. IsFiniteSet(u[k])
    <3>1. IsFiniteSet({p \in m[k] : p.id # o.id})
      <4>1. {p \in m[k] : p.id # o.id} \subseteq m[k]
        OBVIOUS
      <4> QED
        BY <1>1, <4>1, FS_Subset
    <3> QED
      BY <2>2, <3>1, FS_AddElement
  <2>4. IsMap(u, Kinds) /\ \A x \in Kinds : x # k => u[x] = m[x]
    BY <2>2 DEF Differs
  <2>5. \A x \in Kinds : IsFiniteSet(u[x])
    BY <2>3, <2>4 DEF ManbaOK, RowsOK
  <2>6. \A p \in u[k] : Row(k, p) /\ \A q \in u[k] : p.id = q.id => p = q
    <3>1. \A p \in m[k] : Row(k, p) /\ \A q \in m[k] : p.id = q.id => p = q
      BY <2>1 DEF ManbaOK, RowsOK
    <3>2. CASE op = "Delete"
      BY <2>2, <3>1, <3>2
    <3>3. CASE op # "Delete"
      BY <2>1, <2>2, <3>1, <3>3
    <3> QED
      BY <3>2, <3>3
  <2>7. \A x \in Named : x # k => u[x] = m[x]
    BY <2>4 DEF Kinds
  <2>8. ManbaOK(u)
    BY <2>4, <2>5, <2>6, <2>7 DEF ManbaOK, RowsOK
  <2> QED
    BY <2>8 DEF u
<1> QED
  BY <1>2, <1>3

(* An action of one replica leaves the others alone. *)
Unmoved(q) ==
  /\ pc'[q] = pc[q] /\ wish'[q] = wish[q] /\ raw'[q] = raw[q] /\ cur'[q] = cur[q] /\ tgt'[q] = tgt[q]
  /\ phase'[q] = phase[q] /\ todo'[q] = todo[q] /\ failed'[q] = failed[q] /\ hash'[q] = hash[q]
  /\ ret'[q] = ret[q] /\ syncs'[q] = syncs[q] /\ lost'[q] = lost[q]

Act(r) ==
  \/ Start(r) \/ DumpClusters(r) \/ DumpServers(r) \/ DumpBinds(r) \/ DumpAPIs(r)
  \/ DumpRoutings(r) \/ DumpFailed(r) \/ Prepare(r)
  \/ SolveEvent(r) \/ SolveEventFailed(r) \/ SolvePhase(r) \/ SolveReturn(r) \/ Crash(r)

LEMMA Frame ==
  ASSUME Maps, NEW r \in Replicas, Act(r)
  PROVE  Maps' /\ \A q \in Replicas : q # r => Unmoved(q)
<1>1. CASE Start(r)
  BY <1>1 DEF Maps, IsMap, Unmoved, Start, Return, At
<1>2. CASE DumpClusters(r)
  BY <1>2 DEF Maps, IsMap, Unmoved, DumpClusters, Dump, At
<1>3. CASE DumpServers(r)
  BY <1>3 DEF Maps, IsMap, Unmoved, DumpServers, Dump, At
<1>4. CASE DumpBinds(r)
  BY <1>4 DEF Maps, IsMap, Unmoved, DumpBinds
<1>5. CASE DumpAPIs(r)
  BY <1>5 DEF Maps, IsMap, Unmoved, DumpAPIs, Dump, At
<1>6. CASE DumpRoutings(r)
  BY <1>6 DEF Maps, IsMap, Unmoved, DumpRoutings, Dump, At
<1>7. CASE DumpFailed(r)
  BY <1>7 DEF Maps, IsMap, Unmoved, DumpFailed, Return, At
<1>8. CASE Prepare(r)
  BY <1>8 DEF Maps, IsMap, Unmoved, Prepare, Return, At
<1>9. CASE SolveEvent(r)
  BY <1>9 DEF Maps, IsMap, Unmoved, SolveEvent
<1>10. CASE SolveEventFailed(r)
  BY <1>10 DEF Maps, IsMap, Unmoved, SolveEventFailed
<1>11. CASE SolvePhase(r)
  BY <1>11 DEF Maps, IsMap, Unmoved, SolvePhase
<1>12. CASE SolveReturn(r)
  BY <1>12 DEF Maps, IsMap, Unmoved, SolveReturn, Return, At
<1>13. CASE Crash(r)
  BY <1>13 DEF Maps, IsMap, Unmoved, Crash
<1> QED
  BY <1>1, <1>2, <1>3, <1>4, <1>5, <1>6, <1>7, <1>8, <1>9, <1>10, <1>11, <1>12, <1>13 DEF Act

-----------------------------------------------------------------------------
(***************************************************************************)
(* The two states of Solve.                                                *)
(***************************************************************************)
(* currentState: the rows of a dump, all of them if no two have one id or *)
(* one name.                                                              *)
LEMMA CurrentMade ==
  ASSUME NEW m, RowsOK(m), NEW listed \in Listings(m)
  PROVE  LET c == StateGet(listed)
         IN  /\ IsState(c.s) /\ \A k \in Named : GetAll(c.s[k]) \subseteq m[k]
             /\ c.err = "nil" => c.s.bind = m.bind
             /\ (\A k \in Named : Distinct(m[k])) =>
                  /\ \A k \in Named : Good(k, c.s[k]) /\ GetAll(c.s[k]) = m[k]
                  /\ (\A b \in m.bind : b.cluster # 0 /\ b.server # 0) => c.err = "nil"
<1>1. \A k \in Kinds : listed[k] \in SetToSeqs(m[k])
  BY DEF Listings, Kinds, Named
<1>2. \A k \in Kinds : IsList(listed[k]) /\ ToSet(listed[k]) = m[k] /\ Injective(listed[k])
  BY <1>1, SetListed DEF RowsOK
<1>3. Named \subseteq Kinds /\ "bind" \in Kinds
  BY DEF Kinds
<1>4. \A k \in Named : Listed(k, listed[k])
  BY <1>2, <1>3 DEF Listed, RowsOK, Row, Names
<1>5. \A k \in Named : Distinct(m[k]) => Clean(listed[k])
  <2>1. \A k \in Named : \A o \in m[k] : o.id # 0
    BY IdAssumption DEF RowsOK, Row
  <2> QED
    BY <1>2, <1>3, <2>1 DEF Clean
<1>6. IsList(listed.bind) /\ Injective(listed.bind) /\ ToSet(listed.bind) = m.bind
  BY <1>2, <1>3
<1> DEFINE c == StateGet(listed)
<1>7. /\ IsState(c.s) /\ \A k \in Named : GetAll(c.s[k]) \subseteq ToSet(listed[k])
      /\ c.err = "nil" => c.s.bind = ToSet(listed.bind)
      /\ (\A k \in Named : Clean(listed[k])) =>
            /\ \A k \in Named : Good(k, c.s[k]) /\ GetAll(c.s[k]) = ToSet(listed[k])
            /\ Injective(listed.bind) /\ (\A b \in ToSet(listed.bind) : b.cluster # 0 /\ b.server # 0) => c.err = "nil"
  BY <1>4, <1>6, StateGot
<1> HIDE DEF c
<1> QED
  BY <1>2, <1>3, <1>5, <1>6, <1>7 DEF c

(* The pairs of ids that the wished binds come to. *)
Pairs(w, id) == {[cluster |-> id.cluster[b.cluster], server |-> id.server[b.server]] : b \in WishedBinds(w)}

(* targetState: wished objects, all of them if every name has an id of its own. *)
LEMMA TargetMade ==
  ASSUME NEW w \in Wishes, NEW id,
         \A k \in Named : \A n \in DOMAIN w[k] : id[k][n] \in Ids \cup {0} /\ n \in Names(k)
  PROVE  LET t == StateGet(filterInvalidations(Lists(w, id)))
         IN  /\ IsState(t.s) /\ \A k \in Named : GetAll(t.s[k]) \subseteq Objs(w, id, k)
             /\ Apart(w, id) =>
                  /\ \A k \in Named : Good(k, t.s[k]) /\ GetAll(t.s[k]) = Objs(w, id, k)
                  /\ t.err = "nil" => t.s.bind = Pairs(w, id)
                  /\ Injective(w.bind) => t.err = "nil"
<1> DEFINE f == filterInvalidations(Lists(w, id))  t == StateGet(f)
<1>1. \A k \in Named : IsList(f[k]) /\ Injective(f[k]) /\ ToSet(f[k]) = Objs(w, id, k)
  BY FilteredNamed
<1>2. /\ IsList(f.bind)
      /\ Apart(w, id) => ToSet(f.bind) = Pairs(w, id) /\ (Injective(w.bind) => Injective(f.bind))
  BY FilteredBinds DEF Pairs
<1> HIDE DEF f
<1>3. \A k \in Named : \A o \in Objs(w, id, k) : \E n \in DOMAIN w[k] : o.id = id[k][n] /\ o.name = n
  <2>1. \A k, n : Obj(w, id, k, n).id = id[k][n] /\ Obj(w, id, k, n).name = n
    BY DEF Obj
  <2>2. ASSUME NEW k \in Named, NEW o \in Objs(w, id, k)
        PROVE  \E n \in DOMAIN w[k] : o.id = id[k][n] /\ o.name = n
    <3>1. PICK n \in Wished(w, k) : o = Obj(w, id, k, n)
      BY <2>2 DEF Objs
    <3>2. n \in DOMAIN w[k]
      BY <3>1 DEF Wished
    <3> QED
      BY <2>1, <3>1, <3>2
  <2> QED
    BY <2>2
<1>4. \A k \in Named : Listed(k, f[k])
  BY <1>1, <1>3 DEF Listed
<1>5. ASSUME Apart(w, id), NEW k \in Named PROVE Clean(f[k])
  <2>1. 0 \notin Ids
    BY IdAssumption
  <2>2. \A o \in Objs(w, id, k) : o.id # 0
    BY <1>3, <1>5, <2>1 DEF Apart
  <2>3. Distinct(Objs(w, id, k))
    <3>1. SUFFICES ASSUME NEW n \in Wished(w, k), NEW m \in Wished(w, k),
                          id[k][n] = id[k][m] \/ n = m
                   PROVE  n = m
      BY DEF Distinct, Objs, Obj
    <3> QED
      BY <1>5, <3>1 DEF Apart, Wished
  <2> QED
    BY <1>1, <2>2, <2>3 DEF Clean
<1>6. ASSUME Apart(w, id), NEW b \in Pairs(w, id) PROVE b.cluster # 0 /\ b.server # 0
  <2>1. "cluster" \in Named /\ "server" \in Named /\ 0 \notin Ids
    BY IdAssumption DEF Named
  <2>2. PICK x \in WishedBinds(w) : b = [cluster |-> id.cluster[x.cluster], server |-> id.server[x.server]]
    BY <1>6 DEF Pairs
  <2>3. x.cluster \in DOMAIN w.cluster /\ x.server \in DOMAIN w.server
    BY <2>2 DEF WishedBinds, Wished
  <2>4. id.cluster[x.cluster] \in Ids /\ id.server[x.server] \in Ids
    BY <1>6, <2>1, <2>3 DEF Apart
  <2> QED
    BY <2>1, <2>2, <2>4
<1>7. /\ IsState(t.s) /\ \A k \in Named : GetAll(t.s[k]) \subseteq ToSet(f[k])
      /\ t.err = "nil" => t.s.bind = ToSet(f.bind)
      /\ (\A k \in Named : Clean(f[k])) =>
            /\ \A k \in Named : Good(k, t.s[k]) /\ GetAll(t.s[k]) = ToSet(f[k])
            /\ Injective(f.bind) /\ (\A b \in ToSet(f.bind) : b.cluster # 0 /\ b.server # 0) => t.err = "nil"
  BY <1>2, <1>4, StateGot
<1> HIDE DEF t
<1>8. IsState(t.s) /\ \A k \in Named : GetAll(t.s[k]) \subseteq Objs(w, id, k)
  BY <1>1, <1>7
<1>9. ASSUME Apart(w, id)
      PROVE  /\ \A k \in Named : Good(k, t.s[k]) /\ GetAll(t.s[k]) = Objs(w, id, k)
             /\ t.err = "nil" => t.s.bind = Pairs(w, id)
             /\ Injective(w.bind) => t.err = "nil"
  <2>1. \A k \in Named : Clean(f[k])
    BY <1>5, <1>9
  <2>2. ToSet(f.bind) = Pairs(w, id) /\ (Injective(w.bind) => Injective(f.bind))
    BY <1>2, <1>9
  <2>3. \A b \in ToSet(f.bind) : b.cluster # 0 /\ b.server # 0
    BY <1>6, <1>9, <2>2
  <2> QED
    BY <1>1, <1>7, <2>1, <2>2, <2>3
<1> QED
  BY <1>8, <1>9 DEF t, f
-----------------------------------------------------------------------------
(***************************************************************************)
(* Every step keeps the types.                                             *)
(***************************************************************************)
LEMMA ListIs ==
  ASSUME NEW s
  PROVE  (\A k \in Named : List(s, k) = GetAll(s[k])) /\ List(s, "bind") = s.bind
BY DEF List, Named, GetAllServers, GetAllClusters, GetAllAPIs, GetAllRoutings, GetAllBinds

(* The phases: five for what the target has, five for what the current state has. *)
LEMMA Phases ==
  /\ \A p \in 1..10 : PhaseKind[p] \in Kinds
  /\ PhaseKind[1] = "server"
BY DEF PhaseKind, Kinds, Named

LEMMA OpIs ==
  ASSUME NEW r, NEW p \in 1..10, NEW o
  PROVE  /\ OpFor(r, p, o) \in {"Create", "Update", "Delete", None}
         /\ p <= 5 => OpFor(r, p, o) # "Delete"
         /\ p > 5 => OpFor(r, p, o) \in {"Delete", None}
BY DEF OpFor, None

LEMMA OthersKept ==
  ASSUME TInv, NEW q \in Replicas, Unmoved(q)
  PROVE  RowsOK(raw'[q]) /\ Control(q)' /\ Targets(q)'
BY DEF TInv, Unmoved, Control, Targets

(* A dump of one more kind. *)
LEMMA DumpRows ==
  ASSUME NEW m, RowsOK(m), NEW u, NEW k \in Kinds, Differs(m, u, Kinds, k), IsFiniteSet(u[k]),
         k \in Named => \A o \in u[k] : Row(k, o)
  PROVE  RowsOK(u)
<1>1. IsMap(u, Kinds) /\ \A x \in Kinds : x # k => u[x] = m[x]
  BY DEF Differs
<1>2. Named \subseteq Kinds
  BY DEF Kinds
<1> QED
  BY <1>1, <1>2 DEF RowsOK

LEMMA DumpTypes ==
  ASSUME TInv, NEW r \in Replicas, NEW k \in Named, NEW x, NEW y \in {"servers", "binds", "routings", "prepare"},
         x # "idle", At(r, x, y), Dump(r, k)
  PROVE  ManbaOK(manba') /\ stamp' \in 0..MaxStamp /\ failures' \in 0..MaxFailures /\ RowsOK(raw'[r]) /\ Control(r)' /\ Targets(r)'
<1>1. IsMap(raw, Replicas) /\ IsMap(pc, Replicas) /\ RowsOK(raw[r]) /\ ManbaOK(manba) /\ Control(r) /\ Targets(r)
  BY DEF TInv, Maps
<1>2. k \in Kinds /\ IsMap(raw[r], Kinds)
  BY <1>1 DEF Kinds, RowsOK
<1>3. raw'[r] = [raw[r] EXCEPT ![k] = manba[k]]
  BY <1>1 DEF IsMap, Dump
<1> DEFINE u == raw'[r]
<1> HIDE DEF u
<1>4. Differs(raw[r], u, Kinds, k) /\ u[k] = manba[k]
  BY <1>2, <1>3 DEF IsMap, Differs, u
<1>5. RowsOK(u)
  BY <1>1, <1>2, <1>4, DumpRows DEF ManbaOK, RowsOK
<1>6. ManbaOK(manba') /\ stamp' \in 0..MaxStamp /\ failures' \in 0..MaxFailures
  BY DEF TInv, Dump
<1>7. pc[r] = x /\ pc'[r] = y
  BY <1>1 DEF At, IsMap
<1>8. Control(r)'
  BY <1>1, <1>7 DEF Control, Dump
<1>9. Targets(r)'
  BY <1>1, <1>7 DEF Targets, Dump
<1> QED
  BY <1>5, <1>6, <1>8, <1>9 DEF u

LEMMA PrepareTypes ==
  ASSUME TInv, NEW r \in Replicas, Prepare(r)
  PROVE  ManbaOK(manba') /\ stamp' \in 0..MaxStamp /\ failures' \in 0..MaxFailures /\ RowsOK(raw'[r]) /\ Control(r)' /\ Targets(r)'
<1>1. Maps /\ RowsOK(raw[r]) /\ ManbaOK(manba) /\ Control(r) /\ Targets(r) /\ pc[r] = "prepare" /\ stamp \in 0..MaxStamp
  BY DEF TInv, Prepare
<1>2. ManbaOK(manba') /\ failures' \in 0..MaxFailures /\ RowsOK(raw'[r])
  BY <1>1, EmptyRows DEF TInv, Maps, IsMap, Prepare
<1> DEFINE w == wish[r]
<1>3. w \in Wishes
  BY <1>1 DEF Control
<1>4. PICK listed \in Listings(raw[r]), gap \in Gaps :
          LET c == StateGet(listed)
              n0 == stamp + gap
              t == StateGet(filterInvalidations(setTargetsIDs(w, c.s, n0)))
          IN  /\ n0 + Len(NewNames(w, c.s)) <= MaxStamp
              /\ stamp' = n0 + Len(NewNames(w, c.s))
              /\ IF c.err = "nil" /\ t.err = "nil"
                 THEN /\ At(r, "prepare", "solve") /\ UNCHANGED ret
                      /\ cur' = [cur EXCEPT ![r] = c.s] /\ tgt' = [tgt EXCEPT ![r] = t.s]
                      /\ phase' = [phase EXCEPT ![r] = 1]
                      /\ todo' = [todo EXCEPT ![r] = GetAllServers(t.s)]
                 ELSE Return(r, "prepare", "error") /\ UNCHANGED <<cur, tgt, phase, todo>>
  BY DEF Prepare
<1> DEFINE c == StateGet(listed)
           n0 == stamp + gap
           id == IdOf(w, c.s, n0)
           f == filterInvalidations(setTargetsIDs(w, c.s, n0))
           t == StateGet(f)
<1>5. n0 \in Nat /\ MaxStamp \in Nat
  BY <1>1, SyncAssumption
<1>6. IsState(c.s)
  BY <1>1, CurrentMade
<1>7. stamp' \in 0..MaxStamp
  <2>1. Len(NewNames(w, c.s)) \in Nat
    BY <1>3, NewNamed, ListDomain
  <2>2. n0 + Len(NewNames(w, c.s)) <= MaxStamp /\ stamp' = n0 + Len(NewNames(w, c.s))
    BY <1>4
  <2> HIDE DEF n0, c
  <2> QED
    BY <1>5, <2>1, <2>2
<1>8. \A k \in Named : \A n \in DOMAIN w[k] : id[k][n] \in Ids \cup {0} /\ n \in Names(k)
  BY <1>3, <1>5, <1>6, IdsGiven
<1>9. f = filterInvalidations(Lists(w, id))
  BY TargetLists
<1>10. IsState(t.s)
  <2> HIDE DEF f, id
  <2>1. LET t2 == StateGet(filterInvalidations(Lists(w, id))) IN IsState(t2.s)
    BY <1>3, <1>8, TargetMade
  <2> QED
    BY <1>9, <2>1
<1>11. \A k \in Named : \A o \in GetAll(t.s[k]) : Row(k, o)
  BY <1>10, TabRows DEF IsState
<1>12. IF c.err = "nil" /\ t.err = "nil"
                 THEN /\ At(r, "prepare", "solve") /\ UNCHANGED ret
                      /\ cur' = [cur EXCEPT ![r] = c.s] /\ tgt' = [tgt EXCEPT ![r] = t.s]
                      /\ phase' = [phase EXCEPT ![r] = 1]
                      /\ todo' = [todo EXCEPT ![r] = GetAllServers(t.s)]
                 ELSE Return(r, "prepare", "error") /\ UNCHANGED <<cur, tgt, phase, todo>>
  BY <1>4
<1> HIDE DEF c, t
<1>13. wish' = wish /\ hash' = hash
  BY DEF Prepare
<1>14. CASE c.err = "nil" /\ t.err = "nil"
  <2>1. pc'[r] = "solve" /\ ret'[r] = ret[r] /\ tgt'[r] = t.s /\ phase'[r] = 1 /\ todo'[r] = GetAllServers(t.s)
    BY <1>1, <1>12, <1>14 DEF Maps, IsMap, At
  <2>2. Control(r)'
    BY <1>1, <1>13, <2>1 DEF Control
  <2>3. "server" \in Named /\ List(t.s, "server") = GetAllServers(t.s)
    BY DEF Named, List
  <2>4. Targets(r)'
    BY <1>11, <2>1, <2>3, Phases DEF Targets
  <2> QED
    BY <1>2, <1>7, <2>2, <2>4
<1>15. CASE ~(c.err = "nil" /\ t.err = "nil")
  <2>1. pc'[r] = "idle" /\ ret'[r] = "error" /\ UNCHANGED <<tgt, phase, todo>>
    BY <1>1, <1>12, <1>15 DEF Maps, IsMap, At, Return
  <2>2. Control(r)' /\ Targets(r)'
    BY <1>1, <1>13, <2>1 DEF Control, Targets
  <2> QED
    BY <1>2, <1>7, <2>2
<1> QED
  BY <1>14, <1>15

(* What an event of Solve is about: a row of its kind, and the target's when *)
(* it is not a deletion.                                                     *)
LEMMA EventRows ==
  ASSUME TInv, NEW r \in Replicas, pc[r] = "solve", NEW o \in todo[r],
         NEW op, op = OpFor(r, phase[r], o), op # None
  PROVE  /\ PhaseKind[phase[r]] \in Kinds /\ op \in {"Create", "Update", "Delete"}
         /\ ManbaOK(RawDo(manba, PhaseKind[phase[r]], op, o))
<1> DEFINE p == phase[r]  k == PhaseKind[p]
<1>1. Targets(r) /\ ManbaOK(manba) /\ p \in 1..10
  BY DEF TInv, Targets
<1>2. k \in Kinds
  BY <1>1, Phases
<1>3. op \in {"Create", "Update", "Delete"} /\ (op # "Delete" => p <= 5)
  BY <1>1, OpIs
<1>4. ASSUME k \in Named, op # "Delete" PROVE Row(k, o)
  <2>1. o \in List(tgt[r], k)
    BY <1>1, <1>3, <1>4 DEF Targets
  <2>2. o \in GetAll(tgt[r][k])
    BY <1>4, <2>1, ListIs
  <2> QED
    BY <1>1, <1>4, <2>2 DEF Targets
<1> HIDE DEF p, k
<1>5. ManbaOK(RawDo(manba, k, op, o))
  BY <1>1, <1>2, <1>3, <1>4, RawOK
<1> QED
  BY <1>2, <1>3, <1>5 DEF k, p

LEMMA ActTypes ==
  ASSUME TInv, NEW r \in Replicas, Act(r)
  PROVE  ManbaOK(manba') /\ stamp' \in 0..MaxStamp /\ failures' \in 0..MaxFailures /\ RowsOK(raw'[r]) /\ Control(r)' /\ Targets(r)'
<1>1. /\ Maps /\ RowsOK(raw[r]) /\ ManbaOK(manba) /\ Control(r) /\ Targets(r)
      /\ stamp \in 0..MaxStamp /\ failures \in 0..MaxFailures /\ MaxFailures \in Nat
  BY SyncAssumption DEF TInv
<1>2. CASE Start(r)
  <2>1. UNCHANGED <<manba, stamp, raw, tgt, phase, todo, hash, failures>>
    BY <1>2 DEF Start
  <2>2. wish'[r] \in Wishes /\ ((pc'[r] = "idle" /\ ret'[r] = "nil") \/ (pc'[r] = "clusters" /\ ret'[r] = None))
    <3>1. PICK w \in Wishes :
            /\ wish' = [wish EXCEPT ![r] = w]
            /\ \/ Return(r, "idle", "nil")
               \/ At(r, "idle", "clusters") /\ ret' = [ret EXCEPT ![r] = None]
      BY <1>2 DEF Start
    <3>2. wish'[r] = w
      BY <1>1, <3>1 DEF Maps, IsMap
    <3> IsMap(pc, Replicas) /\ IsMap(ret, Replicas)
      BY <1>1 DEF Maps
    <3>3. CASE Return(r, "idle", "nil")
      <4>1. pc'[r] = "idle" /\ ret'[r] = "nil"
        BY <3>3 DEF IsMap, Return, At
      <4> QED
        BY <3>2, <4>1
    <3>4. CASE At(r, "idle", "clusters") /\ ret' = [ret EXCEPT ![r] = None]
      <4>1. pc'[r] = "clusters" /\ ret'[r] = None
        BY <3>4 DEF IsMap, At
      <4> QED
        BY <3>2, <4>1
    <3> QED
      BY <3>1, <3>3, <3>4
  <2>3. Control(r)'
    BY <1>1, <2>1, <2>2, WishesAreWishes DEF Control
  <2>4. Targets(r)'
    BY <1>1, <2>1, <2>2 DEF Targets
  <2> QED
    BY <1>1, <2>1, <2>3, <2>4
<1>3. CASE DumpClusters(r)
  BY <1>3, DumpTypes DEF DumpClusters, Named
<1>4. CASE DumpServers(r)
  BY <1>4, DumpTypes DEF DumpServers, Named
<1>5. CASE DumpAPIs(r)
  BY <1>5, DumpTypes DEF DumpAPIs, Named
<1>6. CASE DumpRoutings(r)
  BY <1>6, DumpTypes DEF DumpRoutings, Named
<1>7. CASE DumpBinds(r)
  <2>1. UNCHANGED <<manba, stamp, pc, wish, tgt, phase, hash, ret, failures>> /\ pc[r] = "binds"
    BY <1>7 DEF DumpBinds
  <2>2. PICK c \in todo[r] : raw' = [raw EXCEPT ![r].bind = @ \cup {b \in manba.bind : b.cluster = c.id}]
    BY <1>7 DEF DumpBinds
  <2> DEFINE B == {b \in manba.bind : b.cluster = c.id}  u == raw'[r]
  <2>3. IsMap(raw, Replicas) /\ IsMap(raw[r], Kinds) /\ "bind" \in Kinds /\ "bind" \notin Named
    BY <1>1 DEF Maps, RowsOK, Kinds, Named
  <2>4. IsFiniteSet(raw[r].bind \cup B)
    <3>1. IsFiniteSet(manba.bind) /\ IsFiniteSet(raw[r].bind)
      BY <1>1, <2>3 DEF ManbaOK, RowsOK
    <3>2. B \subseteq manba.bind
      OBVIOUS
    <3> HIDE DEF B
    <3>3. IsFiniteSet(B)
      BY <3>1, <3>2, FS_Subset
    <3> QED
      BY <3>1, <3>3, FS_Union
  <2> HIDE DEF B
  <2>5. u = [raw[r] EXCEPT !.bind = @ \cup B]
    BY <2>2, <2>3 DEF IsMap, B
  <2> HIDE DEF u
  <2>6. Differs(raw[r], u, Kinds, "bind") /\ u.bind = raw[r].bind \cup B
    BY <2>3, <2>5 DEF IsMap, Differs
  <2>7. RowsOK(u)
    BY <1>1, <2>3, <2>4, <2>6, DumpRows
  <2>8. Control(r)' /\ Targets(r)'
    BY <1>1, <2>1 DEF Control, Targets
  <2> QED
    BY <1>1, <2>1, <2>7, <2>8 DEF u
<1>8. CASE DumpFailed(r)
  <2>1. UNCHANGED <<manba, stamp, wish, tgt, phase, hash>> /\ failures' \in 0..MaxFailures
    BY <1>1, <1>8 DEF DumpFailed
  <2>2. raw'[r] = Empty /\ pc'[r] = "idle" /\ ret'[r] = "error"
    BY <1>1, <1>8 DEF DumpFailed, Maps, IsMap, Return, At
  <2>3. Control(r)' /\ Targets(r)'
    BY <1>1, <2>1, <2>2 DEF Control, Targets
  <2> QED
    BY <1>1, <2>1, <2>2, <2>3, EmptyRows
<1>9. CASE Prepare(r)
  BY <1>9, PrepareTypes
<1>10. CASE SolveEvent(r)
  <2>1. UNCHANGED <<stamp, pc, wish, raw, tgt, phase, hash, ret, failures>> /\ pc[r] = "solve"
    BY <1>10 DEF SolveEvent
  <2>2. PICK o \in todo[r] :
          /\ todo' = [todo EXCEPT ![r] = @ \ {o}]
          /\ OpFor(r, phase[r], o) = None => UNCHANGED manba
          /\ OpFor(r, phase[r], o) # None =>
               manba' = RawDo(manba, PhaseKind[phase[r]], OpFor(r, phase[r], o), o)
    BY <1>10 DEF SolveEvent
  <2>3. ManbaOK(manba')
    BY <1>1, <2>1, <2>2, EventRows
  <2>4. todo'[r] \subseteq todo[r]
    BY <1>1, <2>2 DEF Maps, IsMap
  <2>5. Control(r)' /\ Targets(r)'
    BY <1>1, <2>1, <2>4 DEF Control, Targets
  <2> QED
    BY <1>1, <2>1, <2>3, <2>5
<1>11. CASE SolveEventFailed(r)
  <2>1. UNCHANGED <<stamp, pc, wish, raw, tgt, phase, hash, ret>> /\ pc[r] = "solve" /\ failures' \in 0..MaxFailures
    BY <1>1, <1>11 DEF SolveEventFailed
  <2>2. PICK o \in todo[r] :
          /\ todo' = [todo EXCEPT ![r] = @ \ {o}] /\ OpFor(r, phase[r], o) # None
          /\ manba' \in {manba, RawDo(manba, PhaseKind[phase[r]], OpFor(r, phase[r], o), o)}
    BY <1>11 DEF SolveEventFailed
  <2>3. ManbaOK(manba')
    BY <1>1, <2>1, <2>2, EventRows
  <2>4. todo'[r] \subseteq todo[r]
    BY <1>1, <2>2 DEF Maps, IsMap
  <2>5. Control(r)' /\ Targets(r)'
    BY <1>1, <2>1, <2>4 DEF Control, Targets
  <2> QED
    BY <1>1, <2>1, <2>3, <2>5
<1>12. CASE SolvePhase(r)
  <2>1. UNCHANGED <<manba, stamp, pc, wish, raw, tgt, hash, ret, failures>> /\ phase[r] < 10 /\ pc[r] = "solve"
    BY <1>12 DEF SolvePhase
  <2>2. /\ phase'[r] = phase[r] + 1
        /\ todo'[r] = List(IF phase[r] + 1 > 5 THEN cur[r] ELSE tgt[r], PhaseKind[phase[r] + 1])
    BY <1>1, <1>12 DEF SolvePhase, Maps, IsMap
  <2>3. phase'[r] \in 1..10 /\ phase[r] \in 1..10
    BY <1>1, <2>1, <2>2 DEF Targets
  <2>4. phase'[r] <= 5 => todo'[r] = List(tgt[r], PhaseKind[phase'[r]])
    BY <2>2, <2>3
  <2>5. Control(r)'
    BY <1>1, <2>1, <2>3 DEF Control
  <2>6. Targets(r)'
    BY <1>1, <2>1, <2>3, <2>4 DEF Targets
  <2> QED
    BY <1>1, <2>1, <2>5, <2>6
<1>13. CASE SolveReturn(r)
  <2>1. UNCHANGED <<manba, stamp, wish, raw, failures>>
    BY <1>13 DEF SolveReturn
  <2>2. /\ pc'[r] = "idle" /\ ret'[r] \in {"error", "nil"} /\ hash'[r] \in {hash[r], wish[r]} /\ phase'[r] = 0
        /\ tgt'[r] = NewManbaState
    BY <1>1, <1>13 DEF SolveReturn, Maps, IsMap, Return, At
  <2>3. Control(r)'
    BY <1>1, <2>1, <2>2 DEF Control
  <2>4. Targets(r)'
    BY <2>2, NewState, EmptyGood DEF Targets
  <2> QED
    BY <1>1, <2>1, <2>3, <2>4
<1>14. CASE Crash(r)
  <2>1. UNCHANGED <<manba, stamp>> /\ failures' \in 0..MaxFailures
    BY <1>1, <1>14 DEF Crash
  <2>2. /\ pc'[r] = "idle" /\ ret'[r] = None /\ hash'[r] = NoWish /\ wish'[r] = NoWish /\ phase'[r] = 0
        /\ tgt'[r] = NewManbaState /\ raw'[r] = Empty
    BY <1>1, <1>14 DEF Crash, Maps, IsMap
  <2>3. Control(r)'
    BY <2>2 DEF Control
  <2>4. Targets(r)'
    BY <2>2, NewState, EmptyGood DEF Targets
  <2> QED
    BY <1>1, <2>1, <2>2, <2>3, <2>4, EmptyRows
<1> QED
  BY <1>2, <1>3, <1>4, <1>5, <1>6, <1>7, <1>8, <1>9, <1>10, <1>11, <1>12, <1>13, <1>14 DEF Act

LEMMA NextTInv == TInv /\ [Next]_vars => TInv'
<1> SUFFICES ASSUME TInv, [Next]_vars PROVE TInv'
  OBVIOUS
<1>1. ASSUME NEW r \in Replicas, Act(r) PROVE TInv'
  <2>1. Maps
    BY DEF TInv
  <2>2. Maps' /\ \A q \in Replicas : q # r => Unmoved(q)
    BY <1>1, <2>1, Frame
  <2>3. \A q \in Replicas : q # r => RowsOK(raw'[q]) /\ Control(q)' /\ Targets(q)'
    BY <2>2, OthersKept
  <2>4. ManbaOK(manba') /\ stamp' \in 0..MaxStamp /\ failures' \in 0..MaxFailures /\ RowsOK(raw'[r]) /\ Control(r)' /\ Targets(r)'
    BY <1>1, ActTypes
  <2>5. drifts' = drifts
    BY <1>1 DEF Act, Start, DumpClusters, DumpServers, DumpBinds, DumpAPIs, DumpRoutings, DumpFailed, Dump,
         Prepare, SolveEvent, SolveEventFailed, SolvePhase, SolveReturn, Crash
  <2> QED
    BY <2>2, <2>3, <2>4, <2>5 DEF TInv
<1>2. CASE Drift
  <2>1. UNCHANGED <<stamp, own, syncs, failures, clash>> /\ drifts' \in Nat
    BY <1>2 DEF Drift, TInv
  <2>2. PICK k \in Named : \E o \in manba[k] : manba' = Cut(manba, k, o.id)
    BY <1>2 DEF Drift
  <2> PICK o \in manba[k] : manba' = Cut(manba, k, o.id)
    BY <2>2
  <2>3. ManbaOK(manba)
    BY DEF TInv
  <2>4. k \in Kinds /\ manba' = RawDo(manba, k, "Delete", o)
    BY <2>2, RawIs DEF Kinds
  <2>5. ManbaOK(manba')
    BY <2>3, <2>4, RawOK
  <2> QED
    BY <2>1, <2>5 DEF TInv, own, Maps, Control, Targets
<1>3. CASE UNCHANGED vars
  BY <1>3 DEF TInv, vars, own, Maps, Control, Targets
<1> QED
  BY <1>1, <1>2, <1>3 DEF Next, Act, Finished

(***************************************************************************)
(* With any number of replicas, whatever fails and whoever else writes:    *)
(* Manba has under an id at most one object of a kind, every object has an *)
(* id and a name of its kind, and so has every object of a target.         *)
(***************************************************************************)
THEOREM TypesKept == Spec => []TypeOK
<1>1. Spec => []TInv
  BY InitTInv, NextTInv, PTL DEF Spec
<1> QED
  BY <1>1, TInvType, PTL

-----------------------------------------------------------------------------
(***************************************************************************)
(* The events of Solve.  Among the objects that Manba, the dump and the    *)
(* two states have of a kind, the same id means the same name and the      *)
(* reverse: what the diff finds by name it then changes by id.             *)
(***************************************************************************)
Agree(S) == \A o, p \in S : o.id = p.id <=> o.name = p.name

(* The registry's post actions, for a named kind. *)
LEMMA PostIs ==
  ASSUME NEW s, NEW k \in Named, NEW o
  PROVE  /\ PostProcess(s, k, "Create", o) = In(s, k, Add(s[k], o))
         /\ PostProcess(s, k, "Update", o) = In(s, k, Update(s[k], o))
         /\ PostProcess(s, k, "Delete", o) = In(s, k, Delete(s[k], Identifier(o)))
<1>1. CASE k = "api"
  BY <1>1 DEF PostProcess, PostAPI, AddAPI, UpdateAPI, DeleteAPI
<1>2. CASE k = "routing"
  BY <1>2 DEF PostProcess, PostRouting, AddRouting, UpdateRouting, DeleteRouting
<1>3. CASE k = "cluster"
  BY <1>3 DEF PostProcess, PostCluster, AddCluster, UpdateCluster, DeleteCluster
<1>4. CASE k = "server"
  BY <1>4 DEF PostProcess, PostServer, AddServer, UpdateServer, DeleteServer
<1> QED
  BY <1>1, <1>2, <1>3, <1>4 DEF Named

LEMMA InIs ==
  ASSUME NEW s, IsMap(s, Kinds), NEW k \in Kinds, NEW x
  PROVE  Differs(s, In(s, k, x).s, Kinds, k) /\ In(s, k, x).s[k] = x.t /\ In(s, k, x).err = x.err
<1> DEFINE u == In(s, k, x).s  t == x.t
<1>1. u = [s EXCEPT ![k] = t] /\ In(s, k, x).err = x.err
  BY DEF In
<1> HIDE DEF u, t
<1>2. Differs(s, u, Kinds, k) /\ u[k] = t
  BY <1>1 DEF IsMap, Differs
<1> QED
  BY <1>1, <1>2 DEF u, t

(* Two states, each without twins. *)
Twinless(s) == IsMap(s, Kinds) /\ \A k \in Named : Good(k, s[k])

(* What Lookup and Same are, for a named kind. *)
LEMMA LookupIs ==
  ASSUME NEW s, NEW k \in Named, NEW o, NEW p
  PROVE  Lookup(s, k, o) = Get(s[k], Identifier(o)) /\ (Same(k, o, p) <=> o = p)
BY DEF Lookup, Same, Named, GetServer, GetCluster, GetAPI, GetRouting,
       CompareServer, CompareCluster, CompareAPI, CompareRouting

(* The objects of a table without twins. *)
LEMMA GoodRows ==
  ASSUME NEW k \in Named, NEW t, Good(k, t)
  PROVE  /\ \A o \in GetAll(t) : Row(k, o) /\ o # NoRow /\ Identifier(o) = o.name /\ o.name \in Names(k) /\ o.id \in Ids
         /\ \A o, p \in GetAll(t) : o.id = p.id \/ o.name = p.name => o = p
<1>1. Tab(k, t) /\ Indexed(t)
  BY DEF Good
<1>2. \A o \in GetAll(t) : Row(k, o) /\ o # NoRow /\ Identifier(o) = o.name /\ o.name \in Names(k) /\ o.id \in Ids
  BY <1>1, TabRows, RowFacts
<1>3. \A o, p \in GetAll(t) : o.id = p.id => o = p
  BY <1>1, TabRows
<1>4. \A o, p \in GetAll(t) : o.name = p.name => o = p
  BY <1>1, <1>2, GetByName
<1> QED
  BY <1>2, <1>3, <1>4

(* An event of the first five phases, for a named kind. *)
LEMMA UpNamed ==
  ASSUME NEW r, NEW p \in 1..5, NEW k \in Named, k = PhaseKind[p], Twinless(cur[r]), Twinless(tgt[r]),
         Agree(GetAll(cur[r][k]) \cup GetAll(tgt[r][k])), NEW o \in GetAll(tgt[r][k])
  PROVE  LET op == OpFor(r, p, o)
             u  == PostProcess(cur[r], k, op, o)
         IN  /\ op = None => o \in GetAll(cur[r][k])
             /\ op # None =>
                  /\ op \in {"Create", "Update"} /\ u.err = "nil" /\ Differs(cur[r], u.s, Kinds, k) /\ Good(k, u.s[k])
                  /\ GetAll(u.s[k]) = {c \in GetAll(cur[r][k]) : c.id # o.id} \cup {o}
                  /\ \A c \in GetAll(cur[r][k]) : c.id = o.id => c \notin GetAll(tgt[r][k])
<1> DEFINE s == cur[r]  t == tgt[r]  op == OpFor(r, p, o)  u == PostProcess(s, k, op, o)
<1>1. /\ IsMap(s, Kinds) /\ Good(k, s[k]) /\ Good(k, t[k]) /\ k \in Kinds
      /\ Row(k, o) /\ Identifier(o) = o.name /\ o.name \in Names(k)
  BY GoodRows DEF Twinless, Kinds
<1> DEFINE c == Get(s[k], o.name)
<1>2. op = IF c = NoRow THEN "Create" ELSE IF c # o THEN "Update" ELSE None
  <2>1. Lookup(s, k, o) = c /\ (Same(k, c, o) <=> c = o)
    BY <1>1, LookupIs
  <2>2. ~(p > 5)
    OBVIOUS
  <2> QED
    BY <2>1, <2>2 DEF OpFor
<1>3. c # NoRow => c \in GetAll(s[k]) /\ c.name = o.name
  BY <1>1, GetByName DEF Good
<1>4. c = NoRow => \A x \in GetAll(s[k]) : x.name # o.name
  BY <1>1, GetNothing
<1>5. \A x \in GetAll(s[k]) : x.id = o.id <=> x.name = o.name
  BY DEF Agree
<1>6. \A x, y \in GetAll(s[k]) : x.id = y.id \/ x.name = y.name => x = y
  BY <1>1, GoodRows
<1>7. \A x, y \in GetAll(t[k]) : x.id = y.id \/ x.name = y.name => x = y
  BY <1>1, GoodRows
<1> HIDE DEF c, op
<1>8. CASE c = NoRow
  <2>1. op = "Create" /\ u = In(s, k, Add(s[k], o))
    BY <1>2, <1>8, PostIs
  <2>2. \A x \in GetAll(s[k]) : x.id # o.id /\ x.name # o.name
    BY <1>4, <1>5, <1>8
  <2>3. Add(s[k], o).err = "nil" /\ Good(k, Add(s[k], o).t) /\ GetAll(Add(s[k], o).t) = GetAll(s[k]) \cup {o}
    BY <1>1, <2>2, AddGood
  <2> DEFINE a == Add(s[k], o)
  <2> HIDE DEF a
  <2>4. Differs(s, u.s, Kinds, k) /\ u.s[k] = a.t /\ u.err = a.err
    BY <1>1, <2>1, InIs DEF a
  <2>5. {x \in GetAll(s[k]) : x.id # o.id} = GetAll(s[k])
    BY <2>2
  <2> HIDE DEF u
  <2> QED
    BY <2>1, <2>2, <2>3, <2>4, <2>5 DEF a, u, op, None
<1>9. CASE c # NoRow /\ c # o
  <2>1. op = "Update" /\ u = In(s, k, Update(s[k], o))
    BY <1>2, <1>9, PostIs
  <2>2. c \in GetAll(s[k]) /\ c.name = o.name /\ c.id = o.id
    BY <1>3, <1>5, <1>9
  <2>3. /\ Update(s[k], o).err = "nil" /\ Good(k, Update(s[k], o).t)
        /\ GetAll(Update(s[k], o).t) = (GetAll(s[k]) \ {c}) \cup {o}
    BY <1>1, <2>2, UpdateGood
  <2> DEFINE a == Update(s[k], o)
  <2> HIDE DEF a
  <2>4. Differs(s, u.s, Kinds, k) /\ u.s[k] = a.t /\ u.err = a.err
    BY <1>1, <2>1, InIs DEF a
  <2>5. {x \in GetAll(s[k]) : x.id # o.id} = GetAll(s[k]) \ {c}
    BY <1>6, <2>2
  <2>6. \A x \in GetAll(s[k]) : x.id = o.id => x \notin GetAll(t[k])
    BY <1>6, <1>7, <1>9, <2>2
  <2> HIDE DEF u
  <2> QED
    BY <2>1, <2>3, <2>4, <2>5, <2>6 DEF a, u, op, None
<1>10. CASE c = o
  <2>1. o # NoRow
    BY <1>1, RowFacts
  <2> QED
    BY <1>2, <1>3, <1>10, <2>1 DEF op
<1> QED
  BY <1>8, <1>9, <1>10

(* An event of the last five phases, for a named kind. *)
LEMMA DownNamed ==
  ASSUME NEW r, NEW p \in 6..10, NEW k \in Named, k = PhaseKind[p], Twinless(cur[r]), Twinless(tgt[r]),
         NEW o \in GetAll(cur[r][k])
  PROVE  LET op == OpFor(r, p, o)
             u  == PostProcess(cur[r], k, op, o)
         IN  /\ op = None => (GetAll(tgt[r][k]) \subseteq GetAll(cur[r][k]) => o \in GetAll(tgt[r][k]))
             /\ op # None =>
                  /\ op = "Delete" /\ u.err = "nil" /\ Differs(cur[r], u.s, Kinds, k) /\ Good(k, u.s[k])
                  /\ GetAll(u.s[k]) = GetAll(cur[r][k]) \ {o}
                  /\ \A x \in GetAll(tgt[r][k]) : x.name # o.name
<1> DEFINE s == cur[r]  t == tgt[r]  op == OpFor(r, p, o)  u == PostProcess(s, k, op, o)
<1>1. /\ IsMap(s, Kinds) /\ Good(k, s[k]) /\ Good(k, t[k]) /\ k \in Kinds
      /\ Row(k, o) /\ Identifier(o) = o.name /\ o.name \in Names(k)
  BY GoodRows DEF Twinless, Kinds
<1> DEFINE c == Get(t[k], o.name)
<1>2. op = IF c = NoRow THEN "Delete" ELSE None
  <2>1. Lookup(t, k, o) = c
    BY <1>1, LookupIs
  <2>2. p > 5
    OBVIOUS
  <2> QED
    BY <2>1, <2>2 DEF OpFor
<1> HIDE DEF op
<1>3. CASE c = NoRow
  <2>1. op = "Delete" /\ u = In(s, k, Delete(s[k], Identifier(o)))
    BY <1>2, <1>3, PostIs
  <2> DEFINE a == Delete(s[k], Identifier(o))
  <2>2. a.err = "nil" /\ Good(k, a.t) /\ GetAll(a.t) = GetAll(s[k]) \ {o}
    BY <1>1, DeleteGood
  <2> HIDE DEF a
  <2>3. Differs(s, u.s, Kinds, k) /\ u.s[k] = a.t /\ u.err = a.err
    BY <1>1, <2>1, InIs DEF a
  <2>4. \A x \in GetAll(t[k]) : x.name # o.name
    BY <1>1, <1>3, GetNothing
  <2> HIDE DEF u
  <2> QED
    BY <2>1, <2>2, <2>3, <2>4 DEF u, op, None
<1>4. CASE c # NoRow
  <2>1. op = None /\ c \in GetAll(t[k]) /\ c.name = o.name
    BY <1>1, <1>2, <1>4, GetByName DEF Good
  <2>2. c \in GetAll(s[k]) => c = o
    BY <1>1, <2>1, GoodRows
  <2> QED
    BY <2>1, <2>2 DEF op
<1> QED
  BY <1>3, <1>4

(* The events of the binds. *)
LEMMA UpBind ==
  ASSUME NEW r, IsMap(cur[r], Kinds), NEW o \in tgt[r].bind, o \in [cluster : Ids, server : Ids]
  PROVE  LET op == OpFor(r, 3, o)
             u  == PostProcess(cur[r], "bind", op, o)
         IN  /\ op = None => o \in cur[r].bind
             /\ op # None => /\ op = "Create" /\ u.err = "nil" /\ Differs(cur[r], u.s, Kinds, "bind")
                             /\ u.s.bind = cur[r].bind \cup {o}
<1> DEFINE s == cur[r]  op == OpFor(r, 3, o)  u == PostProcess(s, "bind", op, o)
<1>0. o # NoRow /\ o.cluster # 0 /\ o.server # 0
  <2>1. "cluster" \in DOMAIN o /\ "cluster" \notin DOMAIN NoRow
    BY DEF NoRow
  <2>2. o.cluster \in Ids /\ o.server \in Ids
    OBVIOUS
  <2> QED
    BY <2>1, <2>2, IdAssumption
<1>1. op = IF o \in s.bind THEN None ELSE "Create"
  BY <1>0 DEF OpFor, PhaseKind, Lookup, HasBind, Same, CompareBind
<1> HIDE DEF op
<1>2. CASE o \notin s.bind
  <2>1. op = "Create" /\ u = AddBind(s, o)
    BY <1>1, <1>2 DEF PostProcess, PostBind
  <2>2. u = [s |-> [s EXCEPT !.bind = @ \cup {o}], err |-> "nil"]
    BY <1>0, <1>2, <2>1 DEF AddBind
  <2>3. "bind" \in Kinds
    BY DEF Kinds
  <2> HIDE DEF u
  <2>4. Differs(s, u.s, Kinds, "bind") /\ u.s.bind = s.bind \cup {o} /\ u.err = "nil"
    BY <2>2, <2>3 DEF IsMap, Differs
  <2> QED
    BY <2>1, <2>4 DEF u, op, None
<1>3. CASE o \in s.bind
  BY <1>1, <1>3 DEF op
<1> QED
  BY <1>2, <1>3

LEMMA DownBind ==
  ASSUME NEW r, IsMap(cur[r], Kinds), NEW o \in cur[r].bind, o \in [cluster : Ids, server : Ids]
  PROVE  LET op == OpFor(r, 8, o)
             u  == PostProcess(cur[r], "bind", op, o)
         IN  /\ op = None => o \in tgt[r].bind
             /\ op # None => /\ op = "Delete" /\ u.err = "nil" /\ Differs(cur[r], u.s, Kinds, "bind")
                             /\ u.s.bind = cur[r].bind \ {o} /\ o \notin tgt[r].bind
<1> DEFINE s == cur[r]  op == OpFor(r, 8, o)  u == PostProcess(s, "bind", op, o)
<1>0. o # NoRow
  <2>1. "cluster" \in DOMAIN o /\ "cluster" \notin DOMAIN NoRow
    BY DEF NoRow
  <2> QED
    BY <2>1
<1>1. op = IF o \in tgt[r].bind THEN None ELSE "Delete"
  BY <1>0 DEF OpFor, PhaseKind, Lookup, HasBind
<1> HIDE DEF op
<1>2. CASE o \notin tgt[r].bind
  <2>1. op = "Delete" /\ u = DeleteBind(s, o)
    BY <1>1, <1>2 DEF PostProcess, PostBind
  <2>2. u = [s |-> [s EXCEPT !.bind = @ \ {o}], err |-> "nil"]
    BY <2>1 DEF DeleteBind
  <2>3. "bind" \in Kinds
    BY DEF Kinds
  <2> HIDE DEF u
  <2>4. Differs(s, u.s, Kinds, "bind") /\ u.s.bind = s.bind \ {o} /\ u.err = "nil"
    BY <2>2, <2>3 DEF IsMap, Differs
  <2> QED
    BY <1>2, <2>1, <2>4 DEF u, op, None
<1>3. CASE o \in tgt[r].bind
  BY <1>1, <1>3 DEF op
<1> QED
  BY <1>2, <1>3

-----------------------------------------------------------------------------
(***************************************************************************)
(* One replica.                                                            *)
(***************************************************************************)
OneReplica == \E r : Replicas = {r}

(* Every object of a kind that there is. *)
Known(r, k) == manba[k] \cup raw[r][k] \cup GetAll(cur[r][k]) \cup GetAll(tgt[r][k])

BindsOK(B) == B \subseteq [cluster : Ids, server : Ids]

(* The binds of the clusters C. *)
Under(B, C) == {b \in B : \E c \in C : c.id = b.cluster}

(* What is kept between the steps of a sync. *)
Places(r) ==
  /\ pc[r] \in {"idle", "clusters", "solve"} => raw[r] = Empty
  /\ pc[r] = "servers" => raw[r].bind = {}
  /\ pc[r] # "solve" => cur[r] = NewManbaState /\ tgt[r] = NewManbaState

(* The kinds that have been dumped. *)
DumpedKinds(x) ==
  CASE x = "servers"  -> {"cluster"}
    [] x = "binds"    -> {"cluster", "server"}
    [] x = "routings" -> {"cluster", "server", "api"}
    [] x = "prepare"  -> Named
    [] OTHER          -> {}

(* A dump has all that is there, and nothing else unless someone meddled. *)
Visit(r) ==
  /\ \A k \in DumpedKinds(pc[r]) : manba[k] \subseteq raw[r][k] /\ (~meddled => raw[r][k] = manba[k])
  /\ pc[r] = "binds" => todo[r] \subseteq raw[r].cluster
  /\ ~meddled /\ pc[r] = "binds" => raw[r].bind = Under(manba.bind, raw[r].cluster \ todo[r])
  /\ ~meddled /\ pc[r] \in {"routings", "prepare"} => raw[r].bind = Under(manba.bind, raw[r].cluster)

(* Names and ids correspond. *)
Identified(r) ==
  /\ \A k \in Named : Agree(Known(r, k)) /\ Distinct(raw[r][k])
  /\ BindsOK(manba.bind) /\ BindsOK(raw[r].bind) /\ BindsOK(cur[r].bind) /\ BindsOK(tgt[r].bind)

(* The state s is what w comes to. *)
Aimed(w, s) ==
  \E id : Apart(w, id) /\ (\A k \in Named : GetAll(s[k]) = Objs(w, id, k)) /\ s.bind = Pairs(w, id)

Solving(r) ==
  pc[r] = "solve" =>
    /\ Twinless(cur[r]) /\ Twinless(tgt[r]) /\ Aimed(wish[r], tgt[r])
    /\ phase[r] > 5 => todo[r] \subseteq List(cur[r], PhaseKind[phase[r]])

Repeats(w) == \E i, j \in 1..Len(w.bind) : i # j /\ w.bind[i] = w.bind[j]

Answered(r) ==
  /\ failed[r] => lost[r]
  /\ lost[r] => failures > 0
  /\ ret[r] = "error" => lost[r] \/ Repeats(wish[r])

Sound(r) == Identified(r) /\ Solving(r) /\ Answered(r)

OInv(r) == TInv /\ Places(r) /\ Visit(r) /\ (~clash => Sound(r))

(* Nothing but a new target brings objects. *)
LEMMA IdentKept ==
  ASSUME NEW r, Identified(r), \A k \in Named : Known(r, k)' \subseteq Known(r, k) /\ Distinct(raw'[r][k]),
         BindsOK(manba'.bind), BindsOK(raw'[r].bind), BindsOK(cur'[r].bind), BindsOK(tgt'[r].bind)
  PROVE  Identified(r)'
<1>1. \A k \in Named : Agree(Known(r, k)')
  BY DEF Identified, Agree
<1> QED
  BY <1>1 DEF Identified

LEMMA Small ==
  /\ \A k \in Named : Empty[k] = {} /\ GetAll(NewManbaState[k]) = {}
  /\ Empty.bind = {} /\ NewManbaState.bind = {} /\ BindsOK({}) /\ Distinct({})
<1>1. \A k \in Named : GetAll(NewManbaState[k]) = {}
  BY NewState, EmptyGood
<1>2. Named \subseteq Kinds /\ "bind" \in Kinds
  BY DEF Kinds
<1> QED
  BY <1>1, <1>2, EmptyRows, NewState DEF BindsOK, Distinct

LEMMA InitOInv ==
  ASSUME Init, NEW r \in Replicas
  PROVE  OInv(r)
<1>1. /\ pc[r] = "idle" /\ raw[r] = Empty /\ cur[r] = NewManbaState /\ tgt[r] = NewManbaState /\ failed[r] = FALSE
      /\ lost[r] = FALSE /\ ret[r] = None /\ manba = Empty
  BY DEF Init
<1>2. TInv /\ Places(r) /\ Visit(r)
  BY <1>1, InitTInv DEF Places, Visit, DumpedKinds
<1>3. \A k \in Named : Known(r, k) = {}
  BY <1>1, Small DEF Known
<1>4. Identified(r)
  BY <1>1, <1>3, Small DEF Identified, Agree
<1>5. Solving(r) /\ Answered(r)
  BY <1>1 DEF Solving, Answered, None
<1> QED
  BY <1>2, <1>4, <1>5 DEF OInv, Sound

(* What a dump of a kind does. *)
LEMMA DumpDoes ==
  ASSUME Maps, NEW r \in Replicas, RowsOK(raw[r]), NEW k \in Named, NEW x, NEW y, At(r, x, y), Dump(r, k)
  PROVE  /\ pc[r] = x /\ pc'[r] = y /\ Differs(raw[r], raw'[r], Kinds, k) /\ raw'[r][k] = manba[k]
         /\ todo'[r] = IF k = "server" THEN raw[r].cluster ELSE {}
         /\ UNCHANGED <<manba, wish, cur, tgt, phase, failed, hash, ret, lost, failures, drifts, clash, meddled>>
<1>1. IsMap(pc, Replicas) /\ IsMap(raw, Replicas) /\ IsMap(todo, Replicas) /\ IsMap(raw[r], Kinds) /\ k \in Kinds
  BY DEF Maps, RowsOK, Kinds
<1>2. pc[r] = x /\ pc'[r] = y
  BY <1>1 DEF At, IsMap
<1>3. todo'[r] = IF k = "server" THEN raw[r].cluster ELSE {}
  BY <1>1 DEF Dump, IsMap
<1>4. raw'[r] = [raw[r] EXCEPT ![k] = manba[k]]
  BY <1>1 DEF IsMap, Dump
<1> DEFINE u == raw'[r]
<1> HIDE DEF u
<1>5. Differs(raw[r], u, Kinds, k) /\ u[k] = manba[k]
  BY <1>1, <1>4 DEF IsMap, Differs, u
<1> QED
  BY <1>2, <1>3, <1>5 DEF u, Dump

(* The part of the invariant that a dump does not care for. *)
LEMMA DumpSound ==
  ASSUME NEW r \in Replicas, OInv(r), NEW k \in Named, NEW x, x # "solve", NEW y, y \in {"servers", "binds", "routings", "prepare"},
         At(r, x, y), Dump(r, k)
  PROVE  (~clash => Sound(r))' /\ (y # "servers" => Places(r)')
<1>0. Maps /\ RowsOK(raw[r]) /\ ManbaOK(manba)
  BY DEF OInv, TInv
<1>1. /\ pc[r] = x /\ pc'[r] = y /\ Differs(raw[r], raw'[r], Kinds, k) /\ raw'[r][k] = manba[k]
      /\ UNCHANGED <<manba, wish, cur, tgt, phase, failed, hash, ret, lost, failures, drifts, clash, meddled>>
  BY <1>0, DumpDoes
<1>2. \A j \in Named : j # k => raw'[r][j] = raw[r][j]
  BY <1>1 DEF Differs, Kinds
<1>3. raw'[r].bind = raw[r].bind
  BY <1>1 DEF Differs, Kinds, Named
<1>4. ASSUME ~clash PROVE Sound(r)'
  <2>1. Identified(r) /\ Answered(r)
    BY <1>4 DEF OInv, Sound
  <2>2. Agree(manba[k])
    BY <2>1 DEF Identified, Agree, Known
  <2>3. Distinct(manba[k])
    BY <1>0, <2>2 DEF Distinct, Agree, ManbaOK
  <2>4. \A j \in Named : Known(r, j)' \subseteq Known(r, j) /\ Distinct(raw'[r][j])
    BY <1>1, <1>2, <2>1, <2>3 DEF Known, Identified
  <2>5. Identified(r)'
    BY <1>1, <1>3, <2>1, <2>4, IdentKept DEF Identified
  <2>6. Solving(r)' /\ Answered(r)'
    BY <1>1, <2>1 DEF Solving, Answered
  <2> QED
    BY <2>5, <2>6 DEF Sound
<1>5. y # "servers" => Places(r)'
  BY <1>1 DEF OInv, Places
<1> QED
  BY <1>1, <1>4, <1>5

LEMMA DumpSteps ==
  ASSUME NEW r \in Replicas, OInv(r), DumpClusters(r) \/ DumpServers(r) \/ DumpAPIs(r) \/ DumpRoutings(r)
  PROVE  Places(r)' /\ Visit(r)' /\ (~clash => Sound(r))'
<1>0. Maps /\ RowsOK(raw[r]) /\ ManbaOK(manba) /\ Named = {"api", "routing", "cluster", "server"} /\ Named \subseteq Kinds /\ "bind" \in Kinds
  BY DEF OInv, TInv, Named, Kinds
<1>1. CASE DumpClusters(r)
  <2>1. At(r, "clusters", "servers") /\ Dump(r, "cluster")
    BY <1>1 DEF DumpClusters
  <2>2. (~clash => Sound(r))'
    BY <1>0, <2>1, DumpSound
  <2>3. /\ pc[r] = "clusters" /\ pc'[r] = "servers" /\ Differs(raw[r], raw'[r], Kinds, "cluster")
        /\ raw'[r].cluster = manba.cluster /\ UNCHANGED <<manba, cur, tgt, meddled>>
    BY <1>0, <2>1, DumpDoes
  <2>4. raw'[r].bind = {}
    <3>1. raw[r].bind = {}
      BY <2>3, Small DEF OInv, Places
    <3> QED
      BY <1>0, <2>3, <3>1 DEF Differs
  <2>5. Places(r)'
    BY <2>3, <2>4 DEF OInv, Places
  <2>6. Visit(r)'
    BY <2>3 DEF Visit, DumpedKinds
  <2> QED
    BY <2>2, <2>5, <2>6
<1>2. CASE DumpServers(r)
  <2>1. At(r, "servers", "binds") /\ Dump(r, "server")
    BY <1>2 DEF DumpServers
  <2>2. (~clash => Sound(r))' /\ Places(r)'
    BY <1>0, <2>1, DumpSound
  <2>3. /\ pc[r] = "servers" /\ pc'[r] = "binds" /\ Differs(raw[r], raw'[r], Kinds, "server")
        /\ raw'[r].server = manba.server /\ UNCHANGED <<manba, meddled>> /\ todo'[r] = raw[r].cluster
    BY <1>0, <2>1, DumpDoes
  <2>4. raw'[r].cluster = raw[r].cluster /\ raw'[r].bind = raw[r].bind
    BY <1>0, <2>3 DEF Differs
  <2>5. raw[r].bind = {}
    BY <2>3 DEF OInv, Places
  <2>6. Under(manba.bind, raw[r].cluster \ raw[r].cluster) = {}
    BY DEF Under
  <2>7. DumpedKinds("servers") = {"cluster"} /\ DumpedKinds("binds") = {"cluster", "server"}
    BY DEF DumpedKinds
  <2>8. manba.cluster \subseteq raw[r].cluster /\ (~meddled => raw[r].cluster = manba.cluster)
    BY <2>3, <2>7 DEF OInv, Visit
  <2>9. Visit(r)'
    BY <2>3, <2>4, <2>5, <2>6, <2>7, <2>8 DEF Visit
  <2> QED
    BY <2>2, <2>9
<1>3. CASE DumpAPIs(r)
  <2>1. At(r, "binds", "routings") /\ Dump(r, "api") /\ todo[r] = {}
    BY <1>3 DEF DumpAPIs
  <2>2. (~clash => Sound(r))' /\ Places(r)'
    BY <1>0, <2>1, DumpSound
  <2>3. /\ pc[r] = "binds" /\ pc'[r] = "routings" /\ Differs(raw[r], raw'[r], Kinds, "api")
        /\ raw'[r].api = manba.api /\ UNCHANGED <<manba, meddled>>
    BY <1>0, <2>1, DumpDoes
  <2>4. raw'[r].cluster = raw[r].cluster /\ raw'[r].bind = raw[r].bind /\ raw'[r].server = raw[r].server
    BY <1>0, <2>3 DEF Differs
  <2>5. raw[r].cluster \ todo[r] = raw[r].cluster
    BY <2>1
  <2>6. ~meddled => raw[r].bind = Under(manba.bind, raw[r].cluster)
    BY <2>3, <2>5 DEF OInv, Visit
  <2>7. DumpedKinds("binds") = {"cluster", "server"} /\ DumpedKinds("routings") = {"cluster", "server", "api"}
    BY DEF DumpedKinds
  <2>8. \A k \in {"cluster", "server"} : manba[k] \subseteq raw[r][k] /\ (~meddled => raw[r][k] = manba[k])
    BY <2>3, <2>7 DEF OInv, Visit
  <2>9. Visit(r)'
    BY <2>3, <2>4, <2>6, <2>7, <2>8 DEF Visit
  <2> QED
    BY <2>2, <2>9
<1>4. CASE DumpRoutings(r)
  <2>1. At(r, "routings", "prepare") /\ Dump(r, "routing")
    BY <1>4 DEF DumpRoutings
  <2>2. (~clash => Sound(r))' /\ Places(r)'
    BY <1>0, <2>1, DumpSound
  <2>3. /\ pc[r] = "routings" /\ pc'[r] = "prepare" /\ Differs(raw[r], raw'[r], Kinds, "routing")
        /\ raw'[r].routing = manba.routing /\ UNCHANGED <<manba, meddled>>
    BY <1>0, <2>1, DumpDoes
  <2>4. raw'[r].cluster = raw[r].cluster /\ raw'[r].bind = raw[r].bind /\ raw'[r].server = raw[r].server /\ raw'[r].api = raw[r].api
    BY <1>0, <2>3 DEF Differs
  <2>6. ~meddled => raw[r].bind = Under(manba.bind, raw[r].cluster)
    BY <2>3 DEF OInv, Visit
  <2>7. DumpedKinds("prepare") = Named /\ DumpedKinds("routings") = {"cluster", "server", "api"}
    BY DEF DumpedKinds
  <2>8. \A k \in {"cluster", "server", "api"} : manba[k] \subseteq raw[r][k] /\ (~meddled => raw[r][k] = manba[k])
    BY <2>3, <2>7 DEF OInv, Visit
  <2>9. Visit(r)'
    BY <1>0, <2>3, <2>4, <2>6, <2>7, <2>8 DEF Visit
  <2> QED
    BY <2>2, <2>9
<1> QED
  BY <1>1, <1>2, <1>3, <1>4

(* The values that a dump, a sync and a process end with. *)
Blank(r) == raw'[r] = Empty /\ cur'[r] = NewManbaState /\ tgt'[r] = NewManbaState /\ manba' = manba

LEMMA BlankIdentified ==
  ASSUME NEW r \in Replicas, Identified(r), Blank(r)
  PROVE  Identified(r)'
<1>1. \A k \in Named : Known(r, k)' \subseteq Known(r, k) /\ Distinct(raw'[r][k])
  BY Small DEF Known, Blank
<1>2. BindsOK(manba'.bind) /\ BindsOK(raw'[r].bind) /\ BindsOK(cur'[r].bind) /\ BindsOK(tgt'[r].bind)
  BY Small DEF Blank, Identified
<1> QED
  BY <1>1, <1>2, IdentKept

LEMMA StartStep ==
  ASSUME NEW r \in Replicas, OInv(r), Start(r)
  PROVE  Places(r)' /\ Visit(r)' /\ (~clash => Sound(r))'
<1>0. Maps
  BY DEF OInv, TInv
<1>1. UNCHANGED <<manba, raw, cur, tgt, phase, todo, failures, clash>> /\ failed'[r] = FALSE /\ lost'[r] = FALSE
  BY <1>0 DEF Start, Maps, IsMap
<1>2. pc[r] = "idle" /\ ((pc'[r] = "idle" /\ ret'[r] = "nil") \/ (pc'[r] = "clusters" /\ ret'[r] = None))
  <2> IsMap(pc, Replicas) /\ IsMap(ret, Replicas)
    BY <1>0 DEF Maps
  <2>1. \/ Return(r, "idle", "nil")
        \/ At(r, "idle", "clusters") /\ ret' = [ret EXCEPT ![r] = None]
    BY DEF Start
  <2>2. CASE Return(r, "idle", "nil")
    <3>1. pc[r] = "idle" /\ pc'[r] = "idle" /\ ret'[r] = "nil"
      BY <2>2 DEF IsMap, Return, At
    <3> QED
      BY <3>1
  <2>3. CASE At(r, "idle", "clusters") /\ ret' = [ret EXCEPT ![r] = None]
    <3>1. pc[r] = "idle" /\ pc'[r] = "clusters" /\ ret'[r] = None
      BY <2>3 DEF IsMap, At
    <3> QED
      BY <3>1
  <2> QED
    BY <2>1, <2>2, <2>3
<1>3. raw[r] = Empty /\ cur[r] = NewManbaState /\ tgt[r] = NewManbaState
  BY <1>2 DEF OInv, Places
<1>4. Places(r)' /\ Visit(r)'
  BY <1>1, <1>2, <1>3 DEF Places, Visit, DumpedKinds
<1>5. ASSUME ~clash PROVE Sound(r)'
  <2>1. Identified(r)'
    BY <1>1, <1>3, <1>5, BlankIdentified DEF OInv, Sound, Blank
  <2>2. Solving(r)' /\ Answered(r)'
    BY <1>1, <1>2 DEF Solving, Answered, None
  <2> QED
    BY <2>1, <2>2 DEF Sound
<1> QED
  BY <1>1, <1>4, <1>5

LEMMA DumpBindsStep ==
  ASSUME NEW r \in Replicas, OInv(r), DumpBinds(r)
  PROVE  Places(r)' /\ Visit(r)' /\ (~clash => Sound(r))'
<1>0. Maps /\ RowsOK(raw[r]) /\ "bind" \in Kinds /\ "bind" \notin Named /\ Named \subseteq Kinds /\ "cluster" \in Named
  BY DEF OInv, TInv, Kinds, Named
<1>1. UNCHANGED <<manba, pc, wish, cur, tgt, phase, failed, ret, lost, failures, clash, meddled>> /\ pc[r] = "binds"
  BY DEF DumpBinds
<1>2. PICK c \in todo[r] : /\ raw' = [raw EXCEPT ![r].bind = @ \cup {b \in manba.bind : b.cluster = c.id}]
                           /\ todo' = [todo EXCEPT ![r] = @ \ {c}]
  BY DEF DumpBinds
<1> DEFINE B == {b \in manba.bind : b.cluster = c.id}  u == raw'[r]
<1>3. B = Under(manba.bind, {c})
  BY DEF Under
<1> HIDE DEF B
<1>4. todo'[r] = todo[r] \ {c}
  BY <1>0, <1>2 DEF Maps, IsMap
<1>5. u = [raw[r] EXCEPT !.bind = @ \cup B]
  BY <1>0, <1>2 DEF Maps, IsMap, B
<1>6. IsMap(raw[r], Kinds)
  BY <1>0 DEF RowsOK
<1> HIDE DEF u
<1>7. u.bind = raw[r].bind \cup B /\ \A k \in Kinds : k # "bind" => u[k] = raw[r][k]
  BY <1>0, <1>5, <1>6 DEF IsMap
<1>8. \A k \in Named : u[k] = raw[r][k]
  BY <1>0, <1>7
<1>9. Places(r)'
  BY <1>1 DEF OInv, Places
<1>10. Visit(r)'
  <2>1. DumpedKinds("binds") = {"cluster", "server"} /\ {"cluster", "server"} \subseteq Named
    BY DEF DumpedKinds, Named
  <2>2. \A k \in {"cluster", "server"} : manba[k] \subseteq raw[r][k] /\ (~meddled => raw[r][k] = manba[k])
    BY <1>1, <2>1 DEF OInv, Visit
  <2>3. todo[r] \subseteq raw[r].cluster
    BY <1>1 DEF OInv, Visit
  <2>4. ~meddled => raw[r].bind = Under(manba.bind, raw[r].cluster \ todo[r])
    BY <1>1 DEF OInv, Visit
  <2>5. Under(manba.bind, raw[r].cluster \ todo[r]) \cup Under(manba.bind, {c})
          = Under(manba.bind, raw[r].cluster \ (todo[r] \ {c}))
    <3>1. raw[r].cluster \ (todo[r] \ {c}) = (raw[r].cluster \ todo[r]) \cup {c}
      BY <2>3
    <3> QED
      BY <3>1 DEF Under
  <2> QED
    BY <1>1, <1>3, <1>4, <1>7, <1>8, <2>1, <2>2, <2>3, <2>4, <2>5 DEF Visit, u
<1>11. ASSUME ~clash PROVE Sound(r)'
  <2>1. Identified(r) /\ Answered(r)
    BY <1>11 DEF OInv, Sound
  <2>2. \A k \in Named : Known(r, k)' \subseteq Known(r, k) /\ Distinct(raw'[r][k])
    BY <1>1, <1>8, <2>1 DEF Known, Identified, u
  <2>3. BindsOK(raw'[r].bind)
    BY <1>7, <2>1 DEF Identified, BindsOK, B, u
  <2>4. Identified(r)'
    BY <1>1, <2>1, <2>2, <2>3, IdentKept DEF Identified
  <2>5. Solving(r)' /\ Answered(r)'
    BY <1>1, <2>1 DEF Solving, Answered
  <2> QED
    BY <2>4, <2>5 DEF Sound
<1> QED
  BY <1>1, <1>9, <1>10, <1>11

LEMMA EndSteps ==
  ASSUME NEW r \in Replicas, OInv(r), DumpFailed(r) \/ SolveReturn(r) \/ Crash(r)
  PROVE  Places(r)' /\ Visit(r)' /\ (~clash => Sound(r))'
<1>0. Maps /\ failures \in Nat
  BY SyncAssumption DEF OInv, TInv
<1> SUFFICES ASSUME pc'[r] = "idle", Blank(r), clash' = clash, ~clash => Answered(r)'
             PROVE  Places(r)' /\ Visit(r)' /\ (~clash => Sound(r))'
  <2>1. CASE DumpFailed(r)
    <3>1. pc'[r] = "idle" /\ pc[r] # "solve" /\ raw'[r] = Empty /\ UNCHANGED <<manba, cur, tgt, clash>> /\ failures' > 0 /\ lost'[r]
      BY <1>0, <2>1 DEF DumpFailed, Return, At, Maps, IsMap
    <3>2. Blank(r) /\ Answered(r)'
      BY <3>1 DEF OInv, Places, Blank, Answered
    <3> QED
      BY <3>1, <3>2
  <2>2. CASE SolveReturn(r)
    <3>1. /\ pc[r] = "solve" /\ pc'[r] = "idle" /\ UNCHANGED <<manba, wish, raw, clash, failed, lost, failures>>
          /\ cur'[r] = NewManbaState /\ tgt'[r] = NewManbaState
      BY <1>0, <2>2 DEF SolveReturn, Return, At, Maps, IsMap
    <3>2. ret'[r] = IF failed[r] THEN "error" ELSE "nil"
      BY <1>0, <2>2 DEF SolveReturn, Return, Maps, IsMap
    <3>3. Blank(r)
      BY <3>1 DEF OInv, Places, Blank
    <3>4. ~clash => Answered(r)'
      BY <3>1, <3>2 DEF OInv, Sound, Answered
    <3> QED
      BY <3>1, <3>3, <3>4
  <2>3. CASE Crash(r)
    <3>1. /\ pc'[r] = "idle" /\ raw'[r] = Empty /\ UNCHANGED <<manba, clash>>
          /\ cur'[r] = NewManbaState /\ tgt'[r] = NewManbaState
      BY <1>0, <2>3 DEF Crash, Maps, IsMap
    <3>2. failed'[r] = FALSE /\ lost'[r] = FALSE /\ ret'[r] = None
      BY <1>0, <2>3 DEF Crash, Maps, IsMap
    <3>3. Blank(r) /\ Answered(r)'
      BY <3>1, <3>2 DEF Blank, Answered, None
    <3> QED
      BY <3>1, <3>3
  <2> QED
    BY <2>1, <2>2, <2>3
<1>1. Places(r)' /\ Visit(r)'
  BY DEF Places, Visit, DumpedKinds, Blank
<1>2. ASSUME ~clash PROVE Sound(r)'
  <2>1. Identified(r)'
    BY <1>2, BlankIdentified DEF OInv, Sound
  <2> QED
    BY <1>2, <2>1 DEF Sound, Solving
<1> QED
  BY <1>1, <1>2

LEMMA SolvePhaseStep ==
  ASSUME NEW r \in Replicas, OInv(r), SolvePhase(r)
  PROVE  Places(r)' /\ Visit(r)' /\ (~clash => Sound(r))'
<1>0. Maps /\ Targets(r)
  BY DEF OInv, TInv
<1>1. UNCHANGED <<manba, pc, wish, raw, cur, tgt, failed, ret, lost, failures, clash, meddled>> /\ pc[r] = "solve"
  BY DEF SolvePhase
<1>2. /\ phase'[r] = phase[r] + 1 /\ phase[r] \in 1..10
      /\ todo'[r] = List(IF phase[r] + 1 > 5 THEN cur[r] ELSE tgt[r], PhaseKind[phase[r] + 1])
  BY <1>0, <1>1 DEF SolvePhase, Maps, IsMap, Targets
<1>3. Places(r)' /\ Visit(r)'
  BY <1>1 DEF OInv, Places, Visit, DumpedKinds
<1>4. ASSUME ~clash PROVE Sound(r)'
  <2>1. Identified(r) /\ Answered(r) /\ Solving(r)
    BY <1>4 DEF OInv, Sound
  <2>2. Identified(r)' /\ Answered(r)'
    BY <1>1, <2>1 DEF Identified, Known, Answered
  <2>3. phase'[r] > 5 => todo'[r] = List(cur[r], PhaseKind[phase'[r]])
    BY <1>2
  <2>4. Solving(r)'
    BY <1>1, <2>1, <2>3 DEF Solving
  <2> QED
    BY <2>2, <2>4 DEF Sound
<1> QED
  BY <1>1, <1>3, <1>4

(* Someone else takes an object away. *)
LEMMA DriftDoes ==
  ASSUME TInv, Drift
  PROVE  /\ \A k \in Named : manba'[k] \subseteq manba[k]
         /\ manba'.bind = manba.bind /\ meddled' = TRUE /\ UNCHANGED <<own, failures, clash>>
<1>1. meddled' = TRUE /\ UNCHANGED <<own, failures, clash>>
  BY DEF Drift
<1>2. PICK k \in Named : \E o \in manba[k] : manba' = Cut(manba, k, o.id)
  BY DEF Drift
<1> PICK o \in manba[k] : manba' = Cut(manba, k, o.id)
  BY <1>2
<1>3. manba' = RawDo(manba, k, "Delete", o) /\ IsMap(manba, Kinds)
  BY RawIs DEF TInv, ManbaOK, RowsOK
<1>4. Differs(manba, manba', Kinds, k) /\ manba'[k] = {p \in manba[k] : p.id # o.id}
  BY <1>3, RawManba
<1>5. \A j \in Kinds : j # k => manba'[j] = manba[j]
  BY <1>4 DEF Differs
<1>6. k # "bind" /\ "bind" \in Kinds /\ Named \subseteq Kinds
  BY DEF Kinds, Named
<1> QED
  BY <1>1, <1>4, <1>5, <1>6

LEMMA DriftStep ==
  ASSUME NEW r \in Replicas, OInv(r), Drift
  PROVE  Places(r)' /\ Visit(r)' /\ (~clash => Sound(r))'
<1>1. /\ \A k \in Named : manba'[k] \subseteq manba[k]
      /\ manba'.bind = manba.bind /\ meddled' = TRUE
      /\ UNCHANGED <<pc, wish, raw, cur, tgt, phase, todo, failed, hash, ret, lost, failures, clash>>
  BY DriftDoes DEF OInv, own
<1>2. DumpedKinds(pc[r]) \subseteq Named
  BY DEF DumpedKinds, Named
<1>3. Places(r)' /\ Visit(r)'
  BY <1>1, <1>2 DEF OInv, Places, Visit
<1>4. ASSUME ~clash PROVE Sound(r)'
  <2>1. Identified(r) /\ Answered(r) /\ Solving(r)
    BY <1>4 DEF OInv, Sound
  <2>2. \A k \in Named : Known(r, k)' \subseteq Known(r, k) /\ Distinct(raw'[r][k])
    BY <1>1, <2>1 DEF Known, Identified
  <2>3. Identified(r)'
    BY <1>1, <2>1, <2>2, IdentKept DEF Identified
  <2> QED
    BY <1>1, <2>1, <2>3 DEF Sound, Answered, Solving
<1> QED
  BY <1>1, <1>3, <1>4

(* Unless an id clashes, the ids that setTargetsIDs gives tell names apart, *)
(* agree with the current state's, and are not those of forgotten binds.    *)
LEMMA Drawn ==
  ASSUME NEW w \in Wishes, NEW s, Twinless(s), NEW n0 \in Nat, ~Clashes(w, s, n0)
  PROVE  LET id == IdOf(w, s, n0)
         IN  /\ Apart(w, id) /\ \A k \in Named : Agree(GetAll(s[k]) \cup Objs(w, id, k))
             /\ \A n \in DOMAIN w.cluster : \/ \E c \in GetAll(s.cluster) : c.id = id.cluster[n]
                                            \/ \A b \in manba.bind : b.cluster # id.cluster[n]
<1> DEFINE id == IdOf(w, s, n0)  new == NewNames(w, s)
<1>1. IsState(s) /\ \A k \in Named : Good(k, s[k])
  BY DEF Twinless, IsState, Good
<1>2. ASSUME NEW k \in Named, NEW n \in DOMAIN w[k]
      PROVE  /\ id[k][n] \in Ids \cup {0} /\ n \in Names(k)
             /\ \/ \E g \in GetAll(s[k]) : g.name = n /\ g.id = id[k][n]
                \/ <<k, n>> \in ToSet(new) /\ \A g \in GetAll(s[k]) : g.name # n
  <2>1. /\ id[k][n] \in Ids \cup {0} /\ n \in Names(k)
        /\ Get(s[k], n) # NoRow => id[k][n] = Get(s[k], n).id
    BY <1>1, IdsGiven
  <2>2. Get(s[k], n) # NoRow => Get(s[k], n) \in GetAll(s[k]) /\ Get(s[k], n).name = n
    BY <1>1, <2>1, GetByName DEF Good
  <2>3. Get(s[k], n) = NoRow => <<k, n>> \in ToSet(new) /\ \A g \in GetAll(s[k]) : g.name # n
    BY <1>1, <2>1, GetNothing, NewNamed
  <2> HIDE DEF id, new
  <2> QED
    BY <2>1, <2>2, <2>3
<1>3. ASSUME NEW k \in Named, NEW n \in DOMAIN w[k], <<k, n>> \in ToSet(new)
      PROVE  /\ id[k][n] # 0 /\ \A g \in GetAll(s[k]) : g.id # id[k][n]
             /\ k = "cluster" => \A b \in manba.bind : b.cluster # id[k][n]
             /\ \A m \in DOMAIN w[k] : m # n => id[k][m] # id[k][n]
  <2> DEFINE x == <<k, n>>
  <2>1. x[1] = k /\ x[2] = n /\ x \in ToSet(new)
    BY <1>3
  <2>2. ~ LET i == id[x[1]][x[2]]
          IN  \/ i = 0
              \/ \E o \in manba[x[1]] \cup GetAll(s[x[1]]) : o.id = i
              \/ x[1] = "cluster" /\ \E b \in manba.bind : b.cluster = i
              \/ \E m \in DOMAIN w[x[1]] : m # x[2] /\ id[x[1]][m] = i
    <3> HIDE DEF x
    <3> QED
      BY <2>1 DEF Clashes
  <2> HIDE DEF x, id
  <2> QED
    BY <2>1, <2>2
<1> HIDE DEF id, new
<1>4. \A k \in Named : \A g, h \in GetAll(s[k]) : g.id = h.id \/ g.name = h.name => g = h
  BY <1>1, GoodRows
<1>5. \A k \in Named : \A g \in GetAll(s[k]) : g.id \in Ids
  BY <1>1, GoodRows
<1>6. ASSUME NEW k \in Named, NEW n \in DOMAIN w[k]
      PROVE  /\ id[k][n] \in Ids
             /\ \A m \in DOMAIN w[k] : id[k][n] = id[k][m] => n = m
             /\ \A g \in GetAll(s[k]) : g.id = id[k][n] <=> g.name = n
  <2>1. CASE <<k, n>> \in ToSet(new) /\ \A g \in GetAll(s[k]) : g.name # n
    BY <1>2, <1>3, <2>1
  <2>2. CASE \E g \in GetAll(s[k]) : g.name = n /\ g.id = id[k][n]
    <3>1. PICK g \in GetAll(s[k]) : g.name = n /\ g.id = id[k][n]
      BY <2>2
    <3>2. id[k][n] \in Ids
      BY <1>5, <3>1
    <3>3. ASSUME NEW m \in DOMAIN w[k], id[k][n] = id[k][m] PROVE n = m
      <4>1. CASE <<k, m>> \in ToSet(new)
        BY <1>3, <3>3, <4>1
      <4>2. CASE \E h \in GetAll(s[k]) : h.name = m /\ h.id = id[k][m]
        BY <1>4, <3>1, <3>3, <4>2
      <4> QED
        BY <1>2, <4>1, <4>2
    <3>4. \A h \in GetAll(s[k]) : h.id = id[k][n] <=> h.name = n
      BY <1>4, <3>1
    <3> QED
      BY <3>2, <3>3, <3>4
  <2> QED
    BY <1>2, <2>1, <2>2
<1>7. Apart(w, id)
  BY <1>6 DEF Apart
<1>8. ASSUME NEW k \in Named PROVE Agree(GetAll(s[k]) \cup Objs(w, id, k))
  <2>1. \A o \in Objs(w, id, k) : \E n \in DOMAIN w[k] : o.id = id[k][n] /\ o.name = n
    <3>1. SUFFICES ASSUME NEW n \in Wished(w, k)
                   PROVE  Obj(w, id, k, n).id = id[k][n] /\ Obj(w, id, k, n).name = n /\ n \in DOMAIN w[k]
      BY DEF Objs
    <3> QED
      BY <3>1 DEF Obj, Wished
  <2>2. \A o, p \in Objs(w, id, k) : o.id = p.id <=> o.name = p.name
    BY <1>6, <2>1
  <2>3. \A o \in Objs(w, id, k) : \A g \in GetAll(s[k]) : g.id = o.id <=> g.name = o.name
    BY <1>6, <2>1
  <2>4. \A g, h \in GetAll(s[k]) : g.id = h.id <=> g.name = h.name
    BY <1>4
  <2> QED
    BY <2>2, <2>3, <2>4 DEF Agree
<1>9. \A n \in DOMAIN w.cluster : \/ \E c \in GetAll(s.cluster) : c.id = id.cluster[n]
                                  \/ \A b \in manba.bind : b.cluster # id.cluster[n]
  <2>1. "cluster" \in Named
    BY DEF Named
  <2> QED
    BY <1>2, <1>3, <2>1
<1> QED
  BY <1>7, <1>8, <1>9 DEF id

(* Prepare, if no id clashes: an error for a repeated bind, or the two *)
(* states that the invariant wants.                                    *)
LEMMA PrepareDoes ==
  ASSUME NEW r \in Replicas, OInv(r), Prepare(r), ~clash'
  PROVE  /\ ~clash /\ raw'[r] = Empty /\ pc[r] = "prepare"
         /\ UNCHANGED <<manba, wish, failed, hash, lost, syncs, failures, drifts, meddled>>
         /\ \/ /\ Repeats(wish[r]) /\ pc'[r] = "idle" /\ UNCHANGED <<cur, tgt, phase, todo>>
            \/ /\ pc'[r] = "solve" /\ ret'[r] = ret[r] /\ phase'[r] = 1 /\ todo'[r] = GetAllServers(tgt'[r])
               /\ Twinless(cur'[r]) /\ Twinless(tgt'[r]) /\ Aimed(wish[r], tgt'[r])
               /\ cur'[r].bind = raw[r].bind /\ BindsOK(tgt'[r].bind)
               /\ \A k \in Named : GetAll(cur'[r][k]) = raw[r][k] /\ Agree(raw[r][k] \cup GetAll(tgt'[r][k]))
               /\ \A o \in GetAll(tgt'[r].cluster) :
                    (\E c \in raw[r].cluster : c.id = o.id) \/ (\A b \in manba.bind : b.cluster # o.id)
<1>1. /\ Maps /\ RowsOK(raw[r]) /\ Control(r) /\ pc[r] = "prepare" /\ stamp \in Nat /\ Gaps \subseteq Nat
      /\ UNCHANGED <<manba, wish, failed, hash, lost, syncs, failures, drifts, meddled>>
  BY SyncAssumption DEF OInv, TInv, Prepare
<1>2. raw'[r] = Empty
  BY <1>1 DEF Prepare, Maps, IsMap
<1> DEFINE w == wish[r]
<1>3. w \in Wishes
  BY <1>1 DEF Control
<1>4. PICK listed \in Listings(raw[r]), gap \in Gaps :
          LET c == StateGet(listed)
              n0 == stamp + gap
              t == StateGet(filterInvalidations(setTargetsIDs(w, c.s, n0)))
          IN  /\ clash' = (clash \/ Clashes(w, c.s, n0))
              /\ IF c.err = "nil" /\ t.err = "nil"
                 THEN /\ At(r, "prepare", "solve") /\ UNCHANGED ret
                      /\ cur' = [cur EXCEPT ![r] = c.s] /\ tgt' = [tgt EXCEPT ![r] = t.s]
                      /\ phase' = [phase EXCEPT ![r] = 1]
                      /\ todo' = [todo EXCEPT ![r] = GetAllServers(t.s)]
                 ELSE Return(r, "prepare", "error") /\ UNCHANGED <<cur, tgt, phase, todo>>
  BY DEF Prepare
<1> DEFINE c == StateGet(listed)
           n0 == stamp + gap
           id == IdOf(w, c.s, n0)
           f == filterInvalidations(setTargetsIDs(w, c.s, n0))
           t == StateGet(f)
<1>5. ~clash /\ ~Clashes(w, c.s, n0) /\ n0 \in Nat
  <2>1. clash' = (clash \/ Clashes(w, c.s, n0))
    BY <1>4, Zenon
  <2>2. ~clash /\ ~Clashes(w, c.s, n0)
    BY <2>1, Zenon
  <2>3. n0 \in Nat
    BY <1>1
  <2> QED
    BY <2>2, <2>3
<1>6. Identified(r)
  BY <1>5 DEF OInv, Sound
<1>7. /\ IsState(c.s) /\ c.err = "nil" /\ c.s.bind = raw[r].bind
      /\ \A k \in Named : Good(k, c.s[k]) /\ GetAll(c.s[k]) = raw[r][k]
  <2>1. \A k \in Named : Distinct(raw[r][k])
    BY <1>6 DEF Identified
  <2>2. \A b \in raw[r].bind : b.cluster # 0 /\ b.server # 0
    BY <1>6, IdAssumption DEF Identified, BindsOK
  <2> QED
    BY <1>1, <2>1, <2>2, CurrentMade
<1>8. Twinless(c.s)
  BY <1>7 DEF Twinless, IsState
<1>9. /\ Apart(w, id) /\ \A k \in Named : Agree(GetAll(c.s[k]) \cup Objs(w, id, k))
      /\ \A n \in DOMAIN w.cluster : \/ \E x \in GetAll(c.s.cluster) : x.id = id.cluster[n]
                                     \/ \A b \in manba.bind : b.cluster # id.cluster[n]
  BY <1>3, <1>5, <1>8, Drawn
<1>10. \A k \in Named : \A n \in DOMAIN w[k] : id[k][n] \in Ids \cup {0} /\ n \in Names(k)
  BY <1>3, <1>5, <1>7, IdsGiven
<1>11. f = filterInvalidations(Lists(w, id))
  BY TargetLists
<1>12. /\ IsState(t.s) /\ \A k \in Named : Good(k, t.s[k]) /\ GetAll(t.s[k]) = Objs(w, id, k)
       /\ t.err = "nil" => t.s.bind = Pairs(w, id)
       /\ Injective(w.bind) => t.err = "nil"
  <2> HIDE DEF f, id
  <2> DEFINE t2 == StateGet(filterInvalidations(Lists(w, id)))
  <2>1. /\ IsState(t2.s) /\ \A k \in Named : Good(k, t2.s[k]) /\ GetAll(t2.s[k]) = Objs(w, id, k)
        /\ t2.err = "nil" => t2.s.bind = Pairs(w, id)
        /\ Injective(w.bind) => t2.err = "nil"
    BY <1>3, <1>9, <1>10, TargetMade
  <2>2. t = t2
    BY <1>11
  <2> HIDE DEF t, t2
  <2> QED
    BY <2>1, <2>2
<1>13. IF t.err = "nil"
       THEN /\ At(r, "prepare", "solve") /\ UNCHANGED ret
            /\ cur' = [cur EXCEPT ![r] = c.s] /\ tgt' = [tgt EXCEPT ![r] = t.s]
            /\ phase' = [phase EXCEPT ![r] = 1]
            /\ todo' = [todo EXCEPT ![r] = GetAllServers(t.s)]
       ELSE Return(r, "prepare", "error") /\ UNCHANGED <<cur, tgt, phase, todo>>
  BY <1>4, <1>7
<1> HIDE DEF c, t, id
<1>14. CASE t.err = "nil"
  <2>1. /\ pc'[r] = "solve" /\ ret'[r] = ret[r] /\ cur'[r] = c.s /\ tgt'[r] = t.s /\ phase'[r] = 1
        /\ todo'[r] = GetAllServers(t.s)
    BY <1>1, <1>13, <1>14 DEF Maps, IsMap, At
  <2>2. Twinless(t.s)
    BY <1>12 DEF Twinless, IsState
  <2>3. Aimed(w, t.s)
    BY <1>9, <1>12, <1>14 DEF Aimed
  <2>4. BindsOK(t.s.bind)
    <3>1. SUFFICES ASSUME NEW b \in Pairs(w, id) PROVE b \in [cluster : Ids, server : Ids]
      BY <1>12, <1>14 DEF BindsOK
    <3>2. PICK x \in WishedBinds(w) : b = [cluster |-> id.cluster[x.cluster], server |-> id.server[x.server]]
      BY <3>1 DEF Pairs
    <3>3. x.cluster \in DOMAIN w.cluster /\ x.server \in DOMAIN w.server
      BY <3>2 DEF WishedBinds, Wished
    <3>4. id.cluster[x.cluster] \in Ids /\ id.server[x.server] \in Ids
      BY <1>9, <3>3 DEF Apart, Named
    <3> QED
      BY <3>2, <3>4
  <2>5. \A o \in GetAll(t.s.cluster) :
          (\E x \in raw[r].cluster : x.id = o.id) \/ (\A b \in manba.bind : b.cluster # o.id)
    <3>1. "cluster" \in Named
      BY DEF Named
    <3>2. SUFFICES ASSUME NEW n \in Wished(w, "cluster")
                   PROVE  (\E x \in raw[r].cluster : x.id = Obj(w, id, "cluster", n).id) \/ (\A b \in manba.bind : b.cluster # Obj(w, id, "cluster", n).id)
      BY <1>12, <3>1 DEF Objs
    <3>3. n \in DOMAIN w.cluster /\ Obj(w, id, "cluster", n).id = id.cluster[n]
      BY <3>2 DEF Wished, Obj
    <3> QED
      BY <1>7, <1>9, <3>1, <3>3
  <2> QED
    BY <1>1, <1>2, <1>5, <1>7, <1>8, <1>9, <1>12, <2>1, <2>2, <2>3, <2>4, <2>5
<1>15. CASE t.err # "nil"
  <2>1. pc'[r] = "idle" /\ UNCHANGED <<cur, tgt, phase, todo>>
    BY <1>1, <1>13, <1>15 DEF Maps, IsMap, Return, At
  <2>2. Repeats(w)
    BY <1>12, <1>15 DEF Injective, Repeats
  <2> QED
    BY <1>1, <1>2, <1>5, <2>1, <2>2
<1> QED
  BY <1>14, <1>15

LEMMA PrepareStep ==
  ASSUME NEW r \in Replicas, OInv(r), Prepare(r)
  PROVE  Places(r)' /\ Visit(r)' /\ (~clash => Sound(r))'
<1>0. Maps
  BY DEF OInv, TInv
<1>1. raw'[r] = Empty /\ pc[r] = "prepare" /\ cur[r] = NewManbaState /\ tgt[r] = NewManbaState
  BY <1>0 DEF Prepare, Maps, IsMap, OInv, Places
<1>2. (pc'[r] = "idle" /\ UNCHANGED <<cur, tgt>>) \/ pc'[r] = "solve"
  <2>1. \/ At(r, "prepare", "solve")
        \/ Return(r, "prepare", "error") /\ UNCHANGED <<cur, tgt, phase, todo>>
    BY DEF Prepare
  <2> QED
    BY <1>0, <2>1 DEF Return, At, Maps, IsMap
<1>3. Places(r)' /\ Visit(r)'
  BY <1>1, <1>2 DEF Places, Visit, DumpedKinds
<1>4. ASSUME ~clash' PROVE Sound(r)'
  <2>1. /\ ~clash /\ UNCHANGED <<manba, wish, failed, lost, failures>>
        /\ \/ /\ Repeats(wish[r]) /\ pc'[r] = "idle" /\ UNCHANGED <<cur, tgt, phase, todo>>
           \/ /\ pc'[r] = "solve" /\ ret'[r] = ret[r] /\ phase'[r] = 1 /\ todo'[r] = GetAllServers(tgt'[r])
              /\ Twinless(cur'[r]) /\ Twinless(tgt'[r]) /\ Aimed(wish[r], tgt'[r])
              /\ cur'[r].bind = raw[r].bind /\ BindsOK(tgt'[r].bind)
              /\ \A k \in Named : GetAll(cur'[r][k]) = raw[r][k] /\ Agree(raw[r][k] \cup GetAll(tgt'[r][k]))
    BY <1>4, PrepareDoes
  <2>2. Identified(r) /\ Answered(r)
    BY <2>1 DEF OInv, Sound
  <2>3. CASE Repeats(wish[r]) /\ pc'[r] = "idle" /\ UNCHANGED <<cur, tgt, phase, todo>>
    <3>1. Identified(r)'
      BY <1>1, <2>1, <2>2, <2>3, BlankIdentified DEF Blank
    <3> QED
      BY <2>1, <2>2, <2>3, <3>1 DEF Sound, Solving, Answered
  <2>4. CASE /\ pc'[r] = "solve" /\ ret'[r] = ret[r] /\ phase'[r] = 1
             /\ Twinless(cur'[r]) /\ Twinless(tgt'[r]) /\ Aimed(wish[r], tgt'[r])
             /\ cur'[r].bind = raw[r].bind /\ BindsOK(tgt'[r].bind)
             /\ \A k \in Named : GetAll(cur'[r][k]) = raw[r][k] /\ Agree(raw[r][k] \cup GetAll(tgt'[r][k]))
    <3>1. \A k \in Named : manba[k] \subseteq raw[r][k]
      BY <1>1 DEF OInv, Visit, DumpedKinds
    <3>2. \A k \in Named : Known(r, k)' = raw[r][k] \cup GetAll(tgt'[r][k])
      BY <1>1, <2>1, <2>4, <3>1, Small DEF Known
    <3>3. Identified(r)'
      BY <1>1, <2>1, <2>2, <2>4, <3>2, Small DEF Identified
    <3>4. Solving(r)' /\ Answered(r)'
      BY <2>1, <2>2, <2>4 DEF Solving, Answered
    <3> QED
      BY <3>3, <3>4 DEF Sound
  <2> QED
    BY <2>1, <2>3, <2>4
<1> QED
  BY <1>3, <1>4

(* An event of Solve, if no id clashed. *)
LEMMA EventCases ==
  ASSUME NEW r \in Replicas, OInv(r), ~clash, pc[r] = "solve", NEW o \in todo[r]
  PROVE  LET p  == phase[r]
             k  == PhaseKind[p]
             op == OpFor(r, p, o)
             u  == PostProcess(cur[r], k, op, o)
             m  == RawDo(manba, k, op, o)
             C  == List(cur[r], k)
             T  == List(tgt[r], k)
         IN  /\ p \in 1..10 /\ k \in Kinds /\ (p <= 5 => o \in T) /\ (p > 5 => o \in C)
             /\ op = None => (p <= 5 => o \in C) /\ (p > 5 /\ T \subseteq C => o \in T)
             /\ op # None => /\ u.err = "nil" /\ Twinless(u.s)
                             /\ Differs(cur[r], u.s, Kinds, k) /\ Differs(manba, m, Kinds, k)
             /\ op # None /\ k \in Named /\ p <= 5 =>
                  /\ List(u.s, k) = {c \in C : c.id # o.id} \cup {o} /\ m[k] = {c \in manba[k] : c.id # o.id} \cup {o}
                  /\ \A c \in C : c.id = o.id => c \notin T
             /\ op # None /\ k \in Named /\ p > 5 =>
                  /\ List(u.s, k) = C \ {o} /\ m[k] = {c \in manba[k] : c.id # o.id}
                  /\ \A x \in T : x.name # o.name
             /\ op # None /\ k = "bind" /\ p <= 5 => List(u.s, k) = C \cup {o} /\ m.bind = manba.bind \cup {o}
             /\ op # None /\ k = "bind" /\ p > 5 =>
                  List(u.s, k) = C \ {o} /\ m.bind = manba.bind \ {o} /\ o \notin T
<1> DEFINE p == phase[r]  k == PhaseKind[p]  op == OpFor(r, p, o)  u == PostProcess(cur[r], k, op, o)
           m == RawDo(manba, k, op, o)  C == List(cur[r], k)  T == List(tgt[r], k)
<1>1. /\ p \in 1..10 /\ k \in Kinds /\ (p <= 5 => o \in T) /\ (p > 5 => o \in C)
      /\ Twinless(cur[r]) /\ Twinless(tgt[r]) /\ Identified(r) /\ IsMap(manba, Kinds) /\ IsMap(cur[r], Kinds)
  BY Phases DEF OInv, TInv, Targets, Sound, Solving, ManbaOK, RowsOK, Twinless
<1>2. ASSUME NEW s, Differs(cur[r], s, Kinds, k), k \in Named => Good(k, s[k])
      PROVE  Twinless(s)
  <2> HIDE DEF k
  <2>1. Named \subseteq Kinds
    BY DEF Kinds
  <2> QED
    BY <1>1, <1>2, <2>1 DEF Twinless, Differs
<1>3. CASE k \in Named /\ p <= 5
  <2>1. C = GetAll(cur[r][k]) /\ T = GetAll(tgt[r][k]) /\ o \in GetAll(tgt[r][k]) /\ p \in 1..5 /\ k # "bind" /\ ~(p > 5)
    BY <1>1, <1>3, ListIs DEF Named
  <2>2. Agree(GetAll(cur[r][k]) \cup GetAll(tgt[r][k]))
    BY <1>1, <1>3 DEF Identified, Known, Agree
  <2>3. /\ op = None => o \in C
        /\ op # None =>
             /\ op \in {"Create", "Update"} /\ u.err = "nil" /\ Differs(cur[r], u.s, Kinds, k) /\ Good(k, u.s[k])
             /\ GetAll(u.s[k]) = {c \in C : c.id # o.id} \cup {o}
             /\ \A c \in C : c.id = o.id => c \notin T
    <3> DEFINE GC == GetAll(cur[r][k])  GT == GetAll(tgt[r][k])
    <3>1. /\ op = None => o \in GC
          /\ op # None =>
             /\ op \in {"Create", "Update"} /\ u.err = "nil" /\ Differs(cur[r], u.s, Kinds, k) /\ Good(k, u.s[k])
             /\ GetAll(u.s[k]) = {c \in GC : c.id # o.id} \cup {o}
             /\ \A c \in GC : c.id = o.id => c \notin GT
      <4> HIDE DEF p
      <4> QED
        BY <1>1, <1>3, <2>1, <2>2, UpNamed
    <3>2. C = GC /\ T = GT
      BY <2>1
    <3> HIDE DEF GC, GT, C, T, u, op
    <3> QED
      BY <3>1, <3>2
  <2>4. List(u.s, k) = GetAll(u.s[k])
    BY <1>3, ListIs
  <2> HIDE DEF op, k
  <2>5. /\ Differs(manba, m, Kinds, k)
        /\ op # "Delete" => m[k] = {c \in manba[k] : c.id # o.id} \cup {o}
    BY <1>1, <1>3, RawManba
  <2> HIDE DEF u, m, C, T, p
  <2>6. op # None => Twinless(u.s)
    BY <1>2, <2>3
  <2> QED
    BY <1>1, <1>3, <2>1, <2>3, <2>4, <2>5, <2>6 DEF u, m, C, T, op, k, p
<1>4. CASE k \in Named /\ p > 5
  <2>1. C = GetAll(cur[r][k]) /\ T = GetAll(tgt[r][k]) /\ o \in GetAll(cur[r][k]) /\ p \in 6..10 /\ k # "bind" /\ ~(p <= 5)
    BY <1>1, <1>4, ListIs DEF Named
  <2>3. /\ op = None => (T \subseteq C => o \in T)
        /\ op # None =>
             /\ op = "Delete" /\ u.err = "nil" /\ Differs(cur[r], u.s, Kinds, k) /\ Good(k, u.s[k])
             /\ GetAll(u.s[k]) = C \ {o}
             /\ \A x \in T : x.name # o.name
    <3> DEFINE GC == GetAll(cur[r][k])  GT == GetAll(tgt[r][k])
    <3>1. /\ op = None => (GT \subseteq GC => o \in GT)
          /\ op # None =>
             /\ op = "Delete" /\ u.err = "nil" /\ Differs(cur[r], u.s, Kinds, k) /\ Good(k, u.s[k])
             /\ GetAll(u.s[k]) = GC \ {o}
             /\ \A x \in GT : x.name # o.name
      <4> HIDE DEF p
      <4> QED
        BY <1>1, <1>4, <2>1, DownNamed
    <3>2. C = GC /\ T = GT
      BY <2>1
    <3> HIDE DEF GC, GT, C, T, u, op
    <3> QED
      BY <3>1, <3>2
  <2>4. List(u.s, k) = GetAll(u.s[k])
    BY <1>4, ListIs
  <2> HIDE DEF op, k
  <2>5. /\ Differs(manba, m, Kinds, k)
        /\ op = "Delete" => m[k] = {c \in manba[k] : c.id # o.id}
    BY <1>1, <1>4, RawManba
  <2> HIDE DEF u, m, C, T, p
  <2>6. op # None => Twinless(u.s)
    BY <1>2, <2>3
  <2> QED
    BY <1>1, <1>4, <2>1, <2>3, <2>4, <2>5, <2>6 DEF u, m, C, T, op, k, p
<1>5. CASE k = "bind" /\ p <= 5
  <2>1. C = cur[r].bind /\ T = tgt[r].bind /\ o \in tgt[r].bind /\ p = 3 /\ k \notin Named /\ ~(p > 5)
    BY <1>1, <1>5, ListIs DEF PhaseKind, Named
  <2>2. o \in [cluster : Ids, server : Ids]
    BY <1>1, <2>1 DEF Identified, BindsOK
  <2>3. /\ op = None => o \in C
        /\ op # None => /\ op = "Create" /\ u.err = "nil" /\ Differs(cur[r], u.s, Kinds, k)
                        /\ u.s.bind = C \cup {o}
    BY <1>1, <1>5, <2>1, <2>2, UpBind
  <2>4. List(u.s, k) = u.s.bind
    BY <1>5, ListIs
  <2> HIDE DEF op, k
  <2>5. op = "Create" => Differs(manba, m, Kinds, k) /\ m.bind = manba.bind \cup {o}
    BY <1>1, <1>5, RawBinds
  <2> HIDE DEF u, m, C, T, p
  <2>6. op # None => Twinless(u.s)
    BY <1>2, <2>1, <2>3
  <2> QED
    BY <1>1, <1>5, <2>1, <2>3, <2>4, <2>5, <2>6 DEF u, m, C, T, op, k, p
<1>6. CASE k = "bind" /\ p > 5
  <2>1. C = cur[r].bind /\ T = tgt[r].bind /\ o \in cur[r].bind /\ p = 8 /\ k \notin Named /\ ~(p <= 5)
    BY <1>1, <1>6, ListIs DEF PhaseKind, Named
  <2>2. o \in [cluster : Ids, server : Ids]
    BY <1>1, <2>1 DEF Identified, BindsOK
  <2>3. /\ op = None => o \in T
        /\ op # None => /\ op = "Delete" /\ u.err = "nil" /\ Differs(cur[r], u.s, Kinds, k)
                        /\ u.s.bind = C \ {o} /\ o \notin T
    BY <1>1, <1>6, <2>1, <2>2, DownBind
  <2>4. List(u.s, k) = u.s.bind
    BY <1>6, ListIs
  <2> HIDE DEF op, k
  <2>5. op = "Delete" => Differs(manba, m, Kinds, k) /\ m.bind = manba.bind \ {o}
    BY <1>1, <1>6, RawBinds
  <2> HIDE DEF u, m, C, T, p
  <2>6. op # None => Twinless(u.s)
    BY <1>2, <2>1, <2>3
  <2> QED
    BY <1>1, <1>6, <2>1, <2>3, <2>4, <2>5, <2>6 DEF u, m, C, T, op, k, p
<1> QED
  BY <1>1, <1>3, <1>4, <1>5, <1>6 DEF Kinds

(* What is wished is in the target, by name. *)
LEMMA AimedNames ==
  ASSUME NEW w, NEW s, Aimed(w, s), NEW k \in Named
  PROVE  \A n \in Wished(w, k) : \E o \in GetAll(s[k]) : o.name = n
<1>1. PICK id : GetAll(s[k]) = Objs(w, id, k)
  BY DEF Aimed
<1>2. ASSUME NEW n \in Wished(w, k) PROVE \E o \in GetAll(s[k]) : o.name = n
  <2>1. Obj(w, id, k, n) \in GetAll(s[k]) /\ Obj(w, id, k, n).name = n
    BY <1>1, <1>2 DEF Objs, Obj
  <2> QED
    BY <2>1
<1> QED
  BY <1>2

(* An event brings only what the target has, and takes only what is not wished. *)
LEMMA EventKept ==
  ASSUME NEW r \in Replicas, OInv(r), ~clash, pc[r] = "solve", NEW o \in todo[r],
         NEW k, k = PhaseKind[phase[r]], NEW op, op = OpFor(r, phase[r], o), op # None
  PROVE  LET u == PostProcess(cur[r], k, op, o)
             m == RawDo(manba, k, op, o)
         IN  /\ \A j \in Named : /\ m[j] \subseteq manba[j] \cup GetAll(tgt[r][j])
                                 /\ GetAll(u.s[j]) \subseteq GetAll(cur[r][j]) \cup GetAll(tgt[r][j])
             /\ m.bind \subseteq manba.bind \cup tgt[r].bind /\ u.s.bind \subseteq cur[r].bind \cup tgt[r].bind
             /\ phase[r] > 5 => List(cur[r], k) \ {o} \subseteq List(u.s, k)
             /\ \A j \in Named : \A x \in manba[j] :
                  (\E y \in m[j] : y.id = x.id /\ y.name = x.name) \/ x.name \notin Wished(wish[r], j)
<1> DEFINE p == phase[r]  u == PostProcess(cur[r], k, op, o)  m == RawDo(manba, k, op, o)
           C == List(cur[r], k)  T == List(tgt[r], k)
<1>1. /\ p \in 1..10 /\ k \in Kinds /\ (p <= 5 => o \in T) /\ (p > 5 => o \in C)
      /\ Differs(cur[r], u.s, Kinds, k) /\ Differs(manba, m, Kinds, k)
      /\ k \in Named /\ p <= 5 =>
           List(u.s, k) = {c \in C : c.id # o.id} \cup {o} /\ m[k] = {c \in manba[k] : c.id # o.id} \cup {o}
      /\ k \in Named /\ p > 5 =>
           List(u.s, k) = C \ {o} /\ m[k] = {c \in manba[k] : c.id # o.id} /\ \A x \in T : x.name # o.name
      /\ k = "bind" /\ p <= 5 => List(u.s, k) = C \cup {o} /\ m.bind = manba.bind \cup {o}
      /\ k = "bind" /\ p > 5 => List(u.s, k) = C \ {o} /\ m.bind = manba.bind \ {o} /\ o \notin T
  BY EventCases
<1> HIDE DEF u, m, C, T, p
<1>2. (\A j \in Kinds : j # k => u.s[j] = cur[r][j] /\ m[j] = manba[j]) /\ Named \subseteq Kinds /\ "bind" \in Kinds /\ "bind" \notin Named
  BY <1>1 DEF Differs, Kinds, Named
<1>3. k \in Named => C = GetAll(cur[r][k]) /\ T = GetAll(tgt[r][k]) /\ List(u.s, k) = GetAll(u.s[k])
  BY ListIs DEF C, T
<1>4. k = "bind" => C = cur[r].bind /\ T = tgt[r].bind /\ List(u.s, k) = u.s.bind
  BY ListIs DEF C, T
<1>5. p <= 5 \/ p > 5
  BY <1>1
<1>6. k \in Named \/ k = "bind"
  BY <1>1 DEF Kinds
<1>7. Identified(r) /\ Aimed(wish[r], tgt[r])
  BY DEF OInv, Sound, Solving
<1>8. CASE k = "bind"
  BY <1>1, <1>2, <1>4, <1>5, <1>8 DEF u, m, C, T, p
<1>9. CASE k \in Named
  <2>1. k # "bind" /\ u.s.bind = cur[r].bind /\ m.bind = manba.bind
    BY <1>2, <1>9
  <2>2. m[k] \subseteq manba[k] \cup GetAll(tgt[r][k]) /\ GetAll(u.s[k]) \subseteq GetAll(cur[r][k]) \cup GetAll(tgt[r][k])
    BY <1>1, <1>3, <1>5, <1>9
  <2>3. \A x \in manba[k] : x.id = o.id => x.name = o.name
    <3>1. o \in Known(r, k)
      BY <1>1, <1>3, <1>5, <1>9 DEF Known
    <3> QED
      BY <1>7, <1>9, <3>1 DEF Identified, Agree, Known
  <2>4. p > 5 => o.name \notin Wished(wish[r], k)
    BY <1>1, <1>3, <1>7, <1>9, AimedNames
  <2>5. ASSUME NEW x \in manba[k]
        PROVE  (\E y \in m[k] : y.id = x.id /\ y.name = x.name) \/ x.name \notin Wished(wish[r], k)
    <3>1. CASE x.id # o.id
      <4>1. x \in m[k]
        BY <1>1, <1>5, <1>9, <3>1
      <4> QED
        BY <4>1
    <3>2. CASE x.id = o.id /\ p <= 5
      <4>1. o \in m[k] /\ x.name = o.name
        BY <1>1, <1>9, <2>3, <3>2
      <4> QED
        BY <3>2, <4>1
    <3>3. CASE x.id = o.id /\ p > 5
      BY <2>3, <2>4, <3>3
    <3> QED
      BY <1>5, <3>1, <3>2, <3>3
  <2>6. \A j \in Named : j # k => u.s[j] = cur[r][j] /\ m[j] = manba[j]
    BY <1>2
  <2>7. p > 5 => C \ {o} \subseteq List(u.s, k)
    BY <1>1, <1>9
  <2> QED
    BY <2>1, <2>2, <2>5, <2>6, <2>7 DEF u, m, C, T, p
<1> QED
  BY <1>6, <1>8, <1>9

(* A solving step keeps the invariant when it does to the current state and *)
(* to Manba all or nothing of what EventKept says.                          *)
LEMMA EventStep ==
  ASSUME NEW r \in Replicas, OInv(r), SolveEvent(r) \/ SolveEventFailed(r)
  PROVE  Places(r)' /\ Visit(r)' /\ (~clash => Sound(r))'
<1>0. Maps /\ failures \in Nat
  BY SyncAssumption DEF OInv, TInv
<1>1. pc[r] = "solve" /\ UNCHANGED <<pc, wish, raw, tgt, phase, hash, ret, clash, meddled>>
  BY DEF SolveEvent, SolveEventFailed
<1>2. Places(r)' /\ Visit(r)'
  BY <1>1 DEF OInv, Places, Visit, DumpedKinds
<1>3. ASSUME ~clash PROVE Sound(r)'
  <2>1. Identified(r) /\ Solving(r) /\ Answered(r) /\ Twinless(cur[r])
    BY <1>1, <1>3 DEF OInv, Sound, Solving
  <2>2. PICK o \in todo[r] :
          LET k == PhaseKind[phase[r]]
              op == OpFor(r, phase[r], o)
              u == PostProcess(cur[r], k, op, o)
              m == RawDo(manba, k, op, o)
          IN  /\ todo' = [todo EXCEPT ![r] = @ \ {o}]
              /\ \/ op = None /\ UNCHANGED <<manba, cur, failed, lost, failures>>
                 \/ /\ op # None /\ manba' \in {manba, m} /\ failures' = failures + 1
                    /\ UNCHANGED cur /\ lost' = [lost EXCEPT ![r] = TRUE]
                 \/ /\ op # None /\ manba' = m /\ cur' = [cur EXCEPT ![r] = u.s]
                    /\ failed' = [failed EXCEPT ![r] = @ \/ u.err # "nil"] /\ UNCHANGED <<lost, failures>>
    BY DEF SolveEvent, SolveEventFailed
  <2> DEFINE k == PhaseKind[phase[r]]
             op == OpFor(r, phase[r], o)
             u == PostProcess(cur[r], k, op, o)
             m == RawDo(manba, k, op, o)
  <2>3. todo'[r] = todo[r] \ {o}
    BY <1>0, <2>2 DEF Maps, IsMap
  <2>4. \/ op = None /\ UNCHANGED <<manba, cur, failed, lost, failures>>
        \/ /\ op # None /\ manba' \in {manba, m} /\ failures' = failures + 1
           /\ UNCHANGED cur /\ lost' = [lost EXCEPT ![r] = TRUE]
        \/ /\ op # None /\ manba' = m /\ cur' = [cur EXCEPT ![r] = u.s]
           /\ failed' = [failed EXCEPT ![r] = @ \/ u.err # "nil"] /\ UNCHANGED <<lost, failures>>
    BY <2>2
  <2>5. op # None => u.err = "nil" /\ Twinless(u.s)
    BY <1>1, <1>3, EventCases
  <2>6. op # None =>
          /\ \A j \in Named : /\ m[j] \subseteq manba[j] \cup GetAll(tgt[r][j])
                              /\ GetAll(u.s[j]) \subseteq GetAll(cur[r][j]) \cup GetAll(tgt[r][j])
          /\ m.bind \subseteq manba.bind \cup tgt[r].bind /\ u.s.bind \subseteq cur[r].bind \cup tgt[r].bind
          /\ phase[r] > 5 => List(cur[r], k) \ {o} \subseteq List(u.s, k)
    BY <1>1, <1>3, EventKept
  <2> HIDE DEF k, op, u, m
  <2>7. CASE op = None /\ UNCHANGED <<manba, cur, failed, lost, failures>>
    <3>1. Identified(r)' /\ Answered(r)'
      BY <1>1, <2>1, <2>7 DEF Identified, Known, Answered
    <3>2. Solving(r)'
      BY <1>1, <2>1, <2>3, <2>7 DEF Solving
    <3> QED
      BY <3>1, <3>2 DEF Sound
  <2>8. CASE /\ op # None /\ manba' \in {manba, m} /\ failures' = failures + 1 /\ UNCHANGED cur
             /\ lost' = [lost EXCEPT ![r] = TRUE]
    <3>1. \A j \in Named : Known(r, j)' \subseteq Known(r, j) /\ Distinct(raw'[r][j])
      <4>1. \A j \in Named : manba'[j] \subseteq manba[j] \cup GetAll(tgt[r][j])
        BY <2>6, <2>8
      <4> QED
        BY <1>1, <2>1, <2>8, <4>1 DEF Known, Identified
    <3>2. BindsOK(manba'.bind)
      BY <2>1, <2>6, <2>8 DEF BindsOK, Identified
    <3>3. Identified(r)'
      BY <1>1, <2>1, <2>8, <3>1, <3>2, IdentKept DEF Identified
    <3>4. Solving(r)'
      BY <1>1, <2>1, <2>3, <2>8 DEF Solving
    <3>5. Answered(r)'
      <4>1. lost'[r]
        BY <1>0, <2>8 DEF Maps, IsMap
      <4> QED
        BY <1>0, <2>8, <4>1 DEF Answered
    <3> QED
      BY <3>3, <3>4, <3>5 DEF Sound
  <2>9. CASE /\ op # None /\ manba' = m /\ cur' = [cur EXCEPT ![r] = u.s]
             /\ failed' = [failed EXCEPT ![r] = @ \/ u.err # "nil"] /\ UNCHANGED <<lost, failures>>
    <3>0. cur'[r] = u.s /\ failed'[r] = (failed[r] \/ u.err # "nil")
      BY <1>0, <2>9 DEF Maps, IsMap
    <3>1. \A j \in Named : Known(r, j)' \subseteq Known(r, j) /\ Distinct(raw'[r][j])
      <4>1. \A j \in Named : manba'[j] \subseteq manba[j] \cup GetAll(tgt[r][j]) /\ GetAll(cur'[r][j]) \subseteq GetAll(cur[r][j]) \cup GetAll(tgt[r][j])
        BY <2>6, <2>9, <3>0
      <4> QED
        BY <1>1, <2>1, <4>1 DEF Known, Identified
    <3>2. BindsOK(manba'.bind) /\ BindsOK(cur'[r].bind)
      BY <2>1, <2>6, <2>9, <3>0 DEF BindsOK, Identified
    <3>3. Identified(r)'
      BY <1>1, <2>1, <3>1, <3>2, IdentKept DEF Identified
    <3>4. Solving(r)'
      <4>1. phase[r] > 5 => todo'[r] \subseteq List(cur'[r], k)
        BY <1>1, <2>1, <2>3, <2>6, <2>9, <3>0 DEF Solving, k
      <4> QED
        BY <1>1, <2>1, <2>5, <2>9, <3>0, <4>1 DEF Solving, k
    <3>5. Answered(r)'
      BY <1>1, <2>1, <2>5, <2>9, <3>0 DEF Answered
    <3> QED
      BY <3>3, <3>4, <3>5 DEF Sound
  <2> QED
    BY <2>4, <2>7, <2>8, <2>9
<1> QED
  BY <1>1, <1>2, <1>3

LEMMA ActOInv ==
  ASSUME NEW r \in Replicas, OInv(r), Act(r)
  PROVE  Places(r)' /\ Visit(r)' /\ (~clash => Sound(r))'
BY StartStep, DumpSteps, DumpBindsStep, EndSteps, PrepareStep, EventStep, SolvePhaseStep DEF Act

(* With one replica, every step keeps the invariant. *)
LEMMA NextOInv ==
  ASSUME NEW r, Replicas = {r}, OInv(r), [Next]_vars
  PROVE  OInv(r)'
<1>1. TInv'
  BY NextTInv DEF OInv
<1>2. CASE Act(r)
  BY <1>1, <1>2, ActOInv DEF OInv
<1>3. CASE Drift
  BY <1>1, <1>3, DriftStep DEF OInv
<1>4. CASE UNCHANGED vars
  BY <1>1, <1>4 DEF OInv, vars, own, Places, Visit, Sound, Identified, Known, Solving, Answered
<1> QED
  BY <1>2, <1>3, <1>4 DEF Next, Act, Finished

LEMMA OneInv ==
  ASSUME NEW r, Replicas = {r}
  PROVE  Spec => []OInv(r)
<1>1. Init => OInv(r)
  BY InitOInv
<1>2. OInv(r) /\ [Next]_vars => OInv(r)'
  BY NextOInv
<1> QED
  BY <1>1, <1>2, PTL DEF Spec

(***************************************************************************)
(* One replica never has two objects of a kind and name in Manba, for any  *)
(* configurations and however often it fails, crashes and retries, as long *)
(* as the ids it draws are fresh.                                          *)
(***************************************************************************)
THEOREM NamesStayUnique ==
  ASSUME OneReplica
  PROVE  Spec => []OneRowPerName
<1>1. PICK r : Replicas = {r}
  BY DEF OneReplica
<1>2. Spec => []OInv(r)
  BY <1>1, OneInv
<1>3. OInv(r) => OneRowPerName
  BY DEF OInv, Sound, Identified, Agree, Known, OneRowPerName
<1> QED
  BY <1>2, <1>3, PTL

(***************************************************************************)
(* An error from OnUpdate is that of a call of the same sync, or of a bind *)
(* that the configuration has twice: after whatever earlier failures and   *)
(* crashes, state.Get and the post actions return none of their own.       *)
(***************************************************************************)
THEOREM ErrorsAreExplained ==
  ASSUME OneReplica
  PROVE  Spec => []ErrorsExplained
<1>1. PICK r : Replicas = {r}
  BY DEF OneReplica
<1>2. Spec => []OInv(r)
  BY <1>1, OneInv
<1>3. OInv(r) => ErrorsExplained
  BY <1>1 DEF OInv, Sound, Answered, Repeats, ErrorsExplained
<1> QED
  BY <1>2, <1>3, PTL

(* What a step takes away is not wished. *)
Keeps ==
  (~clash' /\ drifts' = drifts) => \A k \in Named : \A o \in manba[k] :
       \/ \E p \in manba'[k] : p.id = o.id /\ p.name = o.name
       \/ \E r \in Replicas : pc[r] = "solve" /\ o.name \notin Wished(wish[r], k)

(***************************************************************************)
(* An object that the configuration goes on asking for is never taken away *)
(* and never put under another id, by any step of OnUpdate, also one whose *)
(* answer is lost.                                                         *)
(***************************************************************************)
THEOREM WishedNeverTaken ==
  ASSUME OneReplica
  PROVE  Spec => WishedKept
<1>1. PICK r : Replicas = {r}
  BY DEF OneReplica
<1>2. Spec => []OInv(r)
  BY <1>1, OneInv
<1>3. ASSUME OInv(r), [Next]_vars PROVE [Keeps]_vars
  <2>1. SUFFICES ASSUME ~clash', drifts' = drifts, NEW k \in Named, NEW o \in manba[k], manba' # manba
                 PROVE  \/ \E p \in manba'[k] : p.id = o.id /\ p.name = o.name
                        \/ pc[r] = "solve" /\ o.name \notin Wished(wish[r], k)
    BY <1>1 DEF Keeps
  <2>2. r \in Replicas
    BY <1>1
  <2>3. ~Drift
    BY <1>3, <2>1 DEF OInv, TInv, Drift
  <2>4. SolveEvent(r) \/ SolveEventFailed(r)
    BY <1>1, <1>3, <2>1, <2>3 DEF Next, Finished, vars, Start, DumpClusters, DumpServers, DumpBinds, DumpAPIs,
         DumpRoutings, DumpFailed, Dump, Prepare, SolvePhase, SolveReturn, Crash
  <2>5. pc[r] = "solve" /\ ~clash
    BY <2>1, <2>4 DEF SolveEvent, SolveEventFailed
  <2>6. PICK e \in todo[r] : LET op == OpFor(r, phase[r], e)
                             IN  op # None /\ manba' = RawDo(manba, PhaseKind[phase[r]], op, e)
    BY <2>1, <2>4 DEF SolveEvent, SolveEventFailed
  <2> QED
    BY <1>3, <2>2, <2>5, <2>6, EventKept
<1> QED
  BY <1>2, <1>3, PTL DEF Spec, WishedKept, Keeps

-----------------------------------------------------------------------------
(***************************************************************************)
(* When Manba has the objects of a target, and of binds of theirs exactly  *)
(* the target's, it has what the wish asks for, by name.                   *)
(***************************************************************************)
LEMMA ObjIs ==
  ASSUME NEW w, NEW id, NEW k, NEW n
  PROVE  /\ Obj(w, id, k, n).id = id[k][n] /\ Obj(w, id, k, n).name = n
         /\ Obj(w, id, k, n).conf.v = w[k][n].v
         /\ Obj(w, id, k, n).conf.refs = {<<x[1], Ref(w, id, x[1], x[2])>> : x \in w[k][n].refs}
BY DEF Obj

(* An id leads to the name that has it. *)
LEMMA NameFound ==
  ASSUME NEW w, NEW id, Apart(w, id), NEW k \in Named, manba[k] = Objs(w, id, k), NEW n
  PROVE  NameOf(k, Ref(w, id, k, n)) = IF n \in Wished(w, k) THEN n ELSE NoName
<1> DEFINE i == Ref(w, id, k, n)
<1>1. \A o : o \in manba[k] <=> \E m \in Wished(w, k) : o = Obj(w, id, k, m)
  BY DEF Objs
<1>2. \A m \in Wished(w, k) : m \in DOMAIN w[k] /\ id[k][m] \in Ids
  BY DEF Wished, Apart
<1>3. CASE n \in Wished(w, k)
  <2>1. i = id[k][n] /\ n \in DOMAIN w[k]
    BY <1>2, <1>3 DEF Ref
  <2>2. \A o \in manba[k] : o.id = i => o = Obj(w, id, k, n)
    BY <1>1, <1>2, <2>1, ObjIs DEF Apart
  <2>3. Obj(w, id, k, n) \in manba[k] /\ Obj(w, id, k, n).id = i
    BY <1>1, <1>3, <2>1, ObjIs
  <2> HIDE DEF i
  <2>4. (CHOOSE o \in manba[k] : o.id = i) = Obj(w, id, k, n)
    BY <2>2, <2>3
  <2>5. NameOf(k, i) = Obj(w, id, k, n).name
    BY <2>3, <2>4 DEF NameOf
  <2> QED
    BY <1>3, <2>5, ObjIs DEF i
<1>4. CASE n \notin Wished(w, k)
  <2>1. ASSUME NEW o \in manba[k], o.id = i PROVE FALSE
    <3>1. PICK m \in Wished(w, k) : o = Obj(w, id, k, m)
      BY <1>1
    <3>2. id[k][m] = i /\ m \in DOMAIN w[k] /\ id[k][m] \in Ids
      BY <1>2, <2>1, <3>1, ObjIs
    <3>3. n \in DOMAIN w[k] /\ i = id[k][n]
      BY <3>2, IdAssumption DEF Ref
    <3>4. m = n
      BY <3>2, <3>3 DEF Apart
    <3> QED
      BY <1>4, <3>1, <3>4
  <2> HIDE DEF i
  <2>2. NameOf(k, i) = NoName
    BY <2>1 DEF NameOf
  <2> QED
    BY <1>4, <2>2 DEF i
<1> QED
  BY <1>3, <1>4

LEMMA AimedFaithful ==
  ASSUME ManbaOK(manba), NEW w \in Wishes, NEW id, Apart(w, id), \A k \in Named : manba[k] = Objs(w, id, k),
         Under(manba.bind, manba.cluster) = Pairs(w, id)
  PROVE  Faithful(w)
<1>0. Named \subseteq Kinds /\ "cluster" \in Named /\ "server" \in Named
  BY DEF Kinds, Named
<1>1. ASSUME NEW k \in Named PROVE Cardinality(manba[k]) = Cardinality(Wished(w, k))
  <2> DEFINE S == manba[k]  W == Wished(w, k)  f == [o \in S |-> o.name]
  <2>1. \A o : o \in S <=> \E n \in W : o = Obj(w, id, k, n)
    BY <1>1 DEF Objs
  <2>2. IsFiniteSet(S)
    BY <1>0, <1>1 DEF ManbaOK, RowsOK
  <2> HIDE DEF S, W
  <2>3. \A o \in S : o.name \in W /\ o = Obj(w, id, k, o.name)
    BY <2>1, ObjIs
  <2>4. f \in [S -> W] /\ \A o, p \in S : f[o] = f[p] => o = p
    BY <2>3
  <2>5. \A n \in W : \E o \in S : f[o] = n
    BY <2>1, ObjIs
  <2> HIDE DEF f
  <2>6. f \in Bijection(S, W)
    BY <2>4, <2>5 DEF Bijection, Injection, Surjection, IsInjective
  <2>7. Cardinality(S) = Cardinality(W)
    BY <2>2, <2>6, FS_Bijection DEF ExistsBijection
  <2> QED
    BY <2>7 DEF S, W
<1>2. ASSUME NEW k \in Named, NEW n \in Wished(w, k) PROVE \E o \in manba[k] : Matches(w, k, n, o)
  <2> DEFINE o == Obj(w, id, k, n)  R == w[k][n].refs
             want(x) == <<x[1], IF x[2] \in Wished(w, x[1]) THEN x[2] ELSE NoName>>
             got(x) == <<x[1], NameOf(x[1], x[2])>>
             put(x) == <<x[1], Ref(w, id, x[1], x[2])>>
  <2>1. o \in manba[k] /\ o.name = n /\ o.conf.v = w[k][n].v /\ o.conf.refs = {put(x) : x \in R}
    BY <1>2, ObjIs DEF Objs
  <2>2. \A x \in R : x[1] \in Named
    BY <1>2, SyncAssumption DEF Wished
  <2>3. \A x \in R : got(put(x)) = want(x)
    <3>1. SUFFICES ASSUME NEW x \in R PROVE got(put(x)) = want(x)
      OBVIOUS
    <3>2. NameOf(x[1], Ref(w, id, x[1], x[2])) = IF x[2] \in Wished(w, x[1]) THEN x[2] ELSE NoName
      BY <2>2, NameFound
    <3>3. put(x)[1] = x[1] /\ put(x)[2] = Ref(w, id, x[1], x[2])
      OBVIOUS
    <3> QED
      BY <3>2, <3>3
  <2> HIDE DEF o, R, want, got, put
  <2>4. {got(y) : y \in {put(x) : x \in R}} = {want(x) : x \in R}
    <3>1. \A z : z \in {got(y) : y \in {put(x) : x \in R}} <=> \E x \in R : z = got(put(x))
      OBVIOUS
    <3> QED
      BY <2>3, <3>1
  <2>5. {got(y) : y \in o.conf.refs} = {want(x) : x \in R}
    BY <2>1, <2>4
  <2>6. Matches(w, k, n, o)
    BY <2>1, <2>5 DEF Matches, got, want, R
  <2> QED
    BY <2>1, <2>6
<1>3. {x \in manba.bind : NameOf("cluster", x.cluster) # NoName} = Pairs(w, id)
  <2>1. \A c \in manba.cluster : c.name # NoName
    <3>1. \A c \in manba.cluster : Row("cluster", c)
      BY <1>0 DEF ManbaOK, RowsOK
    <3> QED
      BY <1>0, <3>1, RowFacts
  <2>2. ASSUME NEW i PROVE NameOf("cluster", i) # NoName <=> \E c \in manba.cluster : c.id = i
    <3>1. CASE \E c \in manba.cluster : c.id = i
      <4>1. (CHOOSE c \in manba.cluster : c.id = i) \in manba.cluster
        BY <3>1
      <4>2. NameOf("cluster", i) = (CHOOSE c \in manba.cluster : c.id = i).name
        BY <3>1 DEF NameOf
      <4> QED
        BY <2>1, <3>1, <4>1, <4>2
    <3>2. CASE ~\E c \in manba.cluster : c.id = i
      BY <3>2 DEF NameOf
    <3> QED
      BY <3>1, <3>2
  <2> QED
    BY <2>2 DEF Under
<1>4. {<<NameOf("cluster", b.cluster), NameOf("server", b.server)>> : b \in Pairs(w, id)}
        = {<<b.cluster, b.server>> : b \in WishedBinds(w)}
  <2> DEFINE put(b) == [cluster |-> id.cluster[b.cluster], server |-> id.server[b.server]]
             got(b) == <<NameOf("cluster", b.cluster), NameOf("server", b.server)>>
             want(b) == <<b.cluster, b.server>>
  <2>1. ASSUME NEW b \in WishedBinds(w) PROVE got(put(b)) = want(b)
    <3>1. b.cluster \in Wished(w, "cluster") /\ b.server \in Wished(w, "server")
      BY <2>1 DEF WishedBinds
    <3>2. Ref(w, id, "cluster", b.cluster) = id.cluster[b.cluster] /\ Ref(w, id, "server", b.server) = id.server[b.server]
      BY <3>1 DEF Ref, Wished
    <3>3. NameOf("cluster", id.cluster[b.cluster]) = b.cluster
      BY <1>0, <3>1, <3>2, NameFound
    <3>4. NameOf("server", id.server[b.server]) = b.server
      BY <1>0, <3>1, <3>2, NameFound
    <3>5. put(b).cluster = id.cluster[b.cluster] /\ put(b).server = id.server[b.server]
      OBVIOUS
    <3> QED
      BY <3>3, <3>4, <3>5
  <2>2. Pairs(w, id) = {put(b) : b \in WishedBinds(w)}
    BY DEF Pairs
  <2> HIDE DEF put, got, want
  <2>3. {got(y) : y \in {put(b) : b \in WishedBinds(w)}} = {want(b) : b \in WishedBinds(w)}
    <3>1. \A z : z \in {got(y) : y \in {put(x) : x \in WishedBinds(w)}} <=> \E x \in WishedBinds(w) : z = got(put(x))
      OBVIOUS
    <3> QED
      BY <2>1, <3>1
  <2> QED
    BY <2>2, <2>3 DEF got, want
<1>5. {<<NameOf("cluster", b.cluster), NameOf("server", b.server)>> :
         b \in {x \in manba.bind : NameOf("cluster", x.cluster) # NoName}}
       = {<<b.cluster, b.server>> : b \in {x \in ToSet(w.bind) :
             x.cluster \in Wished(w, "cluster") /\ x.server \in Wished(w, "server")}}
  BY <1>3, <1>4 DEF WishedBinds
<1> QED
  BY <1>1, <1>2, <1>5 DEF Faithful

-----------------------------------------------------------------------------
(***************************************************************************)
(* A Solve in which nothing fails and nobody meddles.  The current state   *)
(* is what Manba has; of the binds, those of clusters that Manba has or    *)
(* will have.  After its phase of the first five the current state has all *)
(* of a kind that the target has, after the second nothing else.           *)
(***************************************************************************)
Left(r, p) == IF phase[r] = p THEN todo[r] ELSE {}

Progress(r) ==
  /\ \A p \in 1..5 : phase[r] >= p =>
       List(tgt[r], PhaseKind[p]) \ Left(r, p) \subseteq List(cur[r], PhaseKind[p])
  /\ \A p \in 6..10 : phase[r] >= p =>
       List(cur[r], PhaseKind[p]) \ Left(r, p) \subseteq List(tgt[r], PhaseKind[p])

InStep(r) ==
  /\ \A k \in Named : manba[k] = GetAll(cur[r][k])
  /\ cur[r].bind = Under(manba.bind, manba.cluster \cup GetAll(tgt[r].cluster))
  /\ Progress(r)

(* A configuration that would be skipped has been applied. *)
Skipped(r) ==
  failures = 0 /\ drifts = 0 /\ hash[r] # NoWish /\ pc[r] # "solve" => Faithful(hash[r])

FInv(r) ==
  /\ OInv(r) /\ (drifts = 0 => ~meddled)
  /\ ~clash => Skipped(r) /\ (pc[r] = "solve" /\ ~meddled /\ ~failed[r] => InStep(r))

(* A bind of the target is one of its clusters. *)
LEMMA AimedBinds ==
  ASSUME NEW w, NEW s, Aimed(w, s)
  PROVE  \A b \in s.bind : \E c \in GetAll(s.cluster) : c.id = b.cluster
<1>1. PICK id : GetAll(s.cluster) = Objs(w, id, "cluster") /\ s.bind = Pairs(w, id)
  BY DEF Aimed, Named
<1>2. ASSUME NEW b \in s.bind PROVE \E c \in GetAll(s.cluster) : c.id = b.cluster
  <2>1. PICK x \in WishedBinds(w) : b = [cluster |-> id.cluster[x.cluster], server |-> id.server[x.server]]
    BY <1>1, <1>2 DEF Pairs
  <2>2. x.cluster \in Wished(w, "cluster")
    BY DEF WishedBinds
  <2>3. Obj(w, id, "cluster", x.cluster) \in GetAll(s.cluster) /\ Obj(w, id, "cluster", x.cluster).id = id.cluster[x.cluster]
    BY <1>1, <2>2, ObjIs DEF Objs
  <2> QED
    BY <2>1, <2>3
<1> QED
  BY <1>2

(* The kinds of the phases: each once going up, and once going down. *)
LEMMA PhasePairs ==
  /\ \A p, q \in 1..5 : PhaseKind[p] = PhaseKind[q] => p = q
  /\ \A p, q \in 6..10 : PhaseKind[p] = PhaseKind[q] => p = q
  /\ \A p \in 6..10 : 11 - p \in 1..5 /\ PhaseKind[11 - p] = PhaseKind[p]
  /\ \A k \in Kinds : \E p \in 1..5 : PhaseKind[p] = k /\ PhaseKind[11 - p] = k
  /\ PhaseKind[8] = "bind" /\ PhaseKind[9] = "cluster" /\ \A p \in 6..10 : PhaseKind[p] = "cluster" => p = 9
BY DEF PhaseKind, Kinds, Named

(* Solve is at its end: the current state is the target. *)
LEMMA SolveEnds ==
  ASSUME NEW r \in Replicas, OInv(r), ~clash, pc[r] = "solve", InStep(r), phase[r] = 10, todo[r] = {}
  PROVE  Faithful(wish[r])
<1> DEFINE w == wish[r]
<1>0. Named \subseteq Kinds /\ "bind" \in Kinds /\ "cluster" \in Named
  BY DEF Kinds, Named
<1>1. w \in Wishes /\ ManbaOK(manba) /\ Aimed(w, tgt[r])
  BY DEF OInv, TInv, Control, Sound, Solving
<1>2. \A k \in Kinds : List(cur[r], k) = List(tgt[r], k)
  <2>1. ASSUME NEW k \in Kinds PROVE List(cur[r], k) = List(tgt[r], k)
    <3>1. PICK p \in 1..5 : PhaseKind[p] = k /\ PhaseKind[11 - p] = k
      BY PhasePairs
    <3>2. 11 - p \in 6..10 /\ phase[r] >= p /\ phase[r] >= 11 - p /\ p # 10
      OBVIOUS
    <3>3. Left(r, p) = {} /\ Left(r, 11 - p) = {}
      BY DEF Left
    <3>4. List(tgt[r], k) \subseteq List(cur[r], k)
      BY <3>1, <3>2, <3>3 DEF InStep, Progress
    <3>5. List(cur[r], k) \subseteq List(tgt[r], k)
      BY <3>1, <3>2, <3>3 DEF InStep, Progress
    <3> QED
      BY <3>4, <3>5
  <2> QED
    BY <2>1
<1>3. \A k \in Named : manba[k] = GetAll(tgt[r][k])
  BY <1>0, <1>2, ListIs DEF InStep
<1>4. Under(manba.bind, manba.cluster) = tgt[r].bind
  <2>1. cur[r].bind = tgt[r].bind
    BY <1>0, <1>2, ListIs
  <2>2. manba.cluster \cup GetAll(tgt[r].cluster) = manba.cluster
    BY <1>0, <1>3
  <2> QED
    BY <2>1, <2>2 DEF InStep
<1>5. PICK id : Apart(w, id) /\ (\A k \in Named : GetAll(tgt[r][k]) = Objs(w, id, k)) /\ tgt[r].bind = Pairs(w, id)
  BY <1>1 DEF Aimed
<1> HIDE DEF w
<1>6. Faithful(w)
  BY <1>1, <1>3, <1>4, <1>5, AimedFaithful
<1> QED
  BY <1>6 DEF w

(* A new Solve is in step with Manba if nobody meddled with it since the *)
(* dump began.                                                           *)
LEMMA PrepareInStep ==
  ASSUME NEW r \in Replicas, OInv(r), Prepare(r), ~clash', ~meddled, pc'[r] = "solve"
  PROVE  InStep(r)'
<1>0. "cluster" \in Named /\ {"server"} \subseteq Named
  BY DEF Named
<1>1. /\ pc[r] = "prepare" /\ manba' = manba
      /\ phase'[r] = 1 /\ todo'[r] = GetAllServers(tgt'[r]) /\ cur'[r].bind = raw[r].bind
      /\ \A k \in Named : GetAll(cur'[r][k]) = raw[r][k]
      /\ \A o \in GetAll(tgt'[r].cluster) :
           (\E c \in raw[r].cluster : c.id = o.id) \/ (\A b \in manba.bind : b.cluster # o.id)
  BY PrepareDoes
<1>2. (\A k \in Named : raw[r][k] = manba[k]) /\ raw[r].bind = Under(manba.bind, raw[r].cluster)
  BY <1>1 DEF OInv, Visit, DumpedKinds
<1>3. \A k \in Named : manba'[k] = GetAll(cur'[r][k])
  BY <1>1, <1>2
<1>4. Under(manba.bind, raw[r].cluster) = Under(manba.bind, manba.cluster \cup GetAll(tgt'[r].cluster))
  BY <1>0, <1>1, <1>2 DEF Under
<1>5. Progress(r)'
  <2>1. List(tgt'[r], PhaseKind[1]) = GetAllServers(tgt'[r])
    BY Phases DEF List
  <2>2. \A p \in 1..10 : phase'[r] >= p => p = 1
    BY <1>1
  <2>3. ASSUME NEW p \in 1..5, phase'[r] >= p
        PROVE  List(tgt'[r], PhaseKind[p]) \ (IF phase'[r] = p THEN todo'[r] ELSE {}) \subseteq List(cur'[r], PhaseKind[p])
    BY <1>1, <2>1, <2>2, <2>3
  <2>4. \A p \in 6..10 : ~(phase'[r] >= p)
    BY <1>1
  <2> QED
    BY <2>3, <2>4 DEF Progress, Left
<1> QED
  BY <1>1, <1>2, <1>3, <1>4, <1>5 DEF InStep

LEMMA PhaseInStep ==
  ASSUME NEW r \in Replicas, OInv(r), SolvePhase(r), InStep(r)
  PROVE  InStep(r)'
<1>0. Maps /\ Targets(r)
  BY DEF OInv, TInv
<1>1. UNCHANGED <<manba, cur, tgt>> /\ pc[r] = "solve" /\ todo[r] = {} /\ phase[r] < 10
  BY DEF SolvePhase
<1>2. /\ phase'[r] = phase[r] + 1 /\ phase[r] \in 1..10
      /\ todo'[r] = List(IF phase[r] + 1 > 5 THEN cur[r] ELSE tgt[r], PhaseKind[phase[r] + 1])
  BY <1>0, <1>1 DEF SolvePhase, Maps, IsMap, Targets
<1>3. \A p : Left(r, p) = {}
  BY <1>1 DEF Left
<1>4. ASSUME NEW p \in 1..5, phase'[r] >= p
      PROVE  List(tgt[r], PhaseKind[p]) \ Left(r, p)' \subseteq List(cur[r], PhaseKind[p])
  <2>1. CASE phase'[r] = p
    <3>1. todo'[r] = List(tgt[r], PhaseKind[p])
      BY <1>2, <2>1
    <3> QED
      BY <2>1, <3>1 DEF Left
  <2>2. CASE phase'[r] # p
    <3>1. phase[r] >= p
      BY <1>2, <1>4, <2>2
    <3> QED
      BY <1>3, <3>1 DEF InStep, Progress
  <2> QED
    BY <2>1, <2>2
<1>5. ASSUME NEW p \in 6..10, phase'[r] >= p
      PROVE  List(cur[r], PhaseKind[p]) \ Left(r, p)' \subseteq List(tgt[r], PhaseKind[p])
  <2>1. CASE phase'[r] = p
    <3>1. todo'[r] = List(cur[r], PhaseKind[p])
      BY <1>2, <2>1
    <3> QED
      BY <2>1, <3>1 DEF Left
  <2>2. CASE phase'[r] # p
    <3>1. phase[r] >= p
      BY <1>2, <1>5, <2>2
    <3> QED
      BY <1>3, <3>1 DEF InStep, Progress
  <2> QED
    BY <2>1, <2>2
<1> QED
  BY <1>1, <1>4, <1>5 DEF InStep, Progress

(* What an event does to the list of its kind: C is the current state's, T  *)
(* the target's, L what is left to look at, and D is C after the event.     *)
LEMMA ListMoves ==
  ASSUME NEW C, NEW T, NEW D, NEW L, NEW o
  PROVE  /\ /\ T \ L \subseteq C /\ o \in D
            /\ \A x \in C : x \in T => x \in D
            => T \ (L \ {o}) \subseteq D
         /\ /\ T \subseteq C /\ C \ L \subseteq T /\ D = C \ {o} /\ o \notin T
            => T \subseteq D /\ D \ (L \ {o}) \subseteq T
         /\ /\ T \subseteq C /\ C \ L \subseteq T /\ D = C /\ o \in T
            => T \subseteq D /\ D \ (L \ {o}) \subseteq T
OBVIOUS

(* The event of an object that both states have, and of one that differs. *)
LEMMA EventInStep ==
  ASSUME NEW r \in Replicas, OInv(r), ~clash, SolveEvent(r), InStep(r)
  PROVE  InStep(r)'
<1>0. Maps /\ Targets(r) /\ Sound(r)
  BY DEF OInv, TInv
<1>1. /\ pc[r] = "solve" /\ UNCHANGED <<phase, tgt>>
      /\ Twinless(cur[r]) /\ Twinless(tgt[r]) /\ Aimed(wish[r], tgt[r])
  BY <1>0 DEF SolveEvent, Sound, Solving
<1>2. PICK o \in todo[r] :
        LET k == PhaseKind[phase[r]]
            op == OpFor(r, phase[r], o)
            post == PostProcess(cur[r], k, op, o)
        IN  /\ todo' = [todo EXCEPT ![r] = @ \ {o}]
            /\ IF op = None THEN UNCHANGED <<manba, cur, failed>>
               ELSE /\ manba' = RawDo(manba, k, op, o)
                    /\ cur' = [cur EXCEPT ![r] = post.s]
                    /\ failed' = [failed EXCEPT ![r] = @ \/ post.err # "nil"]
  BY DEF SolveEvent
<1> DEFINE p == phase[r]  k == PhaseKind[p]  op == OpFor(r, p, o)  u == PostProcess(cur[r], k, op, o)
           m == RawDo(manba, k, op, o)  C == List(cur[r], k)  T == List(tgt[r], k)  D == List(cur'[r], k)
           L == todo[r]
<1>3. /\ p \in 1..10 /\ k \in Kinds /\ (p <= 5 => o \in T) /\ (p > 5 => o \in C)
      /\ op = None => (p <= 5 => o \in C) /\ (p > 5 /\ T \subseteq C => o \in T)
      /\ op # None => Differs(cur[r], u.s, Kinds, k) /\ Differs(manba, m, Kinds, k)
      /\ op # None /\ k \in Named /\ p <= 5 =>
           /\ List(u.s, k) = {c \in C : c.id # o.id} \cup {o} /\ m[k] = {c \in manba[k] : c.id # o.id} \cup {o}
           /\ \A c \in C : c.id = o.id => c \notin T
      /\ op # None /\ k \in Named /\ p > 5 =>
           /\ List(u.s, k) = C \ {o} /\ m[k] = {c \in manba[k] : c.id # o.id}
           /\ \A x \in T : x.name # o.name
      /\ op # None /\ k = "bind" /\ p <= 5 => List(u.s, k) = C \cup {o} /\ m.bind = manba.bind \cup {o}
      /\ op # None /\ k = "bind" /\ p > 5 => List(u.s, k) = C \ {o} /\ m.bind = manba.bind \ {o} /\ o \notin T
  BY <1>1, EventCases
<1>4. /\ IsMap(todo, Replicas) /\ IsMap(cur, Replicas) /\ todo' = [todo EXCEPT ![r] = @ \ {o}]
      /\ op = None => manba' = manba /\ cur' = cur
      /\ op # None => manba' = m /\ cur' = [cur EXCEPT ![r] = u.s]
  BY <1>0, <1>2 DEF Maps
<1> HIDE DEF p, k, op, u, m, C, T, D
<1>5. todo'[r] = L \ {o} /\ (op # None => cur'[r] = u.s)
  BY <1>4 DEF IsMap
<1> HIDE DEF L
<1>6. /\ Named \subseteq Kinds /\ "bind" \in Kinds /\ "bind" \notin Named /\ "cluster" \in Named
      /\ (k \in Named \/ k = "bind") /\ (p <= 5 \/ p > 5) /\ (p <= 5 => ~(p > 5))
  BY <1>3 DEF Kinds, Named
<1>7. \A j \in Kinds : j # k => cur'[r][j] = cur[r][j] /\ manba'[j] = manba[j]
  BY <1>3, <1>4, <1>5 DEF Differs
<1>8. op # None => D = List(u.s, k)
  BY <1>5 DEF D
<1>9. op = None => D = C
  BY <1>4 DEF D, C
<1>10. /\ p <= 5 => T \ L \subseteq C
       /\ p > 5 => T \subseteq C /\ C \ L \subseteq T
  <2>1. CASE p <= 5
    <3>1. p \in 1..5 /\ phase[r] >= p /\ Left(r, p) = L
      BY <1>3, <2>1 DEF p, Left, L
    <3> QED
      BY <2>1, <3>1 DEF InStep, Progress, C, T, k
  <2>2. CASE p > 5
    <3>1. /\ p \in 6..10 /\ 11 - p \in 1..5 /\ phase[r] >= p /\ phase[r] >= 11 - p
          /\ Left(r, p) = L /\ Left(r, 11 - p) = {}
      BY <1>3, <2>2 DEF p, Left, L
    <3>2. PhaseKind[11 - p] = k
      BY <3>1, PhasePairs DEF k
    <3>3. T \ {} \subseteq C
      BY <3>1, <3>2 DEF InStep, Progress, C, T
    <3>4. C \ L \subseteq T
      BY <3>1 DEF InStep, Progress, C, T, k
    <3> QED
      BY <2>2, <3>3, <3>4
  <2> QED
    BY <1>6, <2>1, <2>2
<1>11. /\ p <= 5 => T \ (L \ {o}) \subseteq D
       /\ p > 5 => T \subseteq D /\ D \ (L \ {o}) \subseteq T
  <2>1. CASE p <= 5
    <3>1. o \in D /\ \A x \in C : x \in T => x \in D
      BY <1>3, <1>6, <1>8, <1>9, <2>1
    <3> QED
      BY <1>6, <1>10, <2>1, <3>1, ListMoves
  <2>2. CASE p > 5 /\ op # None
    <3>1. D = C \ {o} /\ o \notin T
      BY <1>3, <1>6, <1>8, <2>2
    <3> QED
      BY <1>6, <1>10, <2>2, <3>1, ListMoves
  <2>3. CASE p > 5 /\ op = None
    <3>1. D = C /\ o \in T
      BY <1>3, <1>9, <1>10, <2>3
    <3> QED
      BY <1>6, <1>10, <2>3, <3>1, ListMoves
  <2> QED
    BY <1>6, <2>1, <2>2, <2>3
<1>12. ASSUME NEW j \in Kinds, j # k PROVE List(cur'[r], j) = List(cur[r], j)
  BY <1>6, <1>7, <1>12, ListIs DEF Kinds
<1>13. Progress(r)'
  <2>1. ASSUME NEW q \in 1..5, phase'[r] >= q
        PROVE  List(tgt'[r], PhaseKind[q]) \ (IF phase'[r] = q THEN todo'[r] ELSE {}) \subseteq List(cur'[r], PhaseKind[q])
    <3>1. phase'[r] = p /\ tgt'[r] = tgt[r] /\ PhaseKind[q] \in Kinds
      BY <1>1, PhasePairs, Phases DEF p
    <3>2. CASE PhaseKind[q] # k
      <4>1. q # p /\ List(tgt[r], PhaseKind[q]) \ Left(r, q) \subseteq List(cur[r], PhaseKind[q])
        BY <2>1, <3>1, <3>2 DEF InStep, Progress, p, k
      <4> QED
        BY <1>12, <3>1, <3>2, <4>1 DEF Left, p
    <3>3. CASE PhaseKind[q] = k /\ p <= 5
      <4>1. q = p
        BY <1>3, <3>3, PhasePairs DEF k
      <4> QED
        BY <1>5, <1>11, <3>1, <3>3, <4>1 DEF T, D
    <3>4. CASE PhaseKind[q] = k /\ p > 5
      BY <1>11, <3>1, <3>4 DEF T, D
    <3> QED
      BY <1>6, <3>2, <3>3, <3>4
  <2>2. ASSUME NEW q \in 6..10, phase'[r] >= q
        PROVE  List(cur'[r], PhaseKind[q]) \ (IF phase'[r] = q THEN todo'[r] ELSE {}) \subseteq List(tgt'[r], PhaseKind[q])
    <3>1. phase'[r] = p /\ tgt'[r] = tgt[r] /\ PhaseKind[q] \in Kinds /\ p \in 6..10
      BY <1>1, <1>3, <2>2, Phases DEF p
    <3>2. CASE PhaseKind[q] # k
      <4>1. q # p /\ List(cur[r], PhaseKind[q]) \ Left(r, q) \subseteq List(tgt[r], PhaseKind[q])
        BY <2>2, <3>1, <3>2 DEF InStep, Progress, p, k
      <4> QED
        BY <1>12, <3>1, <3>2, <4>1 DEF Left, p
    <3>3. CASE PhaseKind[q] = k
      <4>1. q = p
        BY <3>1, <3>3, PhasePairs DEF k
      <4> QED
        BY <1>5, <1>11, <3>1, <3>3, <4>1 DEF T, D
    <3> QED
      BY <3>2, <3>3
  <2> QED
    BY <2>1, <2>2 DEF Progress, Left
<1>14. k \in Named => C = GetAll(cur[r][k]) /\ T = GetAll(tgt[r][k]) /\ D = GetAll(cur'[r][k])
  BY ListIs DEF C, T, D
<1>15. k = "bind" => C = cur[r].bind /\ T = tgt[r].bind /\ D = cur'[r].bind
  BY ListIs DEF C, T, D
<1>16. ASSUME NEW j \in Named PROVE manba'[j] = GetAll(cur'[r][j])
  <2>1. manba[j] = GetAll(cur[r][j])
    BY <1>16 DEF InStep
  <2>2. CASE j # k \/ op = None
    BY <1>4, <1>6, <1>7, <2>1, <2>2
  <2>3. CASE j = k /\ op # None /\ p <= 5
    BY <1>3, <1>4, <1>8, <1>14, <1>16, <2>1, <2>3
  <2>4. CASE j = k /\ op # None /\ p > 5
    <3>1. \A x, y \in C : x.id = y.id => x = y
      BY <1>1, <1>14, <1>16, <2>4, GoodRows DEF Twinless
    <3>2. {c \in C : c.id # o.id} = C \ {o}
      BY <1>3, <2>4, <3>1
    <3> QED
      BY <1>3, <1>4, <1>8, <1>14, <1>16, <2>1, <2>4, <3>2
  <2> QED
    BY <1>6, <2>2, <2>3, <2>4
<1> DEFINE B == manba.bind  M == manba.cluster  G == GetAll(tgt[r].cluster)
<1>17. cur[r].bind = Under(B, M \cup G)
  BY DEF InStep
<1>18. \A b \in tgt[r].bind : \E c \in G : c.id = b.cluster
  BY <1>1, AimedBinds
<1>19. cur'[r].bind = Under(manba'.bind, manba'.cluster \cup G)
  <2> HIDE DEF G
  <2>1. CASE op = None
    BY <1>4, <1>17, <2>1
  <2>2. CASE op # None /\ k = "bind"
    <3>1. manba'.cluster = M
      BY <1>6, <1>7, <2>2
    <3>2. CASE p <= 5
      <4>1. o \in tgt[r].bind /\ cur'[r].bind = cur[r].bind \cup {o} /\ manba'.bind = B \cup {o}
        BY <1>3, <1>4, <1>8, <1>15, <2>2, <3>2
      <4> QED
        BY <1>17, <1>18, <3>1, <4>1 DEF Under
    <3>3. CASE p > 5
      <4>1. cur'[r].bind = cur[r].bind \ {o} /\ manba'.bind = B \ {o}
        BY <1>3, <1>4, <1>8, <1>15, <2>2, <3>3
      <4> QED
        BY <1>17, <3>1, <4>1 DEF Under
    <3> QED
      BY <1>6, <3>2, <3>3
  <2>3. CASE op # None /\ k = "cluster"
    <3>1. cur'[r].bind = cur[r].bind /\ manba'.bind = B /\ k \in Named
      BY <1>6, <1>7, <2>3
    <3>2. CASE p <= 5
      <4>1. o \in G /\ manba'.cluster = {c \in M : c.id # o.id} \cup {o}
        BY <1>3, <1>4, <1>14, <2>3, <3>1, <3>2 DEF G
      <4> QED
        BY <1>17, <3>1, <4>1 DEF Under
    <3>3. CASE p > 5
      <4>1. manba'.cluster = {c \in M : c.id # o.id}
        BY <1>3, <1>4, <2>3, <3>1, <3>3
      <4>2. cur[r].bind \subseteq tgt[r].bind
        <5>1. p \in 6..10
          BY <1>3, <3>3
        <5>2. p = 9
          BY <2>3, <5>1, PhasePairs DEF k
        <5>3. 8 \in 6..10 /\ phase[r] >= 8 /\ Left(r, 8) = {} /\ PhaseKind[8] = "bind"
          BY <5>2, PhasePairs DEF p, Left
        <5>4. List(cur[r], "bind") \ {} \subseteq List(tgt[r], "bind")
          BY <5>3 DEF InStep, Progress
        <5> QED
          BY <5>4, ListIs
      <4>3. Under(B, M \cup G) \subseteq Under(B, manba'.cluster \cup G)
        BY <1>17, <1>18, <4>2 DEF Under
      <4>4. Under(B, manba'.cluster \cup G) \subseteq Under(B, M \cup G)
        BY <4>1 DEF Under
      <4>5. Under(B, manba'.cluster \cup G) = Under(B, M \cup G)
        BY <4>3, <4>4
      <4> QED
        BY <1>17, <3>1, <4>5
    <3> QED
      BY <1>6, <3>2, <3>3
  <2>4. CASE op # None /\ k # "bind" /\ k # "cluster"
    BY <1>6, <1>7, <1>17, <2>4
  <2> QED
    BY <2>1, <2>2, <2>3, <2>4
<1> QED
  BY <1>1, <1>13, <1>16, <1>19 DEF InStep

LEMMA InitFInv ==
  ASSUME NEW r, Replicas = {r}, Init
  PROVE  FInv(r)
<1>1. OInv(r)
  BY InitOInv
<1>2. meddled = FALSE /\ pc[r] = "idle" /\ hash[r] = NoWish
  BY DEF Init
<1> QED
  BY <1>1, <1>2 DEF FInv, Skipped

(* Faithful, as an operator on what Manba has. *)
NameIn(m, k, i) ==
  IF \E o \in m[k] : o.id = i THEN (CHOOSE o \in m[k] : o.id = i).name ELSE NoName

FaithfulTo(m, w) ==
  /\ \A k \in Named : Cardinality(m[k]) = Cardinality(Wished(w, k))
  /\ \A k \in Named : \A n \in Wished(w, k) : \E o \in m[k] :
       /\ o.name = n /\ o.conf.v = w[k][n].v
       /\ {<<x[1], NameIn(m, x[1], x[2])>> : x \in o.conf.refs}
            = {<<x[1], IF x[2] \in Wished(w, x[1]) THEN x[2] ELSE NoName>> : x \in w[k][n].refs}
  /\ {<<NameIn(m, "cluster", b.cluster), NameIn(m, "server", b.server)>> :
         b \in {x \in m.bind : NameIn(m, "cluster", x.cluster) # NoName}}
       = {<<b.cluster, b.server>> : b \in {x \in ToSet(w.bind) :
             x.cluster \in Wished(w, "cluster") /\ x.server \in Wished(w, "server")}}

LEMMA FaithfulIs ==
  ASSUME NEW r
  PROVE  /\ Faithful(wish[r]) <=> FaithfulTo(manba, wish[r])
         /\ Faithful(hash[r]) <=> FaithfulTo(manba, hash[r])
         /\ Faithful(wish[r])' <=> FaithfulTo(manba', wish'[r])
         /\ Faithful(hash[r])' <=> FaithfulTo(manba', hash'[r])
<1>1. Faithful(wish[r]) <=> FaithfulTo(manba, wish[r])
  BY DEF Faithful, FaithfulTo, Matches, NameOf, NameIn
<1>2. Faithful(hash[r]) <=> FaithfulTo(manba, hash[r])
  BY DEF Faithful, FaithfulTo, Matches, NameOf, NameIn
<1>3. Faithful(wish[r])' <=> FaithfulTo(manba', wish'[r])
  BY DEF Faithful, FaithfulTo, Matches, NameOf, NameIn
<1>4. Faithful(hash[r])' <=> FaithfulTo(manba', hash'[r])
  BY DEF Faithful, FaithfulTo, Matches, NameOf, NameIn
<1> QED
  BY <1>1, <1>2, <1>3, <1>4

(* What Manba has does not change unless an event of Solve changes it. *)
LEMMA SkippedKept ==
  ASSUME NEW r, Skipped(r), pc[r] # "solve", UNCHANGED <<manba, hash, failures, drifts>>
  PROVE  Skipped(r)'
BY FaithfulIs DEF Skipped

(* The end of a Solve. *)
LEMMA ReturnSkipped ==
  ASSUME NEW r \in Replicas, FInv(r), ~clash, SolveReturn(r)
  PROVE  /\ Skipped(r)' /\ pc'[r] # "solve"
         /\ ~meddled /\ ~failed[r] => Faithful(wish[r])' /\ wish' = wish
<1>1. /\ Maps /\ OInv(r) /\ Answered(r) /\ (drifts = 0 => ~meddled) /\ Skipped(r)
      /\ pc[r] = "solve" /\ ~meddled /\ ~failed[r] => InStep(r)
  BY DEF FInv, OInv, TInv, Sound
<1>2. /\ pc[r] = "solve" /\ UNCHANGED <<manba, wish, failures, drifts>>
      /\ ~failed[r] => todo[r] = {} /\ phase[r] = 10
  BY DEF SolveReturn, Return, At
<1>3. IsMap(pc, Replicas) /\ IsMap(hash, Replicas)
  BY <1>1 DEF Maps
<1>4. pc'[r] = "idle" /\ (~failed[r] => hash'[r] = wish[r])
  BY <1>3 DEF SolveReturn, Return, At, IsMap
<1>5. ~meddled /\ ~failed[r] => Faithful(wish[r])
  BY <1>1, <1>2, SolveEnds
<1>6. ~meddled /\ ~failed[r] => Faithful(wish[r])'
  BY <1>2, <1>5, FaithfulIs
<1>7. failures = 0 /\ drifts = 0 => ~failed[r] /\ ~meddled
  BY <1>1 DEF Answered
<1>8. failures = 0 /\ drifts = 0 => Faithful(hash[r])'
  BY <1>2, <1>4, <1>6, <1>7, FaithfulIs
<1> QED
  BY <1>2, <1>4, <1>6, <1>8 DEF Skipped

LEMMA ActFInv ==
  ASSUME NEW r \in Replicas, FInv(r), Act(r), ~clash'
  PROVE  Skipped(r)' /\ (pc[r] = "solve" /\ ~meddled /\ ~failed[r] => InStep(r))'
<1>0. /\ Maps /\ OInv(r) /\ failures \in Nat
      /\ ~clash => Skipped(r) /\ (pc[r] = "solve" /\ ~meddled /\ ~failed[r] => InStep(r))
  BY SyncAssumption DEF FInv, OInv, TInv
<1>1. IsMap(pc, Replicas) /\ IsMap(failed, Replicas)
  BY <1>0 DEF Maps
<1>2. CASE SolveEvent(r)
  <2>1. UNCHANGED <<pc, clash, meddled>> /\ pc[r] = "solve" /\ (~failed'[r] => ~failed[r])
    <3>1. UNCHANGED <<pc, clash, meddled>> /\ pc[r] = "solve"
      BY <1>2 DEF SolveEvent
    <3>2. failed' = failed \/ \E x : failed' = [failed EXCEPT ![r] = @ \/ x]
      BY <1>2 DEF SolveEvent
    <3>3. failed[r] => failed'[r]
      BY <1>1, <3>2 DEF IsMap
    <3> QED
      BY <3>1, <3>3
  <2>2. ~clash
    BY <2>1
  <2>3. Skipped(r)'
    BY <2>1 DEF Skipped
  <2>4. ~meddled' /\ ~failed'[r] => InStep(r)'
    BY <1>0, <1>2, <2>1, <2>2, EventInStep
  <2> QED
    BY <2>3, <2>4
<1>3. CASE SolvePhase(r)
  <2>1. UNCHANGED <<pc, clash, meddled, failed>> /\ pc[r] = "solve"
    BY <1>3 DEF SolvePhase
  <2>2. Skipped(r)'
    BY <2>1 DEF Skipped
  <2>3. ~meddled' /\ ~failed'[r] => InStep(r)'
    BY <1>0, <1>3, <2>1, PhaseInStep
  <2> QED
    BY <2>2, <2>3
<1>4. CASE Prepare(r)
  <2>1. pc[r] = "prepare" /\ UNCHANGED <<manba, hash, failures, drifts, meddled>>
    BY <1>4 DEF Prepare
  <2>2. \E x : clash' = (clash \/ x)
    BY <1>4, Zenon DEF Prepare
  <2>3. ~clash
    BY <2>2
  <2>4. Skipped(r)'
    BY <1>0, <2>1, <2>3, SkippedKept
  <2>5. ~meddled' /\ pc'[r] = "solve" => InStep(r)'
    BY <1>0, <1>4, <2>1, PrepareInStep
  <2> QED
    BY <2>4, <2>5
<1>5. CASE SolveReturn(r)
  <2>1. ~clash
    BY <1>5 DEF SolveReturn
  <2> QED
    BY <1>5, <2>1, ReturnSkipped
<1>6. CASE DumpFailed(r) \/ Crash(r) \/ SolveEventFailed(r)
  <2>1. failures' # 0
    BY <1>0, <1>6 DEF DumpFailed, Crash, SolveEventFailed
  <2>2. pc'[r] # "solve" \/ failed'[r]
    BY <1>1, <1>6 DEF DumpFailed, Crash, SolveEventFailed, Return, At, IsMap
  <2> QED
    BY <2>1, <2>2 DEF Skipped
<1>7. CASE Start(r) \/ DumpClusters(r) \/ DumpServers(r) \/ DumpBinds(r) \/ DumpAPIs(r) \/ DumpRoutings(r)
  <2>1. pc[r] # "solve" /\ UNCHANGED <<manba, hash, failures, drifts, clash>>
    BY <1>7 DEF Start, DumpClusters, DumpServers, DumpBinds, DumpAPIs, DumpRoutings, Dump, Return, At
  <2>2. pc'[r] # "solve"
    BY <1>1, <1>7 DEF Start, DumpClusters, DumpServers, DumpBinds, DumpAPIs, DumpRoutings, Dump, Return, At, IsMap
  <2>3. Skipped(r)'
    BY <1>0, <2>1, SkippedKept
  <2> QED
    BY <2>2, <2>3
<1> QED
  BY <1>2, <1>3, <1>4, <1>5, <1>6, <1>7 DEF Act

LEMMA NextFInv ==
  ASSUME NEW r, Replicas = {r}, FInv(r), [Next]_vars
  PROVE  FInv(r)'
<1>1. OInv(r)'
  BY NextOInv DEF FInv
<1>2. drifts \in Nat /\ (drifts = 0 => ~meddled)
  BY SyncAssumption DEF FInv, OInv, TInv
<1>3. CASE Act(r)
  <2>1. drifts' = drifts /\ (meddled' = meddled \/ meddled' = FALSE)
    BY <1>3 DEF Act, Start, DumpClusters, DumpServers, DumpBinds, DumpAPIs, DumpRoutings, Dump, DumpFailed,
         Prepare, SolveEvent, SolveEventFailed, SolvePhase, SolveReturn, Crash
  <2>2. (drifts = 0 => ~meddled)'
    BY <1>2, <2>1
  <2>3. ~clash' => Skipped(r)' /\ (pc[r] = "solve" /\ ~meddled /\ ~failed[r] => InStep(r))'
    BY <1>3, ActFInv
  <2> QED
    BY <1>1, <2>2, <2>3 DEF FInv
<1>4. CASE Drift
  <2>1. drifts' # 0 /\ meddled'
    BY <1>2, <1>4 DEF Drift
  <2> QED
    BY <1>1, <2>1 DEF FInv, Skipped
<1>5. CASE UNCHANGED vars
  <2>1. UNCHANGED <<manba, hash, failures, drifts, clash, meddled, pc, failed, cur, tgt, phase, todo>>
    BY <1>5 DEF vars, own
  <2>2. InStep(r)' <=> InStep(r)
    BY <2>1 DEF InStep, Progress, Left
  <2>3. Skipped(r)' <=> Skipped(r)
    BY <2>1, FaithfulIs DEF Skipped
  <2> QED
    BY <1>1, <2>1, <2>2, <2>3 DEF FInv
<1> QED
  BY <1>3, <1>4, <1>5 DEF Next, Act, Finished

(* What a nil promises. *)
Promised ==
  \A r \in Replicas :
    (Returns(r) /\ ~clash /\ ~meddled /\ (pc[r] = "solve" \/ failures + drifts = 0)) => Faithful(wish[r])'

(***************************************************************************)
(* When Solve ends without an error, or a configuration is skipped and     *)
(* nothing ever went wrong, Manba has exactly what the configuration asks  *)
(* for: for any configurations, any order of the events of a phase, and    *)
(* after any earlier crash, lost answer, half-done sync or change by       *)
(* someone else.                                                           *)
(***************************************************************************)
THEOREM NilIsFaithful ==
  ASSUME OneReplica
  PROVE  Spec => NilMeansFaithful
<1>1. PICK r : Replicas = {r}
  BY DEF OneReplica
<1>2. Init => FInv(r)
  BY <1>1, InitFInv
<1>3. FInv(r) /\ [Next]_vars => FInv(r)'
  BY <1>1, NextFInv
<1>4. ASSUME FInv(r), [Next]_vars PROVE [Promised]_vars
  <2>1. SUFFICES ASSUME Next, Returns(r), ~clash, ~meddled, pc[r] = "solve" \/ failures + drifts = 0
                 PROVE  Faithful(wish[r])'
    BY <1>1, <1>4 DEF Promised
  <2>2. /\ r \in Replicas /\ Maps /\ OInv(r) /\ Answered(r) /\ Skipped(r) /\ failures \in Nat /\ drifts \in Nat
        /\ ret[r] \in {None, "nil", "error"} /\ NoWish \notin Wishes
    BY <1>1, <1>4, <2>1, SyncAssumption, WishesAreWishes DEF FInv, OInv, TInv, Control, Sound
  <2>3. IsMap(pc, Replicas) /\ IsMap(ret, Replicas) /\ IsMap(syncs, Replicas) /\ IsMap(wish, Replicas)
    BY <2>2 DEF Maps
  <2>4. CASE pc[r] = "solve"
    <3>1. pc'[r] = "idle" /\ ret'[r] = "nil"
      BY <2>1 DEF Returns
    <3>2. SolveReturn(r)
      BY <1>1, <2>1, <2>3, <2>4, <3>1 DEF Next, Drift, own, Finished, vars, Start, DumpClusters, DumpServers,
           DumpBinds, DumpAPIs, DumpRoutings, DumpFailed, Prepare, SolveEvent, SolveEventFailed, SolvePhase,
           Crash, Return, At, IsMap, None
    <3>3. ~failed[r]
      <4>1. failed[r] => ret' = [ret EXCEPT ![r] = "error"]
        BY <3>2, Zenon DEF SolveReturn, Return
      <4>2. failed[r] => ret'[r] = "error"
        BY <2>2, <2>3, <4>1 DEF IsMap
      <4> QED
        BY <3>1, <4>2
    <3> QED
      BY <1>4, <2>1, <2>2, <3>2, <3>3, ReturnSkipped
  <2>5. CASE pc[r] # "solve" /\ failures + drifts = 0
    <3>1. failures = 0 /\ drifts = 0
      BY <2>2, <2>5
    <3>2. pc'[r] = "idle" /\ syncs'[r] # syncs[r]
      BY <2>1, <2>5 DEF Returns
    <3>3. Start(r)
      BY <1>1, <2>1, <3>2 DEF Next, Drift, own, Finished, vars, DumpClusters, DumpServers, DumpBinds, DumpAPIs,
           DumpRoutings, Dump, DumpFailed, Prepare, SolveEvent, SolveEventFailed, SolvePhase, SolveReturn, Crash
    <3>4. PICK w \in Wishes : wish' = [wish EXCEPT ![r] = w] /\ hash[r] = w
      BY <2>2, <2>3, <3>2, <3>3 DEF Start, At, IsMap
    <3>5. wish'[r] = hash[r] /\ hash[r] # NoWish /\ UNCHANGED manba
      BY <2>2, <2>3, <3>3, <3>4 DEF IsMap, Start
    <3>6. Faithful(hash[r])
      BY <2>2, <2>5, <3>1, <3>5 DEF Skipped
    <3> QED
      BY <3>5, <3>6, FaithfulIs
  <2> QED
    BY <2>1, <2>4, <2>5
<1> QED
  BY <1>2, <1>3, <1>4, PTL DEF Spec, NilMeansFaithful, Promised
=============================================================================
