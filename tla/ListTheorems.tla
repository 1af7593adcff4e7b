---------------------------- MODULE ListTheorems ----------------------------
(***************************************************************************)
(* Theorems about lists, and about the lists of the parameters that a node *)
(* of an API checks: Validations.                                          *)
(***************************************************************************)
EXTENDS Validations, FiniteSetTheorems, TLAPS

ListInv(c, i, acc) == IsList(acc)

OnceOp(c, acc, x) == IF x \in ToSet(acc) THEN acc ELSE Append(acc, x)

AddingOnce == INSTANCE FoldTheorems WITH Op <- OnceOp, Inv <- ListInv

-----------------------------------------------------------------------------
(***************************************************************************)
(* Lists.                                                                  *)
(***************************************************************************)
(* The indices of a list. *)
LEMMA ListDomain ==
  ASSUME NEW s, IsList(s)
  PROVE  Len(s) \in Nat /\ DOMAIN s = 1..Len(s) /\ \A x : x \in ToSet(s) <=> \E i \in 1..Len(s) : x = s[i]
BY DEF IsList, ToSet

(* A function on 1..n is a list. *)
LEMMA ListMade ==
  ASSUME NEW n \in Nat, NEW s, s = [i \in 1..n |-> s[i]]
  PROVE  IsList(s) /\ Len(s) = n
<1> DEFINE T == {s[i] : i \in 1..n}
<1>1. s \in [1..n -> T]
  <2>1. \A i \in 1..n : s[i] \in T
    OBVIOUS
  <2> HIDE DEF T
  <2> QED
    BY <2>1
<1>2. T = ToSet(s)
  BY <1>1 DEF ToSet
<1> HIDE DEF T
<1>3. s \in Seq(T) /\ Len(s) = n
  BY <1>1
<1> QED
  BY <1>2, <1>3 DEF IsList

(* The empty list. *)
LEMMA ListEmpty == IsList(<<>>) /\ ToSet(<<>>) = {} /\ Len(<<>>) = 0
BY DEF IsList, ToSet

(* A list followed by a list. *)
LEMMA ListConcat ==
  ASSUME NEW s, NEW t, IsList(s), IsList(t)
  PROVE  IsList(s \o t) /\ ToSet(s \o t) = ToSet(s) \cup ToSet(t)
<1>1. s \in Seq(ToSet(s) \cup ToSet(t)) /\ t \in Seq(ToSet(s) \cup ToSet(t))
  BY DEF IsList
<1> DEFINE T == ToSet(s) \cup ToSet(t)  u == s \o t
<1>2. u \in Seq(T) /\ Len(u) = Len(s) + Len(t)
  BY <1>1
<1>3. \A i \in 1..Len(u) : u[i] = IF i <= Len(s) THEN s[i] ELSE t[i - Len(s)]
  BY <1>1
<1>4. Len(s) \in Nat /\ Len(t) \in Nat
  BY <1>1
<1> HIDE DEF T, u
<1>5. u = [i \in 1..Len(u) |-> u[i]] /\ Len(u) \in Nat
  BY <1>2
<1>6. IsList(u)
  BY <1>5, ListMade
<1>7. ToSet(u) \subseteq T
  BY <1>2, <1>6, ListDomain
<1>8. ASSUME NEW x \in T PROVE x \in ToSet(u)
  <2>1. CASE x \in ToSet(s)
    <3>1. PICK i \in 1..Len(s) : x = s[i]
      BY <2>1, ListDomain
    <3>2. i \in 1..Len(u) /\ u[i] = x
      BY <1>2, <1>3, <1>4, <3>1
    <3> QED
      BY <3>2, <1>6, ListDomain
  <2>2. CASE x \in ToSet(t)
    <3>1. PICK i \in 1..Len(t) : x = t[i]
      BY <2>2, ListDomain
    <3>2. i + Len(s) \in 1..Len(u) /\ u[i + Len(s)] = x
      BY <1>2, <1>3, <1>4, <3>1
    <3> QED
      BY <3>2, <1>6, ListDomain
  <2> QED
    BY <2>1, <2>2 DEF T
<1> QED
  BY <1>6, <1>7, <1>8 DEF T, u

(* A list and one element more. *)
LEMMA ListAppend ==
  ASSUME NEW s, NEW x, IsList(s)
  PROVE  /\ IsList(Append(s, x)) /\ Len(Append(s, x)) = Len(s) + 1
         /\ ToSet(Append(s, x)) = ToSet(s) \cup {x}
         /\ \A i \in 1..Len(s) : Append(s, x)[i] = s[i]
         /\ Append(s, x)[Len(s) + 1] = x
<1> DEFINE T == ToSet(s) \cup {x}  u == Append(s, x)
<1>1. s \in Seq(T) /\ x \in T
  BY DEF IsList
<1>2. /\ u \in Seq(T) /\ Len(u) = Len(s) + 1 /\ Len(s) \in Nat
      /\ \A i \in 1..Len(s) : u[i] = s[i]
      /\ u[Len(s) + 1] = x
  <2> HIDE DEF T
  <2> QED
    BY <1>1
<1> HIDE DEF u, T
<1>3. u = [i \in 1..Len(u) |-> u[i]] /\ Len(u) \in Nat
  BY <1>2
<1>4. IsList(u)
  BY <1>3, ListMade
<1>5. \A y : y \in ToSet(u) <=> y \in ToSet(s) \cup {x}
  BY <1>2, <1>4, ListDomain
<1> QED
  BY <1>2, <1>4, <1>5 DEF u

-----------------------------------------------------------------------------
(***************************************************************************)
(* FlattenSeq: a loop in a loop, that appends to one list.                 *)
(***************************************************************************)
Flat(q, g, m) == [i \in 1..m |-> IF i = 1 THEN q[i] ELSE g[i - 1] \o q[i]]

HasFlat(m) == \A q : \E g : g = Flat(q, g, m)

(* There is a function as FlattenSeq defines it. *)
LEMMA FlatExists == \A m \in Nat : HasFlat(m)
<1>1. HasFlat(0)
  <2> SUFFICES ASSUME NEW q PROVE \E g : g = Flat(q, g, 0)
    BY DEF HasFlat
  <2> DEFINE g == Flat(q, q, 0)
  <2>1. 1..0 = {}
    OBVIOUS
  <2>2. \A h : Flat(q, h, 0) = Flat(q, q, 0)
    <3> SUFFICES ASSUME NEW h PROVE Flat(q, h, 0) = Flat(q, q, 0)
      OBVIOUS
    <3>1. \A i \in 1..0 : (IF i = 1 THEN q[i] ELSE h[i - 1] \o q[i]) = (IF i = 1 THEN q[i] ELSE q[i - 1] \o q[i])
      BY <2>1
    <3> QED
      BY <3>1, Zenon DEF Flat
  <2>3. g = Flat(q, g, 0)
    BY <2>2
  <2> QED
    BY <2>3
<1>2. ASSUME NEW m \in Nat, HasFlat(m)
      PROVE  HasFlat(m + 1)
  <2> SUFFICES ASSUME NEW q PROVE \E g : g = Flat(q, g, m + 1)
    BY DEF HasFlat
  <2>1. PICK g : g = Flat(q, g, m)
    BY <1>2 DEF HasFlat
  <2> DEFINE h == Flat(q, g, m + 1)
  <2>2. \A i \in 1..m : h[i] = g[i]
    <3> DEFINE v(i) == IF i = 1 THEN q[i] ELSE g[i - 1] \o q[i]
    <3>1. g = [i \in 1..m |-> v(i)] /\ h = [i \in 1..(m + 1) |-> v(i)]
      BY <2>1, Zenon DEF Flat
    <3> HIDE DEF v, h
    <3>2. \A i \in 1..m : i \in 1..(m + 1)
      OBVIOUS
    <3> QED
      BY <3>1, <3>2
  <2>3. \A i \in 1..(m + 1) : i # 1 => i - 1 \in 1..m
    OBVIOUS
  <2>4. h = Flat(q, h, m + 1)
    BY <2>2, <2>3 DEF Flat
  <2> QED
    BY <2>4
<1> DEFINE S == {m \in Nat : HasFlat(m)}
<1>3. 0 \in S /\ \A m \in Nat : m \in S => m + 1 \in S
  BY <1>1, <1>2
<1>4. \A m \in Nat : m \in S
  <2> HIDE DEF S
  <2> QED
    BY <1>3, AddingOnce!Induct
<1> QED
  BY <1>4

Flattens(i) ==
  \A q, g : \A n \in Nat :
    (i + 1 \in 1..n /\ g = Flat(q, g, n) /\ \A j \in 1..n : IsList(q[j])) =>
      /\ IsList(g[i + 1])
      /\ \A x : x \in ToSet(g[i + 1]) <=> \E j \in 1..(i + 1) : x \in ToSet(q[j])

(* After each list the result holds what the lists so far hold. *)
LEMMA FlattensAlways == \A i \in Nat : Flattens(i)
<1>1. Flattens(0)
  <2> SUFFICES ASSUME NEW q, NEW g, NEW n \in Nat, 0 + 1 \in 1..n, g = Flat(q, g, n),
                      \A j \in 1..n : IsList(q[j])
               PROVE  /\ IsList(g[0 + 1])
                      /\ \A x : x \in ToSet(g[0 + 1]) <=> \E j \in 1..(0 + 1) : x \in ToSet(q[j])
    BY DEF Flattens
  <2>1. g[1] = q[1]
    BY DEF Flat
  <2>2. 0 + 1 = 1 /\ 1 \in 1..n /\ \A j \in 1..1 : j = 1
    OBVIOUS
  <2> QED
    BY <2>1, <2>2
<1>2. ASSUME NEW i \in Nat, Flattens(i)
      PROVE  Flattens(i + 1)
  <2> SUFFICES ASSUME NEW q, NEW g, NEW n \in Nat, (i + 1) + 1 \in 1..n, g = Flat(q, g, n),
                      \A j \in 1..n : IsList(q[j])
               PROVE  /\ IsList(g[(i + 1) + 1])
                      /\ \A x : x \in ToSet(g[(i + 1) + 1])
                                  <=> \E j \in 1..((i + 1) + 1) : x \in ToSet(q[j])
    BY DEF Flattens
  <2> DEFINE k == (i + 1) + 1
  <2>1. k \in 1..n /\ k # 1 /\ k - 1 = i + 1 /\ i + 1 \in 1..n
    OBVIOUS
  <2>2. g[k] = g[i + 1] \o q[k]
    <3> HIDE DEF k
    <3> QED
      BY <2>1 DEF Flat
  <2>3. IsList(g[i + 1]) /\ \A x : x \in ToSet(g[i + 1]) <=> \E j \in 1..(i + 1) : x \in ToSet(q[j])
    BY <1>2, <2>1 DEF Flattens
  <2>4. IsList(q[k])
    BY <2>1
  <2>5. IsList(g[k]) /\ ToSet(g[k]) = ToSet(g[i + 1]) \cup ToSet(q[k])
    BY <2>2, <2>3, <2>4, ListConcat
  <2>6. \A j : j \in 1..k <=> j \in 1..(i + 1) \/ j = k
    OBVIOUS
  <2> HIDE DEF k
  <2>7. \A x : x \in ToSet(g[k]) <=> \E j \in 1..k : x \in ToSet(q[j])
    BY <2>3, <2>5, <2>6
  <2> QED
    BY <2>5, <2>7 DEF k
<1> DEFINE S == {i \in Nat : Flattens(i)}
<1>3. 0 \in S /\ \A i \in Nat : i \in S => i + 1 \in S
  BY <1>1, <1>2
<1>4. \A i \in Nat : i \in S
  <2> HIDE DEF S
  <2> QED
    BY <1>3, AddingOnce!Induct
<1> QED
  BY <1>4

(* Flattening lists gives a list of what is in any of them. *)
LEMMA Flattened ==
  ASSUME NEW n \in Nat, NEW q, q = [i \in 1..n |-> q[i]], \A i \in 1..n : IsList(q[i])
  PROVE  /\ IsList(FlattenSeq(q))
         /\ \A x : x \in ToSet(FlattenSeq(q)) <=> \E i \in 1..n : x \in ToSet(q[i])
<1>1. IsList(q) /\ Len(q) = n
  BY ListMade
<1>2. CASE n = 0
  <2>1. FlattenSeq(q) = q
    BY <1>1, <1>2 DEF FlattenSeq
  <2>2. IsList(q) /\ ToSet(q) = {}
    BY <1>1, <1>2, ListDomain
  <2>3. 1..n = {}
    BY <1>2
  <2> QED
    BY <2>1, <2>2, <2>3
<1>3. CASE n # 0
  <2> DEFINE g == CHOOSE h : h = Flat(q, h, n)
  <2>1. g = Flat(q, g, n)
    BY FlatExists DEF HasFlat
  <2>2. FlattenSeq(q) = g[n]
    BY <1>1, <1>3 DEF FlattenSeq, Flat
  <2> HIDE DEF g
  <2>3. n - 1 \in Nat /\ (n - 1) + 1 = n /\ n \in 1..n
    BY <1>3
  <2>4. Flattens(n - 1)
    BY <2>3, FlattensAlways
  <2>5. IsList(g[n]) /\ \A x : x \in ToSet(g[n]) <=> \E j \in 1..n : x \in ToSet(q[j])
    BY <2>1, <2>3, <2>4 DEF Flattens
  <2> QED
    BY <2>2, <2>5
<1> QED
  BY <1>2, <1>3

(* Any way of listing a finite set is a list of its elements. *)
LEMMA SetListed ==
  ASSUME NEW S, IsFiniteSet(S), NEW list \in SetToSeqs(S)
  PROVE  IsList(list) /\ ToSet(list) = S
<1> DEFINE n == Cardinality(S)
<1>1. n \in Nat
  BY FS_CardinalityType
<1>0. n = Cardinality(S)
  OBVIOUS
<1>2. list \in [1..n -> S] /\ \A i, j \in 1..n : i # j => list[i] # list[j]
  BY DEF SetToSeqs
<1> HIDE DEF n
<1>3. list = [i \in 1..n |-> list[i]]
  BY <1>2
<1>4. IsList(list) /\ Len(list) = n
  BY <1>1, <1>3, ListMade
<1>5. list \in Injection(1..n, S)
  BY <1>2 DEF Injection, IsInjective
<1>6. Cardinality(1..n) = n
  <2>1. 1 \in Int /\ n \in Int
    BY <1>1
  <2>2. Cardinality(1..n) = IF 1 > n THEN 0 ELSE n - 1 + 1
    BY <2>1, FS_Interval
  <2> QED
    BY <1>1, <2>2
<1>7. list \in Surjection(1..n, S)
  BY <1>0, <1>5, <1>6, FS_Injection
<1>8. \A x \in S : \E i \in 1..n : list[i] = x
  BY <1>7 DEF Surjection
<1>9. \A x : x \in ToSet(list) <=> \E i \in 1..n : x = list[i]
  BY <1>4, ListDomain
<1>10. \A x : x \in ToSet(list) <=> x \in S
  BY <1>2, <1>8, <1>9
<1> QED
  BY <1>4, <1>10

(* A search in a list that finds something finds the first. *)
LEMMA FirstFound ==
  ASSUME NEW n \in Nat, NEW I \in SUBSET (1..n), I # {}
  PROVE  Min(I) \in I /\ \A y \in I : Min(I) <= y
<1>1. I \in SUBSET Nat
  OBVIOUS
<1>2. PICK x \in I : \A y \in I : ~(y < x)
  BY <1>1, AddingOnce!LeastNumber
<1>3. \A y \in I : x <= y
  BY <1>1, <1>2
<1> QED
  BY <1>2, <1>3 DEF Min

-----------------------------------------------------------------------------
(* Lists that have nothing twice. *)
Injective(s) == \A m, n \in 1..Len(s) : s[m] = s[n] => m = n

LEMMA InjectiveAppend ==
  ASSUME NEW s, NEW x, IsList(s), Injective(s), x \notin ToSet(s)
  PROVE  Injective(Append(s, x))
<1> DEFINE u == Append(s, x)
<1>1. /\ Len(u) = Len(s) + 1 /\ u[Len(s) + 1] = x /\ \A i \in 1..Len(s) : u[i] = s[i]
  BY ListAppend
<1>2. Len(s) \in Nat /\ \A i \in 1..Len(s) : s[i] # x
  BY ListDomain
<1> HIDE DEF u
<1>3. \A i \in 1..Len(u) : i \in 1..Len(s) \/ i = Len(s) + 1
  BY <1>1, <1>2
<1>4. Injective(u)
  BY <1>1, <1>2, <1>3 DEF Injective
<1> QED
  BY <1>4 DEF u

(* A value that is at two places of flattened lists, none of which has it *)
(* twice, is in two of them.                                              *)
Doubled(q, k, x) == \E a, b \in 1..k : a # b /\ x \in ToSet(q[a]) /\ x \in ToSet(q[b])

Repeating(i) ==
  \A q, g : \A n \in Nat :
    (i + 1 \in 1..n /\ g = Flat(q, g, n) /\ \A j \in 1..n : IsList(q[j]) /\ Injective(q[j])) =>
      \A l, m \in 1..Len(g[i + 1]) : l # m /\ g[i + 1][l] = g[i + 1][m] => Doubled(q, i + 1, g[i + 1][l])

LEMMA ConcatPlaces ==
  ASSUME NEW s, NEW t, IsList(s), IsList(t)
  PROVE  /\ Len(s \o t) = Len(s) + Len(t) /\ Len(s) \in Nat /\ Len(t) \in Nat
         /\ \A i \in 1..Len(s \o t) :
              \/ i \in 1..Len(s) /\ (s \o t)[i] = s[i]
              \/ i - Len(s) \in 1..Len(t) /\ (s \o t)[i] = t[i - Len(s)]
<1>1. s \in Seq(ToSet(s) \cup ToSet(t)) /\ t \in Seq(ToSet(s) \cup ToSet(t))
  BY DEF IsList
<1> DEFINE T == ToSet(s) \cup ToSet(t)  u == s \o t
<1>2. u \in Seq(T) /\ Len(u) = Len(s) + Len(t) /\ Len(s) \in Nat /\ Len(t) \in Nat
  BY <1>1
<1>3. \A i \in 1..Len(u) : u[i] = IF i <= Len(s) THEN s[i] ELSE t[i - Len(s)]
  BY <1>1
<1> HIDE DEF T, u
<1>4. \A i \in 1..Len(u) : (i \in 1..Len(s) /\ u[i] = s[i]) \/ (i - Len(s) \in 1..Len(t) /\ u[i] = t[i - Len(s)])
  BY <1>2, <1>3
<1> QED
  BY <1>2, <1>4 DEF u

LEMMA RepeatingAlways == \A i \in Nat : Repeating(i)
<1>1. Repeating(0)
  <2> SUFFICES ASSUME NEW q, NEW g, NEW n \in Nat, 0 + 1 \in 1..n, g = Flat(q, g, n),
                      \A j \in 1..n : IsList(q[j]) /\ Injective(q[j]),
                      NEW l \in 1..Len(g[0 + 1]), NEW m \in 1..Len(g[0 + 1]), l # m, g[0 + 1][l] = g[0 + 1][m]
               PROVE  FALSE
    BY DEF Repeating
  <2>1. 0 + 1 = 1 /\ 1 \in 1..n
    OBVIOUS
  <2>2. g[1] = q[1]
    BY <2>1 DEF Flat
  <2> QED
    BY <2>1, <2>2 DEF Injective
<1>2. ASSUME NEW i \in Nat, Repeating(i)
      PROVE  Repeating(i + 1)
  <2> SUFFICES ASSUME NEW q, NEW g, NEW n \in Nat, (i + 1) + 1 \in 1..n, g = Flat(q, g, n),
                      \A j \in 1..n : IsList(q[j]) /\ Injective(q[j]),
                      NEW l \in 1..Len(g[(i + 1) + 1]), NEW m \in 1..Len(g[(i + 1) + 1]), l # m,
                      g[(i + 1) + 1][l] = g[(i + 1) + 1][m]
               PROVE  Doubled(q, (i + 1) + 1, g[(i + 1) + 1][l])
    BY DEF Repeating
  <2> DEFINE k == (i + 1) + 1
             s == g[i + 1]
             u == g[k]
             x == u[l]
  <2>1. k \in 1..n /\ k # 1 /\ k - 1 = i + 1 /\ i + 1 \in 1..n
    OBVIOUS
  <2>2. u = s \o q[k]
    <3> HIDE DEF k
    <3> QED
      BY <2>1 DEF Flat
  <2>3. IsList(s) /\ \A y : y \in ToSet(s) <=> \E j \in 1..(i + 1) : y \in ToSet(q[j])
    <3>1. Flattens(i)
      BY FlattensAlways
    <3> QED
      BY <2>1, <3>1 DEF Flattens
  <2>4. IsList(q[k]) /\ Injective(q[k])
    BY <2>1
  <2>5. \A a, b \in 1..Len(s) : a # b /\ s[a] = s[b] => Doubled(q, i + 1, s[a])
    BY <1>2, <2>1 DEF Repeating
  <2>6. /\ l \in 1..Len(u) /\ m \in 1..Len(u) /\ u[l] = u[m] /\ Len(s) \in Nat /\ Len(q[k]) \in Nat
        /\ Len(u) = Len(s) + Len(q[k])
        /\ (l \in 1..Len(s) /\ u[l] = s[l]) \/ (l - Len(s) \in 1..Len(q[k]) /\ u[l] = q[k][l - Len(s)])
        /\ (m \in 1..Len(s) /\ u[m] = s[m]) \/ (m - Len(s) \in 1..Len(q[k]) /\ u[m] = q[k][m - Len(s)])
    <3> HIDE DEF s
    <3> QED
      BY <2>2, <2>3, <2>4, ConcatPlaces
  <2>7. (\A j \in 1..(i + 1) : j \in 1..k /\ j # k) /\ k \in 1..k
    OBVIOUS
  <2>8. \A a : (a \in 1..Len(s) => s[a] \in ToSet(s)) /\ (a \in 1..Len(q[k]) => q[k][a] \in ToSet(q[k]))
    BY <2>3, <2>4, ListDomain
  <2> HIDE DEF k, s, u
  <2>9. CASE l \in 1..Len(s) /\ m \in 1..Len(s) /\ u[l] = s[l] /\ u[m] = s[m]
    <3>1. Doubled(q, i + 1, x)
      BY <2>5, <2>6, <2>9
    <3> HIDE DEF x
    <3> QED
      BY <2>7, <3>1 DEF Doubled, x, u, k
  <2>10. CASE /\ l - Len(s) \in 1..Len(q[k]) /\ u[l] = q[k][l - Len(s)]
              /\ m - Len(s) \in 1..Len(q[k]) /\ u[m] = q[k][m - Len(s)]
    <3>1. l - Len(s) = m - Len(s)
      BY <2>4, <2>6, <2>10 DEF Injective
    <3>2. l = m
      BY <2>6, <3>1
    <3> QED
      BY <3>2
  <2>11. CASE x \in ToSet(s) /\ x \in ToSet(q[k])
    <3>1. PICK j \in 1..(i + 1) : x \in ToSet(q[j])
      BY <2>3, <2>11
    <3>2. Doubled(q, k, x)
      BY <2>7, <2>11, <3>1 DEF Doubled
    <3> QED
      BY <3>2 DEF x, u, k
  <2> QED
    BY <2>6, <2>8, <2>9, <2>10, <2>11
<1> DEFINE S == {i \in Nat : Repeating(i)}
<1>3. 0 \in S /\ \A i \in Nat : i \in S => i + 1 \in S
  BY <1>1, <1>2
<1>4. \A i \in Nat : i \in S
  <2> HIDE DEF S
  <2> QED
    BY <1>3, AddingOnce!Induct
<1> QED
  BY <1>4

LEMMA FlatRepeats ==
  ASSUME NEW n \in Nat, NEW q, q = [i \in 1..n |-> q[i]], \A i \in 1..n : IsList(q[i]) /\ Injective(q[i]),
         NEW f, f = FlattenSeq(q), NEW l \in 1..Len(f), NEW m \in 1..Len(f), l # m, f[l] = f[m]
  PROVE  Doubled(q, n, f[l])
<1>1. IsList(q) /\ Len(q) = n
  BY ListMade
<1>2. CASE n = 0
  <2>1. f = q
    BY <1>1, <1>2 DEF FlattenSeq
  <2>2. Len(f) = 0
    BY <1>1, <1>2, <2>1
  <2> QED
    BY <2>2
<1>3. CASE n # 0
  <2> DEFINE g == CHOOSE h : h = Flat(q, h, n)
  <2>1. g = Flat(q, g, n)
    BY FlatExists DEF HasFlat
  <2>2. f = g[n]
    BY <1>1, <1>3 DEF FlattenSeq, Flat
  <2> HIDE DEF g
  <2>3. n - 1 \in Nat /\ (n - 1) + 1 = n /\ n \in 1..n
    BY <1>3
  <2>4. Repeating(n - 1)
    BY <2>3, RepeatingAlways
  <2>5. \A a, b \in 1..Len(g[n]) : a # b /\ g[n][a] = g[n][b] => Doubled(q, n, g[n][a])
    BY <2>1, <2>3, <2>4 DEF Repeating
  <2> QED
    BY <2>2, <2>5
<1> QED
  BY <1>2, <1>3

-----------------------------------------------------------------------------
(***************************************************************************)
(* The parameters that a node checks.                                      *)
(***************************************************************************)
Inserted(s, k, x) == SubSeq(s, 1, k) \o <<x>> \o SubSeq(s, k + 1, Len(s))

(* A list with x after its first k elements. *)
LEMMA InsertedPlaces ==
  ASSUME NEW s, IsList(s), NEW k \in 0..Len(s), NEW x
  PROVE  /\ IsList(Inserted(s, k, x)) /\ Len(Inserted(s, k, x)) = Len(s) + 1
         /\ \A i \in 1..k : Inserted(s, k, x)[i] = s[i]
         /\ Inserted(s, k, x)[k + 1] = x
         /\ \A i \in (k + 1)..Len(s) : Inserted(s, k, x)[i + 1] = s[i]
         /\ ToSet(Inserted(s, k, x)) = ToSet(s) \cup {x}
<1> DEFINE T == ToSet(s) \cup {x}
           n == Len(s)
           a == SubSeq(s, 1, k)
           b == SubSeq(s, k + 1, n)
           r == Inserted(s, k, x)
<1>1. s \in Seq(T) /\ n \in Nat /\ k \in Nat /\ k <= n /\ <<x>> \in Seq(T) /\ Len(<<x>>) = 1 /\ <<x>>[1] = x
  <2>1. s \in Seq(T) /\ x \in T
    BY DEF IsList
  <2> HIDE DEF T
  <2>2. Len(s) \in Nat
    BY <2>1
  <2> QED
    BY <2>1, <2>2
<1> HIDE DEF T
<1>2. a \in Seq(T) /\ Len(a) = k /\ \A i \in 1..k : a[i] = s[i]
  BY <1>1
<1>3. b \in Seq(T) /\ Len(b) = n - k /\ \A i \in 1..(n - k) : b[i] = s[k + i]
  BY <1>1
<1>4. r = (a \o <<x>>) \o b
  BY DEF Inserted
<1> HIDE DEF a, b, r, n
<1> DEFINE ax == a \o <<x>>
<1>5. ax \in Seq(T) /\ Len(ax) = k + 1 /\ (\A i \in 1..k : ax[i] = s[i]) /\ ax[k + 1] = x
  <2>1. ax \in Seq(T) /\ Len(ax) = k + 1
    BY <1>1, <1>2
  <2>2. \A i \in 1..(k + 1) : ax[i] = IF i <= k THEN a[i] ELSE <<x>>[i - k]
    BY <1>1, <1>2
  <2> HIDE DEF ax
  <2>3. \A i \in 1..k : ax[i] = a[i]
    BY <1>1, <2>2
  <2>4. ax[k + 1] = <<x>>[1]
    <3>1. k + 1 \in 1..(k + 1) /\ ~(k + 1 <= k) /\ (k + 1) - k = 1
      BY <1>1
    <3> QED
      BY <2>2, <3>1
  <2> QED
    BY <1>1, <1>2, <2>1, <2>3, <2>4
<1>6. r = ax \o b
  BY <1>4
<1> HIDE DEF ax
<1>7. r \in Seq(T) /\ Len(r) = n + 1 /\ \A i \in 1..(n + 1) : r[i] = IF i <= k + 1 THEN ax[i] ELSE b[i - (k + 1)]
  <2>0. ax \in Seq(T) /\ b \in Seq(T)
    BY <1>3, <1>5
  <2>1. r \in Seq(T) /\ Len(r) = Len(ax) + Len(b)
    BY <1>6, <2>0
  <2>2. \A i \in 1..Len(r) : r[i] = IF i <= Len(ax) THEN ax[i] ELSE b[i - Len(ax)]
    BY <1>6, <2>0
  <2>3. Len(r) = n + 1
    BY <1>1, <1>3, <1>5, <2>1
  <2> QED
    BY <1>5, <2>1, <2>2, <2>3
<1>8. \A i \in 1..k : r[i] = s[i]
  BY <1>1, <1>5, <1>7
<1>9. r[k + 1] = x
  BY <1>1, <1>5, <1>7
<1>10. ASSUME NEW i \in (k + 1)..n
       PROVE  r[i + 1] = s[i]
  <2>1. i + 1 \in 1..(n + 1) /\ ~(i + 1 <= k + 1) /\ (i + 1) - (k + 1) = i - k /\ i - k \in 1..(n - k) /\ k + (i - k) = i
    BY <1>1
  <2>2. r[i + 1] = b[i - k]
    BY <1>7, <2>1
  <2> QED
    BY <1>3, <2>1, <2>2
<1>11. r = [i \in 1..(n + 1) |-> r[i]] /\ n + 1 \in Nat
  BY <1>1, <1>7
<1>12. IsList(r)
  BY <1>11, ListMade
<1>13. \A y : y \in ToSet(r) <=> y \in ToSet(s) \cup {x}
  <2>1. \A i \in 1..(n + 1) : i \in 1..k \/ i = k + 1 \/ (i - 1 \in (k + 1)..n /\ (i - 1) + 1 = i)
    BY <1>1
  <2>2. \A i \in 1..k : i \in 1..n
    BY <1>1
  <2>3. \A i \in (k + 1)..n : i \in 1..n
    BY <1>1
  <2>4. \A i \in 1..n : (i \in 1..k /\ i \in 1..(n + 1)) \/ (i \in (k + 1)..n /\ i + 1 \in 1..(n + 1))
    BY <1>1
  <2>5. k + 1 \in 1..(n + 1)
    BY <1>1
  <2>6. /\ \A y : y \in ToSet(s) <=> \E i \in 1..n : y = s[i]
        /\ \A y : y \in ToSet(r) <=> \E i \in 1..(n + 1) : y = r[i]
    BY <1>7, <1>12, ListDomain DEF n
  <2>7. ASSUME NEW i \in 1..(n + 1) PROVE r[i] \in ToSet(s) \cup {x}
    <3>1. CASE i \in 1..k
      BY <1>8, <2>2, <2>6, <3>1
    <3>2. CASE i = k + 1
      BY <1>9, <3>2
    <3>3. CASE i - 1 \in (k + 1)..n /\ (i - 1) + 1 = i
      BY <1>10, <2>3, <2>6, <3>3
    <3> QED
      BY <2>1, <3>1, <3>2, <3>3
  <2>8. ASSUME NEW i \in 1..n PROVE s[i] \in ToSet(r)
    <3>1. CASE i \in 1..k /\ i \in 1..(n + 1)
      BY <1>8, <2>6, <3>1
    <3>2. CASE i \in (k + 1)..n /\ i + 1 \in 1..(n + 1)
      BY <1>10, <2>6, <3>2
    <3> QED
      BY <2>4, <3>1, <3>2
  <2>9. x \in ToSet(r)
    BY <1>9, <2>5, <2>6
  <2> QED
    BY <2>6, <2>7, <2>8, <2>9
<1> QED
  BY <1>7, <1>8, <1>9, <1>10, <1>12, <1>13 DEF r, n

(* The place at which an element stops on its way to the left. *)
Stays(sorted, p) == {n \in 1..Len(sorted) : ~Less(p, sorted[n])}

After(sorted, p) ==
  IF Stays(sorted, p) = {} THEN 0 ELSE CHOOSE n \in Stays(sorted, p) : \A m \in Stays(sorted, p) : m <= n

LEMMA AfterPlace ==
  ASSUME NEW sorted, IsList(sorted), NEW p
  PROVE  /\ After(sorted, p) \in 0..Len(sorted)
         /\ After(sorted, p) # 0 => ~Less(p, sorted[After(sorted, p)])
         /\ \A n \in 1..Len(sorted) : n > After(sorted, p) => Less(p, sorted[n])
<1> DEFINE S == Stays(sorted, p)
<1>1. Len(sorted) \in Nat
  BY ListDomain
<1>2. S \in SUBSET (1..Len(sorted)) /\ \A n \in 1..Len(sorted) : n \in S <=> ~Less(p, sorted[n])
  BY DEF Stays
<1>3. CASE S = {}
  BY <1>1, <1>2, <1>3 DEF After
<1>4. CASE S # {}
  <2>1. PICK n \in S : \A m \in S : m <= n
    <3> HIDE DEF S
    <3>1. AddingOnce!HasLast(Len(sorted))
      BY <1>1, AddingOnce!LastExists
    <3>2. \E x \in S : \A y \in S : x >= y
      BY <1>2, <1>4, <3>1 DEF AddingOnce!HasLast
    <3>3. PICK x \in S : \A y \in S : x >= y
      BY <3>2
    <3>4. \A y \in S : y <= x
      BY <1>1, <1>2, <3>3
    <3> QED
      BY <3>4
  <2>2. After(sorted, p) = CHOOSE x \in S : \A y \in S : y <= x
    BY <1>4 DEF After
  <2> HIDE DEF S
  <2> DEFINE A == After(sorted, p)
  <2>3. A \in S /\ \A m \in S : m <= A
    BY <2>1, <2>2
  <2> HIDE DEF A
  <2>4. A \in 1..Len(sorted) /\ ~Less(p, sorted[A])
    BY <1>2, <2>3
  <2>5. \A m \in 1..Len(sorted) : m > A => m \notin S
    BY <1>1, <2>3, <2>4
  <2>6. A \in 0..Len(sorted) /\ \A m \in 1..Len(sorted) : m > A => Less(p, sorted[m])
    BY <1>1, <1>2, <2>4, <2>5
  <2> QED
    BY <2>4, <2>6 DEF A
<1> QED
  BY <1>3, <1>4

InsertOp(c, sorted, p) == Inserted(sorted, After(sorted, p), p)

SortInv(c, i, acc) ==
  IsList(acc) /\ Len(acc) = i /\ \A x : x \in ToSet(acc) <=> \E j \in 1..i : x = c[j]

Sorting == INSTANCE FoldTheorems WITH Op <- InsertOp, Inv <- SortInv

LEMMA SortFolds ==
  ASSUME NEW list, NEW c
  PROVE  InsertionSort(list) = Sorting!Fold(c, <<>>, list)
BY DEF InsertionSort, InsertOp, Inserted, After, Stays, Sorting!Fold, Sorting!MapThenFoldSet,
       Sorting!Last, FoldLeft, MapThenFoldSet, Max

(* Sorting a list loses nothing and adds nothing. *)
LEMMA SortKeeps ==
  ASSUME NEW list, IsList(list)
  PROVE  /\ IsList(InsertionSort(list)) /\ Len(InsertionSort(list)) = Len(list)
         /\ ToSet(InsertionSort(list)) = ToSet(list)
<1> DEFINE n == Len(list)
<1>1. n \in Nat /\ DOMAIN list = 1..n /\ \A x : x \in ToSet(list) <=> \E j \in 1..n : x = list[j]
  BY ListDomain
<1> HIDE DEF n
<1>2. SortInv(list, 0, <<>>)
  <2>1. \A j \in 1..0 : FALSE
    OBVIOUS
  <2> QED
    BY <2>1, ListEmpty DEF SortInv
<1>3. ASSUME NEW j \in 1..n, NEW a, SortInv(list, j - 1, a)
      PROVE  SortInv(list, j, InsertOp(list, a, list[j]))
  <2>1. IsList(a) /\ Len(a) = j - 1 /\ \A x : x \in ToSet(a) <=> \E m \in 1..(j - 1) : x = list[m]
    BY <1>3 DEF SortInv
  <2> DEFINE b == InsertOp(list, a, list[j])
  <2>2. IsList(b) /\ Len(b) = Len(a) + 1 /\ ToSet(b) = ToSet(a) \cup {list[j]}
    BY <2>1, AfterPlace, InsertedPlaces DEF InsertOp
  <2> HIDE DEF b
  <2>3. (\A m : m \in 1..j <=> m \in 1..(j - 1) \/ m = j) /\ (j - 1) + 1 = j
    BY <1>1
  <2>4. SortInv(list, j, b)
    BY <2>1, <2>2, <2>3 DEF SortInv
  <2> QED
    BY <2>4 DEF b
<1>4. SortInv(list, n, Sorting!Fold(list, <<>>, list))
  BY <1>1, <1>2, <1>3, Sorting!FoldKeeps
<1>5. SortInv(list, n, InsertionSort(list))
  BY <1>4, SortFolds
<1> QED
  BY <1>1, <1>5 DEF SortInv, n

(* The pass with gap six exchanges elements of a list of up to twelve, and   *)
(* has none to exchange in a list of up to six.                              *)
LEMMA GapKeeps ==
  ASSUME NEW list, IsList(list), Len(list) <= 12
  PROVE  /\ IsList(GapPass(list)) /\ Len(GapPass(list)) = Len(list)
         /\ ToSet(GapPass(list)) = ToSet(list)
         /\ Len(list) <= 6 => GapPass(list) = list
<1> DEFINE n == Len(list)  g == GapPass(list)
<1>0. n \in Nat /\ n <= 12
  BY DEF IsList
<1>1. list = [i \in 1..n |-> list[i]]
  BY DEF IsList
<1>2. \A x : x \in ToSet(list) <=> \E i \in 1..n : x = list[i]
  BY ListDomain
<1>3. g = [i \in 1..n |-> g[i]]
  BY DEF GapPass
<1>4. \A i \in 1..n : g[i] = IF i + 6 <= n /\ Less(list[i + 6], list[i]) THEN list[i + 6]
                            ELSE IF i > 6 /\ Less(list[i], list[i - 6]) THEN list[i - 6]
                            ELSE list[i]
  BY DEF GapPass
<1> HIDE DEF n, g
<1>5. IsList(g) /\ Len(g) = n
  BY <1>0, <1>3, ListMade
<1>6. \A x : x \in ToSet(g) <=> \E i \in 1..n : x = g[i]
  BY <1>5, ListDomain
<1>7. ASSUME NEW i \in 1..n PROVE \E j \in 1..n : g[i] = list[j]
  <2>1. CASE i + 6 <= n /\ Less(list[i + 6], list[i])
    <3>1. i + 6 \in 1..n
      BY <1>0, <2>1
    <3>2. g[i] = list[i + 6]
      BY <1>4, <2>1
    <3> QED
      BY <3>1, <3>2
  <2>2. CASE ~(i + 6 <= n /\ Less(list[i + 6], list[i])) /\ i > 6 /\ Less(list[i], list[i - 6])
    <3>1. i - 6 \in 1..n
      BY <1>0, <2>2
    <3>2. g[i] = list[i - 6]
      BY <1>4, <2>2
    <3> QED
      BY <3>1, <3>2
  <2>3. CASE ~(i + 6 <= n /\ Less(list[i + 6], list[i])) /\ ~(i > 6 /\ Less(list[i], list[i - 6]))
    BY <1>4, <2>3
  <2> QED
    BY <2>1, <2>2, <2>3
<1>8. ASSUME NEW i \in 1..n PROVE \E j \in 1..n : list[i] = g[j]
  <2>1. CASE i + 6 <= n /\ Less(list[i + 6], list[i])
    <3>1. i + 6 \in 1..n /\ ~((i + 6) + 6 <= n) /\ i + 6 > 6 /\ (i + 6) - 6 = i
      BY <1>0, <2>1
    <3>2. g[i + 6] = list[i]
      BY <1>4, <2>1, <3>1
    <3> QED
      BY <3>1, <3>2
  <2>2. CASE ~(i + 6 <= n /\ Less(list[i + 6], list[i])) /\ i > 6 /\ Less(list[i], list[i - 6])
    <3>1. i - 6 \in 1..n /\ (i - 6) + 6 <= n /\ (i - 6) + 6 = i
      BY <1>0, <2>2
    <3>2. g[i - 6] = list[i]
      BY <1>4, <2>2, <3>1
    <3> QED
      BY <3>1, <3>2
  <2>3. CASE ~(i + 6 <= n /\ Less(list[i + 6], list[i])) /\ ~(i > 6 /\ Less(list[i], list[i - 6]))
    BY <1>4, <2>3
  <2> QED
    BY <2>1, <2>2, <2>3
<1>9. ToSet(g) = ToSet(list)
  BY <1>2, <1>6, <1>7, <1>8
<1>10. ASSUME n <= 6 PROVE g = list
  <2>1. \A i \in 1..n : ~(i + 6 <= n) /\ ~(i > 6)
    BY <1>0, <1>10
  <2>2. \A i \in 1..n : g[i] = list[i]
    BY <1>4, <2>1
  <2> QED
    BY <1>1, <1>3, <2>2
<1> QED
  BY <1>5, <1>9, <1>10 DEF n, g

(* Whatever sort.Slice makes of a list has the list's elements; up to six   *)
(* elements it sorts by insertion.                                          *)
LEMMA SliceKeeps ==
  ASSUME NEW list, IsList(list), NEW v \in SortSlice(list)
  PROVE  /\ IsList(v) /\ Len(v) = Len(list) /\ ToSet(v) = ToSet(list)
         /\ Len(list) <= 6 => v = InsertionSort(list)
<1> DEFINE n == Len(list)
<1>1. n \in Nat /\ \A x : x \in ToSet(list) <=> \E i \in 1..n : x = list[i]
  BY ListDomain
<1>2. CASE n <= 12
  <2>1. v = InsertionSort(GapPass(list))
    BY <1>2 DEF SortSlice
  <2> QED
    BY <1>2, <2>1, GapKeeps, SortKeeps
<1>3. CASE ~(n <= 12)
  <2>1. PICK f \in Bijection(1..n, 1..n) : v = [i \in 1..n |-> list[f[i]]]
    BY <1>3 DEF SortSlice
  <2>2. /\ \A i \in 1..n : f[i] \in 1..n
        /\ \A j \in 1..n : \E i \in 1..n : f[i] = j
    BY <2>1 DEF Bijection, Surjection
  <2>3. v = [i \in 1..n |-> v[i]] /\ \A i \in 1..n : v[i] = list[f[i]]
    BY <2>1
  <2> HIDE DEF n
  <2>4. IsList(v) /\ Len(v) = n
    BY <1>1, <2>3, ListMade
  <2>5. \A x : x \in ToSet(v) <=> \E i \in 1..n : x = v[i]
    BY <2>4, ListDomain
  <2>6. ToSet(v) = ToSet(list)
    <3>1. ASSUME NEW x, x \in ToSet(v) PROVE x \in ToSet(list)
      <4>1. PICK i \in 1..n : x = v[i]
        BY <2>5, <3>1
      <4>2. f[i] \in 1..n /\ x = list[f[i]]
        BY <2>2, <2>3, <4>1
      <4> QED
        BY <1>1, <4>2
    <3>2. ASSUME NEW x, x \in ToSet(list) PROVE x \in ToSet(v)
      <4>1. PICK j \in 1..n : x = list[j]
        BY <1>1, <3>2
      <4>2. PICK i \in 1..n : f[i] = j
        BY <2>2
      <4>3. x = v[i]
        BY <2>3, <4>1, <4>2
      <4> QED
        BY <2>5, <4>3
    <3> QED
      BY <3>1, <3>2
  <2>7. ~(n <= 6)
    BY <1>1, <1>3
  <2> QED
    BY <2>4, <2>6, <2>7 DEF n
<1> QED
  BY <1>2, <1>3

(* The maps that have been gone through. *)
Through(match, i) == {p \in match : \E j \in 1..i : p.source = Maps[j]}

JoinOp(c, lists, source) == {l \o s : l \in lists, s \in Parse(c, source)}

JoinInv(c, i, lists) ==
  \A l \in lists : IsList(l) /\ ToSet(l) = Through(c, i) /\ Len(l) = Cardinality(Through(c, i))

Joining == INSTANCE FoldTheorems WITH Op <- JoinOp, Inv <- JoinInv

LEMMA MapsApart ==
  /\ IsList(Maps) /\ Len(Maps) = 6 /\ DOMAIN Maps = 1..6
  /\ \A i, j \in 1..6 : i # j => Maps[i] # Maps[j]
<1>1. Len(Maps) = 6
  BY DEF Maps
<1>2. DOMAIN Maps = 1..6 /\ Maps = [i \in 1..6 |-> Maps[i]]
  BY DEF Maps
<1>3. IsList(Maps)
  BY <1>2, ListMade
<1>4. \A i, j \in 1..6 : i # j => Maps[i] # Maps[j]
  BY DEF Maps
<1> QED
  BY <1>1, <1>2, <1>3, <1>4

(* One map more. *)
LEMMA JoinStep ==
  ASSUME NEW match, IsFiniteSet(match), NEW j \in 1..6, NEW lists, JoinInv(match, j - 1, lists)
  PROVE  JoinInv(match, j, JoinOp(match, lists, Maps[j]))
<1> DEFINE U == Through(match, j - 1)
           S == {p \in match : p.source = Maps[j]}
<1>1. /\ Through(match, j) = U \cup S /\ U \cap S = {} /\ U \in SUBSET match /\ S \in SUBSET match
  <2>1. \A m : m \in 1..j <=> m \in 1..(j - 1) \/ m = j
    OBVIOUS
  <2>2. \A m \in 1..(j - 1) : m \in 1..6 /\ m # j
    OBVIOUS
  <2>3. \A m \in 1..(j - 1) : Maps[m] # Maps[j]
    BY <2>2, MapsApart
  <2> QED
    BY <2>1, <2>3 DEF Through
<1> HIDE DEF U
<1>2. IsFiniteSet(U) /\ IsFiniteSet(S)
  BY <1>1, FS_Subset
<1>3. Cardinality(U \cup S) = Cardinality(U) + Cardinality(S) /\ Cardinality(U) \in Nat /\ Cardinality(S) \in Nat
  <2>1. /\ Cardinality(U \cup S) = Cardinality(U) + Cardinality(S) - Cardinality(U \cap S)
        /\ Cardinality(U) \in Nat /\ Cardinality(S) \in Nat
    BY <1>2, FS_Union, FS_CardinalityType
  <2>2. Cardinality(U \cap S) = 0
    BY <1>1, FS_EmptySet
  <2> QED
    BY <2>1, <2>2
<1>4. Parse(match, Maps[j]) = SetToSeqs(S)
  BY DEF Parse
<1> HIDE DEF S
<1>5. ASSUME NEW l \in lists, NEW s \in SetToSeqs(S)
      PROVE  IsList(l \o s) /\ ToSet(l \o s) = U \cup S /\ Len(l \o s) = Cardinality(U \cup S)
  <2>1. IsList(l) /\ ToSet(l) = U /\ Len(l) = Cardinality(U)
    BY DEF JoinInv, U
  <2>2. IsList(s) /\ ToSet(s) = S
    BY <1>2, SetListed
  <2>3. Len(s) = Cardinality(S)
    <3> DEFINE n == Cardinality(S)
    <3>1. s \in [1..n -> S]
      BY DEF SetToSeqs
    <3> HIDE DEF n
    <3>2. s = [i \in 1..n |-> s[i]] /\ n \in Nat
      BY <1>3, <3>1 DEF n
    <3>3. Len(s) = n
      BY <3>2, ListMade
    <3> QED
      BY <3>3 DEF n
  <2>4. IsList(l \o s) /\ ToSet(l \o s) = ToSet(l) \cup ToSet(s)
    BY <2>1, <2>2, ListConcat
  <2>5. Len(l \o s) = Len(l) + Len(s)
    BY <2>1, <2>2, ConcatPlaces
  <2> QED
    BY <1>3, <2>1, <2>2, <2>3, <2>4, <2>5
<1>6. \A x \in JoinOp(match, lists, Maps[j]) : \E l \in lists : \E s \in SetToSeqs(S) : x = l \o s
  BY <1>4 DEF JoinOp
<1>7. ASSUME NEW x \in JoinOp(match, lists, Maps[j])
      PROVE  IsList(x) /\ ToSet(x) = Through(match, j) /\ Len(x) = Cardinality(Through(match, j))
  <2>1. PICK l \in lists : \E s \in SetToSeqs(S) : x = l \o s
    BY <1>6
  <2>2. PICK s \in SetToSeqs(S) : x = l \o s
    BY <2>1
  <2>3. IsList(x) /\ ToSet(x) = U \cup S /\ Len(x) = Cardinality(U \cup S)
    BY <1>5, <2>2
  <2> QED
    BY <1>1, <2>3
<1> QED
  BY <1>7 DEF JoinInv

(* A match becomes a list with each of its parameters once. *)
Complete(list, match) == IsList(list) /\ ToSet(list) = match /\ Len(list) = Cardinality(match)

Joined(match) == Joining!Fold(match, {<<>>}, Maps)

LEMMA ValidationsFold ==
  ASSUME NEW match
  PROVE  ToManbaValidations(match) = UNION {SortSlice(l) : l \in Joined(match)}
BY DEF ToManbaValidations, Joined, JoinOp, Joining!Fold, Joining!MapThenFoldSet, Joining!Last,
       FoldLeft, MapThenFoldSet, Max

LEMMA JoinedComplete ==
  ASSUME NEW match, IsMatch(match), NEW l \in Joined(match)
  PROVE  Complete(l, match)
<1>1. JoinInv(match, 0, {<<>>})
  <2>1. \A j \in 1..0 : FALSE
    OBVIOUS
  <2>2. Through(match, 0) = {}
    BY <2>1 DEF Through
  <2> QED
    BY <2>2, ListEmpty, FS_EmptySet DEF JoinInv
<1>2. \A j \in 1..6 : \A a : JoinInv(match, j - 1, a) => JoinInv(match, j, JoinOp(match, a, Maps[j]))
  BY JoinStep DEF IsMatch
<1>3. JoinInv(match, 6, Joined(match))
  BY <1>1, <1>2, MapsApart, Joining!FoldKeeps DEF Joined
<1>4. Through(match, 6) = match
  BY MapsApart, ListDomain DEF Through, IsMatch
<1> QED
  BY <1>3, <1>4 DEF JoinInv, Complete

LEMMA ValidationsComplete ==
  ASSUME NEW match, IsMatch(match), NEW v \in ToManbaValidations(match)
  PROVE  Complete(v, match)
<1>1. PICK l \in Joined(match) : v \in SortSlice(l)
  BY ValidationsFold
<1>2. Complete(l, match)
  BY <1>1, JoinedComplete
<1> QED
  BY <1>1, <1>2, SliceKeeps DEF Complete

-----------------------------------------------------------------------------
(***************************************************************************)
(* Lists are the same when they have the same elements in the same order.  *)
(***************************************************************************)
Before(s, x, y) == \E i, j \in 1..Len(s) : i < j /\ s[i] = x /\ s[j] = y

LEMMA BeforeOneWay ==
  ASSUME NEW s, IsList(s), Injective(s), NEW x, NEW y, Before(s, x, y)
  PROVE  ~Before(s, y, x) /\ x # y /\ x \in ToSet(s) /\ y \in ToSet(s)
<1>1. Len(s) \in Nat /\ \A z : z \in ToSet(s) <=> \E i \in 1..Len(s) : z = s[i]
  BY ListDomain
<1>2. PICK i \in 1..Len(s), j \in 1..Len(s) : i < j /\ s[i] = x /\ s[j] = y
  BY DEF Before
<1>3. x # y
  BY <1>1, <1>2 DEF Injective
<1>4. ~Before(s, y, x)
  <2> SUFFICES ASSUME NEW k \in 1..Len(s), NEW l \in 1..Len(s), k < l, s[k] = y, s[l] = x
               PROVE  FALSE
    BY DEF Before
  <2>1. k = j /\ l = i
    BY <1>2 DEF Injective
  <2> QED
    BY <1>1, <1>2, <2>1
<1> QED
  BY <1>1, <1>2, <1>3, <1>4

(* Two elements of a list are in some order. *)
LEMMA BeforeSomeWay ==
  ASSUME NEW s, IsList(s), NEW x \in ToSet(s), NEW y \in ToSet(s), x # y
  PROVE  Before(s, x, y) \/ Before(s, y, x)
<1>1. Len(s) \in Nat /\ \A z : z \in ToSet(s) <=> \E i \in 1..Len(s) : z = s[i]
  BY ListDomain
<1>2. PICK i \in 1..Len(s) : x = s[i]
  BY <1>1
<1>3. PICK j \in 1..Len(s) : y = s[j]
  BY <1>1
<1>4. i < j \/ j < i
  BY <1>1, <1>2, <1>3
<1> QED
  BY <1>2, <1>3, <1>4 DEF Before

Ordered(s, t) ==
  /\ IsList(s) /\ IsList(t) /\ Injective(s) /\ Injective(t)
  /\ ToSet(s) = ToSet(t) /\ Len(s) = Len(t)
  /\ \A x, y : Before(s, x, y) => Before(t, x, y)

Agrees(i) == \A s, t : Ordered(s, t) => \A k \in 1..Len(s) : k <= i => s[k] = t[k]

LEMMA AgreesAlways == \A i \in Nat : Agrees(i)
<1>1. Agrees(0)
  <2> SUFFICES ASSUME NEW s, NEW t, Ordered(s, t), NEW k \in 1..Len(s), k <= 0
               PROVE  FALSE
    BY DEF Agrees
  <2>1. Len(s) \in Nat
    BY ListDomain DEF Ordered
  <2> QED
    BY <2>1
<1>2. ASSUME NEW i \in Nat, Agrees(i)
      PROVE  Agrees(i + 1)
  <2> SUFFICES ASSUME NEW s, NEW t, Ordered(s, t), NEW k \in 1..Len(s), k <= i + 1
               PROVE  s[k] = t[k]
    BY DEF Agrees
  <2>1. /\ Len(s) \in Nat /\ Len(t) = Len(s)
        /\ \A z : z \in ToSet(s) <=> \E m \in 1..Len(s) : z = s[m]
        /\ \A z : z \in ToSet(s) <=> \E m \in 1..Len(s) : z = t[m]
    BY ListDomain DEF Ordered
  <2>2. \A m \in 1..Len(s) : m <= i => s[m] = t[m]
    BY <1>2 DEF Agrees
  <2>3. CASE k <= i
    BY <2>2, <2>3
  <2>4. CASE ~(k <= i)
    <3>1. k = i + 1
      BY <2>1, <2>4
    <3>2. PICK a \in 1..Len(s) : s[k] = t[a]
      BY <2>1
    <3>3. PICK b \in 1..Len(s) : t[k] = s[b]
      BY <2>1
    <3>4. (\A l, m \in 1..Len(s) : s[l] = s[m] => l = m) /\ (\A l, m \in 1..Len(s) : t[l] = t[m] => l = m)
      BY <2>1 DEF Ordered, Injective
    <3>5. ~(a <= i)
      <4> SUFFICES ASSUME a <= i PROVE FALSE
        OBVIOUS
      <4>1. s[a] = s[k]
        BY <2>2, <3>2
      <4>2. a = k
        BY <3>4, <4>1
      <4> QED
        BY <2>1, <3>1, <4>2
    <3>6. ~(b <= i)
      <4> SUFFICES ASSUME b <= i PROVE FALSE
        OBVIOUS
      <4>1. t[b] = t[k]
        BY <2>2, <3>3
      <4>2. b = k
        BY <3>4, <4>1
      <4> QED
        BY <2>1, <3>1, <4>2
    <3>7. CASE a = k
      BY <3>2, <3>7
    <3>8. CASE a # k
      <4>1. a > k
        BY <2>1, <3>1, <3>5, <3>8
      <4>2. b # k
        BY <3>2, <3>3, <3>4, <3>8
      <4>3. k < b
        BY <2>1, <3>1, <3>6, <4>2
      <4>4. Before(s, s[k], s[b])
        BY <4>3 DEF Before
      <4>5. Before(t, s[k], s[b])
        BY <4>4 DEF Ordered
      <4>6. PICK l \in 1..Len(s), m \in 1..Len(s) : l < m /\ t[l] = s[k] /\ t[m] = s[b]
        BY <2>1, <4>5 DEF Before
      <4>7. l = a /\ m = k
        BY <3>2, <3>3, <3>4, <4>6
      <4> QED
        BY <2>1, <4>1, <4>6, <4>7
    <3> QED
      BY <3>7, <3>8
  <2> QED
    BY <2>3, <2>4
<1> DEFINE S == {i \in Nat : Agrees(i)}
<1>3. 0 \in S /\ \A i \in Nat : i \in S => i + 1 \in S
  BY <1>1, <1>2
<1>4. \A i \in Nat : i \in S
  <2> HIDE DEF S
  <2> QED
    BY <1>3, AddingOnce!Induct
<1> QED
  BY <1>4

LEMMA OrderedSame ==
  ASSUME NEW s, NEW t, Ordered(s, t)
  PROVE  s = t
<1> DEFINE n == Len(s)
<1>1. n \in Nat /\ Len(t) = n /\ IsList(s) /\ IsList(t)
  BY ListDomain DEF Ordered
<1>2. \A k \in 1..n : s[k] = t[k]
  <2>1. Agrees(n)
    BY <1>1, AgreesAlways
  <2>2. \A k \in 1..n : k <= n => s[k] = t[k]
    BY <2>1 DEF Agrees
  <2>3. \A k \in 1..n : k <= n
    BY <1>1
  <2> QED
    BY <2>2, <2>3
<1> HIDE DEF n
<1>3. s = [k \in 1..n |-> s[k]] /\ t = [k \in 1..n |-> t[k]]
  BY <1>1 DEF IsList, n
<1> QED
  BY <1>2, <1>3

(* What an insertion leaves in order, and where it puts the new element. *)
LEMMA InsertedOrder ==
  ASSUME NEW s, IsList(s), Injective(s), NEW k \in 0..Len(s), NEW x, x \notin ToSet(s),
         NEW r, r = Inserted(s, k, x)
  PROVE  /\ IsList(r) /\ Len(r) = Len(s) + 1 /\ Injective(r) /\ ToSet(r) = ToSet(s) \cup {x}
         /\ \A y, z : Before(s, y, z) => Before(r, y, z)
         /\ \A m \in 1..Len(s) : IF m <= k THEN Before(r, s[m], x) ELSE Before(r, x, s[m])
<1> DEFINE n == Len(s)
<1>1. /\ IsList(r) /\ Len(r) = n + 1 /\ ToSet(r) = ToSet(s) \cup {x}
      /\ \A i \in 1..k : r[i] = s[i]
      /\ r[k + 1] = x
      /\ \A i \in (k + 1)..n : r[i + 1] = s[i]
  BY InsertedPlaces
<1>2. n \in Nat /\ (\A y : y \in ToSet(s) <=> \E i \in 1..n : y = s[i]) /\ \A i, j \in 1..n : s[i] = s[j] => i = j
  BY ListDomain DEF Injective
<1> HIDE DEF n
<1> DEFINE pos(i) == IF i <= k THEN i ELSE i + 1
<1>3. \A i \in 1..n : pos(i) \in 1..(n + 1) /\ r[pos(i)] = s[i]
  <2> SUFFICES ASSUME NEW i \in 1..n PROVE pos(i) \in 1..(n + 1) /\ r[pos(i)] = s[i]
    OBVIOUS
  <2>1. CASE i <= k
    BY <1>1, <1>2, <2>1 DEF n
  <2>2. CASE ~(i <= k)
    <3>1. i \in (k + 1)..n
      BY <1>2, <2>2 DEF n
    <3> QED
      BY <1>1, <1>2, <2>2, <3>1
  <2> QED
    BY <2>1, <2>2
<1>4. \A i, j \in 1..n : i < j => pos(i) < pos(j)
  BY <1>2 DEF n
<1>5. \A m \in 1..n : (m <= k => pos(m) < k + 1) /\ (~(m <= k) => k + 1 < pos(m))
  BY <1>2 DEF n
<1>6. k + 1 \in 1..(n + 1)
  BY <1>2 DEF n
<1>7. \A i \in 1..(n + 1) : i = k + 1 \/ \E j \in 1..n : i = pos(j)
  <2> SUFFICES ASSUME NEW i \in 1..(n + 1), i # k + 1 PROVE \E j \in 1..n : i = pos(j)
    OBVIOUS
  <2>1. CASE i <= k
    <3>1. i \in 1..n /\ i = pos(i)
      BY <1>2, <2>1 DEF n
    <3> QED
      BY <3>1
  <2>2. CASE ~(i <= k)
    <3>1. i - 1 \in 1..n /\ i = pos(i - 1)
      BY <1>2, <2>2 DEF n
    <3> QED
      BY <3>1
  <2> QED
    BY <2>1, <2>2
<1> HIDE DEF pos
<1>8. \A y, z : Before(s, y, z) => Before(r, y, z)
  <2> SUFFICES ASSUME NEW y, NEW z, Before(s, y, z)
               PROVE  Before(r, y, z)
    OBVIOUS
  <2>1. PICK i \in 1..n, j \in 1..n : i < j /\ s[i] = y /\ s[j] = z
    BY DEF Before, n
  <2> QED
    BY <1>1, <1>3, <1>4, <2>1 DEF Before
<1>9. ASSUME NEW m \in 1..n
      PROVE  IF m <= k THEN Before(r, s[m], x) ELSE Before(r, x, s[m])
  BY <1>1, <1>3, <1>5, <1>6 DEF Before
<1>10. Injective(r)
  <2> SUFFICES ASSUME NEW i \in 1..(n + 1), NEW j \in 1..(n + 1), r[i] = r[j] PROVE i = j
    BY <1>1 DEF Injective
  <2>1. \A a \in 1..n : s[a] # x
    BY <1>2
  <2>2. CASE i = k + 1
    BY <1>1, <1>3, <1>7, <2>1, <2>2
  <2>3. CASE j = k + 1
    BY <1>1, <1>3, <1>7, <2>1, <2>3
  <2>4. CASE i # k + 1 /\ j # k + 1
    <3>1. PICK a \in 1..n : i = pos(a)
      BY <1>7, <2>4
    <3>2. PICK b \in 1..n : j = pos(b)
      BY <1>7, <2>4
    <3>3. s[a] = s[b]
      BY <1>3, <3>1, <3>2
    <3> QED
      BY <1>2, <3>1, <3>2, <3>3
  <2> QED
    BY <2>2, <2>3, <2>4
<1> QED
  BY <1>1, <1>8, <1>9, <1>10 DEF n

-----------------------------------------------------------------------------
(***************************************************************************)
(* The entries of one map can be inserted in any order.                    *)
(***************************************************************************)
(* Parameters of one source, in the order of their names. *)
LEMMA OneSource ==
  ASSUME NEW p, NEW q, p.source = q.source, Value[p.source] \in Nat, p.name \in Nat, q.name \in Nat, p.name < q.name
  PROVE  Less(p, q) /\ ~Less(q, p) /\ \A x : x.name \in Nat /\ Less(q, x) => Less(p, x)
<1>1. Value[p.source] <= Value[q.source]
  OBVIOUS
<1>2. Less(p, q) /\ ~Less(q, p)
  BY <1>1 DEF Less
<1>3. ASSUME NEW x, x.name \in Nat, Less(q, x) PROVE Less(p, x)
  <2>1. Value[p.source] <= Value[x.source] /\ q.name < x.name
    BY <1>3 DEF Less
  <2>2. p.name < x.name
    BY <1>3, <2>1
  <2> QED
    BY <2>1, <2>2 DEF Less
<1> QED
  BY <1>2, <1>3

Named(list) == \A x \in ToSet(list) : x.name \in Nat

(* The one with the smaller name goes at least as far to the left. *)
LEMMA AfterOrdered ==
  ASSUME NEW list, IsList(list), Named(list), NEW p, NEW q, p.source = q.source, Value[p.source] \in Nat,
         p.name \in Nat, q.name \in Nat, p.name < q.name
  PROVE  After(list, p) <= After(list, q)
<1> DEFINE a == After(list, p)
           b == After(list, q)
<1>1. Len(list) \in Nat /\ \A n \in 1..Len(list) : list[n] \in ToSet(list)
  BY ListDomain
<1>2. a \in 0..Len(list) /\ (a # 0 => ~Less(p, list[a]))
  BY AfterPlace
<1>3. b \in 0..Len(list) /\ \A n \in 1..Len(list) : n > b => Less(q, list[n])
  BY AfterPlace
<1>4. \A x : x.name \in Nat /\ Less(q, x) => Less(p, x)
  BY OneSource
<1> HIDE DEF a, b
<1>5. a > b => FALSE
  <2> SUFFICES ASSUME a > b PROVE FALSE
    OBVIOUS
  <2>1. a \in 1..Len(list) /\ a # 0
    BY <1>1, <1>2, <1>3
  <2>2. Less(q, list[a]) /\ list[a].name \in Nat
    BY <1>1, <1>3, <2>1 DEF Named
  <2> QED
    BY <1>2, <1>4, <2>1, <2>2
<1>6. a <= b
  BY <1>1, <1>2, <1>3, <1>5
<1> QED
  BY <1>6 DEF a, b

(* The entries of one map: one source, and a name for each. *)
Entries(s) ==
  /\ IsList(s)
  /\ \A i \in 1..Len(s) : s[i].name \in Nat /\ Value[s[i].source] \in Nat
  /\ \A i, j \in 1..Len(s) : s[i].source = s[j].source /\ (i # j => s[i].name # s[j].name)

(* The first i entries of c.list have been inserted into c.base. *)
MergeInv(c, i, r) ==
  /\ IsList(r) /\ Injective(r) /\ Len(r) = Len(c.base) + i
  /\ \A x : x \in ToSet(r) <=> x \in ToSet(c.base) \/ \E j \in 1..i : x = c.list[j]
  /\ \A x, y : Before(c.base, x, y) => Before(r, x, y)
  /\ \A j \in 1..i : \A n \in 1..Len(c.base) :
       IF n <= After(c.base, c.list[j]) THEN Before(r, c.base[n], c.list[j]) ELSE Before(r, c.list[j], c.base[n])
  /\ \A j, l \in 1..i : c.list[j].name < c.list[l].name => Before(r, c.list[j], c.list[l])

Merging == INSTANCE FoldTheorems WITH Op <- InsertOp, Inv <- MergeInv

(* One entry more. *)
LEMMA MergeStep ==
  ASSUME NEW c, NEW i \in Nat, NEW r, MergeInv(c, i, r), i + 1 \in 1..Len(c.list),
         IsList(c.base), Injective(c.base), Named(c.base), Entries(c.list),
         \A j \in 1..Len(c.list) : c.list[j] \notin ToSet(c.base)
  PROVE  MergeInv(c, i + 1, InsertOp(c, r, c.list[i + 1]))
<1> DEFINE L == c.base
           s == c.list
           p == s[i + 1]
           k == After(r, p)
           new == InsertOp(c, r, p)
           a(j) == After(L, s[j])
<1>0. /\ Len(s) \in Nat /\ Len(L) \in Nat /\ Len(r) \in Nat /\ Len(r) = Len(L) + i
      /\ \A n \in 1..Len(L) : L[n] \in ToSet(L)
      /\ \A x : x \in ToSet(r) <=> \E m \in 1..Len(r) : x = r[m]
      /\ \A x : x \in ToSet(L) <=> \E m \in 1..Len(L) : x = L[m]
      /\ IsList(r) /\ Injective(r)
  BY ListDomain DEF MergeInv, Entries
<1>1. \A j \in 1..i : j \in 1..Len(s) /\ j # i + 1
  BY <1>0
<1>2. /\ p.name \in Nat /\ Value[p.source] \in Nat
      /\ \A j \in 1..i : /\ s[j].name \in Nat /\ s[j].source = p.source /\ s[j].name # p.name
                         /\ s[j].name < p.name \/ p.name < s[j].name
  <2>1. /\ p.name \in Nat /\ Value[p.source] \in Nat
        /\ \A j \in 1..i : s[j].name \in Nat /\ s[j].source = p.source /\ s[j].name # p.name
    BY <1>1 DEF Entries
  <2> HIDE DEF p, s
  <2> QED
    BY <2>1
<1>3. p \notin ToSet(r)
  BY <1>1, <1>2 DEF MergeInv
<1>4. k \in 0..Len(r) /\ (k # 0 => ~Less(p, r[k])) /\ \A n \in 1..Len(r) : n > k => Less(p, r[n])
  BY <1>0, AfterPlace
<1>5. /\ IsList(new) /\ Len(new) = Len(r) + 1 /\ Injective(new) /\ ToSet(new) = ToSet(r) \cup {p}
      /\ \A y, z : Before(r, y, z) => Before(new, y, z)
      /\ \A m \in 1..Len(r) : IF m <= k THEN Before(new, r[m], p) ELSE Before(new, p, r[m])
  <2>1. new = Inserted(r, k, p)
    BY DEF InsertOp
  <2> HIDE DEF new, k, p
  <2>2. IsList(r) /\ Injective(r) /\ k \in 0..Len(r) /\ p \notin ToSet(r)
    BY <1>0, <1>3, <1>4
  <2> QED
    BY <2>1, <2>2, InsertedOrder
<1>6. After(L, p) \in 0..Len(L) /\ (After(L, p) # 0 => ~Less(p, L[After(L, p)])) /\ \A n \in 1..Len(L) : n > After(L, p) => Less(p, L[n])
  BY AfterPlace
<1>7. \A j \in 1..i : /\ a(j) \in 0..Len(L)
                      /\ s[j].name < p.name => a(j) <= After(L, p) /\ ~Less(p, s[j])
                      /\ p.name < s[j].name => After(L, p) <= a(j) /\ Less(p, s[j])
  <2> SUFFICES ASSUME NEW j \in 1..i
               PROVE  /\ a(j) \in 0..Len(L)
                      /\ s[j].name < p.name => a(j) <= After(L, p) /\ ~Less(p, s[j])
                      /\ p.name < s[j].name => After(L, p) <= a(j) /\ Less(p, s[j])
    OBVIOUS
  <2> DEFINE q == s[j]
  <2>1. q.name \in Nat /\ q.source = p.source /\ Value[q.source] \in Nat
    BY <1>2
  <2>2. a(j) = After(L, q)
    OBVIOUS
  <2> HIDE DEF q, p, L, a
  <2>3. After(L, q) \in 0..Len(L)
    BY AfterPlace DEF L
  <2>4. q.name < p.name => After(L, q) <= After(L, p) /\ ~Less(p, q)
    BY <1>2, <2>1, AfterOrdered, OneSource DEF L
  <2>5. p.name < q.name => After(L, p) <= After(L, q) /\ Less(p, q)
    BY <1>2, <2>1, AfterOrdered, OneSource DEF L
  <2> QED
    BY <2>2, <2>3, <2>4, <2>5 DEF q
<1>8. /\ \A x, y : Before(L, x, y) => Before(r, x, y)
      /\ \A j \in 1..i : \A n \in 1..Len(L) :
           IF n <= a(j) THEN Before(r, L[n], s[j]) ELSE Before(r, s[j], L[n])
      /\ \A j, l \in 1..i : s[j].name < s[l].name => Before(r, s[j], s[l])
      /\ \A x : x \in ToSet(r) <=> x \in ToSet(L) \/ \E j \in 1..i : x = s[j]
  BY DEF MergeInv
<1>9. \A x, y : Before(r, x, y) => ~Before(r, y, x) /\ x # y
  BY <1>0, BeforeOneWay
<1>10. \A n, m \in 1..Len(L) : n < m => Before(L, L[n], L[m])
  BY DEF Before
<1> HIDE DEF L, s, p, k, new, a
\* An element at place m of r is before the one at place k, or is it, when m <= k.
<1>11. \A m \in 1..Len(r) : m <= k => k # 0 /\ k \in 1..Len(r) /\ (r[m] = r[k] \/ Before(r, r[m], r[k]))
  BY <1>0, <1>4 DEF Before
<1>12. \A m, n \in 1..Len(r) : (r[m] = r[n] \/ Before(r, r[m], r[n])) /\ n <= k => m <= k
  <2> SUFFICES ASSUME NEW m \in 1..Len(r), NEW n \in 1..Len(r), n <= k, r[m] = r[n] \/ Before(r, r[m], r[n])
               PROVE  m <= k
    OBVIOUS
  <2>1. CASE r[m] = r[n]
    BY <1>0, <2>1 DEF Injective
  <2>2. CASE Before(r, r[m], r[n])
    <3>1. PICK u \in 1..Len(r), v \in 1..Len(r) : u < v /\ r[u] = r[m] /\ r[v] = r[n]
      BY <2>2 DEF Before
    <3>2. u = m /\ v = n
      BY <1>0, <3>1 DEF Injective
    <3> QED
      BY <1>0, <1>4, <3>1, <3>2
  <2> QED
    BY <2>1, <2>2
<1>13. \A m \in 1..Len(r) : ~Less(p, r[m]) => m <= k
  BY <1>0, <1>4
\* Of what was in the list, and of the entries before, what goes to the left of the new one.
<1>14. ASSUME NEW n \in 1..Len(L), NEW m \in 1..Len(r), r[m] = L[n]
       PROVE  m <= k <=> n <= After(L, p)
  <2>1. ASSUME n <= After(L, p) PROVE m <= k
    <3> DEFINE b == After(L, p)
    <3>1. b \in 1..Len(L) /\ ~Less(p, L[b])
      BY <1>0, <1>6, <2>1
    <3> HIDE DEF b
    <3>2. PICK l \in 1..Len(r) : L[b] = r[l]
      BY <1>0, <1>8, <3>1
    <3>3. l <= k
      BY <1>13, <3>1, <3>2
    <3>4. r[m] = r[l] \/ Before(r, r[m], r[l])
      <4>1. n = b \/ n < b
        BY <1>0, <2>1, <3>1 DEF b
      <4> QED
        BY <1>8, <1>10, <1>14, <3>1, <3>2, <4>1
    <3> QED
      BY <1>12, <3>3, <3>4
  <2>2. ASSUME m <= k, ~(n <= After(L, p)) PROVE FALSE
    <3>1. k \in 1..Len(r) /\ k # 0 /\ ~Less(p, r[k]) /\ (r[m] = r[k] \/ Before(r, r[m], r[k]))
      BY <1>4, <1>11, <2>2
    <3>2. Less(p, L[n])
      BY <1>0, <1>6, <2>2
    <3>3. Before(r, L[n], r[k])
      BY <1>14, <3>1, <3>2
    <3>4. CASE r[k] \in ToSet(L)
      <4>1. PICK l \in 1..Len(L) : r[k] = L[l]
        BY <1>0, <3>4
      <4>2. ~(l > After(L, p))
        BY <1>6, <3>1, <4>1
      <4>3. l < n
        BY <1>0, <1>6, <2>2, <4>2
      <4>4. Before(r, L[l], L[n])
        BY <1>8, <1>10, <4>3
      <4> QED
        BY <1>9, <3>3, <4>1, <4>4
    <3>5. CASE \E j \in 1..i : r[k] = s[j]
      <4>1. PICK j \in 1..i : r[k] = s[j]
        BY <3>5
      <4>2. s[j].name < p.name
        BY <1>2, <1>7, <3>1, <4>1
      <4>3. a(j) <= After(L, p) /\ a(j) \in 0..Len(L)
        BY <1>7, <4>2
      <4>4. ~(n <= a(j))
        BY <1>0, <1>6, <2>2, <4>3
      <4>5. Before(r, s[j], L[n])
        BY <1>8, <4>4
      <4> QED
        BY <1>9, <3>3, <4>1, <4>5
    <3> QED
      BY <1>0, <1>8, <3>1, <3>4, <3>5
  <2> QED
    BY <2>1, <2>2
<1>15. ASSUME NEW j \in 1..i, NEW m \in 1..Len(r), r[m] = s[j]
       PROVE  m <= k <=> s[j].name < p.name
  <2>1. ASSUME s[j].name < p.name PROVE m <= k
    BY <1>7, <1>13, <1>15, <2>1
  <2>2. ASSUME m <= k, p.name < s[j].name PROVE FALSE
    <3>1. k \in 1..Len(r) /\ k # 0 /\ ~Less(p, r[k]) /\ (r[m] = r[k] \/ Before(r, r[m], r[k]))
      BY <1>4, <1>11, <2>2
    <3>2. Less(p, s[j])
      BY <1>7, <2>2
    <3>3. Before(r, s[j], r[k])
      BY <1>15, <3>1, <3>2
    <3>4. CASE r[k] \in ToSet(L)
      <4>1. PICK l \in 1..Len(L) : r[k] = L[l]
        BY <1>0, <3>4
      <4>2. ~(l > After(L, p))
        BY <1>6, <3>1, <4>1
      <4>3. After(L, p) <= a(j) /\ a(j) \in 0..Len(L)
        BY <1>7, <2>2
      <4>4. l <= a(j)
        BY <1>0, <1>6, <4>2, <4>3
      <4>5. Before(r, L[l], s[j])
        BY <1>8, <4>4
      <4> QED
        BY <1>9, <3>3, <4>1, <4>5
    <3>5. CASE \E l \in 1..i : r[k] = s[l]
      <4>1. PICK l \in 1..i : r[k] = s[l]
        BY <3>5
      <4>2. s[l].name < p.name
        BY <1>2, <1>7, <3>1, <4>1
      <4>3. s[l].name < s[j].name
        BY <1>2, <2>2, <4>2
      <4>4. Before(r, s[l], s[j])
        BY <1>8, <4>3
      <4> QED
        BY <1>9, <3>3, <4>1, <4>4
    <3> QED
      BY <1>0, <1>8, <3>1, <3>4, <3>5
  <2>3. s[j].name < p.name \/ p.name < s[j].name
    BY <1>2
  <2> QED
    BY <2>1, <2>2, <2>3
<1>16. \A j : j \in 1..(i + 1) <=> j \in 1..i \/ j = i + 1
  OBVIOUS
<1>17. s[i + 1] = p /\ a(i + 1) = After(L, p)
  BY DEF p, a
<1>18. \A x : x \in ToSet(new) <=> x \in ToSet(L) \/ \E j \in 1..(i + 1) : x = s[j]
  BY <1>5, <1>8, <1>16, <1>17
<1>19. ASSUME NEW j \in 1..(i + 1), NEW n \in 1..Len(L)
       PROVE  IF n <= a(j) THEN Before(new, L[n], s[j]) ELSE Before(new, s[j], L[n])
  <2>1. CASE j \in 1..i
    BY <1>5, <1>8, <2>1
  <2>2. CASE j = i + 1
    <3>1. PICK m \in 1..Len(r) : L[n] = r[m]
      BY <1>0, <1>8
    <3>2. m <= k <=> n <= After(L, p)
      BY <1>14, <3>1
    <3>3. IF m <= k THEN Before(new, L[n], p) ELSE Before(new, p, L[n])
      BY <1>5, <3>1
    <3> QED
      BY <1>17, <2>2, <3>2, <3>3
  <2> QED
    BY <1>16, <2>1, <2>2
<1>20. ASSUME NEW j \in 1..i
       PROVE  IF s[j].name < p.name THEN Before(new, s[j], p) ELSE Before(new, p, s[j])
  <2>1. PICK m \in 1..Len(r) : s[j] = r[m]
    BY <1>0, <1>8
  <2>2. m <= k <=> s[j].name < p.name
    BY <1>15, <2>1
  <2> QED
    BY <1>5, <2>1, <2>2
<1>21. ASSUME NEW j \in 1..(i + 1), NEW l \in 1..(i + 1), s[j].name < s[l].name
       PROVE  Before(new, s[j], s[l])
  <2>1. CASE j \in 1..i /\ l \in 1..i
    BY <1>5, <1>8, <1>21, <2>1
  <2>2. CASE j \in 1..i /\ l = i + 1
    BY <1>17, <1>20, <1>21, <2>2
  <2>3. CASE j = i + 1 /\ l \in 1..i
    <3>1. ~(s[l].name < p.name)
      BY <1>2, <1>17, <1>21, <2>3
    <3> QED
      BY <1>17, <1>20, <2>3, <3>1
  <2>4. CASE j = i + 1 /\ l = i + 1
    BY <1>2, <1>17, <1>21, <2>4
  <2> QED
    BY <1>16, <2>1, <2>2, <2>3, <2>4
<1>22. Len(new) = Len(L) + (i + 1)
  BY <1>0, <1>5
<1>23. \A x, y : Before(L, x, y) => Before(new, x, y)
  BY <1>5, <1>8
<1> QED
  BY <1>5, <1>18, <1>19, <1>21, <1>22, <1>23 DEF MergeInv, L, s, p, new, a

(* Inserting the entries of a map into a list. *)
LEMMA Merged ==
  ASSUME NEW L, IsList(L), Injective(L), Named(L), NEW s, Entries(s),
         \A j \in 1..Len(s) : s[j] \notin ToSet(L), NEW c, c = [base |-> L, list |-> s]
  PROVE  MergeInv(c, Len(s), Merging!Fold(c, L, s))
<1> DEFINE n == Len(s)
<1>1. c.base = L /\ c.list = s
  OBVIOUS
<1>2. n \in Nat /\ DOMAIN s = 1..n /\ Len(L) \in Nat
  BY ListDomain DEF Entries
<1>3. MergeInv(c, 0, L)
  <2>1. \A j \in 1..0 : FALSE
    OBVIOUS
  <2> QED
    BY <1>1, <1>2, <2>1 DEF MergeInv
<1>4. \A j \in 1..n : \A a : MergeInv(c, j - 1, a) => MergeInv(c, j, InsertOp(c, a, s[j]))
  <2> SUFFICES ASSUME NEW j \in 1..n, NEW a, MergeInv(c, j - 1, a)
               PROVE  MergeInv(c, j, InsertOp(c, a, s[j]))
    OBVIOUS
  <2>1. j - 1 \in Nat /\ (j - 1) + 1 = j /\ (j - 1) + 1 \in 1..Len(s)
    BY <1>2
  <2> QED
    BY <1>1, <2>1, MergeStep
<1> HIDE DEF n
<1> QED
  BY <1>2, <1>3, <1>4, Merging!FoldKeeps DEF n

LEMMA MergedSame ==
  ASSUME NEW L, IsList(L), Injective(L), Named(L), NEW s, NEW t, Entries(s), Entries(t),
         ToSet(s) = ToSet(t), Len(s) = Len(t), \A x \in ToSet(s) : x \notin ToSet(L),
         NEW c, NEW d, c = [base |-> L, list |-> s], d = [base |-> L, list |-> t],
         NEW r, NEW u, MergeInv(c, Len(s), r), MergeInv(d, Len(t), u)
  PROVE  r = u
<1>1. c.base = L /\ c.list = s /\ d.base = L /\ d.list = t
  OBVIOUS
<1>2. /\ Len(L) \in Nat /\ Len(s) \in Nat
      /\ \A x : x \in ToSet(L) <=> \E n \in 1..Len(L) : x = L[n]
      /\ \A x : x \in ToSet(s) <=> \E n \in 1..Len(s) : x = s[n]
      /\ \A x : x \in ToSet(s) <=> \E n \in 1..Len(t) : x = t[n]
  BY ListDomain DEF Entries
<1>3. /\ IsList(r) /\ Injective(r) /\ Len(r) = Len(L) + Len(s)
      /\ \A x : x \in ToSet(r) <=> x \in ToSet(L) \/ x \in ToSet(s)
      /\ \A x, y : Before(L, x, y) => Before(r, x, y)
      /\ \A x \in ToSet(s) : \A n \in 1..Len(L) : IF n <= After(L, x) THEN Before(r, L[n], x) ELSE Before(r, x, L[n])
      /\ \A x, y \in ToSet(s) : x.name < y.name => Before(r, x, y)
  BY <1>1, <1>2 DEF MergeInv
<1>4. /\ IsList(u) /\ Injective(u) /\ Len(u) = Len(L) + Len(s)
      /\ \A x : x \in ToSet(u) <=> x \in ToSet(L) \/ x \in ToSet(s)
      /\ \A x, y : Before(L, x, y) => Before(u, x, y)
      /\ \A x \in ToSet(s) : \A n \in 1..Len(L) : IF n <= After(L, x) THEN Before(u, L[n], x) ELSE Before(u, x, L[n])
      /\ \A x, y \in ToSet(s) : x.name < y.name => Before(u, x, y)
  BY <1>1, <1>2 DEF MergeInv
<1>5. \A x, y \in ToSet(s) : x.name \in Nat /\ y.name \in Nat /\ (x # y => x.name < y.name \/ y.name < x.name)
  BY <1>2 DEF Entries
<1>6. \A x, y : Before(r, x, y) => ~Before(r, y, x) /\ x # y /\ x \in ToSet(r) /\ y \in ToSet(r)
  BY <1>3, BeforeOneWay
<1>7. ASSUME NEW x, NEW y, Before(r, x, y) PROVE Before(u, x, y)
  <2>1. x # y /\ ~Before(r, y, x) /\ (x \in ToSet(L) \/ x \in ToSet(s)) /\ (y \in ToSet(L) \/ y \in ToSet(s))
    BY <1>3, <1>6, <1>7
  <2>2. CASE x \in ToSet(L) /\ y \in ToSet(L)
    BY <1>3, <1>4, <2>1, <2>2, BeforeSomeWay
  <2>3. CASE x \in ToSet(L) /\ y \in ToSet(s)
    BY <1>2, <1>3, <1>4, <2>1, <2>3
  <2>4. CASE x \in ToSet(s) /\ y \in ToSet(L)
    <3>1. PICK n \in 1..Len(L) : y = L[n]
      BY <1>2, <2>4
    <3> QED
      BY <1>3, <1>4, <2>1, <2>4, <3>1
  <2>5. CASE x \in ToSet(s) /\ y \in ToSet(s)
    BY <1>3, <1>4, <1>5, <2>1, <2>5
  <2> QED
    BY <2>1, <2>2, <2>3, <2>4, <2>5
<1>8. ToSet(r) = ToSet(u)
  BY <1>3, <1>4
<1>9. Ordered(r, u)
  BY <1>3, <1>4, <1>7, <1>8 DEF Ordered
<1> QED
  BY <1>9, OrderedSame

LEMMA MergeFolds ==
  ASSUME NEW c, NEW d, NEW b, NEW s
  PROVE  Merging!Fold(c, b, s) = Merging!Fold(d, b, s)
BY DEF InsertOp, Inserted, After, Stays, Merging!Fold

LEMMA SortMerges ==
  ASSUME NEW c, NEW s
  PROVE  InsertionSort(s) = Merging!Fold(c, <<>>, s)
BY DEF InsertionSort, InsertOp, Inserted, After, Stays, Merging!Fold, Merging!MapThenFoldSet,
       Merging!Last, FoldLeft, MapThenFoldSet, Max

(* Sorting one list followed by another. *)
LEMMA SortConcat ==
  ASSUME NEW l, NEW s, IsList(l), IsList(s), NEW c
  PROVE  InsertionSort(l \o s) = Merging!Fold(c, InsertionSort(l), s)
<1> DEFINE u == l \o s
           n == Len(l)
           m == Len(s)
<1>1. l \in Seq(ToSet(l) \cup ToSet(s)) /\ s \in Seq(ToSet(l) \cup ToSet(s))
  BY DEF IsList
<1>2. n \in Nat /\ m \in Nat /\ DOMAIN l = 1..n /\ DOMAIN s = 1..m
  BY ListDomain
<1>3. DOMAIN u = 1..(n + m) /\ \A i \in 1..(n + m) : u[i] = IF i <= n THEN l[i] ELSE s[i - n]
  <2>1. u \in Seq(ToSet(l) \cup ToSet(s)) /\ Len(u) = n + m
    BY <1>1
  <2>2. \A i \in 1..Len(u) : u[i] = IF i <= n THEN l[i] ELSE s[i - n]
    BY <1>1
  <2> HIDE DEF u
  <2> QED
    BY <2>1, <2>2
<1> HIDE DEF u, n, m
<1>4. \A i \in 1..n : u[i] = l[i]
  BY <1>2, <1>3
<1>5. \A i \in 1..m : u[n + i] = s[i]
  <2> SUFFICES ASSUME NEW i \in 1..m PROVE u[n + i] = s[i]
    OBVIOUS
  <2>1. n + i \in 1..(n + m) /\ ~(n + i <= n) /\ (n + i) - n = i
    BY <1>2
  <2> QED
    BY <1>3, <2>1
<1>6. Merging!Fold(c, <<>>, u) = Merging!Fold(c, Merging!Fold(c, <<>>, l), s)
  BY <1>2, <1>3, <1>4, <1>5, Merging!FoldConcat
<1>7. InsertionSort(u) = Merging!Fold(c, <<>>, u) /\ InsertionSort(l) = Merging!Fold(c, <<>>, l)
  BY SortMerges
<1> QED
  BY <1>6, <1>7 DEF u

-----------------------------------------------------------------------------
(* However the maps so far were gone through, they sort to one list. *)
OneInv(c, i, lists) ==
  /\ \A l \in lists : IsList(l) /\ ToSet(l) = Through(c, i) /\ Injective(InsertionSort(l))
  /\ \A l, m \in lists : InsertionSort(l) = InsertionSort(m)

Unifying == INSTANCE FoldTheorems WITH Op <- JoinOp, Inv <- OneInv

LEMMA ValueNumber ==
  ASSUME NEW j \in 1..6
  PROVE  Value[Maps[j]] \in Nat
<1>1. j = 1 \/ j = 2 \/ j = 3 \/ j = 4 \/ j = 5 \/ j = 6
  OBVIOUS
<1> QED
  BY <1>1 DEF Maps, Value

(* The entries of map j. *)
LEMMA MapEntries ==
  ASSUME NEW match, IsMatch(match), NEW j \in 1..6, NEW S, S = {p \in match : p.source = Maps[j]}, NEW s \in SetToSeqs(S)
  PROVE  Entries(s) /\ ToSet(s) = S /\ Len(s) = Cardinality(S)
<1>1. IsFiniteSet(S)
  BY FS_Subset DEF IsMatch
<1>2. IsList(s) /\ ToSet(s) = S
  BY <1>1, SetListed
<1> DEFINE n == Cardinality(S)
<1>3. n \in Nat
  BY <1>1, FS_CardinalityType
<1>4. s \in [1..n -> S] /\ \A i, k \in 1..n : i # k => s[i] # s[k]
  BY DEF SetToSeqs
<1> HIDE DEF n
<1>5. s = [i \in 1..n |-> s[i]]
  BY <1>4
<1>6. Len(s) = n
  BY <1>3, <1>5, ListMade
<1>7. \A i \in 1..n : s[i] \in match /\ s[i].source = Maps[j]
  BY <1>4
<1>8. \A i \in 1..n : s[i].name \in Nat /\ Value[s[i].source] \in Nat
  BY <1>7, ValueNumber DEF IsMatch
<1>9. \A i, k \in 1..n : s[i].source = s[k].source /\ (i # k => s[i].name # s[k].name)
  BY <1>4, <1>7 DEF IsMatch
<1> QED
  BY <1>2, <1>6, <1>8, <1>9 DEF Entries, n

LEMMA OneStep ==
  ASSUME NEW match, IsMatch(match), NEW j \in 1..6, NEW lists, OneInv(match, j - 1, lists)
  PROVE  OneInv(match, j, JoinOp(match, lists, Maps[j]))
<1> DEFINE U == Through(match, j - 1)
           S == {p \in match : p.source = Maps[j]}
<1>1. Through(match, j) = U \cup S /\ \A x \in S : x \notin U
  <2>1. \A m : m \in 1..j <=> m \in 1..(j - 1) \/ m = j
    OBVIOUS
  <2>2. \A m \in 1..(j - 1) : m \in 1..6 /\ m # j
    OBVIOUS
  <2>3. \A m \in 1..(j - 1) : Maps[m] # Maps[j]
    BY <2>2, MapsApart
  <2> QED
    BY <2>1, <2>3 DEF Through
<1>2. \A x \in U : x.name \in Nat
  BY DEF Through, IsMatch
<1>3. Parse(match, Maps[j]) = SetToSeqs(S)
  BY DEF Parse
<1>4. \A s \in SetToSeqs(S) : Entries(s) /\ ToSet(s) = S /\ Len(s) = Cardinality(S)
  BY MapEntries
<1> HIDE DEF U, S
<1> DEFINE sorted(l, s) == Merging!Fold([base |-> InsertionSort(l), list |-> s], InsertionSort(l), s)
           con(l, s) == [base |-> InsertionSort(l), list |-> s]
<1>5. ASSUME NEW l \in lists, NEW s \in SetToSeqs(S)
      PROVE  /\ IsList(l \o s) /\ ToSet(l \o s) = U \cup S
             /\ InsertionSort(l \o s) = sorted(l, s)
             /\ MergeInv(con(l, s), Len(s), sorted(l, s))
             /\ IsList(InsertionSort(l)) /\ Injective(InsertionSort(l)) /\ Named(InsertionSort(l))
             /\ ToSet(InsertionSort(l)) = U /\ Injective(sorted(l, s))
  <2> DEFINE L == InsertionSort(l)
             c == con(l, s)
  <2>1. IsList(l) /\ ToSet(l) = U /\ Injective(L)
    BY DEF OneInv, U
  <2>2. IsList(s) /\ ToSet(s) = S /\ Entries(s)
    BY <1>4 DEF Entries
  <2>3. IsList(l \o s) /\ ToSet(l \o s) = U \cup S
    BY <2>1, <2>2, ListConcat
  <2>4. IsList(L) /\ ToSet(L) = U
    BY <2>1, SortKeeps
  <2>5. Named(L)
    BY <1>2, <2>4 DEF Named
  <2>6. \A i \in 1..Len(s) : s[i] \notin ToSet(L)
    BY <1>1, <2>2, <2>4, ListDomain
  <2>7. c = [base |-> L, list |-> s] /\ sorted(l, s) = Merging!Fold(c, L, s)
    OBVIOUS
  <2>8. InsertionSort(l \o s) = Merging!Fold(c, L, s)
    BY <2>1, <2>2, SortConcat
  <2> HIDE DEF L, c
  <2>9. MergeInv(c, Len(s), Merging!Fold(c, L, s))
    BY <2>1, <2>2, <2>4, <2>5, <2>6, <2>7, Merged
  <2>10. Injective(sorted(l, s))
    BY <2>7, <2>9 DEF MergeInv
  <2> HIDE DEF sorted, con
  <2> QED
    BY <2>1, <2>3, <2>4, <2>5, <2>7, <2>8, <2>9, <2>10 DEF L, c
<1>6. ASSUME NEW l \in lists, NEW m \in lists, NEW s \in SetToSeqs(S), NEW t \in SetToSeqs(S)
      PROVE  InsertionSort(l \o s) = InsertionSort(m \o t)
  <2> DEFINE L == InsertionSort(l)
  <2>1. InsertionSort(m) = L
    BY DEF OneInv
  <2>2. con(l, s) = [base |-> L, list |-> s] /\ con(m, t) = [base |-> L, list |-> t]
    BY <2>1
  <2>3. /\ Entries(s) /\ Entries(t) /\ ToSet(s) = ToSet(t) /\ Len(s) = Len(t)
        /\ \A x \in ToSet(s) : x \notin ToSet(L)
        /\ IsList(L) /\ Injective(L) /\ Named(L)
        /\ MergeInv(con(l, s), Len(s), sorted(l, s)) /\ MergeInv(con(m, t), Len(t), sorted(m, t))
    BY <1>1, <1>4, <1>5
  <2> HIDE DEF L, con, sorted
  <2>4. sorted(l, s) = sorted(m, t)
    BY <2>2, <2>3, MergedSame
  <2> QED
    BY <1>5, <2>4
<1>7. \A x \in JoinOp(match, lists, Maps[j]) : \E l \in lists : \E s \in SetToSeqs(S) : x = l \o s
  BY <1>3 DEF JoinOp
<1> HIDE DEF sorted, con
<1>8. ASSUME NEW x \in JoinOp(match, lists, Maps[j])
      PROVE  IsList(x) /\ ToSet(x) = Through(match, j) /\ Injective(InsertionSort(x))
  <2>1. PICK l \in lists : \E s \in SetToSeqs(S) : x = l \o s
    BY <1>7
  <2>2. PICK s \in SetToSeqs(S) : x = l \o s
    BY <2>1
  <2> QED
    BY <1>1, <1>5, <2>2
<1>9. ASSUME NEW x \in JoinOp(match, lists, Maps[j]), NEW y \in JoinOp(match, lists, Maps[j])
      PROVE  InsertionSort(x) = InsertionSort(y)
  <2>1. PICK l \in lists : \E s \in SetToSeqs(S) : x = l \o s
    BY <1>7
  <2>2. PICK s \in SetToSeqs(S) : x = l \o s
    BY <2>1
  <2>3. PICK m \in lists : \E t \in SetToSeqs(S) : y = m \o t
    BY <1>7
  <2>4. PICK t \in SetToSeqs(S) : y = m \o t
    BY <2>3
  <2> QED
    BY <1>6, <2>2, <2>4
<1> QED
  BY <1>8, <1>9 DEF OneInv

(* ToManbaValidations makes one list of a match of up to six parameters, *)
(* though it goes through maps.                                          *)
LEMMA ValidationsOne ==
  ASSUME NEW match, IsMatch(match), Cardinality(match) <= 6,
         NEW v \in ToManbaValidations(match), NEW w \in ToManbaValidations(match)
  PROVE  v = w
<1>1. OneInv(match, 0, {<<>>})
  <2>1. \A j \in 1..0 : FALSE
    OBVIOUS
  <2>2. Through(match, 0) = {}
    BY <2>1 DEF Through
  <2>3. Len(InsertionSort(<<>>)) = 0
    BY ListEmpty, SortKeeps
  <2>4. Injective(InsertionSort(<<>>))
    BY <2>3 DEF Injective
  <2> QED
    BY <2>2, <2>4, ListEmpty DEF OneInv
<1>2. \A j \in 1..6 : \A a : OneInv(match, j - 1, a) => OneInv(match, j, JoinOp(match, a, Maps[j]))
  BY OneStep
<1>3. OneInv(match, 6, Unifying!Fold(match, {<<>>}, Maps))
  BY <1>1, <1>2, MapsApart, Unifying!FoldKeeps
<1>4. Joined(match) = Unifying!Fold(match, {<<>>}, Maps)
  BY DEF Joined, Joining!Fold, Joining!MapThenFoldSet, Joining!Last,
         Unifying!Fold, Unifying!MapThenFoldSet, Unifying!Last
<1>5. PICK l \in Joined(match) : v \in SortSlice(l)
  BY ValidationsFold
<1>6. PICK m \in Joined(match) : w \in SortSlice(m)
  BY ValidationsFold
<1>7. IsList(l) /\ Len(l) <= 6 /\ IsList(m) /\ Len(m) <= 6
  BY <1>5, <1>6, JoinedComplete DEF Complete
<1>8. v = InsertionSort(l) /\ w = InsertionSort(m)
  BY <1>5, <1>6, <1>7, SliceKeeps
<1> QED
  BY <1>3, <1>4, <1>5, <1>6, <1>8 DEF OneInv

-----------------------------------------------------------------------------
(***************************************************************************)
(* The places of flattened lists.                                          *)
(***************************************************************************)
(* At place l is an element of one of the lists, and before it is all that   *)
(* the lists have before that element.                                       *)
PlacedAt(q, k, f, l) ==
  \E j \in 1..k : \E m \in 1..Len(q[j]) :
    /\ f[l] = q[j][m]
    /\ \A a \in 1..k : \A b \in 1..Len(q[a]) :
         (a < j \/ (a = j /\ b < m)) => \E e \in 1..Len(f) : e < l /\ f[e] = q[a][b]

Placing(i) ==
  \A q, g : \A n \in Nat :
    (i + 1 \in 1..n /\ g = Flat(q, g, n) /\ \A j \in 1..n : IsList(q[j])) =>
      \A l \in 1..Len(g[i + 1]) : PlacedAt(q, i + 1, g[i + 1], l)

(* One list more. *)
LEMMA PlacedAfter ==
  ASSUME NEW q, NEW k \in Nat, NEW s, IsList(s), IsList(q[k + 1]),
         \A a \in 1..k : \A b \in 1..Len(q[a]) : \E e \in 1..Len(s) : s[e] = q[a][b],
         \A l \in 1..Len(s) : PlacedAt(q, k, s, l),
         NEW l \in 1..Len(s \o q[k + 1])
  PROVE  PlacedAt(q, k + 1, s \o q[k + 1], l)
<1> DEFINE t == q[k + 1]
           u == s \o t
<1>1. /\ Len(u) = Len(s) + Len(t) /\ Len(s) \in Nat /\ Len(t) \in Nat
      /\ \A i \in 1..Len(u) : (i \in 1..Len(s) /\ u[i] = s[i]) \/ (i - Len(s) \in 1..Len(t) /\ u[i] = t[i - Len(s)])
  BY ConcatPlaces
<1>2. l \in 1..Len(u)
  OBVIOUS
<1> HIDE DEF u
<1>3. \A e \in 1..Len(s) : e \in 1..Len(u) /\ u[e] = s[e]
  BY <1>1
<1>4. \A b \in 1..Len(t) : Len(s) + b \in 1..Len(u) /\ u[Len(s) + b] = t[b]
  <2> SUFFICES ASSUME NEW b \in 1..Len(t) PROVE Len(s) + b \in 1..Len(u) /\ u[Len(s) + b] = t[b]
    OBVIOUS
  <2> DEFINE i == Len(s) + b
  <2>1. i \in 1..Len(u) /\ i \notin 1..Len(s) /\ i - Len(s) = b
    BY <1>1
  <2> HIDE DEF i
  <2>2. u[i] = t[b]
    BY <1>1, <2>1
  <2> QED
    BY <2>1, <2>2 DEF i
<1>5. (\A a \in 1..(k + 1) : a \in 1..k \/ a = k + 1) /\ (\A a \in 1..k : a \in 1..(k + 1)) /\ k + 1 \in 1..(k + 1)
  OBVIOUS
<1>6. CASE l \in 1..Len(s)
  <2>1. PlacedAt(q, k, s, l)
    BY <1>6
  <2>2. PICK j \in 1..k : \E m \in 1..Len(q[j]) :
          /\ s[l] = q[j][m]
          /\ \A a \in 1..k : \A b \in 1..Len(q[a]) :
               (a < j \/ (a = j /\ b < m)) => \E e \in 1..Len(s) : e < l /\ s[e] = q[a][b]
    BY <2>1 DEF PlacedAt
  <2>3. PICK m \in 1..Len(q[j]) :
          /\ s[l] = q[j][m]
          /\ \A a \in 1..k : \A b \in 1..Len(q[a]) :
               (a < j \/ (a = j /\ b < m)) => \E e \in 1..Len(s) : e < l /\ s[e] = q[a][b]
    BY <2>2
  <2>4. u[l] = q[j][m]
    BY <1>3, <1>6, <2>3
  <2>5. ASSUME NEW a \in 1..(k + 1), NEW b \in 1..Len(q[a]), a < j \/ (a = j /\ b < m)
        PROVE  \E e \in 1..Len(u) : e < l /\ u[e] = q[a][b]
    <3>1. a \in 1..k
      BY <2>5
    <3>2. PICK e \in 1..Len(s) : e < l /\ s[e] = q[a][b]
      BY <2>3, <2>5, <3>1
    <3> QED
      BY <1>3, <3>2
  <2>6. j \in 1..(k + 1)
    BY <1>5
  <2> HIDE DEF t
  <2>7. PlacedAt(q, k + 1, u, l)
    BY <2>4, <2>5, <2>6 DEF PlacedAt
  <2> QED
    BY <2>7 DEF u, t
<1>7. CASE l \notin 1..Len(s)
  <2> DEFINE m == l - Len(s)
  <2>1. m \in 1..Len(t) /\ u[l] = t[m]
    BY <1>1, <1>2, <1>7
  <2>2. ASSUME NEW a \in 1..(k + 1), NEW b \in 1..Len(q[a]), a < k + 1 \/ (a = k + 1 /\ b < m)
        PROVE  \E e \in 1..Len(u) : e < l /\ u[e] = q[a][b]
    <3>1. CASE a \in 1..k
      <4>1. PICK e \in 1..Len(s) : s[e] = q[a][b]
        BY <3>1
      <4>2. e < l
        BY <1>1, <1>2, <1>7
      <4> QED
        BY <1>3, <4>1, <4>2
    <3>2. CASE a = k + 1
      <4> DEFINE e == Len(s) + b
      <4>1. b < m /\ b \in 1..Len(t)
        BY <2>2, <3>2
      <4>2. e \in 1..Len(u) /\ u[e] = t[b]
        BY <1>4, <4>1
      <4>3. e < l
        BY <1>1, <1>2, <4>1
      <4> QED
        BY <3>2, <4>2, <4>3
    <3> QED
      BY <1>5, <3>1, <3>2
  <2> HIDE DEF m
  <2>3. m \in 1..Len(q[k + 1]) /\ u[l] = q[k + 1][m]
    BY <2>1
  <2> HIDE DEF t
  <2>4. PlacedAt(q, k + 1, u, l)
    BY <1>5, <2>2, <2>3 DEF PlacedAt
  <2> QED
    BY <2>4 DEF u, t
<1> QED
  BY <1>6, <1>7

LEMMA PlacingAlways == \A i \in Nat : Placing(i)
<1>1. Placing(0)
  <2> SUFFICES ASSUME NEW q, NEW g, NEW n \in Nat, 0 + 1 \in 1..n, g = Flat(q, g, n),
                      \A j \in 1..n : IsList(q[j]), NEW l \in 1..Len(g[0 + 1])
               PROVE  PlacedAt(q, 0 + 1, g[0 + 1], l)
    BY DEF Placing
  <2>1. 0 + 1 = 1 /\ 1 \in 1..n /\ \A j \in 1..1 : j = 1
    OBVIOUS
  <2>2. g[1] = q[1]
    BY <2>1 DEF Flat
  <2>3. Len(q[1]) \in Nat
    BY <2>1, ListDomain
  <2>4. l \in 1..Len(q[1])
    BY <2>1, <2>2
  <2>5. PlacedAt(q, 1, q[1], l)
    <3>1. 1 \in 1..1 /\ q[1][l] = q[1][l]
      OBVIOUS
    <3>2. ASSUME NEW a \in 1..1, NEW b \in 1..Len(q[a]), a < 1 \/ (a = 1 /\ b < l)
          PROVE  \E e \in 1..Len(q[1]) : e < l /\ q[1][e] = q[a][b]
      BY <2>1, <3>2
    <3> QED
      BY <2>4, <3>1, <3>2 DEF PlacedAt
  <2> QED
    BY <2>1, <2>2, <2>5
<1>2. ASSUME NEW i \in Nat, Placing(i)
      PROVE  Placing(i + 1)
  <2> SUFFICES ASSUME NEW q, NEW g, NEW n \in Nat, (i + 1) + 1 \in 1..n, g = Flat(q, g, n),
                      \A j \in 1..n : IsList(q[j]), NEW l \in 1..Len(g[(i + 1) + 1])
               PROVE  PlacedAt(q, (i + 1) + 1, g[(i + 1) + 1], l)
    BY DEF Placing
  <2> DEFINE k == i + 1
             s == g[k]
  <2>1. k \in Nat /\ k + 1 \in 1..n /\ k + 1 # 1 /\ (k + 1) - 1 = k /\ k \in 1..n /\ \A a \in 1..k : a \in 1..n
    OBVIOUS
  <2>2. g[k + 1] = s \o q[k + 1]
    <3> HIDE DEF k
    <3> QED
      BY <2>1 DEF Flat
  <2>3. IsList(s) /\ \A y : y \in ToSet(s) <=> \E j \in 1..k : y \in ToSet(q[j])
    <3>1. Flattens(i)
      BY FlattensAlways
    <3> QED
      BY <2>1, <3>1 DEF Flattens
  <2>4. \A a \in 1..Len(s) : PlacedAt(q, k, s, a)
    BY <1>2, <2>1 DEF Placing
  <2>5. IsList(q[k + 1])
    BY <2>1
  <2>6. l \in 1..Len(s \o q[k + 1])
    BY <2>2
  <2>7. \A a \in 1..k : \A b \in 1..Len(q[a]) : \E e \in 1..Len(s) : s[e] = q[a][b]
    <3> SUFFICES ASSUME NEW a \in 1..k, NEW b \in 1..Len(q[a])
                 PROVE  \E e \in 1..Len(s) : s[e] = q[a][b]
      OBVIOUS
    <3>1. q[a][b] \in ToSet(q[a])
      BY <2>1, ListDomain
    <3>2. q[a][b] \in ToSet(s)
      BY <2>3, <3>1
    <3> HIDE DEF s, k
    <3> QED
      BY <2>3, <3>2, ListDomain
  <2> HIDE DEF k, s
  <2>8. PlacedAt(q, k + 1, s \o q[k + 1], l)
    BY <2>1, <2>3, <2>4, <2>5, <2>6, <2>7, PlacedAfter
  <2> QED
    BY <2>2, <2>8 DEF k
<1> DEFINE S == {i \in Nat : Placing(i)}
<1>3. 0 \in S /\ \A i \in Nat : i \in S => i + 1 \in S
  BY <1>1, <1>2
<1>4. \A i \in Nat : i \in S
  <2> HIDE DEF S
  <2> QED
    BY <1>3, AddingOnce!Induct
<1> QED
  BY <1>4

(* Flattened lists keep their order. *)
LEMMA FlatPlaces ==
  ASSUME NEW n \in Nat, NEW q, q = [i \in 1..n |-> q[i]], \A i \in 1..n : IsList(q[i]),
         NEW f, f = FlattenSeq(q), NEW l \in 1..Len(f)
  PROVE  PlacedAt(q, n, f, l)
<1>1. IsList(q) /\ Len(q) = n
  BY ListMade
<1>2. CASE n = 0
  <2>1. f = q
    BY <1>1, <1>2 DEF FlattenSeq
  <2>2. Len(f) = 0
    BY <1>1, <1>2, <2>1
  <2> QED
    BY <2>2
<1>3. CASE n # 0
  <2> DEFINE g == CHOOSE h : h = Flat(q, h, n)
  <2>1. g = Flat(q, g, n)
    BY FlatExists DEF HasFlat
  <2>2. f = g[n]
    BY <1>1, <1>3 DEF FlattenSeq, Flat
  <2> HIDE DEF g
  <2>3. n - 1 \in Nat /\ (n - 1) + 1 = n /\ n \in 1..n
    BY <1>3
  <2>4. Placing(n - 1)
    BY <2>3, PlacingAlways
  <2>5. \A a \in 1..Len(g[n]) : PlacedAt(q, n, g[n], a)
    BY <2>1, <2>3, <2>4 DEF Placing
  <2> QED
    BY <2>2, <2>5
<1> QED
  BY <1>2, <1>3

-----------------------------------------------------------------------------
(***************************************************************************)
(* The length of flattened lists.                                          *)
(***************************************************************************)
(* The elements of the first k lists, each with its list. *)
Pairs(q, k) == {x \in (1..k) \X Nat : x[2] \in 1..Len(q[x[1]])}

Counted(S, n) == IsFiniteSet(S) /\ Cardinality(S) = n

(* The elements of one list. *)
LEMMA RowCounted ==
  ASSUME NEW k, NEW n \in Nat
  PROVE  Counted({k} \X (1..n), n)
<1> DEFINE T == {k} \X (1..n)
           f == [m \in 1..n |-> <<k, m>>]
<1>1. f \in [1..n -> T] /\ \A m \in 1..n : f[m] = <<k, m>>
  OBVIOUS
<1>2. \A t \in T : \E m \in 1..n : t = <<k, m>>
  OBVIOUS
<1>3. \A a, b \in 1..n : <<k, a>> = <<k, b>> => a = b
  OBVIOUS
<1> HIDE DEF f, T
<1>4. f \in Injection(1..n, T)
  BY <1>1, <1>3 DEF Injection, IsInjective
<1>5. f \in Surjection(1..n, T)
  BY <1>1, <1>2 DEF Surjection
<1>6. ExistsBijection(1..n, T)
  BY <1>4, <1>5 DEF ExistsBijection, Bijection
<1>7. IsFiniteSet(1..n) /\ Cardinality(1..n) = n
  <2>1. 1 \in Int /\ n \in Int
    OBVIOUS
  <2>2. IsFiniteSet(1..n) /\ Cardinality(1..n) = IF 1 > n THEN 0 ELSE n - 1 + 1
    BY <2>1, FS_Interval
  <2> QED
    BY <2>2
<1>8. IsFiniteSet(T) /\ Cardinality(T) = n
  BY <1>6, <1>7, FS_Bijection
<1> QED
  BY <1>8 DEF Counted, T

Measured(i) ==
  \A q, g : \A n \in Nat :
    (i + 1 \in 1..n /\ g = Flat(q, g, n) /\ \A j \in 1..n : IsList(q[j])) =>
      Counted(Pairs(q, i + 1), Len(g[i + 1]))

LEMMA MeasuredAlways == \A i \in Nat : Measured(i)
<1>1. Measured(0)
  <2> SUFFICES ASSUME NEW q, NEW g, NEW n \in Nat, 0 + 1 \in 1..n, g = Flat(q, g, n),
                      \A j \in 1..n : IsList(q[j])
               PROVE  Counted(Pairs(q, 0 + 1), Len(g[0 + 1]))
    BY DEF Measured
  <2>1. 0 + 1 = 1 /\ 1 \in 1..n /\ \A j \in 1..1 : j = 1
    OBVIOUS
  <2>2. g[1] = q[1]
    BY <2>1 DEF Flat
  <2>3. Len(q[1]) \in Nat
    BY <2>1, ListDomain
  <2>4. Pairs(q, 1) = {1} \X (1..Len(q[1]))
    BY <2>3 DEF Pairs
  <2>5. Counted({1} \X (1..Len(q[1])), Len(q[1]))
    BY <2>3, RowCounted
  <2> QED
    BY <2>1, <2>2, <2>4, <2>5
<1>2. ASSUME NEW i \in Nat, Measured(i)
      PROVE  Measured(i + 1)
  <2> SUFFICES ASSUME NEW q, NEW g, NEW n \in Nat, (i + 1) + 1 \in 1..n, g = Flat(q, g, n),
                      \A j \in 1..n : IsList(q[j])
               PROVE  Counted(Pairs(q, (i + 1) + 1), Len(g[(i + 1) + 1]))
    BY DEF Measured
  <2> DEFINE k == i + 1
             s == g[k]
             t == q[k + 1]
             A == Pairs(q, k)
             B == {k + 1} \X (1..Len(t))
             C == Pairs(q, k + 1)
  <2>1. k \in Nat /\ k + 1 \in 1..n /\ k + 1 # 1 /\ (k + 1) - 1 = k /\ k \in 1..n
    OBVIOUS
  <2>2. g[k + 1] = s \o t
    <3> HIDE DEF k
    <3> QED
      BY <2>1 DEF Flat
  <2>3. IsList(s) /\ IsList(t)
    <3>1. Flattens(i)
      BY FlattensAlways
    <3> QED
      BY <2>1, <3>1 DEF Flattens
  <2>4. Counted(A, Len(s))
    BY <1>2, <2>1 DEF Measured
  <2> HIDE DEF k, s
  <2>5. Len(s \o t) = Len(s) + Len(t) /\ Len(s) \in Nat /\ Len(t) \in Nat
    BY <2>3, ConcatPlaces
  <2>6. Counted(B, Len(t))
    BY <2>5, RowCounted
  <2>7. C = A \cup B
    <3>1. ASSUME NEW x \in C PROVE x \in A \cup B
      <4>1. x \in (1..(k + 1)) \X Nat /\ x[2] \in 1..Len(q[x[1]])
        BY DEF Pairs
      <4>2. CASE x[1] \in 1..k
        BY <4>1, <4>2 DEF Pairs
      <4>3. CASE x[1] = k + 1
        BY <4>1, <4>3
      <4> QED
        BY <2>1, <4>1, <4>2, <4>3
    <3>2. ASSUME NEW x \in A PROVE x \in C
      BY <2>1 DEF Pairs
    <3>3. ASSUME NEW x \in B PROVE x \in C
      <4>1. x[1] = k + 1 /\ x[2] \in 1..Len(t) /\ x \in (1..(k + 1)) \X Nat
        BY <2>1, <2>5
      <4> QED
        BY <4>1 DEF Pairs
    <3> QED
      BY <3>1, <3>2, <3>3
  <2>8. A \cap B = {}
    <3> SUFFICES ASSUME NEW x \in A, x \in B PROVE FALSE
      OBVIOUS
    <3>1. x[1] \in 1..k /\ x[1] = k + 1
      BY DEF Pairs
    <3> QED
      BY <2>1, <3>1
  <2> HIDE DEF A, B, C, t
  <2>9. IsFiniteSet(A \cup B) /\ Cardinality(A \cup B) = Cardinality(A) + Cardinality(B) - Cardinality({})
    <3>1. IsFiniteSet(A) /\ IsFiniteSet(B)
      BY <2>4, <2>6 DEF Counted
    <3>2. IsFiniteSet(A \cup B) /\ Cardinality(A \cup B) = Cardinality(A) + Cardinality(B) - Cardinality(A \cap B)
      BY <3>1, FS_Union
    <3> QED
      BY <2>8, <3>2
  <2>10. Cardinality({}) = 0
    BY FS_EmptySet
  <2>11. Counted(C, Len(s) + Len(t))
    BY <2>4, <2>5, <2>6, <2>7, <2>9, <2>10 DEF Counted
  <2> QED
    BY <2>2, <2>5, <2>11 DEF k, C
<1> DEFINE S == {i \in Nat : Measured(i)}
<1>3. 0 \in S /\ \A i \in Nat : i \in S => i + 1 \in S
  BY <1>1, <1>2
<1>4. \A i \in Nat : i \in S
  <2> HIDE DEF S
  <2> QED
    BY <1>3, AddingOnce!Induct
<1> QED
  BY <1>4

(* The length is the number of the elements of the lists. *)
LEMMA FlatLength ==
  ASSUME NEW n \in Nat, NEW q, q = [i \in 1..n |-> q[i]], \A i \in 1..n : IsList(q[i])
  PROVE  Counted(Pairs(q, n), Len(FlattenSeq(q)))
<1>1. IsList(q) /\ Len(q) = n
  BY ListMade
<1>2. CASE n = 0
  <2>1. FlattenSeq(q) = q
    BY <1>1, <1>2 DEF FlattenSeq
  <2>2. Pairs(q, n) = {}
    BY <1>2 DEF Pairs
  <2>3. Len(FlattenSeq(q)) = 0
    BY <1>1, <1>2, <2>1
  <2> QED
    BY <2>2, <2>3, FS_EmptySet DEF Counted
<1>3. CASE n # 0
  <2> DEFINE g == CHOOSE h : h = Flat(q, h, n)
  <2>1. g = Flat(q, g, n)
    BY FlatExists DEF HasFlat
  <2>2. FlattenSeq(q) = g[n]
    BY <1>1, <1>3 DEF FlattenSeq, Flat
  <2> HIDE DEF g
  <2>3. n - 1 \in Nat /\ (n - 1) + 1 = n /\ n \in 1..n
    BY <1>3
  <2>4. Measured(n - 1)
    BY <2>3, MeasuredAlways
  <2>5. Counted(Pairs(q, n), Len(g[n]))
    BY <2>1, <2>3, <2>4 DEF Measured
  <2> QED
    BY <2>2, <2>5
<1> QED
  BY <1>2, <1>3

(* So it does not depend on the order in which the lists come: they are made *)
(* from the elements of a set, one from each.                                *)
Rows(S, list, w, q) ==
  /\ \A x \in S : IsList(w[x])
  /\ q = [i \in 1..Len(list) |-> q[i]]
  /\ \A i \in 1..Len(list) : q[i] = w[list[i]]

Elements(S, w) == {x \in S \X Nat : x[2] \in 1..Len(w[x[1]])}

LEMMA SameLength ==
  ASSUME NEW S, IsFiniteSet(S), NEW w, NEW list \in SetToSeqs(S), NEW q, Rows(S, list, w, q)
  PROVE  /\ Counted(Elements(S, w), Len(FlattenSeq(q)))
         /\ IsList(FlattenSeq(q))
         /\ \A y : y \in ToSet(FlattenSeq(q)) <=> \E x \in S : y \in ToSet(w[x])
<1> DEFINE n == Len(list)
           T == {x \in S \X Nat : x[2] \in 1..Len(w[x[1]])}
           P == Pairs(q, n)
           f == [x \in P |-> <<list[x[1]], x[2]>>]
<1>1. IsList(list) /\ ToSet(list) = S
  BY SetListed
<1>2. n \in Nat /\ (\A i \in 1..n : list[i] \in S) /\ (\A x \in S : \E i \in 1..n : x = list[i])
  BY <1>1, ListDomain
<1>3. \A i, j \in 1..n : list[i] = list[j] => i = j
  <2>1. list \in [1..Cardinality(S) -> S] /\ \A i, j \in 1..Cardinality(S) : i # j => list[i] # list[j]
    BY DEF SetToSeqs
  <2>2. Cardinality(S) \in Nat
    BY FS_CardinalityType
  <2>3. n = Cardinality(S)
    BY <2>1, <2>2
  <2> QED
    BY <2>1, <2>3
<1> HIDE DEF n
<1>4. q = [i \in 1..n |-> q[i]] /\ \A i \in 1..n : q[i] = w[list[i]] /\ IsList(q[i])
  BY <1>2 DEF n, Rows
<1>5. Counted(P, Len(FlattenSeq(q)))
  BY <1>2, <1>4, FlatLength
<1>6. /\ IsList(FlattenSeq(q))
      /\ \A y : y \in ToSet(FlattenSeq(q)) <=> \E i \in 1..n : y \in ToSet(q[i])
  BY <1>2, <1>4, Flattened
<1>7. \A y : y \in ToSet(FlattenSeq(q)) <=> \E x \in S : y \in ToSet(w[x])
  BY <1>2, <1>4, <1>6
<1>8. \A x \in P : x[1] \in 1..n /\ x[2] \in Nat /\ x[2] \in 1..Len(q[x[1]]) /\ x = <<x[1], x[2]>>
  BY DEF Pairs
<1>9. \A i \in 1..n : \A m \in Nat : m \in 1..Len(q[i]) => <<i, m>> \in P
  BY DEF Pairs
<1>10. \A x \in P : f[x] = <<list[x[1]], x[2]>>
  OBVIOUS
<1>11. \A x \in P : f[x] \in T
  BY <1>2, <1>4, <1>8, <1>10
<1>12. f \in [P -> T]
  BY <1>11
<1>13. ASSUME NEW y \in T PROVE \E x \in P : f[x] = y
  <2>1. y[1] \in S /\ y[2] \in Nat /\ y[2] \in 1..Len(w[y[1]]) /\ y = <<y[1], y[2]>>
    OBVIOUS
  <2>2. PICK i \in 1..n : y[1] = list[i]
    BY <1>2, <2>1
  <2>3. <<i, y[2]>> \in P
    BY <1>4, <1>9, <2>1, <2>2
  <2>4. f[<<i, y[2]>>] = <<list[i], y[2]>>
    BY <1>10, <2>3
  <2> QED
    BY <2>1, <2>2, <2>3, <2>4
<1>14. ASSUME NEW x \in P, NEW y \in P, f[x] = f[y] PROVE x = y
  <2>1. list[x[1]] = list[y[1]] /\ x[2] = y[2]
    BY <1>10, <1>14
  <2> QED
    BY <1>3, <1>8, <2>1
<1> HIDE DEF f, T, P
<1>15. f \in Injection(P, T)
  BY <1>12, <1>14 DEF Injection, IsInjective
<1>16. f \in Surjection(P, T)
  BY <1>12, <1>13 DEF Surjection
<1>17. ExistsBijection(P, T)
  BY <1>15, <1>16 DEF ExistsBijection, Bijection
<1>18. Counted(T, Len(FlattenSeq(q)))
  BY <1>5, <1>17, FS_Bijection DEF Counted
<1> QED
  BY <1>6, <1>7, <1>18 DEF T, Elements
=============================================================================
