---------------------------- MODULE FoldTheorems ----------------------------
(***************************************************************************)
(* What a loop over a list keeps.  The model writes such loops with        *)
(* FoldLeft; Op is the body of the loop, Inv its invariant after i         *)
(* iterations, and c whatever body and invariant take from around the      *)
(* loop.  An instance substitutes both.                                    *)
(***************************************************************************)
EXTENDS Integers, Folds, WellFoundedInduction, TLAPS

CONSTANTS Op(_,_,_), Inv(_,_,_)

(* The largest element of a set, as Max of FiniteSetsExt. *)
Last(S) == CHOOSE x \in S : \A y \in S : x >= y

(* FoldLeft of SequencesExt for that body, from its definition. *)
Fold(c, base, seq) ==
  MapThenFoldSet(LAMBDA x, a : Op(c, a, x), base, LAMBDA i : seq[i], LAMBDA S : Last(S), DOMAIN seq)

-----------------------------------------------------------------------------
(* A set of numbers that is not empty has a least one. *)
LEMMA LeastNumber ==
  ASSUME NEW T \in SUBSET Nat, T # {}
  PROVE  \E x \in T : \A y \in T : ~(y < x)
<1> DEFINE R == OpToRel(<, Nat)
<1>1. IsWellFoundedOn(R, Nat)
  BY NatLessThanWellFounded
<1>2. \A y, x \in Nat : y < x => <<y, x>> \in R
  BY DEF OpToRel
<1> HIDE DEF R
<1>3. PICK x \in T : \A y \in T : ~(<<y, x>> \in R)
  BY <1>1, WFMin
<1> QED
  BY <1>2, <1>3

(***************************************************************************)
(* Induction, for a property that is given as the set of the numbers that  *)
(* have it.  What holds before a loop and is kept by each of its           *)
(* iterations holds after any number of them.                              *)
(***************************************************************************)
THEOREM Induct ==
  ASSUME NEW S, 0 \in S, \A n \in Nat : n \in S => n + 1 \in S
  PROVE  \A n \in Nat : n \in S
<1> DEFINE T == Nat \ S
<1>1. SUFFICES ASSUME T # {} PROVE FALSE
  OBVIOUS
<1>2. PICK x \in T : \A y \in T : ~(y < x)
  BY <1>1, LeastNumber
<1>3. x # 0 /\ x \in Nat
  BY <1>2
<1>4. x - 1 \in Nat /\ x = (x - 1) + 1 /\ x - 1 < x
  BY <1>3
<1>5. x - 1 \in S
  BY <1>2, <1>4
<1> QED
  BY <1>2, <1>4, <1>5

-----------------------------------------------------------------------------
(* FoldLeft takes the largest index off a set of indices, time and again. *)
HasLast(m) == \A t \in SUBSET (1..m) : t # {} => Last(t) \in t /\ \A y \in t : Last(t) >= y

(* The indices of a list have a largest one. *)
LEMMA LastExists == \A m \in Nat : HasLast(m)
<1>1. HasLast(0)
  <2>1. 1..0 = {}
    OBVIOUS
  <2> QED
    BY <2>1 DEF HasLast
<1>2. ASSUME NEW m \in Nat, HasLast(m)
      PROVE  HasLast(m + 1)
  <2> SUFFICES ASSUME NEW t \in SUBSET (1..(m + 1)), t # {}
               PROVE  Last(t) \in t /\ \A y \in t : Last(t) >= y
    BY DEF HasLast
  <2>1. CASE m + 1 \in t
    <3>1. \A y \in t : m + 1 >= y
      OBVIOUS
    <3> QED
      BY <2>1, <3>1 DEF Last
  <2>2. CASE m + 1 \notin t
    <3>1. t \in SUBSET (1..m)
      BY <2>2
    <3> QED
      BY <1>2, <3>1 DEF HasLast
  <2> QED
    BY <2>1, <2>2
<1> DEFINE S == {m \in Nat : HasLast(m)}
<1>3. 0 \in S /\ \A m \in Nat : m \in S => m + 1 \in S
  BY <1>1, <1>2
<1>4. \A m \in Nat : m \in S
  <2> HIDE DEF S
  <2> QED
    BY <1>3, Induct
<1> QED
  BY <1>4

(* The largest of the first i + 1 indices is the last one. *)
LEMMA LastOfPrefix ==
  \A i \in Nat : Last(1..(i + 1)) = i + 1 /\ (1..(i + 1)) \ {i + 1} = 1..i
<1> SUFFICES ASSUME NEW i \in Nat
             PROVE  Last(1..(i + 1)) = i + 1 /\ (1..(i + 1)) \ {i + 1} = 1..i
  OBVIOUS
<1> DEFINE x == Last(1..(i + 1))
<1>1. i + 1 \in 1..(i + 1) /\ \A y \in 1..(i + 1) : i + 1 >= y
  OBVIOUS
<1>2. x \in 1..(i + 1) /\ \A y \in 1..(i + 1) : x >= y
  BY <1>1 DEF Last
<1>3. x = i + 1
  <2> HIDE DEF x
  <2> QED
    BY <1>1, <1>2
<1> QED
  BY <1>3

-----------------------------------------------------------------------------
(* The equation of the recursive function in FoldLeft has a solution.  It is *)
(* built up by the largest index that a set of indices may contain.          *)
Iter(c, b, s, g, D) ==
  [t \in SUBSET D |-> IF t = {} THEN b ELSE Op(c, g[t \ {Last(t)}], s[Last(t)])]

HasIter(m) == \A c, b, s : \E g : g = Iter(c, b, s, g, 1..m)

(* There is a function as FoldLeft defines it, for lists of any length. *)
LEMMA IterExists == \A m \in Nat : HasIter(m)
<1>1. HasIter(0)
  <2> SUFFICES ASSUME NEW c, NEW b, NEW s
               PROVE  \E g : g = Iter(c, b, s, g, 1..0)
    BY DEF HasIter
  <2> DEFINE g == [t \in SUBSET (1..0) |-> b]
  <2>1. SUBSET (1..0) = {{}}
    OBVIOUS
  <2>2. g = Iter(c, b, s, g, 1..0)
    BY <2>1 DEF Iter
  <2> QED
    BY <2>2
<1>2. ASSUME NEW m \in Nat, HasIter(m)
      PROVE  HasIter(m + 1)
  <2> SUFFICES ASSUME NEW c, NEW b, NEW s
               PROVE  \E g : g = Iter(c, b, s, g, 1..(m + 1))
    BY DEF HasIter
  <2>1. PICK g : g = Iter(c, b, s, g, 1..m)
    BY <1>2 DEF HasIter
  <2> DEFINE h == Iter(c, b, s, g, 1..(m + 1))
  <2>2. \A t \in SUBSET (1..(m + 1)) : t # {} => t \ {Last(t)} \in SUBSET (1..m)
    <3> SUFFICES ASSUME NEW t \in SUBSET (1..(m + 1)), t # {}
                 PROVE  t \ {Last(t)} \in SUBSET (1..m)
      OBVIOUS
    <3> DEFINE x == Last(t)
    <3>1. m + 1 \in Nat /\ HasLast(m + 1)
      BY LastExists
    <3>2. x \in t /\ \A y \in t : x >= y
      BY <3>1 DEF HasLast
    <3> HIDE DEF x
    <3>3. ASSUME NEW y \in t \ {x}
          PROVE  y \in 1..m
      BY <3>2
    <3>4. t \ {x} \in SUBSET (1..m)
      BY <3>3
    <3> QED
      BY <3>4 DEF x
  <2>3. \A t \in SUBSET (1..m) : h[t] = g[t]
    <3>1. SUBSET (1..m) \subseteq SUBSET (1..(m + 1))
      OBVIOUS
    <3> QED
      BY <2>1, <3>1 DEF Iter
  <2>4. h = Iter(c, b, s, h, 1..(m + 1))
    BY <2>2, <2>3 DEF Iter
  <2> QED
    BY <2>4
<1> DEFINE S == {m \in Nat : HasIter(m)}
<1>3. 0 \in S /\ \A m \in Nat : m \in S => m + 1 \in S
  BY <1>1, <1>2
<1>4. \A m \in Nat : m \in S
  <2> HIDE DEF S
  <2> QED
    BY <1>3, Induct
<1> QED
  BY <1>4

(* What a loop over a list ends with is that function's value. *)
LEMMA FoldIter ==
  ASSUME NEW c, NEW b, NEW s, NEW n \in Nat, DOMAIN s = 1..n
  PROVE  \E g : g = Iter(c, b, s, g, 1..n) /\ Fold(c, b, s) = g[1..n]
<1> DEFINE g == CHOOSE h : h = Iter(c, b, s, h, 1..n)
<1>1. g = Iter(c, b, s, g, 1..n)
  BY IterExists DEF HasIter
<1>2. Fold(c, b, s) = g[1..n]
  BY DEF Fold, MapThenFoldSet, Iter
<1> QED
  BY <1>1, <1>2

-----------------------------------------------------------------------------
Holds(i) ==
  \A c, b, s, g : \A n \in Nat :
    (/\ i \in 0..n /\ g = Iter(c, b, s, g, 1..n) /\ Inv(c, 0, b)
     /\ \A j \in 1..n : \A a : Inv(c, j - 1, a) => Inv(c, j, Op(c, a, s[j])))
    => Inv(c, i, g[1..i])

(* The invariant of a loop holds after each of its iterations. *)
LEMMA HoldsAlways == \A i \in Nat : Holds(i)
<1>1. Holds(0)
  <2> SUFFICES ASSUME NEW c, NEW b, NEW s, NEW g, NEW n \in Nat,
                      g = Iter(c, b, s, g, 1..n), Inv(c, 0, b)
               PROVE  Inv(c, 0, g[1..0])
    BY DEF Holds
  <2>1. 1..0 = {} /\ 1..0 \in SUBSET (1..n)
    OBVIOUS
  <2>2. g[1..0] = b
    BY <2>1 DEF Iter
  <2> QED
    BY <2>2
<1>2. ASSUME NEW i \in Nat, Holds(i)
      PROVE  Holds(i + 1)
  <2> SUFFICES ASSUME NEW c, NEW b, NEW s, NEW g, NEW n \in Nat, i + 1 \in 0..n,
                      g = Iter(c, b, s, g, 1..n), Inv(c, 0, b),
                      \A j \in 1..n : \A a : Inv(c, j - 1, a) => Inv(c, j, Op(c, a, s[j]))
               PROVE  Inv(c, i + 1, g[1..(i + 1)])
    BY DEF Holds
  <2>1. Inv(c, i, g[1..i])
    BY <1>2 DEF Holds
  <2>2. 1..(i + 1) \in SUBSET (1..n) /\ 1..(i + 1) # {}
    OBVIOUS
  <2>3. g[1..(i + 1)] = Op(c, g[1..i], s[i + 1])
    <3> DEFINE t == 1..(i + 1)
    <3>1. g[t] = Op(c, g[t \ {Last(t)}], s[Last(t)])
      <4> HIDE DEF t
      <4> QED
        BY <2>2 DEF Iter, t
    <3>2. Last(t) = i + 1 /\ t \ {i + 1} = 1..i
      BY LastOfPrefix
    <3> HIDE DEF t
    <3>3. g[t] = Op(c, g[1..i], s[i + 1])
      BY <3>1, <3>2
    <3> QED
      BY <3>3 DEF t
  <2>4. i + 1 \in 1..n /\ (i + 1) - 1 = i
    OBVIOUS
  <2>5. Inv(c, i + 1, Op(c, g[1..i], s[i + 1]))
    BY <2>1, <2>4
  <2> QED
    BY <2>3, <2>5
<1> DEFINE S == {i \in Nat : Holds(i)}
<1>3. 0 \in S /\ \A i \in Nat : i \in S => i + 1 \in S
  BY <1>1, <1>2
<1>4. \A i \in Nat : i \in S
  <2> HIDE DEF S
  <2> QED
    BY <1>3, Induct
<1> QED
  BY <1>4

(***************************************************************************)
(* A loop over a list keeps what each of its iterations keeps.             *)
(***************************************************************************)
THEOREM FoldKeeps ==
  ASSUME NEW c, NEW b, NEW s, NEW n \in Nat, DOMAIN s = 1..n,
         Inv(c, 0, b),
         \A j \in 1..n : \A a : Inv(c, j - 1, a) => Inv(c, j, Op(c, a, s[j]))
  PROVE  Inv(c, n, Fold(c, b, s))
<1>1. PICK g : g = Iter(c, b, s, g, 1..n) /\ Fold(c, b, s) = g[1..n]
  BY FoldIter
<1>2. n \in 0..n /\ Holds(n)
  BY HoldsAlways
<1>3. Inv(c, n, g[1..n])
  BY <1>1, <1>2 DEF Holds
<1> QED
  BY <1>1, <1>3

-----------------------------------------------------------------------------
(* The values that a loop goes through. *)
Goes(c, b, s, f, n) == f[0] = b /\ \A j \in 1..n : f[j] = Op(c, f[j - 1], s[j])

Iterates(c, b, s, g, n) == g = Iter(c, b, s, g, 1..n)

Follows(i) ==
  \A c, b, s, g, f : \A n \in Nat :
    (i \in 0..n /\ Iterates(c, b, s, g, n) /\ Goes(c, b, s, f, n)) => g[1..i] = f[i]

(* FoldLeft's function goes through them. *)
LEMMA IterStep ==
  ASSUME NEW c, NEW b, NEW s, NEW n \in Nat, NEW g, Iterates(c, b, s, g, n)
  PROVE  g[1..0] = b /\ \A i \in 1..n : g[1..i] = Op(c, g[1..(i - 1)], s[i])
<1>1. g[1..0] = b
  <2>1. 1..0 = {} /\ 1..0 \in SUBSET (1..n)
    OBVIOUS
  <2> QED
    BY <2>1 DEF Iterates, Iter
<1>2. ASSUME NEW i \in 1..n
      PROVE  g[1..i] = Op(c, g[1..(i - 1)], s[i])
  <2> DEFINE t == 1..i
  <2>1. t \in SUBSET (1..n) /\ t # {}
    <3>1. i \in t /\ \A k \in t : k \in 1..n
      OBVIOUS
    <3> HIDE DEF t
    <3> QED
      BY <3>1
  <2>2. g[t] = Op(c, g[t \ {Last(t)}], s[Last(t)])
    <3> HIDE DEF t
    <3> QED
      BY <2>1 DEF Iterates, Iter
  <2>3. Last(t) = i /\ t \ {i} = 1..(i - 1)
    <3>1. i - 1 \in Nat /\ (i - 1) + 1 = i
      OBVIOUS
    <3> QED
      BY <3>1, LastOfPrefix
  <2> HIDE DEF t
  <2>4. g[t] = Op(c, g[1..(i - 1)], s[i])
    BY <2>2, <2>3
  <2> QED
    BY <2>4 DEF t
<1> QED
  BY <1>1, <1>2

LEMMA FollowsAlways == \A i \in Nat : Follows(i)
<1>1. Follows(0)
  BY IterStep DEF Follows, Goes
<1>2. ASSUME NEW i \in Nat, Follows(i)
      PROVE  Follows(i + 1)
  <2> SUFFICES ASSUME NEW c, NEW b, NEW s, NEW g, NEW f, NEW n \in Nat, i + 1 \in 0..n,
                      Iterates(c, b, s, g, n), Goes(c, b, s, f, n)
               PROVE  g[1..(i + 1)] = f[i + 1]
    BY DEF Follows
  <2>1. i \in 0..n /\ i + 1 \in 1..n /\ (i + 1) - 1 = i
    OBVIOUS
  <2>2. g[1..i] = f[i]
    BY <1>2, <2>1 DEF Follows
  <2>3. g[1..(i + 1)] = Op(c, g[1..i], s[i + 1])
    <3>1. \A k \in 1..n : g[1..k] = Op(c, g[1..(k - 1)], s[k])
      BY IterStep
    <3>2. g[1..(i + 1)] = Op(c, g[1..((i + 1) - 1)], s[i + 1])
      BY <2>1, <3>1
    <3> QED
      BY <2>1, <3>2
  <2> QED
    BY <2>1, <2>2, <2>3 DEF Goes
<1> DEFINE S == {i \in Nat : Follows(i)}
<1>3. 0 \in S /\ \A i \in Nat : i \in S => i + 1 \in S
  BY <1>1, <1>2
<1>4. \A i \in Nat : i \in S
  <2> HIDE DEF S
  <2> QED
    BY <1>3, Induct
<1> QED
  BY <1>4

(* A loop ends with the last value that it goes through. *)
LEMMA FoldFollows ==
  ASSUME NEW c, NEW b, NEW s, NEW n \in Nat, DOMAIN s = 1..n, NEW f, Goes(c, b, s, f, n)
  PROVE  Fold(c, b, s) = f[n]
<1>1. PICK g : g = Iter(c, b, s, g, 1..n) /\ Fold(c, b, s) = g[1..n]
  BY FoldIter
<1>2. n \in 0..n /\ Follows(n) /\ Iterates(c, b, s, g, n)
  BY <1>1, FollowsAlways DEF Iterates
<1> QED
  BY <1>1, <1>2 DEF Follows

(* There are such values. *)
LEMMA FoldGoes ==
  ASSUME NEW c, NEW b, NEW s, NEW n \in Nat, DOMAIN s = 1..n
  PROVE  \E f : Goes(c, b, s, f, n) /\ Fold(c, b, s) = f[n]
<1>1. PICK g : g = Iter(c, b, s, g, 1..n) /\ Fold(c, b, s) = g[1..n]
  BY FoldIter
<1> DEFINE f == [i \in 0..n |-> g[1..i]]
<1>2. g[1..0] = b /\ \A i \in 1..n : g[1..i] = Op(c, g[1..(i - 1)], s[i])
  BY <1>1, IterStep DEF Iterates
<1>3. \A i \in 0..n : f[i] = g[1..i]
  OBVIOUS
<1>4. 0 \in 0..n /\ n \in 0..n /\ \A i \in 1..n : i \in 0..n /\ i - 1 \in 0..n
  OBVIOUS
<1> HIDE DEF f
<1>5. Goes(c, b, s, f, n)
  BY <1>2, <1>3, <1>4 DEF Goes
<1> QED
  BY <1>1, <1>3, <1>4, <1>5

(***************************************************************************)
(* A loop over a list that is followed by another is a loop over the one,  *)
(* and then one over the other.                                            *)
(***************************************************************************)
THEOREM FoldConcat ==
  ASSUME NEW c, NEW b, NEW s, NEW t, NEW u, NEW n \in Nat, NEW m \in Nat,
         DOMAIN s = 1..n, DOMAIN t = 1..m, DOMAIN u = 1..(n + m),
         \A i \in 1..n : u[i] = s[i], \A i \in 1..m : u[n + i] = t[i]
  PROVE  Fold(c, b, u) = Fold(c, Fold(c, b, s), t)
<1>0. \A b0, s0 : \A k \in Nat : DOMAIN s0 = 1..k => \E f : Goes(c, b0, s0, f, k) /\ Fold(c, b0, s0) = f[k]
  BY FoldGoes
<1>1. PICK f : Goes(c, b, s, f, n) /\ Fold(c, b, s) = f[n]
  BY <1>0
<1>2. PICK g : Goes(c, f[n], t, g, m) /\ Fold(c, f[n], t) = g[m]
  BY <1>0
<1> DEFINE h == [i \in 0..(n + m) |-> IF i <= n THEN f[i] ELSE g[i - n]]
<1>3. n + m \in Nat /\ 0 \in 0..(n + m) /\ n + m \in 0..(n + m)
  OBVIOUS
<1>4. \A i \in 0..n : h[i] = f[i]
  OBVIOUS
<1>5. g[0] = f[n]
  BY <1>2 DEF Goes
<1>6. ASSUME NEW i \in 0..m PROVE h[n + i] = g[i]
  <2>1. CASE i = 0
    BY <1>4, <1>5, <2>1
  <2>2. CASE i # 0
    <3>1. n + i \in 0..(n + m) /\ ~(n + i <= n) /\ (n + i) - n = i
      BY <2>2
    <3> QED
      BY <3>1
  <2> QED
    BY <2>1, <2>2
<1> HIDE DEF h
<1>7. h[0] = b
  BY <1>1, <1>4 DEF Goes
<1>8. ASSUME NEW j \in 1..(n + m) PROVE h[j] = Op(c, h[j - 1], u[j])
  <2>1. CASE j <= n
    <3>1. j \in 1..n /\ j \in 0..n /\ j - 1 \in 0..n
      BY <2>1
    <3> QED
      BY <1>1, <1>4, <3>1 DEF Goes
  <2>2. CASE ~(j <= n)
    <3> DEFINE k == j - n
    <3>1. k \in 1..m /\ k \in 0..m /\ k - 1 \in 0..m /\ n + k = j /\ n + (k - 1) = j - 1
      BY <2>2
    <3> HIDE DEF k
    <3>2. h[j] = g[k] /\ h[j - 1] = g[k - 1] /\ u[j] = t[k]
      BY <1>6, <3>1
    <3> QED
      BY <1>2, <3>1, <3>2 DEF Goes
  <2> QED
    BY <2>1, <2>2
<1>9. Goes(c, b, u, h, n + m)
  BY <1>7, <1>8 DEF Goes
<1>10. Fold(c, b, u) = h[n + m]
  BY <1>3, <1>9, FoldFollows
<1>11. h[n + m] = g[m]
  BY <1>6
<1> QED
  BY <1>1, <1>2, <1>10, <1>11
=============================================================================
