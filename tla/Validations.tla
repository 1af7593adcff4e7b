---------------------------- MODULE Validations -----------------------------
(***************************************************************************)
(* ToManbaValidations: the parameters that a route's match checks, as the  *)
(* list that becomes part of a dispatch node.  Each of the six maps of a   *)
(* match is gone through in an order that differs from one time to the     *)
(* next, and the list is then sorted.  The configuration that OnUpdate     *)
(* hashes holds the list, so its order matters.                            *)
(*                                                                         *)
(* A match is a set of parameters; a parameter is a source, a name, which  *)
(* is a number here, and an expression.  A match that is not set is empty. *)
(***************************************************************************)
EXTENDS Naturals, FiniteSets, SequencesExt

(* The maps in the order in which they are gone through. *)
Maps == <<"Cookie", "FormData", "Header", "JSONBody", "QueryString", "PathValue">>

(* A slice. *)
IsList(s) == s \in Seq(ToSet(s))

(* Six maps: a name is the key of one entry in each. *)
IsMatch(match) ==
  /\ IsFiniteSet(match)
  /\ \A p \in match : p.source \in ToSet(Maps) /\ p.name \in Nat
  /\ \A p, q \in match : p.source = q.source /\ p.name = q.name => p = q

(* The numbers that package metapb gives to sources. *)
Value == [QueryString |-> 0, FormData |-> 1, JSONBody |-> 2, Header |-> 3, Cookie |-> 4, PathValue |-> 5]

\* Mutant: every map is entered under the first source.
ParseOneSource(match, source) ==
  {[n \in 1..Len(s) |-> [s[n] EXCEPT !.source = Maps[1]]] : s \in SetToSeqs({p \in match : p.source = source})}

(* The entries of a map, in any order. *)
Parse(match, source) == SetToSeqs({p \in match : p.source = source})

Less(p, q) == Value[p.source] <= Value[q.source] /\ p.name < q.name

(* Each element moves to the left for as long as it is less than its         *)
(* neighbour.                                                                *)
InsertionSort(list) ==
  LET insert(sorted, p) ==
        LET stays == {n \in 1..Len(sorted) : ~Less(p, sorted[n])}
            after == IF stays = {} THEN 0 ELSE CHOOSE n \in stays : \A m \in stays : m <= n
        IN  SubSeq(sorted, 1, after) \o <<p>> \o SubSeq(sorted, after + 1, Len(sorted))
  IN  FoldLeft(insert, <<>>, list)

(* Elements six places apart are put in order: a list of up to six stays.    *)
GapPass(list) ==
  [n \in 1..Len(list) |->
     IF n + 6 <= Len(list) /\ Less(list[n + 6], list[n]) THEN list[n + 6]
     ELSE IF n > 6 /\ Less(list[n], list[n - 6]) THEN list[n - 6]
     ELSE list[n]]

(* What sort.Slice may make of a list.  Up to twelve elements it makes a pass *)
(* with gap six and sorts by insertion; on a longer list quicksort, with an   *)
(* order like Less, leaves the elements in some order.                        *)
SortSlice(list) ==
  IF Len(list) <= 12 THEN {InsertionSort(GapPass(list))}
  ELSE {[n \in 1..Len(list) |-> list[f[n]]] : f \in Bijection(1..Len(list), 1..Len(list))}

(* The lists that a match may become. *)
ToManbaValidations(match) ==
  LET append(lists, source) == {l \o s : l \in lists, s \in Parse(match, source)}
  IN  UNION {SortSlice(l) : l \in FoldLeft(append, {<<>>}, Maps)}
=============================================================================
