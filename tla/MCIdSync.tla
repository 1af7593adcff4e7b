------------------------------ MODULE MCIdSync ------------------------------
(***************************************************************************)
(* Instances of IdSync.  Moving between the configurations of "moves"      *)
(* creates, updates and deletes objects of every kind; the server s2 is    *)
(* invalid, and "repeated" binds a server twice.  "splits" gives a second  *)
(* cluster a server of its own.                                            *)
(***************************************************************************)
EXTENDS IdSync, TLC

allNames == {"s1", "s2", "c1", "c2", "a1", "r1"}

ids19 == 1..19
decimal19 == [i \in 1..19 |-> ToString(i)]
str19 == allNames \cup {ToString(i) : i \in 1..19}

ids4 == 1..4
decimal4 == [i \in 1..4 |-> ToString(i)]
str4 == allNames \cup {ToString(i) : i \in 1..4}

order ==
  [server |-> <<"s1", "s2">>, cluster |-> <<"c1", "c2">>, api |-> <<"a1">>, routing |-> <<"r1">>]

conf(v, refs) == [v |-> v, refs |-> refs]

bind(c, s) == [cluster |-> c, server |-> s]

nothing == [n \in {} |-> {}]

first ==
  [server  |-> [s1 |-> conf(1, {}), s2 |-> conf(1, {})],
   cluster |-> [c1 |-> conf(1, {})],
   api     |-> [a1 |-> conf(1, {<<"cluster", "c1">>})],
   routing |-> [r1 |-> conf(1, {<<"api", "a1">>, <<"cluster", "c1">>})],
   bind    |-> <<bind("c1", "s1"), bind("c1", "s2")>>]

second ==
  [server  |-> [s1 |-> conf(2, {})],
   cluster |-> [c2 |-> conf(1, {})],
   api     |-> [a1 |-> conf(1, {<<"cluster", "c2">>})],
   routing |-> nothing,
   bind    |-> <<bind("c2", "s1")>>]

repeated == [second EXCEPT !.bind = @ \o @]

moves == {first, second, repeated}

s2Invalid == {<<"server", "s2">>}

small ==
  [server  |-> [s1 |-> conf(1, {})],
   cluster |-> [c1 |-> conf(1, {})],
   api     |-> [a1 |-> conf(1, {<<"cluster", "c1">>})],
   routing |-> nothing,
   bind    |-> <<bind("c1", "s1")>>]

(* Two clusters on one server, then each on its own. *)
shared ==
  [small EXCEPT !.cluster = [c1 |-> conf(1, {}), c2 |-> conf(1, {})],
                !.bind = <<bind("c1", "s1"), bind("c2", "s1")>>]

apart ==
  [shared EXCEPT !.server = [s1 |-> conf(1, {}), s2 |-> conf(1, {})],
                 !.bind = <<bind("c1", "s1"), bind("c2", "s2")>>]

onlySmall == {small}

splits == {shared, apart}
=============================================================================
