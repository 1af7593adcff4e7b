------------------------------ MODULE MCParser ------------------------------
(***************************************************************************)
(* Stores for Parser.  "plain" has two ingresses; the first has two rules, *)
(* which share a cluster, and a route to a cluster that is not there.      *)
(* In "twice" a subset selects two services with an endpoint in common, in *)
(* "aged" the ingresses are as old as each other, in "outside" there are   *)
(* external services, in "aliased" two of them are one host.               *)
(***************************************************************************)
EXTENDS Parser

ref(c, s, p) == [name |-> c, subset |-> s, port |-> p]

route(r, conf) == [cluster |-> r, conf |-> conf, match |-> {}]

parameter(source, name, expr) == [source |-> source, name |-> name, expr |-> expr]

checking(r, match) == [cluster |-> r, conf |-> 1, match |-> match]

to(r) == [cluster |-> r, rate |-> 100]

match(host, n) == [host |-> host, rules |-> n]

rule(matches, routes, mirrors, splits) ==
  [match |-> matches, conf |-> "rule", route |-> routes, mirror |-> mirrors, split |-> splits]

ingress(name, ts, rules) == [name |-> name, ts |-> ts, http |-> rules]

c1 == ref("c1", "v1", "8080")
c2 == ref("c2", "v1", "8080")
c3 == ref("c3", "v1", "8080")
c2v9 == ref("c2", "v9", "8080")
c1http == ref("c1", "v1", "80")
c4 == ref("c4", "v1", "8080")
c4name == ref("c4", "v1", "http")

refOrder == <<c1http, c1, c2, c2v9, c3, c4, c4name>>

addrOrder == << <<"ip0", "8080">>, <<"ip1", "8080">>, <<"ip2", "8080">>, <<"out", "8080">> >>

policy(qps) == [qps |-> qps, lb |-> "hash"]

noPolicy == [none |-> TRUE]

subset(name, label, p) == [name |-> name, labels |-> {label}, policy |-> p]

clusters ==
  [c1 |-> [subsets |-> <<subset("v1", "one", noPolicy)>>, policy |-> policy(5)],
   c2 |-> [subsets |-> <<subset("v0", "none", noPolicy), subset("v1", "two", policy(3))>>, policy |-> policy(5)],
   c4 |-> [subsets |-> <<subset("v1", "ext", noPolicy)>>, policy |-> noPolicy]]

port(p, t, n) == [port |-> p, target |-> t, name |-> n]

service(name, labels, ports) ==
  [name |-> name, labels |-> labels, ports |-> ports, external |-> FALSE, host |-> ""]

external(name, ports, host) ==
  [name |-> name, labels |-> {"ext"}, ports |-> ports, external |-> TRUE, host |-> host]

svc1 == service("svc1", {"one"}, <<port("80", "8080", "")>>)
svc2 == service("svc2", {"two"}, <<port("443", "8443", "tls"), port("8080", "8080", "web")>>)

eport(n, p, tcp) == [name |-> n, port |-> p, tcp |-> tcp]

endpoints ==
  [svc1 |-> << [addrs |-> <<"ip1", "ip2">>, ports |-> <<eport("", "8080", TRUE), eport("", "8080", FALSE)>>],
               [addrs |-> <<"ip1">>, ports |-> <<eport("", "8080", TRUE)>>] >>,
   svc2 |-> << [addrs |-> <<"ip0">>, ports |-> <<eport("web", "8080", TRUE), eport("tls", "8443", TRUE)>>] >>]

ingA ==
  ingress("a", 1, << rule(<<match("h1", 2)>>, <<route(c1, 1)>>, <<to(c1)>>, <<>>),
                     rule(<<match("h2", 1), match("h3", 1)>>,
                          <<route(c1, 1), route(c2, 1), route(c3, 1), route(c2v9, 1)>>, <<>>, <<to(c2)>>) >>)

ingB == ingress("b", 2, << rule(<<match("h4", 1)>>, <<route(c2, 1), route(c1, 1)>>, <<>>, <<to(c1)>>) >>)

ingD == ingress("d", 2, << rule(<<match("h4", 1)>>, <<route(c2v9, 1)>>, <<>>, <<>>),
                           rule(<<match("h6", 1)>>, <<route(c1, 1)>>, <<>>, <<>>) >>)

plain ==
  [ingresses |-> {ingA, ingB}, clusters |-> clusters, services |-> {svc1, svc2}, endpoints |-> endpoints]

subsetMissing == [plain EXCEPT !.ingresses = {ingB, [ingD EXCEPT !.ts = 3]}]

aged == [plain EXCEPT !.ingresses = {ingB, ingD}]

twice ==
  [plain EXCEPT !.services = @ \cup {service("svc3", {"one"}, <<port("8080", "8080", "")>>)},
                !.endpoints = [n \in DOMAIN @ \cup {"svc3"} |->
                                 IF n = "svc3" THEN <<[addrs |-> <<"ip2">>, ports |-> <<eport("", "8080", TRUE)>>]>>
                                 ELSE @[n]]]

(* Two clusters have one server: as both say, or differently. *)
agreed == [plain EXCEPT !.clusters.c2.subsets = <<subset("v1", "one", noPolicy)>>]

disputed == [plain EXCEPT !.clusters.c2.subsets = <<subset("v1", "one", policy(3))>>]

ingC ==
  ingress("c", 3, << rule(<<match("h5", 1)>>, <<route(c4, 1), route(c4name, 1), route(c1, 1)>>, <<>>, <<>>) >>)

outside ==
  [plain EXCEPT !.ingresses = {ingC},
                !.services = {svc1, external("ext1", <<>>, "out"),
                              external("named", <<port("8080", "web", "")>>, "out")}]

(* Two names of one host. *)
aliased == [outside EXCEPT !.services = @ \cup {external("ext2", <<port("80", "8080", "")>>, "out")}]

withoutEndpoints == [plain EXCEPT !.endpoints = [n \in {"svc2"} |-> @[n]]]

(* Two ingresses of any rules out of seven, as old as each other or not. *)
someRules ==
  {rule(<<match("h1", 1)>>, <<route(c1, 1)>>, <<>>, <<>>),
   rule(<<match("h2", 2)>>, <<route(c2, 1), route(c1, 2)>>, <<to(c1)>>, <<>>),
   rule(<<match("h3", 1), match("h1", 1)>>, <<route(c2v9, 1), route(c2, 2)>>, <<>>, <<to(c1), to(c2)>>),
   rule(<<match("h2", 1)>>, <<route(c3, 1)>>, <<to(c2)>>, <<>>),
   rule(<<match("h4", 1)>>, <<checking(c1, {parameter("Header", 1, "malformed")})>>, <<>>, <<>>),
   rule(<<match("h4", 1)>>, <<>>, <<>>, <<>>),
   rule(<<>>, <<route(c2, 2)>>, <<>>, <<>>)}

pairs ==
  {[plain EXCEPT !.ingresses = {ingress("a", 1, <<x, y>>), ingress("b", ts, <<z>>)}] :
     x \in someRules, y \in someRules, z \in someRules, ts \in {1, 2}}

(* A route by the port of the service, 80, whose target port is 8080. *)
portStore ==
  [plain EXCEPT !.ingresses =
     {ingress("a", 1, << rule(<<match("h1", 1)>>, <<route(c1http, 1)>>, <<>>, <<>>) >>)}]

(* Twelve matches, the second with eleven rules. *)
manyStore ==
  [plain EXCEPT !.ingresses =
     {ingress("a", 1, << rule([k \in 1..12 |-> match("h1", IF k = 2 THEN 11 ELSE 1)],
                              <<route(c1, 1)>>, <<>>, <<>>) >>)}]

(* Every match on up to six parameters of four sources, whose maps are not   *)
(* gone through in the order of their numbers.                               *)
parameters == {parameter(s, n, "ok") : s \in {"Cookie", "FormData", "Header", "JSONBody"}, n \in 1..3}

matchStores ==
  {[plain EXCEPT !.ingresses =
      {ingress("a", 1, << rule(<<match("h1", 1)>>, <<checking(c1, m)>>, <<>>, <<>>) >>)}] :
     m \in {x \in SUBSET parameters : Cardinality(x) <= 6}}

(* Of the names 1 to 9, six in cookies, in any of 720 orders, and one in a   *)
(* form: Less(5 of the form, c) for c = 7, 8, 9 only, and sort.Slice begins  *)
(* with a pass over elements that are six places apart.                      *)
longStore ==
  [plain EXCEPT !.ingresses =
     {ingress("a", 1, << rule(<<match("h1", 1)>>,
        <<checking(c1, {parameter("Cookie", n, "ok") : n \in {1, 2, 3, 7, 8, 9}}
                          \cup {parameter("FormData", 5, "ok")})>>, <<>>, <<>>) >>)}]

safeStores ==
  pairs \cup matchStores
    \cup {longStore, plain, subsetMissing, aged, twice, agreed, disputed, outside, aliased, withoutEndpoints, portStore, manyStore}

numbers == {"80", "8080", "443", "8443"}
=============================================================================
