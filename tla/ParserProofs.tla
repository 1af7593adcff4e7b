---------------------------- MODULE ParserProofs ----------------------------
(***************************************************************************)
(* Theorems about Parser, for stores of any size.                          *)
(***************************************************************************)
EXTENDS Parser, ListTheorems

-----------------------------------------------------------------------------
(***************************************************************************)
(* The inductive invariant.                                                *)
(***************************************************************************)
Positive == Nat \ {0}

Pointers == Positive \X Positive \X Positive \X Positive

(* Rule j of ingress i has been parsed. *)
Behind(i, j) == i < at[1] \/ (i = at[1] /\ j < at[2])

Rules(i) == ings[i].http

(* Where Build stands. *)
Phase ==
  /\ pc \in {"list", "parse", "fill", "collect", "done"}
  /\ store \in Stores /\ builds \in 1..MaxBuilds
  /\ IsList(ings) /\ (pc = "list" \/ ToSet(ings) = store.ingresses)
  /\ at \in Positive \X Positive
  /\ pc = "list" => ings = <<>> /\ DOMAIN heap = {} /\ DOMAIN services = {} /\ apis = <<>>
  /\ pc = "parse" => at[1] <= Len(ings) + 1
  /\ pc = "parse" /\ at[1] <= Len(ings) => at[2] <= Len(Rules(at[1])) + 1
  /\ pc \in {"fill", "collect", "done"} => at[1] > Len(ings)
  /\ left \subseteq DOMAIN services
  /\ pc = "done" => left = {}

APIFields == {"name", "host", "conf", "rule", "proxies", "routings"}

(* Every API comes from a rule that has been parsed, and is named for it. *)
APIMade(p) ==
  /\ p \in Pointers /\ p[1] <= Len(ings) /\ p[2] <= Len(Rules(p[1])) /\ Behind(p[1], p[2])
  /\ DOMAIN heap[p] = APIFields
  /\ heap[p].name = APIName(ings[p[1]], p) /\ heap[p].rule = Rules(p[1])[p[2]]
  /\ IsList(heap[p].routings)
  /\ \A r \in ToSet(heap[p].routings) : r.api = heap[p].name

HeapMade ==
  /\ \A p \in DOMAIN heap : APIMade(p)
  /\ IsList(apis)
  /\ ToSet(apis) = {p \in DOMAIN heap : p[1] = at[1]}

(* The rules behind, from the API's own to the end of its ingress, that have *)
(* a route to s.                                                             *)
Leads(p, s) ==
  \E j \in p[2]..Len(Rules(p[1])) : Behind(p[1], j) /\ s \in Found(Rules(p[1])[j])

(* A service has the APIs that lead to it, and servers made for it. *)
ServiceMade(s) ==
  /\ DOMAIN services[s] = {"apis", "subset", "servers"}
  /\ Resolve(s) # {}
  /\ IsList(services[s].apis) /\ ToSet(services[s].apis) = {p \in DOMAIN heap : Leads(p, s)}
  /\ IsList(services[s].servers)
  /\ \A n \in 1..Len(services[s].servers) :
       services[s].servers[n] =
         Server(services[s].servers[n].addr, services[s].subset.policy, Len(services[s].servers))

ServicesMade ==
  /\ \A s \in DOMAIN services : ServiceMade(s)
  /\ \A i \in 1..Len(ings) : \A j \in 1..Len(Rules(i)) :
       Behind(i, j) => Found(Rules(i)[j]) \subseteq DOMAIN services

(* The services whose turn in the loop of fillOverride is over. *)
FilledServices ==
  IF pc \in {"list", "parse"} THEN {}
  ELSE IF pc = "fill" THEN DOMAIN services \ left
  ELSE DOMAIN services

(* An API has a node for each of them that has the API. *)
NodesMade ==
  \A p \in DOMAIN heap :
    DOMAIN heap[p].proxies =
      {s \in FilledServices : p \in ToSet(services[s].apis) /\ heap[p].rule.route # <<>>}

ListKinds == {"api", "routing", "cluster", "server"}

KeyOf(kind, x) == IF kind = "server" THEN x.addr ELSE x.name

(* The keys are those of what is kept, and nothing is kept twice. *)
Unique(acc) ==
  /\ DOMAIN acc = {"keys", "state"} /\ DOMAIN acc.state = ListKinds
  /\ \A kind \in ListKinds :
       /\ IsList(acc.state[kind])
       /\ \A n \in 1..Len(acc.state[kind]) : <<kind, KeyOf(kind, acc.state[kind][n])>> \in acc.keys
       /\ \A m, n \in 1..Len(acc.state[kind]) :
            m # n => KeyOf(kind, acc.state[kind][m]) # KeyOf(kind, acc.state[kind][n])
  /\ \A x \in acc.keys :
       \E kind \in ListKinds : \E y \in ToSet(acc.state[kind]) : x = <<kind, KeyOf(kind, y)>>

(* What is kept comes from the heap and the services. *)
Origins ==
  /\ \A a \in ToSet(state.api) : \E p \in DOMAIN heap : a = Sent(heap[p])
  /\ \A r \in ToSet(state.routing) : <<"api", r.api>> \in keysMap
  /\ \A c \in ToSet(state.cluster) : c.name \in DOMAIN services /\ c = Cluster(c.name)
  /\ \A x \in ToSet(state.server) : \E s \in DOMAIN services : x \in ToSet(services[s].servers)

(* A service is collected with its APIs and its servers. *)
CollectedWhole(s) ==
  /\ <<"cluster", s>> \in keysMap
  /\ \A p \in ToSet(services[s].apis) : <<"api", heap[p].name>> \in keysMap
  /\ \A x \in ToSet(services[s].servers) : <<"server", x.addr>> \in keysMap

StateMade ==
  /\ Unique([keys |-> keysMap, state |-> state])
  /\ pc \in {"list", "parse", "fill"} => keysMap = {} /\ state = NoState
  /\ Origins
  /\ pc \in {"collect", "done"} => \A s \in DOMAIN services \ left : CollectedWhole(s)

IInv == Phase /\ HeapMade /\ ServicesMade /\ NodesMade /\ StateMade

-----------------------------------------------------------------------------
(***************************************************************************)
(* The loops of parseIngressRules.                                         *)
(***************************************************************************)
(* What the assumption says about the store that is being parsed. *)
LEMMA RuleLists ==
  ASSUME Phase, NEW i \in 1..Len(ings), pc # "list"
  PROVE  /\ ings[i] \in store.ingresses /\ IsList(Rules(i))
         /\ \A j \in 1..Len(Rules(i)) :
              LET rule == Rules(i)[j]
              IN  /\ IsList(rule.match) /\ IsList(rule.route) /\ IsList(rule.mirror) /\ IsList(rule.split)
                  /\ \A k \in 1..Len(rule.match) : rule.match[k].rules \in Nat
<1>1. IsList(ings) /\ ToSet(ings) = store.ingresses /\ store \in Stores
  BY DEF Phase
<1>2. ings[i] \in store.ingresses
  BY <1>1, ListDomain
<1>3. IsList(Rules(i))
  BY <1>1, <1>2, StoresAssumption DEF Rules
<1>4. ASSUME NEW j \in 1..Len(Rules(i))
      PROVE  /\ Rules(i)[j] \in ToSet(Rules(i))
             /\ IsList(Rules(i)[j].match) /\ IsList(Rules(i)[j].route)
             /\ IsList(Rules(i)[j].mirror) /\ IsList(Rules(i)[j].split)
             /\ \A k \in 1..Len(Rules(i)[j].match) : Rules(i)[j].match[k].rules \in Nat
  <2>1. Rules(i)[j] \in ToSet(Rules(i))
    BY <1>3, ListDomain
  <2>2. /\ IsList(Rules(i)[j].match) /\ IsList(Rules(i)[j].route)
        /\ IsList(Rules(i)[j].mirror) /\ IsList(Rules(i)[j].split)
        /\ \A m \in ToSet(Rules(i)[j].match) : m.rules \in Nat
    BY <1>1, <1>2, <2>1, StoresAssumption DEF Rules
  <2> QED
    BY <2>1, <2>2, ListDomain
<1> QED
  BY <1>2, <1>3, <1>4

(* The pointers of a rule: one for each rule of each match. *)
LEMMA PointersMade ==
  ASSUME NEW i, NEW j, NEW rule, IsList(rule.match),
         \A k \in 1..Len(rule.match) : rule.match[k].rules \in Nat
  PROVE  /\ IsList(PointersOf(i, j, rule))
         /\ \A p : p \in ToSet(PointersOf(i, j, rule)) <=>
              \E k \in 1..Len(rule.match) : \E g \in 1..rule.match[k].rules : p = <<i, j, k, g>>
<1> DEFINE n == Len(rule.match)
           part(k) == [g \in 1..rule.match[k].rules |-> <<i, j, k, g>>]
           q == [k \in 1..n |-> part(k)]
<1>1. n \in Nat
  BY ListDomain
<1>2. ASSUME NEW k \in 1..n
      PROVE  /\ IsList(part(k))
             /\ \A p : p \in ToSet(part(k)) <=> \E g \in 1..rule.match[k].rules : p = <<i, j, k, g>>
  <2> DEFINE m == rule.match[k].rules
             f == part(k)
             ptr(g) == <<i, j, k, g>>
  <2>1. m \in Nat
    BY <1>2
  <2>2. \A g \in 1..m : f[g] = ptr(g)
    OBVIOUS
  <2>3. f = [g \in 1..m |-> f[g]]
    OBVIOUS
  <2> HIDE DEF f, m, ptr
  <2>4. IsList(f) /\ Len(f) = m
    BY <2>1, <2>3, ListMade
  <2>5. \A p : p \in ToSet(f) <=> \E g \in 1..m : p = ptr(g)
    BY <2>2, <2>4, ListDomain
  <2> QED
    BY <2>4, <2>5 DEF f, m, ptr
<1>3. PointersOf(i, j, rule) = FlattenSeq(q)
  BY DEF PointersOf
<1>4. q = [k \in 1..n |-> q[k]] /\ \A k \in 1..n : q[k] = part(k)
  OBVIOUS
<1> HIDE DEF q, n, part
<1>5. \A k \in 1..n : IsList(q[k])
  BY <1>2, <1>4
<1>6. /\ IsList(FlattenSeq(q))
      /\ \A x : x \in ToSet(FlattenSeq(q)) <=> \E k \in 1..n : x \in ToSet(q[k])
  BY <1>1, <1>4, <1>5, Flattened
<1>7. \A p : p \in ToSet(FlattenSeq(q)) <=>
             \E k \in 1..n : \E g \in 1..rule.match[k].rules : p = <<i, j, k, g>>
  BY <1>2, <1>4, <1>6
<1> QED
  BY <1>3, <1>6, <1>7 DEF n

SvcFields == {"apis", "subset", "servers"}

AddOp(c, a, route) == AddRoute(a, route.cluster, c.ptrs)

(* After i routes: who is a service, with which APIs. *)
AddInv(c, i, a) ==
  /\ DOMAIN c.base \subseteq DOMAIN a
  /\ \A s \in DOMAIN a : s \in DOMAIN c.base \/ Resolve(s) # {}
  /\ \A j \in 1..i : Resolve(c.routes[j].cluster) # {} => c.routes[j].cluster \in DOMAIN a
  /\ \A s \in DOMAIN a :
       /\ DOMAIN a[s] = SvcFields /\ IsList(a[s].apis)
       /\ s \in DOMAIN c.base => a[s].servers = c.base[s].servers /\ a[s].subset = c.base[s].subset
       /\ s \notin DOMAIN c.base => a[s].servers = <<>>
       /\ \A p : p \in ToSet(a[s].apis) <=>
            \/ s \in DOMAIN c.base /\ p \in ToSet(c.base[s].apis)
            \/ p \in ToSet(c.ptrs) /\ \E j \in 1..i : s = c.routes[j].cluster
  /\ \A s \in DOMAIN a : s \in DOMAIN c.base \/ \E j \in 1..i : s = c.routes[j].cluster

Adding == INSTANCE FoldTheorems WITH Op <- AddOp, Inv <- AddInv

(* A route makes its service, or gives it the APIs. *)
LEMMA AddStep ==
  ASSUME NEW c, NEW i \in Nat, NEW a, IsList(c.ptrs), AddInv(c, i, a)
  PROVE  AddInv(c, i + 1, AddOp(c, a, c.routes[i + 1]))
<1> DEFINE ref == c.routes[i + 1].cluster
           b == AddRoute(a, ref, c.ptrs)
<1>1. \A j : j \in 1..(i + 1) <=> j \in 1..i \/ j = i + 1
  OBVIOUS
<1>2. CASE ref \in DOMAIN a
  <2>1. /\ DOMAIN b = DOMAIN a
        /\ \A s \in DOMAIN a : s # ref => b[s] = a[s]
        /\ b[ref] = [a[ref] EXCEPT !.apis = @ \o c.ptrs]
    BY <1>2 DEF AddRoute
  <2>2. DOMAIN a[ref] = SvcFields /\ IsList(a[ref].apis)
    BY <1>2 DEF AddInv
  <2>3. /\ DOMAIN b[ref] = SvcFields
        /\ b[ref].subset = a[ref].subset /\ b[ref].servers = a[ref].servers
        /\ b[ref].apis = a[ref].apis \o c.ptrs
    BY <2>1, <2>2 DEF SvcFields
  <2>4. IsList(b[ref].apis) /\ ToSet(b[ref].apis) = ToSet(a[ref].apis) \cup ToSet(c.ptrs)
    BY <2>2, <2>3, ListConcat
  <2> HIDE DEF b
  <2>5. AddInv(c, i + 1, b)
    <3>1. DOMAIN c.base \subseteq DOMAIN b /\ \A s \in DOMAIN b : s \in DOMAIN c.base \/ Resolve(s) # {}
      BY <2>1 DEF AddInv
    <3>2. \A j \in 1..(i + 1) : Resolve(c.routes[j].cluster) # {} => c.routes[j].cluster \in DOMAIN b
      BY <1>1, <1>2, <2>1 DEF AddInv
    <3>3. ASSUME NEW s \in DOMAIN b
          PROVE  /\ DOMAIN b[s] = SvcFields /\ IsList(b[s].apis)
                 /\ s \in DOMAIN c.base => b[s].servers = c.base[s].servers /\ b[s].subset = c.base[s].subset
                 /\ s \notin DOMAIN c.base => b[s].servers = <<>>
                 /\ \A p : p \in ToSet(b[s].apis) <=>
                      \/ s \in DOMAIN c.base /\ p \in ToSet(c.base[s].apis)
                      \/ p \in ToSet(c.ptrs) /\ \E j \in 1..(i + 1) : s = c.routes[j].cluster
      <4>1. CASE s = ref
        BY <1>1, <1>2, <2>1, <2>3, <2>4, <4>1 DEF AddInv
      <4>2. CASE s # ref
        BY <1>1, <2>1, <4>2 DEF AddInv
      <4> QED
        BY <4>1, <4>2
    <3>4. \A s \in DOMAIN b : s \in DOMAIN c.base \/ \E j \in 1..(i + 1) : s = c.routes[j].cluster
      BY <1>1, <2>1 DEF AddInv
    <3> QED
      BY <3>1, <3>2, <3>3, <3>4 DEF AddInv
  <2> QED
    BY <2>5 DEF AddOp, b
<1>3. CASE ref \notin DOMAIN a /\ Resolve(ref) = {}
  <2>1. b = a
    BY <1>3 DEF AddRoute
  <2>2. \A s \in DOMAIN a : s # ref
    BY <1>3
  <2>3. AddInv(c, i + 1, a)
    BY <1>1, <1>3, <2>2 DEF AddInv
  <2> QED
    BY <2>1, <2>3 DEF AddOp
<1>4. CASE ref \notin DOMAIN a /\ Resolve(ref) # {}
  <2> DEFINE new == [apis |-> c.ptrs, subset |-> CHOOSE s \in Resolve(ref) : TRUE, servers |-> <<>>]
  <2>1. b = [r \in DOMAIN a \cup {ref} |-> IF r # ref THEN a[r] ELSE new]
    BY <1>4 DEF AddRoute
  <2>2. DOMAIN new = SvcFields /\ new.apis = c.ptrs /\ new.servers = <<>>
    BY DEF SvcFields
  <2> HIDE DEF new, b
  <2>3. /\ DOMAIN b = DOMAIN a \cup {ref} /\ b[ref] = new
        /\ \A s \in DOMAIN a : s # ref /\ b[s] = a[s]
    BY <1>4, <2>1
  <2>4. ref \notin DOMAIN c.base
    BY <1>4 DEF AddInv
  <2>5. \A j \in 1..i : c.routes[j].cluster # ref
    BY <1>4 DEF AddInv
  <2>6. AddInv(c, i + 1, b)
    <3>1. DOMAIN c.base \subseteq DOMAIN b /\ \A s \in DOMAIN b : s \in DOMAIN c.base \/ Resolve(s) # {}
      BY <1>4, <2>3 DEF AddInv
    <3>2. \A j \in 1..(i + 1) : Resolve(c.routes[j].cluster) # {} => c.routes[j].cluster \in DOMAIN b
      BY <1>1, <2>3 DEF AddInv
    <3>3. ASSUME NEW s \in DOMAIN b
          PROVE  /\ DOMAIN b[s] = SvcFields /\ IsList(b[s].apis)
                 /\ s \in DOMAIN c.base => b[s].servers = c.base[s].servers /\ b[s].subset = c.base[s].subset
                 /\ s \notin DOMAIN c.base => b[s].servers = <<>>
                 /\ \A p : p \in ToSet(b[s].apis) <=>
                      \/ s \in DOMAIN c.base /\ p \in ToSet(c.base[s].apis)
                      \/ p \in ToSet(c.ptrs) /\ \E j \in 1..(i + 1) : s = c.routes[j].cluster
      <4>1. CASE s = ref
        BY <1>1, <2>2, <2>3, <2>4, <4>1 DEF AddInv
      <4>2. CASE s # ref
        BY <1>1, <2>3, <4>2 DEF AddInv
      <4> QED
        BY <4>1, <4>2
    <3>4. \A s \in DOMAIN b : s \in DOMAIN c.base \/ \E j \in 1..(i + 1) : s = c.routes[j].cluster
      BY <1>1, <2>3 DEF AddInv
    <3> QED
      BY <3>1, <3>2, <3>3, <3>4 DEF AddInv
  <2> QED
    BY <2>6 DEF AddOp, b
<1> QED
  BY <1>2, <1>3, <1>4

(* What the routes of a rule make of the services. *)
LEMMA RoutesAdded ==
  ASSUME NEW svcs, NEW routes, NEW ptrs, IsList(routes), IsList(ptrs),
         \A s \in DOMAIN svcs : DOMAIN svcs[s] = SvcFields /\ IsList(svcs[s].apis)
  PROVE  LET c == [base |-> svcs, routes |-> routes, ptrs |-> ptrs]
         IN  AddInv(c, Len(routes), AddRoutes(svcs, routes, ptrs))
<1> DEFINE c == [base |-> svcs, routes |-> routes, ptrs |-> ptrs]
           n == Len(routes)
<1>1. c.base = svcs /\ c.routes = routes /\ c.ptrs = ptrs
  OBVIOUS
<1> HIDE DEF c
<1>2. n \in Nat /\ DOMAIN routes = 1..n
  BY ListDomain
<1>3. AddInv(c, 0, svcs)
  <2>1. \A j \in 1..0 : FALSE
    OBVIOUS
  <2> QED
    BY <1>1, <2>1 DEF AddInv
<1>4. \A j \in 1..n : \A a : AddInv(c, j - 1, a) => AddInv(c, j, AddOp(c, a, routes[j]))
  <2> SUFFICES ASSUME NEW j \in 1..n, NEW a, AddInv(c, j - 1, a)
               PROVE  AddInv(c, j, AddOp(c, a, routes[j]))
    OBVIOUS
  <2>1. j - 1 \in Nat /\ (j - 1) + 1 = j
    BY <1>2
  <2> QED
    BY <1>1, <2>1, AddStep
<1>5. AddInv(c, n, Adding!Fold(c, svcs, routes))
  <2> HIDE DEF n
  <2> QED
    BY <1>2, <1>3, <1>4, Adding!FoldKeeps
<1>6. AddRoutes(svcs, routes, ptrs) = Adding!Fold(c, svcs, routes)
  BY <1>1 DEF AddRoutes, AddOp, Adding!Fold, Adding!MapThenFoldSet, Adding!Last,
       FoldLeft, MapThenFoldSet, Max
<1> QED
  BY <1>5, <1>6 DEF c

-----------------------------------------------------------------------------
(***************************************************************************)
(* Endpoints: the servers of a service are a list.                         *)
(***************************************************************************)
KeepOp(c, acc, x) == IF x[2] = c THEN Append(acc, x) ELSE acc

Keeping == INSTANCE FoldTheorems WITH Op <- KeepOp, Inv <- ListInv

(* Selecting endpoints by their port makes a list of a list. *)
LEMMA WithPortList ==
  ASSUME NEW list, NEW port, IsList(list)
  PROVE  IsList(WithPort(list, port))
<1>1. Len(list) \in Nat /\ DOMAIN list = 1..Len(list)
  BY ListDomain
<1>2. ListInv(port, 0, <<>>)
  BY ListEmpty DEF ListInv
<1>3. \A j \in 1..Len(list) : \A a : ListInv(port, j - 1, a) => ListInv(port, j, KeepOp(port, a, list[j]))
  BY ListAppend DEF ListInv, KeepOp
<1>4. ListInv(port, Len(list), Keeping!Fold(port, <<>>, list))
  BY <1>1, <1>2, <1>3, Keeping!FoldKeeps
<1>5. WithPort(list, port) = Keeping!Fold(port, <<>>, list)
  BY DEF WithPort, KeepOp, Keeping!Fold, Keeping!MapThenFoldSet, Keeping!Last,
       FoldLeft, MapThenFoldSet, Max
<1> QED
  BY <1>4, <1>5 DEF ListInv

(* The endpoints of a service are listed as a list. *)
LEMMA ListedList ==
  ASSUME store \in Stores, NEW svc, NEW port
  PROVE  IsList(Listed(svc, port))
<1> DEFINE subsets == GetEndpointsForService(svc.name)
           part(ss, m) == IF ss.ports[m].tcp /\ port.name \in {"", ss.ports[m].name}
                          THEN [a \in 1..Len(ss.addrs) |-> <<ss.addrs[a], ss.ports[m].port>>] ELSE <<>>
           parts(ss) == [m \in 1..Len(ss.ports) |-> part(ss, m)]
           all == [n \in 1..Len(subsets) |-> FlattenSeq(parts(subsets[n]))]
<1>1. IsList(subsets) /\ \A ss \in ToSet(subsets) : IsList(ss.addrs) /\ IsList(ss.ports)
  <2>1. CASE svc.name \in DOMAIN store.endpoints
    BY <2>1, StoresAssumption DEF GetEndpointsForService
  <2>2. CASE svc.name \notin DOMAIN store.endpoints
    BY <2>2, ListEmpty DEF GetEndpointsForService
  <2> QED
    BY <2>1, <2>2
<1>2. ASSUME NEW ss, IsList(ss.addrs), IsList(ss.ports)
      PROVE  IsList(FlattenSeq(parts(ss)))
  <2>1. Len(ss.addrs) \in Nat /\ Len(ss.ports) \in Nat
    BY <1>2, ListDomain
  <2>2. ASSUME NEW m
        PROVE  IsList(part(ss, m))
    <3> DEFINE f == [a \in 1..Len(ss.addrs) |-> <<ss.addrs[a], ss.ports[m].port>>]
    <3>1. f = [a \in 1..Len(ss.addrs) |-> f[a]]
      OBVIOUS
    <3> HIDE DEF f
    <3>2. IsList(f)
      BY <2>1, <3>1, ListMade
    <3> QED
      BY <3>2, ListEmpty DEF f
  <2>3. parts(ss) = [m \in 1..Len(ss.ports) |-> parts(ss)[m]] /\ \A m \in 1..Len(ss.ports) : IsList(parts(ss)[m])
    <3> HIDE DEF part
    <3> QED
      BY <2>2
  <2> HIDE DEF parts
  <2> QED
    BY <2>1, <2>3, Flattened
<1>3. Listed(svc, port) = FlattenSeq(all)
  BY DEF Listed
<1>4. Len(subsets) \in Nat /\ \A n \in 1..Len(subsets) : subsets[n] \in ToSet(subsets)
  BY <1>1, ListDomain
<1> HIDE DEF subsets, parts
<1>5. all = [n \in 1..Len(subsets) |-> all[n]] /\ \A n \in 1..Len(subsets) : IsList(all[n])
  BY <1>1, <1>2, <1>4
<1> HIDE DEF all
<1> QED
  BY <1>3, <1>4, <1>5, Flattened

(* So are those that are left once repeated addresses are left out. *)
LEMMA EndpointsList ==
  ASSUME store \in Stores, NEW svc, NEW port
  PROVE  IsList(getEndpoints(svc, port))
<1> DEFINE list == Listed(svc, port)
           once == AddingOnce!Fold(0, <<>>, list)
<1>1. IsList(list)
  BY ListedList
<1> HIDE DEF list
<1>2. Len(list) \in Nat /\ DOMAIN list = 1..Len(list)
  BY <1>1, ListDomain
<1>3. ListInv(0, 0, <<>>)
  BY ListEmpty DEF ListInv
<1>4. \A j \in 1..Len(list) : \A a : ListInv(0, j - 1, a) => ListInv(0, j, OnceOp(0, a, list[j]))
  BY ListAppend DEF ListInv, OnceOp
<1>5. IsList(once)
  <2>1. ListInv(0, Len(list), AddingOnce!Fold(0, <<>>, list))
    BY <1>2, <1>3, <1>4, AddingOnce!FoldKeeps
  <2> QED
    BY <2>1 DEF ListInv
<1>6. IsList(External(svc, port))
  <2> DEFINE one == << <<svc.host, port.target>> >>
  <2>1. IsList(one)
    BY DEF IsList, ToSet
  <2> QED
    BY <2>1, ListEmpty DEF External
<1>7. getEndpoints(svc, port) = IF svc.external THEN External(svc, port) ELSE once
  BY DEF getEndpoints, list, OnceOp, AddingOnce!Fold, AddingOnce!MapThenFoldSet,
       AddingOnce!Last, FoldLeft, MapThenFoldSet, Max
<1> QED
  BY <1>5, <1>6, <1>7

(* The servers behind a reference are a list. *)
LEMMA ServersList ==
  ASSUME store \in Stores, NEW labels, NEW list \in SetToSeqs(ListServices(labels)), NEW port
  PROVE  IsList(getServiceEndpoints(list, port))
<1> DEFINE I == {i \in 1..Len(list) : Refuses(list[i], port)}
           stop == IF I # {} THEN Min(I) ELSE 0
           upTo == IF stop = 0 THEN Len(list) ELSE stop - 1
           q == [n \in 1..upTo |-> WithPort(getEndpoints(list[n], ServicePort(list[n], port)), port)]
<1>1. IsFiniteSet(ListServices(labels))
  <2>1. IsFiniteSet(store.services) /\ ListServices(labels) \subseteq store.services
    BY StoresAssumption DEF ListServices
  <2> QED
    BY <2>1, FS_Subset
<1>2. IsList(list) /\ Len(list) \in Nat
  BY <1>1, SetListed, ListDomain
<1>3. stop \in 0..Len(list)
  <2>1. I \in SUBSET (1..Len(list))
    OBVIOUS
  <2> HIDE DEF I
  <2>2. I # {} => Min(I) \in 1..Len(list)
    BY <1>2, <2>1, FirstFound
  <2> QED
    BY <1>2, <2>2
<1>4. getServiceEndpoints(list, port) = FlattenSeq(q)
  BY DEF getServiceEndpoints, SelectInSeq
<1> HIDE DEF stop
<1>5. upTo \in Nat
  BY <1>2, <1>3
<1> HIDE DEF upTo
<1>6. q = [n \in 1..upTo |-> q[n]] /\ \A n \in 1..upTo : IsList(q[n])
  BY EndpointsList, WithPortList
<1> HIDE DEF q
<1> QED
  BY <1>4, <1>5, <1>6, Flattened

-----------------------------------------------------------------------------
(***************************************************************************)
(* The loop of fillOverride over the APIs of a service.                    *)
(***************************************************************************)
WellFormed(api) ==
  /\ DOMAIN api = APIFields /\ IsList(api.routings)
  /\ IsList(api.rule.mirror) /\ IsList(api.rule.split)

(* What filling leaves as it is. *)
SameRule(api, old) ==
  /\ api.name = old.name /\ api.host = old.host /\ api.conf = old.conf /\ api.rule = old.rule
  /\ \A r \in ToSet(api.routings) : r \in ToSet(old.routings) \/ r.api = old.name

(* The routings of an API carry its name. *)
LEMMA RoutingsParsed ==
  ASSUME NEW api, NEW routings, NEW strategy, IsList(routings)
  PROVE  LET f == parseRouting(api, routings, strategy)
         IN  IsList(f) /\ \A r \in ToSet(f) : r.api = api.name
<1> DEFINE f == parseRouting(api, routings, strategy)
<1>1. Len(routings) \in Nat
  BY ListDomain
<1>2. f = [n \in 1..Len(routings) |-> f[n]] /\ \A n \in 1..Len(routings) : f[n].api = api.name
  BY DEF parseRouting
<1> HIDE DEF f
<1>3. IsList(f) /\ Len(f) = Len(routings)
  BY <1>1, <1>2, ListMade
<1>4. \A r \in ToSet(f) : r.api = api.name
  BY <1>2, <1>3, ListDomain
<1> QED
  BY <1>3, <1>4 DEF f

(* Filling an API gives it routings, and a node for the service. *)
LEMMA APIFilled ==
  ASSUME NEW api, NEW s, NEW new \in fillAPI(api, s), WellFormed(api)
  PROVE  /\ WellFormed(new) /\ SameRule(new, api)
         /\ \A t : t \in DOMAIN new.proxies <=>
              t \in DOMAIN api.proxies \/ (t = s /\ api.rule.route # <<>>)
<1> DEFINE m == parseRouting(api, api.rule.mirror, "mirror")
           sp == parseRouting(api, api.rule.split, "split")
           all == api.routings \o m \o sp
           routed == [api EXCEPT !.routings = all]
           noded(node) == [routed EXCEPT !.proxies = [r \in DOMAIN @ \cup {s} |-> IF r = s THEN node ELSE @[r]]]
<1>1. IsList(m) /\ IsList(sp) /\ (\A r \in ToSet(m) : r.api = api.name) /\ (\A r \in ToSet(sp) : r.api = api.name)
  BY RoutingsParsed DEF WellFormed
<1>2. fillAPI(api, s) = IF api.rule.route = <<>> \/ s \in DOMAIN api.proxies THEN {routed}
                        ELSE {noded(node) : node \in DispatchNode(api)}
  BY DEF fillAPI
<1> HIDE DEF m, sp
<1>3. IsList(all) /\ ToSet(all) = ToSet(api.routings) \cup ToSet(m) \cup ToSet(sp)
  BY <1>1, ListConcat DEF WellFormed
<1> HIDE DEF all
<1>4. /\ DOMAIN routed = APIFields
      /\ routed.name = api.name /\ routed.host = api.host /\ routed.conf = api.conf /\ routed.rule = api.rule
      /\ routed.proxies = api.proxies /\ routed.routings = all
  BY DEF WellFormed, APIFields
<1> HIDE DEF routed
<1>5. WellFormed(routed) /\ SameRule(routed, api)
  BY <1>1, <1>3, <1>4 DEF WellFormed, SameRule
<1>6. CASE api.rule.route = <<>> \/ s \in DOMAIN api.proxies
  <2>1. new = routed
    BY <1>2, <1>6
  <2> QED
    BY <1>4, <1>5, <1>6, <2>1
<1>7. CASE ~(api.rule.route = <<>> \/ s \in DOMAIN api.proxies)
  <2>1. PICK node : new = noded(node)
    <3> HIDE DEF noded
    <3>1. new \in {noded(node) : node \in DispatchNode(api)}
      BY <1>2, <1>7
    <3> QED
      BY <3>1
  <2>2. /\ DOMAIN new = APIFields
        /\ new.name = routed.name /\ new.host = routed.host /\ new.conf = routed.conf /\ new.rule = routed.rule
        /\ new.routings = routed.routings
        /\ DOMAIN new.proxies = DOMAIN api.proxies \cup {s}
    <3> DEFINE pr == [r \in DOMAIN routed.proxies \cup {s} |-> IF r = s THEN node ELSE routed.proxies[r]]
    <3>1. new = [routed EXCEPT !.proxies = pr]
      BY <2>1
    <3>2. DOMAIN pr = DOMAIN api.proxies \cup {s}
      BY <1>4
    <3> HIDE DEF pr, noded
    <3> QED
      BY <1>4, <3>1, <3>2 DEF APIFields
  <2>3. WellFormed(new) /\ SameRule(new, api)
    BY <1>5, <2>2 DEF WellFormed, SameRule
  <2> QED
    BY <1>7, <2>2, <2>3
<1> QED
  BY <1>6, <1>7

FillOp(c, heaps, p) == UNION {{[h EXCEPT ![p] = api] : api \in fillAPI(h[p], c.s)} : h \in heaps}

(* The heaps that the first i APIs may have led to. *)
FilledHeap(c, i, h) ==
  /\ DOMAIN h = DOMAIN c.h0
  /\ \A p \in DOMAIN h :
       /\ WellFormed(h[p]) /\ SameRule(h[p], c.h0[p])
       /\ \A t : t \in DOMAIN h[p].proxies <=>
            \/ t \in DOMAIN c.h0[p].proxies
            \/ t = c.s /\ c.h0[p].rule.route # <<>> /\ \E j \in 1..i : p = c.ptrs[j]

FillInv(c, i, heaps) == \A h \in heaps : FilledHeap(c, i, h)

Filling == INSTANCE FoldTheorems WITH Op <- FillOp, Inv <- FillInv

(* One API more. *)
LEMMA FillStep ==
  ASSUME NEW c, NEW i \in Nat, NEW heaps, FillInv(c, i, heaps), c.ptrs[i + 1] \in DOMAIN c.h0
  PROVE  FillInv(c, i + 1, FillOp(c, heaps, c.ptrs[i + 1]))
<1> DEFINE p == c.ptrs[i + 1]
<1> SUFFICES ASSUME NEW g \in FillOp(c, heaps, p)
             PROVE  FilledHeap(c, i + 1, g)
  BY DEF FillInv
<1>1. PICK h \in heaps : \E api \in fillAPI(h[p], c.s) : g = [h EXCEPT ![p] = api]
  BY DEF FillOp
<1>2. PICK api \in fillAPI(h[p], c.s) : g = [h EXCEPT ![p] = api]
  BY <1>1
<1>3. FilledHeap(c, i, h)
  BY <1>1 DEF FillInv
<1>4. p \in DOMAIN h /\ WellFormed(h[p]) /\ SameRule(h[p], c.h0[p])
  BY <1>3 DEF FilledHeap
<1>5. DOMAIN g = DOMAIN c.h0 /\ g[p] = api /\ \A q \in DOMAIN h : q # p => g[q] = h[q]
  BY <1>2, <1>3, <1>4 DEF FilledHeap
<1>6. /\ WellFormed(api) /\ SameRule(api, h[p])
      /\ \A t : t \in DOMAIN api.proxies <=> t \in DOMAIN h[p].proxies \/ (t = c.s /\ h[p].rule.route # <<>>)
  BY <1>2, <1>4, APIFilled
<1>7. SameRule(api, c.h0[p]) /\ h[p].rule = c.h0[p].rule
  BY <1>4, <1>6 DEF SameRule
<1>8. \A j : j \in 1..(i + 1) <=> j \in 1..i \/ j = i + 1
  OBVIOUS
<1>9. ASSUME NEW q \in DOMAIN g
      PROVE  /\ WellFormed(g[q]) /\ SameRule(g[q], c.h0[q])
             /\ \A t : t \in DOMAIN g[q].proxies <=>
                  \/ t \in DOMAIN c.h0[q].proxies
                  \/ t = c.s /\ c.h0[q].rule.route # <<>> /\ \E j \in 1..(i + 1) : q = c.ptrs[j]
  <2>1. CASE q = p
    BY <1>3, <1>4, <1>5, <1>6, <1>7, <1>8, <2>1 DEF FilledHeap
  <2>2. CASE q # p
    BY <1>3, <1>5, <1>8, <2>2 DEF FilledHeap
  <2> QED
    BY <2>1, <2>2
<1> QED
  BY <1>5, <1>9 DEF FilledHeap

(* The loop over all APIs of a service. *)
LEMMA APIsFilled ==
  ASSUME NEW h0, NEW ptrs, NEW s, IsList(ptrs), ToSet(ptrs) \subseteq DOMAIN h0,
         \A p \in DOMAIN h0 : WellFormed(h0[p]), NEW h \in fillAPIs(h0, ptrs, s)
  PROVE  /\ DOMAIN h = DOMAIN h0
         /\ \A p \in DOMAIN h :
              /\ WellFormed(h[p]) /\ SameRule(h[p], h0[p])
              /\ \A t : t \in DOMAIN h[p].proxies <=>
                   \/ t \in DOMAIN h0[p].proxies
                   \/ t = s /\ h0[p].rule.route # <<>> /\ p \in ToSet(ptrs)
<1> DEFINE c == [h0 |-> h0, ptrs |-> ptrs, s |-> s]
           n == Len(ptrs)
<1>1. c.h0 = h0 /\ c.ptrs = ptrs /\ c.s = s
  OBVIOUS
<1> HIDE DEF c
<1>2. n \in Nat /\ DOMAIN ptrs = 1..n /\ \A p : p \in ToSet(ptrs) <=> \E j \in 1..n : p = ptrs[j]
  BY ListDomain
<1>3. FillInv(c, 0, {h0})
  <2>1. \A j \in 1..0 : FALSE
    OBVIOUS
  <2>2. \A p \in DOMAIN h0 : SameRule(h0[p], h0[p])
    BY DEF SameRule
  <2> QED
    BY <1>1, <2>1, <2>2 DEF FillInv, FilledHeap
<1>4. \A j \in 1..n : \A a : FillInv(c, j - 1, a) => FillInv(c, j, FillOp(c, a, ptrs[j]))
  <2> SUFFICES ASSUME NEW j \in 1..n, NEW a, FillInv(c, j - 1, a)
               PROVE  FillInv(c, j, FillOp(c, a, ptrs[j]))
    OBVIOUS
  <2>1. j - 1 \in Nat /\ (j - 1) + 1 = j
    BY <1>2
  <2>2. ptrs[j] \in DOMAIN h0
    BY <1>2
  <2> QED
    BY <1>1, <2>1, <2>2, FillStep
<1>5. FillInv(c, n, Filling!Fold(c, {h0}, ptrs))
  <2> HIDE DEF n
  <2> QED
    BY <1>2, <1>3, <1>4, Filling!FoldKeeps
<1>6. fillAPIs(h0, ptrs, s) = Filling!Fold(c, {h0}, ptrs)
  BY <1>1 DEF fillAPIs, FillOp, Filling!Fold, Filling!MapThenFoldSet, Filling!Last,
       FoldLeft, MapThenFoldSet, Max
<1>7. FilledHeap(c, n, h)
  BY <1>5, <1>6 DEF FillInv
<1> QED
  BY <1>1, <1>2, <1>7 DEF FilledHeap

-----------------------------------------------------------------------------
(***************************************************************************)
(* The loops that collect by name.                                         *)
(***************************************************************************)
(* From acc to b, at most x has been added, and its key is there. *)
Adds(acc, kind, x, b) ==
  /\ Unique(b) /\ acc.keys \subseteq b.keys /\ <<kind, KeyOf(kind, x)>> \in b.keys
  /\ \A k \in ListKinds : k # kind => b.state[k] = acc.state[k]
  /\ ToSet(b.state[kind]) \subseteq ToSet(acc.state[kind]) \cup {x}

(* An object is kept under its name, unless the name is taken. *)
LEMMA Checked ==
  ASSUME NEW acc, NEW kind \in ListKinds, NEW x, Unique(acc)
  PROVE  Adds(acc, kind, x, check(acc, kind, KeyOf(kind, x), x))
<1> DEFINE key == <<kind, KeyOf(kind, x)>>
           b == check(acc, kind, KeyOf(kind, x), x)
<1>1. CASE key \in acc.keys
  <2>1. b = acc
    BY <1>1 DEF check
  <2> HIDE DEF b
  <2>2. Adds(acc, kind, x, b)
    BY <1>1, <2>1 DEF Adds
  <2> QED
    BY <2>2 DEF b
<1>2. CASE key \notin acc.keys
  <2> DEFINE new == Append(acc.state[kind], x)
  <2>1. b = [acc EXCEPT !.keys = @ \cup {key}, !.state[kind] = new]
    BY <1>2 DEF check
  <2> HIDE DEF b
  <2>2. DOMAIN acc = {"keys", "state"} /\ DOMAIN acc.state = ListKinds /\ IsList(acc.state[kind])
    BY DEF Unique
  <2> HIDE DEF key
  <2>3. /\ IsList(new) /\ Len(new) = Len(acc.state[kind]) + 1
        /\ ToSet(new) = ToSet(acc.state[kind]) \cup {x}
        /\ \A i \in 1..Len(acc.state[kind]) : new[i] = acc.state[kind][i]
        /\ new[Len(acc.state[kind]) + 1] = x
    BY <2>2, ListAppend
  <2> HIDE DEF new
  <2>4. /\ DOMAIN b = {"keys", "state"} /\ DOMAIN b.state = ListKinds
        /\ b.keys = acc.keys \cup {key} /\ b.state[kind] = new
        /\ \A k \in ListKinds : k # kind => b.state[k] = acc.state[k]
    BY <2>1, <2>2
  <2>5. key = <<kind, KeyOf(kind, x)>>
    BY DEF key
  <2>6. ASSUME NEW k \in ListKinds
        PROVE  /\ IsList(b.state[k])
               /\ \A n \in 1..Len(b.state[k]) : <<k, KeyOf(k, b.state[k][n])>> \in b.keys
               /\ \A m, n \in 1..Len(b.state[k]) : m # n => KeyOf(k, b.state[k][m]) # KeyOf(k, b.state[k][n])
    <3>1. CASE k # kind
      BY <2>4, <3>1 DEF Unique
    <3>2. CASE k = kind
      <4> DEFINE old == acc.state[kind]
                 l == Len(old)
      <4>1. /\ l \in Nat /\ Len(new) = l + 1 /\ IsList(new)
            /\ \A i \in 1..l : new[i] = old[i]
            /\ new[l + 1] = x
        BY <2>2, <2>3, ListDomain
      <4>2. /\ \A n \in 1..l : <<kind, KeyOf(kind, old[n])>> \in acc.keys
            /\ \A m, n \in 1..l : m # n => KeyOf(kind, old[m]) # KeyOf(kind, old[n])
        BY DEF Unique
      <4> HIDE DEF old, l
      <4>3. \A n \in 1..l : KeyOf(kind, old[n]) # KeyOf(kind, x)
        BY <1>2, <2>5, <4>2
      <4>4. \A n \in 1..Len(new) : n \in 1..l \/ n = l + 1
        BY <4>1
      <4>5. \A n \in 1..Len(new) : <<kind, KeyOf(kind, new[n])>> \in b.keys
        BY <2>4, <2>5, <4>1, <4>2, <4>4
      <4>6. \A m, n \in 1..Len(new) : m # n => KeyOf(kind, new[m]) # KeyOf(kind, new[n])
        BY <4>1, <4>2, <4>3, <4>4
      <4> QED
        BY <2>4, <3>2, <4>1, <4>5, <4>6
    <3> QED
      BY <3>1, <3>2
  <2>7. ASSUME NEW y \in b.keys
        PROVE  \E k \in ListKinds : \E z \in ToSet(b.state[k]) : y = <<k, KeyOf(k, z)>>
    <3>1. CASE y = key
      BY <2>3, <2>4, <2>5, <3>1
    <3>2. CASE y \in acc.keys
      <4>1. PICK k \in ListKinds : \E z \in ToSet(acc.state[k]) : y = <<k, KeyOf(k, z)>>
        BY <3>2 DEF Unique
      <4>2. PICK z \in ToSet(acc.state[k]) : y = <<k, KeyOf(k, z)>>
        BY <4>1
      <4>3. z \in ToSet(b.state[k])
        BY <2>3, <2>4, <4>2
      <4> QED
        BY <4>2, <4>3
    <3> QED
      BY <2>4, <3>1, <3>2
  <2>8. Unique(b)
    BY <2>4, <2>6, <2>7 DEF Unique
  <2>9. Adds(acc, kind, x, b)
    BY <2>3, <2>4, <2>5, <2>8 DEF Adds
  <2> QED
    BY <2>9 DEF b
<1> QED
  BY <1>1, <1>2

RoutingOp(c, acc, r) == check(acc, "routing", r.name, r)

RoutingInv(c, i, b) ==
  /\ Unique(b) /\ c.acc.keys \subseteq b.keys
  /\ \A k \in ListKinds : k # "routing" => b.state[k] = c.acc.state[k]
  /\ ToSet(b.state.routing) \subseteq ToSet(c.acc.state.routing) \cup ToSet(c.list)
  /\ \A r \in ToSet(b.state.routing) : r \in ToSet(c.acc.state.routing) \/ <<"routing", r.name>> \notin c.acc.keys
  /\ \A j \in 1..i : <<"routing", c.list[j].name>> \in b.keys

ByRouting == INSTANCE FoldTheorems WITH Op <- RoutingOp, Inv <- RoutingInv

(* The routings of an API are collected by name. *)
LEMMA RoutingsChecked ==
  ASSUME NEW acc, NEW list, Unique(acc), IsList(list)
  PROVE  RoutingInv([acc |-> acc, list |-> list], Len(list), checkRoutings(acc, list))
<1> DEFINE c == [acc |-> acc, list |-> list]
           n == Len(list)
<1>1. c.acc = acc /\ c.list = list
  OBVIOUS
<1> HIDE DEF c
<1>2. n \in Nat /\ DOMAIN list = 1..n /\ \A j \in 1..n : list[j] \in ToSet(list)
  BY ListDomain
<1>3. RoutingInv(c, 0, acc)
  <2>1. \A j \in 1..0 : FALSE
    OBVIOUS
  <2> QED
    BY <1>1, <2>1 DEF RoutingInv
<1>4. \A j \in 1..n : \A a : RoutingInv(c, j - 1, a) => RoutingInv(c, j, RoutingOp(c, a, list[j]))
  <2> SUFFICES ASSUME NEW j \in 1..n, NEW a, RoutingInv(c, j - 1, a)
               PROVE  RoutingInv(c, j, RoutingOp(c, a, list[j]))
    OBVIOUS
  <2> DEFINE r == list[j]
             b == check(a, "routing", r.name, r)
  <2>1. "routing" \in ListKinds /\ r.name = KeyOf("routing", r) /\ Unique(a)
    BY DEF ListKinds, KeyOf, RoutingInv
  <2>2. b = check(a, "routing", KeyOf("routing", r), r)
    BY <2>1
  <2> HIDE DEF b
  <2>3. /\ Unique(b) /\ a.keys \subseteq b.keys /\ <<"routing", KeyOf("routing", r)>> \in b.keys
        /\ \A k \in ListKinds : k # "routing" => b.state[k] = a.state[k]
        /\ ToSet(b.state["routing"]) \subseteq ToSet(a.state["routing"]) \cup {r}
    <3>1. Adds(a, "routing", r, b)
      BY <2>1, <2>2, Checked
    <3> QED
      BY <3>1 DEF Adds
  <2>4. <<"routing", r.name>> \in a.keys => b = a
    BY DEF check, b
  <2>5. \A m \in 1..j : m \in 1..(j - 1) \/ m = j
    BY <1>2
  <2>7. RoutingInv(c, j, b)
    <3>1. r \in ToSet(c.list) /\ r = c.list[j]
      BY <1>1, <1>2
    <3> HIDE DEF r
    <3>2. c.acc.keys \subseteq b.keys
      BY <2>3 DEF RoutingInv
    <3>3. \A k \in ListKinds : k # "routing" => b.state[k] = c.acc.state[k]
      BY <2>3 DEF RoutingInv
    <3>4. ToSet(b.state.routing) \subseteq ToSet(c.acc.state.routing) \cup ToSet(c.list)
      BY <2>3, <3>1 DEF RoutingInv
    <3>5. ASSUME NEW t \in ToSet(b.state.routing), t \notin ToSet(c.acc.state.routing)
          PROVE  <<"routing", t.name>> \notin c.acc.keys
      <4>1. CASE t \in ToSet(a.state.routing)
        BY <3>5, <4>1 DEF RoutingInv
      <4>2. CASE t \notin ToSet(a.state.routing)
        <5>1. t = r /\ b # a
          BY <2>3, <3>5, <4>2
        <5>2. <<"routing", r.name>> \notin a.keys
          BY <2>4, <5>1
        <5> QED
          BY <5>1, <5>2 DEF RoutingInv
      <4> QED
        BY <4>1, <4>2
    <3>6. \A m \in 1..j : <<"routing", c.list[m].name>> \in b.keys
      BY <2>1, <2>3, <2>5, <3>1 DEF RoutingInv
    <3> QED
      BY <2>3, <3>2, <3>3, <3>4, <3>5, <3>6 DEF RoutingInv
  <2> QED
    BY <2>7 DEF RoutingOp, b
<1>5. RoutingInv(c, n, ByRouting!Fold(c, acc, list))
  <2> HIDE DEF n
  <2> QED
    BY <1>2, <1>3, <1>4, ByRouting!FoldKeeps
<1>6. checkRoutings(acc, list) = ByRouting!Fold(c, acc, list)
  BY DEF checkRoutings, RoutingOp, ByRouting!Fold, ByRouting!MapThenFoldSet, ByRouting!Last,
       FoldLeft, MapThenFoldSet, Max
<1> QED
  BY <1>5, <1>6 DEF c

ServerOp(c, acc, x) == check(acc, "server", x.addr, x)

ServerInv(c, i, b) ==
  /\ Unique(b) /\ c.acc.keys \subseteq b.keys
  /\ \A k \in ListKinds : k # "server" => b.state[k] = c.acc.state[k]
  /\ ToSet(b.state.server) \subseteq ToSet(c.acc.state.server) \cup ToSet(c.list)
  /\ \A j \in 1..i : <<"server", c.list[j].addr>> \in b.keys

ByServer == INSTANCE FoldTheorems WITH Op <- ServerOp, Inv <- ServerInv

(* The servers of a service are collected by address. *)
LEMMA ServersChecked ==
  ASSUME NEW acc, NEW list, Unique(acc), IsList(list)
  PROVE  ServerInv([acc |-> acc, list |-> list], Len(list), checkServers(acc, list))
<1> DEFINE c == [acc |-> acc, list |-> list]
           n == Len(list)
<1>1. c.acc = acc /\ c.list = list
  OBVIOUS
<1> HIDE DEF c
<1>2. n \in Nat /\ DOMAIN list = 1..n /\ \A j \in 1..n : list[j] \in ToSet(list)
  BY ListDomain
<1>3. ServerInv(c, 0, acc)
  <2>1. \A j \in 1..0 : FALSE
    OBVIOUS
  <2> QED
    BY <1>1, <2>1 DEF ServerInv
<1>4. \A j \in 1..n : \A a : ServerInv(c, j - 1, a) => ServerInv(c, j, ServerOp(c, a, list[j]))
  <2> SUFFICES ASSUME NEW j \in 1..n, NEW a, ServerInv(c, j - 1, a)
               PROVE  ServerInv(c, j, ServerOp(c, a, list[j]))
    OBVIOUS
  <2> DEFINE x == list[j]
             b == check(a, "server", x.addr, x)
  <2>1. "server" \in ListKinds /\ x.addr = KeyOf("server", x) /\ Unique(a)
    BY DEF ListKinds, KeyOf, ServerInv
  <2>2. b = check(a, "server", KeyOf("server", x), x)
    BY <2>1
  <2> HIDE DEF b
  <2>3. /\ Unique(b) /\ a.keys \subseteq b.keys /\ <<"server", KeyOf("server", x)>> \in b.keys
        /\ \A k \in ListKinds : k # "server" => b.state[k] = a.state[k]
        /\ ToSet(b.state["server"]) \subseteq ToSet(a.state["server"]) \cup {x}
    <3>1. Adds(a, "server", x, b)
      BY <2>1, <2>2, Checked
    <3> QED
      BY <3>1 DEF Adds
  <2>4. \A m \in 1..j : m \in 1..(j - 1) \/ m = j
    BY <1>2
  <2>5. ServerInv(c, j, b)
    <3>1. x \in ToSet(c.list) /\ x = c.list[j]
      BY <1>1, <1>2
    <3> HIDE DEF x
    <3>2. c.acc.keys \subseteq b.keys
      BY <2>3 DEF ServerInv
    <3>3. \A k \in ListKinds : k # "server" => b.state[k] = c.acc.state[k]
      BY <2>3 DEF ServerInv
    <3>4. ToSet(b.state.server) \subseteq ToSet(c.acc.state.server) \cup ToSet(c.list)
      BY <2>3, <3>1 DEF ServerInv
    <3>5. \A m \in 1..j : <<"server", c.list[m].addr>> \in b.keys
      BY <2>1, <2>3, <2>4, <3>1 DEF ServerInv
    <3> QED
      BY <2>3, <3>2, <3>3, <3>4, <3>5 DEF ServerInv
  <2> QED
    BY <2>5 DEF ServerOp, b
<1>5. ServerInv(c, n, ByServer!Fold(c, acc, list))
  <2> HIDE DEF n
  <2> QED
    BY <1>2, <1>3, <1>4, ByServer!FoldKeeps
<1>6. checkServers(acc, list) = ByServer!Fold(c, acc, list)
  BY DEF checkServers, ServerOp, ByServer!Fold, ByServer!MapThenFoldSet, ByServer!Last,
       FoldLeft, MapThenFoldSet, Max
<1> QED
  BY <1>5, <1>6 DEF c

APIOp(c, acc, p) == checkRoutings(check(acc, "api", heap[p].name, Sent(heap[p])), heap[p].routings)

APIInv(c, i, b) ==
  /\ Unique(b) /\ c.acc.keys \subseteq b.keys
  /\ b.state.cluster = c.acc.state.cluster /\ b.state.server = c.acc.state.server
  /\ \A x \in ToSet(b.state.api) : x \in ToSet(c.acc.state.api) \/ \E p \in ToSet(c.ptrs) : x = Sent(heap[p])
  /\ \A r \in ToSet(b.state.routing) : r \in ToSet(c.acc.state.routing) \/ <<"api", r.api>> \in b.keys
  /\ \A j \in 1..i : <<"api", heap[c.ptrs[j]].name>> \in b.keys

ByAPI == INSTANCE FoldTheorems WITH Op <- APIOp, Inv <- APIInv

(* One API more, with its routings. *)
LEMMA APIStep ==
  ASSUME NEW c, NEW i \in Nat, NEW a, NEW p, p = c.ptrs[i + 1], p \in ToSet(c.ptrs), APIInv(c, i, a),
         IsList(heap[p].routings), \A r \in ToSet(heap[p].routings) : r.api = heap[p].name
  PROVE  APIInv(c, i + 1, APIOp(c, a, p))
<1> DEFINE x == Sent(heap[p])
           d == check(a, "api", heap[p].name, x)
           rs == heap[p].routings
           b == checkRoutings(d, rs)
<1>1. "api" \in ListKinds /\ heap[p].name = KeyOf("api", x) /\ Unique(a)
  BY DEF ListKinds, KeyOf, Sent, APIInv
<1>2. d = check(a, "api", KeyOf("api", x), x)
  BY <1>1
<1> HIDE DEF d, x
<1>3. Adds(a, "api", x, d)
  BY <1>1, <1>2, Checked
<1>4. /\ Unique(d) /\ a.keys \subseteq d.keys /\ <<"api", heap[p].name>> \in d.keys
      /\ d.state.cluster = a.state.cluster /\ d.state.server = a.state.server /\ d.state.routing = a.state.routing
      /\ ToSet(d.state.api) \subseteq ToSet(a.state.api) \cup {x}
  BY <1>1, <1>3 DEF Adds, ListKinds
<1>5. RoutingInv([acc |-> d, list |-> rs], Len(rs), b)
  BY <1>4, RoutingsChecked
<1>6. /\ Unique(b) /\ d.keys \subseteq b.keys
      /\ b.state.cluster = d.state.cluster /\ b.state.server = d.state.server /\ b.state.api = d.state.api
      /\ ToSet(b.state.routing) \subseteq ToSet(d.state.routing) \cup ToSet(rs)
  BY <1>5 DEF RoutingInv, ListKinds
<1>7. APIOp(c, a, p) = b
  BY DEF APIOp, d, x
<1> HIDE DEF b, rs
<1>8. \A r \in ToSet(rs) : <<"api", r.api>> \in b.keys
  BY <1>4, <1>6 DEF rs
<1>9. c.acc.keys \subseteq b.keys
  BY <1>4, <1>6 DEF APIInv
<1>10. b.state.cluster = c.acc.state.cluster /\ b.state.server = c.acc.state.server
  BY <1>4, <1>6 DEF APIInv
<1>11. \A y \in ToSet(b.state.api) : y \in ToSet(c.acc.state.api) \/ \E q \in ToSet(c.ptrs) : y = Sent(heap[q])
  BY <1>4, <1>6 DEF APIInv, x
<1>12. \A r \in ToSet(b.state.routing) : r \in ToSet(c.acc.state.routing) \/ <<"api", r.api>> \in b.keys
  <2> SUFFICES ASSUME NEW r \in ToSet(b.state.routing), r \notin ToSet(c.acc.state.routing)
               PROVE  <<"api", r.api>> \in b.keys
    OBVIOUS
  <2>1. CASE r \in ToSet(rs)
    BY <1>8, <2>1
  <2>2. CASE r \in ToSet(a.state.routing)
    <3>1. <<"api", r.api>> \in a.keys
      BY <2>2 DEF APIInv
    <3> QED
      BY <1>4, <1>6, <3>1
  <2> QED
    BY <1>4, <1>6, <2>1, <2>2
<1>13. \A j \in 1..(i + 1) : <<"api", heap[c.ptrs[j]].name>> \in b.keys
  <2> SUFFICES ASSUME NEW j \in 1..(i + 1)
               PROVE  <<"api", heap[c.ptrs[j]].name>> \in b.keys
    OBVIOUS
  <2>1. CASE j = i + 1
    BY <1>4, <1>6, <2>1
  <2>2. CASE j \in 1..i
    <3>1. <<"api", heap[c.ptrs[j]].name>> \in a.keys
      BY <2>2 DEF APIInv
    <3> QED
      BY <1>4, <1>6, <3>1
  <2> QED
    BY <2>1, <2>2
<1>14. APIInv(c, i + 1, b)
  BY <1>6, <1>9, <1>10, <1>11, <1>12, <1>13 DEF APIInv
<1> QED
  BY <1>7, <1>14

(* The APIs of a service are collected by name, each with its routings. *)
LEMMA APIsChecked ==
  ASSUME NEW acc, NEW ptrs, Unique(acc), IsList(ptrs),
         \A p \in ToSet(ptrs) :
           IsList(heap[p].routings) /\ \A r \in ToSet(heap[p].routings) : r.api = heap[p].name
  PROVE  APIInv([acc |-> acc, ptrs |-> ptrs], Len(ptrs), checkAPIs(acc, ptrs))
<1> DEFINE c == [acc |-> acc, ptrs |-> ptrs]
           n == Len(ptrs)
<1>1. c.acc = acc /\ c.ptrs = ptrs
  OBVIOUS
<1> HIDE DEF c
<1>2. n \in Nat /\ DOMAIN ptrs = 1..n /\ \A j \in 1..n : ptrs[j] \in ToSet(ptrs)
  BY ListDomain
<1>3. APIInv(c, 0, acc)
  <2>1. \A j \in 1..0 : FALSE
    OBVIOUS
  <2> QED
    BY <1>1, <2>1 DEF APIInv
<1>4. \A j \in 1..n : \A a : APIInv(c, j - 1, a) => APIInv(c, j, APIOp(c, a, ptrs[j]))
  <2> SUFFICES ASSUME NEW j \in 1..n, NEW a, APIInv(c, j - 1, a)
               PROVE  APIInv(c, j, APIOp(c, a, ptrs[j]))
    OBVIOUS
  <2>1. j - 1 \in Nat /\ (j - 1) + 1 = j
    BY <1>2
  <2>2. ptrs[j] \in ToSet(c.ptrs) /\ ptrs[j] = c.ptrs[(j - 1) + 1]
    BY <1>1, <1>2, <2>1
  <2>3. IsList(heap[ptrs[j]].routings) /\ \A r \in ToSet(heap[ptrs[j]].routings) : r.api = heap[ptrs[j]].name
    BY <1>2
  <2> DEFINE i == j - 1
             p == ptrs[j]
  <2> HIDE DEF i, p
  <2>4. APIInv(c, i + 1, APIOp(c, a, p))
    BY <2>1, <2>2, <2>3, APIStep DEF i, p
  <2> QED
    BY <2>1, <2>4 DEF i, p
<1>5. APIInv(c, n, ByAPI!Fold(c, acc, ptrs))
  <2> HIDE DEF n
  <2> QED
    BY <1>2, <1>3, <1>4, ByAPI!FoldKeeps
<1>6. checkAPIs(acc, ptrs) = ByAPI!Fold(c, acc, ptrs)
  BY DEF checkAPIs, APIOp, ByAPI!Fold, ByAPI!MapThenFoldSet, ByAPI!Last,
       FoldLeft, MapThenFoldSet, Max
<1> QED
  BY <1>5, <1>6 DEF c

-----------------------------------------------------------------------------
(***************************************************************************)
(* The invariant is kept.                                                  *)
(***************************************************************************)
(* Nothing is collected yet. *)
LEMMA NothingCollected == Unique([keys |-> {}, state |-> NoState])
<1> DEFINE acc == [keys |-> {}, state |-> NoState]
<1>1. DOMAIN acc = {"keys", "state"} /\ acc.keys = {} /\ acc.state = NoState
  OBVIOUS
<1>2. DOMAIN NoState = ListKinds /\ \A kind \in ListKinds : NoState[kind] = <<>>
  BY DEF NoState, ListKinds
<1> HIDE DEF acc
<1>3. \A kind \in ListKinds : IsList(acc.state[kind]) /\ 1..Len(acc.state[kind]) = {}
  BY <1>1, <1>2, ListEmpty
<1>4. Unique(acc)
  BY <1>1, <1>2, <1>3 DEF Unique
<1> QED
  BY <1>4 DEF acc

(* A Build begins with nothing. *)
LEMMA InitIInv == Init => IInv
<1> SUFFICES ASSUME Init PROVE IInv
  OBVIOUS
<1> USE DEF Init
<1>1. DOMAIN heap = {} /\ DOMAIN services = {}
  BY DEF Nothing
<1>2. Phase
  BY <1>1, ListEmpty, BuildsAssumption DEF Phase, Positive
<1>3. HeapMade
  BY <1>1, ListEmpty DEF HeapMade
<1>4. ServicesMade
  BY <1>1, ListEmpty DEF ServicesMade
<1>5. NodesMade
  BY <1>1 DEF NodesMade
<1>6. ToSet(state.api) = {} /\ ToSet(state.routing) = {} /\ ToSet(state.cluster) = {} /\ ToSet(state.server) = {}
  BY ListEmpty DEF NoState
<1>7. StateMade
  BY <1>6, NothingCollected DEF StateMade, Origins
<1> QED
  BY <1>2, <1>3, <1>4, <1>5, <1>7 DEF IInv

(* The next Build begins with nothing. *)
LEMMA AgainIInv ==
  ASSUME IInv, Again
  PROVE  IInv'
<1> USE DEF Again
<1>1. DOMAIN heap' = {} /\ DOMAIN services' = {}
  BY DEF Nothing
<1>2. Phase'
  <2>1. builds' \in 1..MaxBuilds /\ store' \in Stores
    BY BuildsAssumption DEF IInv, Phase
  <2> QED
    BY <1>1, <2>1, ListEmpty DEF Phase, Positive
<1>3. HeapMade'
  BY <1>1, ListEmpty DEF HeapMade
<1>4. ServicesMade'
  BY <1>1, ListEmpty DEF ServicesMade
<1>5. NodesMade'
  BY <1>1 DEF NodesMade
<1>6. /\ ToSet(state'.api) = {} /\ ToSet(state'.routing) = {}
      /\ ToSet(state'.cluster) = {} /\ ToSet(state'.server) = {}
  BY ListEmpty DEF NoState
<1>7. StateMade'
  BY <1>6, NothingCollected DEF StateMade, Origins
<1> QED
  BY <1>2, <1>3, <1>4, <1>5, <1>7 DEF IInv

(* Listing the ingresses. *)
LEMMA ListIInv ==
  ASSUME IInv, List
  PROVE  IInv'
<1> USE DEF List
<1>1. DOMAIN heap' = {} /\ DOMAIN services' = {} /\ apis' = <<>> /\ left' = {} /\ pc' = "parse"
  BY DEF IInv, Phase
<1>2. IsList(ings') /\ ToSet(ings') = store'.ingresses
  <2>1. IsFiniteSet(store.ingresses)
    BY StoresAssumption DEF IInv, Phase
  <2> QED
    BY <2>1, SetListed
<1>3. at' = <<1, 1>> /\ Len(ings') \in Nat
  BY <1>2, ListDomain
<1>4. ASSUME 1 <= Len(ings')
      PROVE  IsList(ings'[1].http)
  <2>1. ings'[1] \in store.ingresses
    BY <1>2, <1>3, <1>4, ListDomain
  <2> QED
    BY <2>1, StoresAssumption DEF IInv, Phase
<1>5. Phase'
  <2>1. builds' \in 1..MaxBuilds /\ store' \in Stores
    BY DEF IInv, Phase
  <2>2. 1 <= Len(ings') => 1 <= Len(ings'[1].http) + 1
    BY <1>4, ListDomain
  <2> QED
    BY <1>1, <1>2, <1>3, <2>1, <2>2 DEF Phase, Positive, Rules
<1>6. HeapMade'
  BY <1>1, ListEmpty DEF HeapMade
<1>7. ServicesMade'
  <2>1. \A i \in 1..Len(ings') : \A j \in 1..Len(ings'[i].http) : ~(i < 1 \/ (i = 1 /\ j < 1))
    BY <1>3
  <2> QED
    BY <1>1, <1>3, <2>1 DEF ServicesMade, Behind, Rules
<1>8. NodesMade'
  BY <1>1 DEF NodesMade
<1>9. keysMap' = {} /\ state' = NoState
  BY DEF IInv, StateMade
<1>10. /\ ToSet(state'.api) = {} /\ ToSet(state'.routing) = {}
       /\ ToSet(state'.cluster) = {} /\ ToSet(state'.server) = {}
  BY <1>9, ListEmpty DEF NoState
<1>11. StateMade'
  BY <1>1, <1>9, <1>10, NothingCollected DEF StateMade, Origins
<1> QED
  BY <1>5, <1>6, <1>7, <1>8, <1>11 DEF IInv

(* What a reference leads to depends on the store alone. *)
LEMMA SameStore ==
  ASSUME store' = store
  PROVE  (\A ref : Resolve(ref)' = Resolve(ref)) /\ \A rule : Found(rule)' = Found(rule)
<1>1. \A ref : Resolve(ref)' = Resolve(ref)
  BY DEF Resolve, GetManbaCluster
<1> QED
  BY <1>1 DEF Found

(* What has been made stays as it was made. *)
LEMMA SameParsed ==
  ASSUME UNCHANGED <<store, ings, at, heap, services>>
  PROVE  /\ \A i : Rules(i)' = Rules(i)
         /\ \A i, j : Behind(i, j)' = Behind(i, j)
         /\ \A p : APIMade(p)' = APIMade(p)
         /\ \A p, s : Leads(p, s)' = Leads(p, s)
         /\ \A s : ServiceMade(s)' = ServiceMade(s)
<1>1. (\A i : Rules(i)' = Rules(i)) /\ \A i, j : Behind(i, j)' = Behind(i, j)
  BY DEF Rules, Behind
<1>2. \A p : APIMade(p)' = APIMade(p)
  BY <1>1 DEF APIMade
<1>3. \A p, s : Leads(p, s)' = Leads(p, s)
  BY <1>1, SameStore DEF Leads
<1>4. \A s : ServiceMade(s)' = ServiceMade(s)
  BY <1>3, SameStore DEF ServiceMade
<1> QED
  BY <1>1, <1>2, <1>3, <1>4

(* From one ingress to the next. *)
LEMMA NextIngressIInv ==
  ASSUME IInv, NextIngress
  PROVE  IInv'
<1> USE DEF NextIngress
<1>1. /\ at[1] \in Positive /\ at[2] \in Positive /\ at'[1] = at[1] + 1 /\ at'[2] = 1
      /\ at[1] \in 1..Len(ings) /\ at[2] = Len(Rules(at[1])) + 1
      /\ Len(ings) \in Nat /\ Len(Rules(at[1])) \in Nat
  <2>1. at \in Positive \X Positive /\ IsList(ings) /\ Len(ings) \in Nat
    BY ListDomain DEF IInv, Phase
  <2>2. at[1] \in 1..Len(ings)
    BY <2>1 DEF Positive
  <2>3. Len(Rules(at[1])) \in Nat
    BY <2>2, RuleLists, ListDomain DEF IInv
  <2> QED
    BY <2>1, <2>2, <2>3 DEF IInv, Phase, Rules, Positive
<1>2. (\A i : Rules(i)' = Rules(i)) /\ (\A ref : Resolve(ref)' = Resolve(ref)) /\ \A rule : Found(rule)' = Found(rule)
  BY SameStore DEF Rules
<1>3. ASSUME NEW i \in 1..Len(ings), NEW j \in 1..Len(Rules(i))
      PROVE  Behind(i, j)' <=> Behind(i, j)
  <2>1. Len(Rules(i)) \in Nat
    BY RuleLists, ListDomain DEF IInv
  <2>2. CASE i = at[1]
    BY <1>1, <2>1, <2>2 DEF Behind
  <2>3. CASE i # at[1]
    BY <1>1, <2>1, <2>3 DEF Behind, Positive
  <2> QED
    BY <2>2, <2>3
<1>4. Phase'
  <2>1. at[1] + 1 <= Len(ings) => Len(Rules(at[1] + 1)) \in Nat
    <3> SUFFICES ASSUME at[1] + 1 <= Len(ings) PROVE Len(Rules(at[1] + 1)) \in Nat
      OBVIOUS
    <3>1. at[1] + 1 \in 1..Len(ings)
      BY <1>1
    <3> QED
      BY <3>1, RuleLists, ListDomain DEF IInv
  <2>2. at' \in Positive \X Positive /\ at'[1] <= Len(ings) + 1
    BY <1>1 DEF Positive
  <2>3. at'[1] <= Len(ings) => at'[2] <= Len(Rules(at'[1])) + 1
    BY <1>1, <2>1
  <2> QED
    BY <1>2, <2>2, <2>3 DEF IInv, Phase, Rules
<1>5. \A p \in DOMAIN heap : p \in Pointers /\ p[1] \in 1..Len(ings) /\ p[2] \in 1..Len(Rules(p[1])) /\ p[1] <= at[1]
  <2> SUFFICES ASSUME NEW p \in DOMAIN heap
               PROVE  p \in Pointers /\ p[1] \in 1..Len(ings) /\ p[2] \in 1..Len(Rules(p[1])) /\ p[1] <= at[1]
    OBVIOUS
  <2>1. p \in Pointers /\ p[1] <= Len(ings) /\ p[2] <= Len(Rules(p[1])) /\ Behind(p[1], p[2])
    BY DEF IInv, HeapMade, APIMade
  <2>2. p[1] \in Positive /\ p[2] \in Positive
    BY <2>1 DEF Pointers
  <2>3. p[1] \in 1..Len(ings)
    BY <1>1, <2>1, <2>2 DEF Positive
  <2>4. Len(Rules(p[1])) \in Nat
    BY <2>3, RuleLists, ListDomain DEF IInv
  <2> QED
    BY <1>1, <2>1, <2>2, <2>3, <2>4 DEF Positive, Behind
<1>6. HeapMade'
  <2>1. \A p \in DOMAIN heap : APIMade(p)'
    BY <1>2, <1>3, <1>5 DEF IInv, HeapMade, APIMade
  <2>2. {p \in DOMAIN heap : p[1] = at[1] + 1} = {}
    <3>1. \A p \in DOMAIN heap : p[1] # at[1] + 1
      BY <1>1, <1>5
    <3> QED
      BY <3>1
  <2> QED
    BY <1>1, <2>1, <2>2, ListEmpty DEF HeapMade
<1>7. ServicesMade'
  <2>1. \A p \in DOMAIN heap : \A s : Leads(p, s)' <=> Leads(p, s)
    <3> SUFFICES ASSUME NEW p \in DOMAIN heap, NEW s
                 PROVE  Leads(p, s)' <=> Leads(p, s)
      OBVIOUS
    <3>1. Len(Rules(p[1])) \in Nat /\ p[2] \in Positive
      BY <1>5, RuleLists, ListDomain DEF IInv, Pointers
    <3>2. \A j \in p[2]..Len(Rules(p[1])) : j \in 1..Len(Rules(p[1]))
      BY <3>1 DEF Positive
    <3>3. \A j \in p[2]..Len(Rules(p[1])) : Behind(p[1], j)' <=> Behind(p[1], j)
      BY <1>3, <1>5, <3>2
    <3> QED
      BY <1>2, <3>3 DEF Leads
  <2>2. \A s \in DOMAIN services : ServiceMade(s)'
    <3> SUFFICES ASSUME NEW s \in DOMAIN services PROVE ServiceMade(s)'
      OBVIOUS
    <3>1. ServiceMade(s)
      BY DEF IInv, ServicesMade
    <3>2. {p \in DOMAIN heap : Leads(p, s)}' = {p \in DOMAIN heap : Leads(p, s)}
      BY <2>1
    <3> QED
      BY <1>2, <3>1, <3>2 DEF ServiceMade
  <2> QED
    BY <1>2, <1>3, <2>2 DEF IInv, ServicesMade
<1>8. NodesMade'
  BY DEF IInv, NodesMade, FilledServices
<1>9. StateMade'
  <2>1. keysMap' = {} /\ state' = NoState
    BY DEF IInv, StateMade
  <2>2. /\ ToSet(state'.api) = {} /\ ToSet(state'.routing) = {}
        /\ ToSet(state'.cluster) = {} /\ ToSet(state'.server) = {}
    BY <2>1, ListEmpty DEF NoState
  <2> QED
    BY <2>1, <2>2, NothingCollected DEF StateMade, Origins
<1> QED
  BY <1>4, <1>6, <1>7, <1>8, <1>9 DEF IInv

(* The loops over maps begin and end. *)
LEMMA TurnIInv ==
  ASSUME IInv, Parsed \/ Filled \/ Collected
  PROVE  IInv'
<1>1. /\ UNCHANGED <<store, ings, at, apis, heap, services, keysMap, state, builds>>
      /\ \/ pc = "parse" /\ at[1] > Len(ings) /\ pc' = "fill" /\ left' = DOMAIN services
         \/ pc = "fill" /\ left = {} /\ pc' = "collect" /\ left' = DOMAIN services
         \/ pc = "collect" /\ left = {} /\ pc' = "done" /\ left' = left
  BY DEF Parsed, Filled, Collected
<1>2. /\ \A i : Rules(i)' = Rules(i)
      /\ \A i, j : Behind(i, j)' = Behind(i, j)
      /\ \A p : APIMade(p)' = APIMade(p)
      /\ \A s : ServiceMade(s)' = ServiceMade(s)
      /\ \A rule : Found(rule)' = Found(rule)
  BY <1>1, SameParsed, SameStore
<1>3. Phase'
  BY <1>1, <1>2 DEF IInv, Phase
<1>4. HeapMade'
  BY <1>1, <1>2 DEF IInv, HeapMade
<1>5. ServicesMade'
  BY <1>1, <1>2 DEF IInv, ServicesMade
<1>6. FilledServices' = FilledServices
  BY <1>1 DEF FilledServices
<1>7. NodesMade'
  BY <1>1, <1>6 DEF IInv, NodesMade
<1>8. StateMade'
  <2>1. \A s : CollectedWhole(s)' = CollectedWhole(s)
    BY <1>1 DEF CollectedWhole
  <2>2. Origins'
    <3>1. \A s : Cluster(s)' = Cluster(s)
      BY <1>1 DEF Cluster
    <3> QED
      BY <1>1, <3>1 DEF IInv, StateMade, Origins
  <2> QED
    BY <1>1, <2>1, <2>2 DEF IInv, StateMade
<1> QED
  BY <1>3, <1>4, <1>5, <1>7, <1>8 DEF IInv

(* What a service adds to the lists. *)
LEMMA ServiceCollected ==
  ASSUME IInv, NEW s \in DOMAIN services, NEW acc, acc = [keys |-> keysMap, state |-> state],
         NEW w, w = checkAPIs(acc, services[s].apis),
         NEW v, v = check(w, "cluster", s, Cluster(s)),
         NEW b, b = checkServers(v, services[s].servers)
  PROVE  /\ Unique(b) /\ keysMap \subseteq b.keys
         /\ <<"cluster", s>> \in b.keys
         /\ \A p \in ToSet(services[s].apis) : <<"api", heap[p].name>> \in b.keys
         /\ \A x \in ToSet(services[s].servers) : <<"server", x.addr>> \in b.keys
         /\ \A a \in ToSet(b.state.api) :
              a \in ToSet(state.api) \/ \E p \in ToSet(services[s].apis) : a = Sent(heap[p])
         /\ \A r \in ToSet(b.state.routing) : r \in ToSet(state.routing) \/ <<"api", r.api>> \in b.keys
         /\ ToSet(b.state.cluster) \subseteq ToSet(state.cluster) \cup {Cluster(s)}
         /\ ToSet(b.state.server) \subseteq ToSet(state.server) \cup ToSet(services[s].servers)
<1> DEFINE ptrs == services[s].apis
           list == services[s].servers
           x == Cluster(s)
<1>1. Unique(acc) /\ acc.keys = keysMap /\ acc.state = state
  BY DEF IInv, StateMade
<1>2. IsList(ptrs) /\ IsList(list) /\ ToSet(ptrs) \subseteq DOMAIN heap
  BY DEF IInv, ServicesMade, ServiceMade
<1>3. \A p \in ToSet(ptrs) : IsList(heap[p].routings) /\ \A r \in ToSet(heap[p].routings) : r.api = heap[p].name
  BY <1>2 DEF IInv, HeapMade, APIMade
<1>4. x.name = s /\ KeyOf("cluster", x) = s /\ "cluster" \in ListKinds
  BY DEF Cluster, KeyOf, ListKinds
<1> HIDE DEF ptrs, list, x
<1>5. /\ Unique(w) /\ keysMap \subseteq w.keys
      /\ w.state.cluster = state.cluster /\ w.state.server = state.server
      /\ \A a \in ToSet(w.state.api) : a \in ToSet(state.api) \/ \E p \in ToSet(ptrs) : a = Sent(heap[p])
      /\ \A r \in ToSet(w.state.routing) : r \in ToSet(state.routing) \/ <<"api", r.api>> \in w.keys
      /\ \A j \in 1..Len(ptrs) : <<"api", heap[ptrs[j]].name>> \in w.keys
  <2> DEFINE c == [acc |-> acc, ptrs |-> ptrs]
  <2>1. c.acc = acc /\ c.ptrs = ptrs
    OBVIOUS
  <2>2. w = checkAPIs(acc, ptrs)
    BY DEF ptrs
  <2>3. APIInv(c, Len(ptrs), w)
    BY <1>1, <1>2, <1>3, <2>2, APIsChecked
  <2> HIDE DEF c
  <2> QED
    BY <1>1, <2>1, <2>3 DEF APIInv
<1>6. \A p \in ToSet(ptrs) : <<"api", heap[p].name>> \in w.keys
  BY <1>2, <1>5, ListDomain
<1>7. /\ Unique(v) /\ w.keys \subseteq v.keys /\ <<"cluster", s>> \in v.keys
      /\ v.state.api = w.state.api /\ v.state.routing = w.state.routing /\ v.state.server = w.state.server
      /\ ToSet(v.state.cluster) \subseteq ToSet(w.state.cluster) \cup {x}
  <2>1. v = check(w, "cluster", KeyOf("cluster", x), x)
    BY <1>4 DEF x
  <2>2. Adds(w, "cluster", x, v)
    BY <1>4, <1>5, <2>1, Checked
  <2> QED
    BY <1>4, <2>2 DEF Adds, ListKinds
<1>8. /\ Unique(b) /\ v.keys \subseteq b.keys
      /\ b.state.api = v.state.api /\ b.state.routing = v.state.routing /\ b.state.cluster = v.state.cluster
      /\ ToSet(b.state.server) \subseteq ToSet(v.state.server) \cup ToSet(list)
      /\ \A j \in 1..Len(list) : <<"server", list[j].addr>> \in b.keys
  <2> DEFINE c == [acc |-> v, list |-> list]
  <2>1. c.acc = v /\ c.list = list
    OBVIOUS
  <2>2. b = checkServers(v, list)
    BY DEF list
  <2>3. ServerInv(c, Len(list), b)
    BY <1>2, <1>7, <2>2, ServersChecked
  <2> HIDE DEF c
  <2> QED
    BY <2>1, <2>3 DEF ServerInv, ListKinds
<1>9. \A y \in ToSet(list) : <<"server", y.addr>> \in b.keys
  BY <1>2, <1>8, ListDomain
<1>10. \A r \in ToSet(b.state.routing) : r \in ToSet(state.routing) \/ <<"api", r.api>> \in b.keys
  BY <1>5, <1>7, <1>8
<1>11. \A p \in ToSet(ptrs) : <<"api", heap[p].name>> \in b.keys
  BY <1>6, <1>7, <1>8
<1>12. \A a \in ToSet(b.state.api) : a \in ToSet(state.api) \/ \E p \in ToSet(ptrs) : a = Sent(heap[p])
  BY <1>5, <1>7, <1>8
<1> QED
  BY <1>5, <1>7, <1>8, <1>9, <1>10, <1>11, <1>12 DEF ptrs, list, x

(* A service is collected. *)
LEMMA CollectIInv ==
  ASSUME IInv, NEW s \in left, Collect(s)
  PROVE  IInv'
<1>1. /\ UNCHANGED <<pc, store, ings, at, apis, heap, services, builds>>
      /\ pc = "collect" /\ left' = left \ {s}
  BY DEF Collect
<1> DEFINE acc == [keys |-> keysMap, state |-> state]
           w == checkAPIs(acc, services[s].apis)
           v == check(w, "cluster", s, Cluster(s))
           b == checkServers(v, services[s].servers)
<1>2. keysMap' = b.keys /\ state' = b.state
  BY DEF Collect
<1>3. s \in DOMAIN services
  BY DEF IInv, Phase
<1>4. /\ Unique(b) /\ keysMap \subseteq b.keys
      /\ <<"cluster", s>> \in b.keys
      /\ \A p \in ToSet(services[s].apis) : <<"api", heap[p].name>> \in b.keys
      /\ \A x \in ToSet(services[s].servers) : <<"server", x.addr>> \in b.keys
      /\ \A a \in ToSet(b.state.api) :
           a \in ToSet(state.api) \/ \E p \in ToSet(services[s].apis) : a = Sent(heap[p])
      /\ \A r \in ToSet(b.state.routing) : r \in ToSet(state.routing) \/ <<"api", r.api>> \in b.keys
      /\ ToSet(b.state.cluster) \subseteq ToSet(state.cluster) \cup {Cluster(s)}
      /\ ToSet(b.state.server) \subseteq ToSet(state.server) \cup ToSet(services[s].servers)
  <2> HIDE DEF acc, w, v, b
  <2> QED
    BY <1>3, ServiceCollected DEF acc, w, v, b
<1> HIDE DEF b
<1>5. /\ \A i : Rules(i)' = Rules(i)
      /\ \A i, j : Behind(i, j)' = Behind(i, j)
      /\ \A p : APIMade(p)' = APIMade(p)
      /\ \A t : ServiceMade(t)' = ServiceMade(t)
      /\ \A rule : Found(rule)' = Found(rule)
  BY <1>1, SameParsed, SameStore
<1>6. Phase'
  BY <1>1, <1>5 DEF IInv, Phase
<1>7. HeapMade' /\ ServicesMade'
  BY <1>1, <1>5 DEF IInv, HeapMade, ServicesMade
<1>8. NodesMade'
  <2>1. FilledServices' = FilledServices
    BY <1>1 DEF FilledServices
  <2> QED
    BY <1>1, <2>1 DEF IInv, NodesMade
<1>9. Unique([keys |-> keysMap, state |-> state])'
  <2> DEFINE d == [keys |-> keysMap', state |-> state']
  <2>1. DOMAIN d = {"keys", "state"} /\ d.keys = b.keys /\ d.state = b.state
    BY <1>2
  <2> HIDE DEF d
  <2>2. Unique(d)
    BY <1>4, <2>1 DEF Unique
  <2> QED
    BY <2>2 DEF d
<1>10. Origins'
  <2>1. Cluster(s).name = s
    BY DEF Cluster
  <2>2. \A t : Cluster(t)' = Cluster(t)
    BY <1>1 DEF Cluster
  <2>3. Origins /\ \A p \in ToSet(services[s].apis) : p \in DOMAIN heap
    BY <1>3 DEF IInv, StateMade, ServicesMade, ServiceMade
  <2>4. \A a \in ToSet(state'.api) : \E p \in DOMAIN heap' : a = Sent(heap'[p])
    BY <1>1, <1>2, <1>4, <2>3 DEF Origins
  <2>5. \A r \in ToSet(state'.routing) : <<"api", r.api>> \in keysMap'
    BY <1>2, <1>4, <2>3 DEF Origins
  <2>6. \A c \in ToSet(state'.cluster) : c.name \in DOMAIN services' /\ c = Cluster(c.name)'
    BY <1>1, <1>2, <1>3, <1>4, <2>1, <2>2, <2>3 DEF Origins
  <2>7. \A x \in ToSet(state'.server) : \E t \in DOMAIN services' : x \in ToSet(services'[t].servers)
    BY <1>1, <1>2, <1>3, <1>4, <2>3 DEF Origins
  <2> QED
    BY <2>4, <2>5, <2>6, <2>7 DEF Origins
<1>11. ASSUME NEW t \in DOMAIN services \ left'
       PROVE  CollectedWhole(t)'
  <2>1. CASE t = s
    BY <1>1, <1>2, <1>4, <2>1 DEF CollectedWhole
  <2>2. CASE t # s
    <3>1. CollectedWhole(t)
      BY <1>1, <2>2 DEF IInv, StateMade
    <3> QED
      BY <1>1, <1>2, <1>4, <3>1 DEF CollectedWhole
  <2> QED
    BY <2>1, <2>2
<1>12. StateMade'
  BY <1>1, <1>9, <1>10, <1>11 DEF StateMade
<1> QED
  BY <1>6, <1>7, <1>8, <1>12 DEF IInv

(* Servers that share a policy. *)
Sharing(list, policy) ==
  /\ IsList(list)
  /\ \A n \in 1..Len(list) : list[n] = Server(list[n].addr, policy, Len(list))

(* The servers of a service carry its policy. *)
LEMMA ServersShared ==
  ASSUME NEW found, IsList(found), NEW policy, NEW list,
         list = [n \in 1..Len(found) |-> list[n]],
         \A n \in 1..Len(found) : list[n] = Server(found[n], policy, Len(found))
  PROVE  Sharing(list, policy)
<1>1. Len(found) \in Nat
  BY ListDomain
<1>3. IsList(list) /\ Len(list) = Len(found)
  BY <1>1, ListMade
<1>4. \A addr : Server(addr, policy, Len(found)).addr = addr
  BY DEF Server
<1>5. \A n \in 1..Len(found) : list[n] = Server(list[n].addr, policy, Len(found))
  BY <1>4
<1> QED
  BY <1>3, <1>5 DEF Sharing

(* A service gets its servers, and its APIs their nodes. *)
LEMMA FillIInv ==
  ASSUME IInv, NEW s \in left, Fill(s)
  PROVE  IInv'
<1>1. /\ UNCHANGED <<pc, store, ings, at, apis, keysMap, state, builds>>
      /\ pc = "fill" /\ left' = left \ {s} /\ heap' \in fillAPIs(heap, services[s].apis, s)
  BY DEF Fill
<1>2. s \in DOMAIN services /\ store \in Stores
  BY DEF IInv, Phase
<1>3. ServiceMade(s)
  BY <1>2 DEF IInv, ServicesMade
<1>4. PICK list \in SetToSeqs(ListServices(services[s].subset.labels)) :
        services' = [services EXCEPT ![s].servers =
          [n \in 1..Len(getServiceEndpoints(list, s.port)) |->
             Server(getServiceEndpoints(list, s.port)[n], services[s].subset.policy,
                    Len(getServiceEndpoints(list, s.port)))]]
  BY DEF Fill
<1> DEFINE found == getServiceEndpoints(list, s.port)
           policy == services[s].subset.policy
           servers == [n \in 1..Len(found) |-> Server(found[n], policy, Len(found))]
<1>5. IsList(found)
  BY <1>2, ServersList
<1>6. services' = [services EXCEPT ![s].servers = servers]
  BY <1>4
<1>0. /\ servers = [n \in 1..Len(found) |-> servers[n]]
      /\ \A n \in 1..Len(found) : servers[n] = Server(found[n], policy, Len(found))
  OBVIOUS
<1> HIDE DEF found, policy, servers
<1>7. Sharing(servers, policy)
  BY <1>0, <1>5, ServersShared
<1>8. /\ DOMAIN services' = DOMAIN services
      /\ \A t \in DOMAIN services : t # s => services'[t] = services[t]
      /\ services'[s] = [services[s] EXCEPT !.servers = servers]
  BY <1>2, <1>6
<1>9. /\ DOMAIN services'[s] = {"apis", "subset", "servers"}
      /\ services'[s].apis = services[s].apis /\ services'[s].subset = services[s].subset
      /\ services'[s].servers = servers
  BY <1>3, <1>8 DEF ServiceMade
<1>10. \A p \in DOMAIN heap : WellFormed(heap[p])
  <2> SUFFICES ASSUME NEW p \in DOMAIN heap PROVE WellFormed(heap[p])
    OBVIOUS
  <2>1. APIMade(p)
    BY DEF IInv, HeapMade
  <2>2. p[1] \in 1..Len(ings) /\ p[2] \in 1..Len(Rules(p[1]))
    <3>1. p[1] \in Positive /\ p[2] \in Positive /\ p[1] <= Len(ings) /\ p[2] <= Len(Rules(p[1]))
      BY <2>1 DEF APIMade, Pointers
    <3>2. Len(ings) \in Nat
      BY ListDomain DEF IInv, Phase
    <3>3. p[1] \in 1..Len(ings)
      BY <3>1, <3>2 DEF Positive
    <3>4. Len(Rules(p[1])) \in Nat
      BY <1>1, <3>3, RuleLists, ListDomain DEF IInv
    <3> QED
      BY <3>1, <3>3, <3>4 DEF Positive
  <2>3. IsList(heap[p].rule.mirror) /\ IsList(heap[p].rule.split)
    BY <1>1, <2>1, <2>2, RuleLists DEF IInv, APIMade
  <2> QED
    BY <2>1, <2>3 DEF WellFormed, APIMade
<1>11. /\ DOMAIN heap' = DOMAIN heap
       /\ \A p \in DOMAIN heap :
            /\ WellFormed(heap'[p]) /\ SameRule(heap'[p], heap[p])
            /\ \A t : t \in DOMAIN heap'[p].proxies <=>
                 \/ t \in DOMAIN heap[p].proxies
                 \/ t = s /\ heap[p].rule.route # <<>> /\ p \in ToSet(services[s].apis)
  <2> DEFINE ptrs == services[s].apis
             h == heap'
  <2>1. IsList(ptrs) /\ ToSet(ptrs) \subseteq DOMAIN heap /\ h \in fillAPIs(heap, ptrs, s)
    BY <1>1, <1>3 DEF ServiceMade
  <2> HIDE DEF ptrs, h
  <2>2. /\ DOMAIN h = DOMAIN heap
        /\ \A p \in DOMAIN h :
             /\ WellFormed(h[p]) /\ SameRule(h[p], heap[p])
             /\ \A t : t \in DOMAIN h[p].proxies <=>
                  \/ t \in DOMAIN heap[p].proxies
                  \/ t = s /\ heap[p].rule.route # <<>> /\ p \in ToSet(ptrs)
    BY <1>10, <2>1, APIsFilled
  <2> QED
    BY <2>2 DEF ptrs, h
<1>12. /\ \A i : Rules(i)' = Rules(i)
       /\ \A i, j : Behind(i, j)' = Behind(i, j)
       /\ \A ref : Resolve(ref)' = Resolve(ref)
       /\ \A rule : Found(rule)' = Found(rule)
  BY <1>1, SameStore DEF Rules, Behind
<1>13. \A p, t : Leads(p, t)' = Leads(p, t)
  BY <1>12 DEF Leads
<1>14. Phase'
  BY <1>1, <1>8, <1>12 DEF IInv, Phase
<1>15. HeapMade'
  <2>1. ASSUME NEW p \in DOMAIN heap
        PROVE  APIMade(p)'
    <3>1. APIMade(p)
      BY DEF IInv, HeapMade
    <3>2. WellFormed(heap'[p]) /\ SameRule(heap'[p], heap[p])
      BY <1>11
    <3>3. \A r \in ToSet(heap'[p].routings) : r.api = heap'[p].name
      BY <3>1, <3>2 DEF SameRule, APIMade
    <3> QED
      BY <1>1, <1>12, <3>1, <3>2, <3>3 DEF APIMade, WellFormed, SameRule
  <2> QED
    BY <1>1, <1>11, <2>1 DEF IInv, HeapMade
<1>16. ServicesMade'
  <2>1. ASSUME NEW t \in DOMAIN services
        PROVE  ServiceMade(t)'
    <3>1. ServiceMade(t)
      BY DEF IInv, ServicesMade
    <3>2. {p \in DOMAIN heap : Leads(p, t)}' = {p \in DOMAIN heap : Leads(p, t)}
      BY <1>11, <1>13
    <3>3. CASE t = s
      BY <1>7, <1>9, <1>12, <3>1, <3>2, <3>3 DEF ServiceMade, Sharing, policy
    <3>4. CASE t # s
      BY <1>8, <1>12, <3>1, <3>2, <3>4 DEF ServiceMade
    <3> QED
      BY <3>3, <3>4
  <2> QED
    BY <1>1, <1>8, <1>12, <2>1 DEF IInv, ServicesMade
<1>17. NodesMade'
  <2>1. FilledServices' = FilledServices \cup {s}
    BY <1>1, <1>2, <1>8 DEF FilledServices
  <2>2. \A t \in DOMAIN services : services'[t].apis = services[t].apis
    BY <1>8, <1>9
  <2>3. FilledServices \subseteq DOMAIN services
    BY <1>1 DEF FilledServices
  <2>4. ASSUME NEW p \in DOMAIN heap
        PROVE  DOMAIN heap'[p].proxies =
                 {t \in FilledServices' : p \in ToSet(services'[t].apis) /\ heap'[p].rule.route # <<>>}
    <3>1. heap'[p].rule = heap[p].rule
      BY <1>11 DEF SameRule
    <3>2. \A t : t \in DOMAIN heap[p].proxies <=>
            t \in FilledServices /\ p \in ToSet(services[t].apis) /\ heap[p].rule.route # <<>>
      BY DEF IInv, NodesMade
    <3>3. \A t : t \in DOMAIN heap'[p].proxies <=>
            t \in FilledServices' /\ p \in ToSet(services'[t].apis) /\ heap'[p].rule.route # <<>>
      BY <1>2, <1>11, <2>1, <2>2, <2>3, <3>1, <3>2
    <3> QED
      BY <3>3
  <2> QED
    BY <1>11, <2>4 DEF NodesMade
<1>18. StateMade'
  <2>1. keysMap' = {} /\ state' = NoState
    BY <1>1 DEF IInv, StateMade
  <2>2. /\ ToSet(state'.api) = {} /\ ToSet(state'.routing) = {}
        /\ ToSet(state'.cluster) = {} /\ ToSet(state'.server) = {}
    BY <2>1, ListEmpty DEF NoState
  <2> QED
    BY <1>1, <2>1, <2>2, NothingCollected DEF StateMade, Origins
<1> QED
  BY <1>14, <1>15, <1>16, <1>17, <1>18 DEF IInv

(* A rule is parsed: its APIs are made, and its routes give the APIs of the *)
(* ingress so far to their services.                                        *)
LEMMA ParseRuleIInv ==
  ASSUME IInv, ParseRule
  PROVE  IInv'
<1> DEFINE i0 == at[1]
           j0 == at[2]
           rule == Rules(i0)[j0]
           new == PointersOf(i0, j0, rule)
           all == apis \o new
<1>1. /\ UNCHANGED <<pc, store, ings, left, keysMap, state, builds>>
      /\ pc = "parse" /\ i0 <= Len(ings) /\ j0 <= Len(Rules(i0)) /\ at' = <<i0, j0 + 1>>
      /\ apis' = all /\ services' = AddRoutes(services, rule.route, all)
      /\ heap' = [p \in DOMAIN heap \cup ToSet(new) |->
                    IF p \in DOMAIN heap THEN heap[p] ELSE fromManbaHTTPRule(ings[i0], rule, p)]
  BY DEF ParseRule, Rules
<1>2. /\ i0 \in Positive /\ j0 \in Positive /\ at'[1] = i0 /\ at'[2] = j0 + 1
      /\ i0 \in 1..Len(ings) /\ j0 \in 1..Len(Rules(i0)) /\ Len(ings) \in Nat /\ Len(Rules(i0)) \in Nat
  <2>1. i0 \in Positive /\ j0 \in Positive /\ Len(ings) \in Nat
    BY ListDomain DEF IInv, Phase
  <2>2. i0 \in 1..Len(ings)
    BY <1>1, <2>1 DEF Positive
  <2>3. Len(Rules(i0)) \in Nat
    BY <1>1, <2>2, RuleLists, ListDomain DEF IInv
  <2> QED
    BY <1>1, <2>1, <2>2, <2>3 DEF Positive
<1>3. IsList(rule.match) /\ IsList(rule.route) /\ \A k \in 1..Len(rule.match) : rule.match[k].rules \in Nat
  BY <1>1, <1>2, RuleLists DEF IInv
<1>4. /\ \A i : Rules(i)' = Rules(i)
      /\ \A ref : Resolve(ref)' = Resolve(ref)
      /\ \A r : Found(r)' = Found(r)
  BY <1>1, SameStore DEF Rules
<1> HIDE DEF i0, j0, rule, new
<1>5. /\ IsList(new)
      /\ \A p \in ToSet(new) : p \in Pointers /\ p[1] = i0 /\ p[2] = j0
  <2>1. /\ IsList(new)
        /\ \A p : p \in ToSet(new) <=>
             \E k \in 1..Len(rule.match) : \E g \in 1..rule.match[k].rules : p = <<i0, j0, k, g>>
    BY <1>3, PointersMade DEF new
  <2>2. ASSUME NEW p \in ToSet(new)
        PROVE  p \in Pointers /\ p[1] = i0 /\ p[2] = j0
    <3>1. PICK k \in 1..Len(rule.match) : \E g \in 1..rule.match[k].rules : p = <<i0, j0, k, g>>
      BY <2>1
    <3>2. PICK g \in 1..rule.match[k].rules : p = <<i0, j0, k, g>>
      BY <3>1
    <3>3. k \in Positive /\ g \in Positive
      <4>1. Len(rule.match) \in Nat /\ rule.match[k].rules \in Nat
        BY <1>3, ListDomain
      <4> QED
        BY <4>1 DEF Positive
    <3> QED
      BY <1>2, <3>2, <3>3 DEF Pointers
  <2> QED
    BY <2>1, <2>2
<1>6. \A p \in DOMAIN heap : /\ APIMade(p) /\ p \in Pointers /\ p[1] \in 1..Len(ings) /\ p[2] \in 1..Len(Rules(p[1]))
                             /\ p[1] = i0 => p[2] < j0
  <2> SUFFICES ASSUME NEW p \in DOMAIN heap
               PROVE  /\ APIMade(p) /\ p \in Pointers /\ p[1] \in 1..Len(ings) /\ p[2] \in 1..Len(Rules(p[1]))
                      /\ p[1] = i0 => p[2] < j0
    OBVIOUS
  <2>1. APIMade(p)
    BY DEF IInv, HeapMade
  <2>2. /\ p \in Pointers /\ p[1] \in Positive /\ p[2] \in Positive
        /\ p[1] <= Len(ings) /\ p[2] <= Len(Rules(p[1])) /\ Behind(p[1], p[2])
    BY <2>1 DEF APIMade, Pointers
  <2>3. p[1] \in 1..Len(ings)
    BY <1>2, <2>2 DEF Positive
  <2>4. Len(Rules(p[1])) \in Nat
    BY <1>1, <2>3, RuleLists, ListDomain DEF IInv
  <2> QED
    BY <1>2, <2>1, <2>2, <2>3, <2>4 DEF Positive, Behind, i0, j0
<1>7. ToSet(new) \cap DOMAIN heap = {}
  <2>1. \A p \in DOMAIN heap : p \notin ToSet(new)
    BY <1>2, <1>5, <1>6 DEF Positive
  <2> QED
    BY <2>1
<1>8. /\ DOMAIN heap' = DOMAIN heap \cup ToSet(new)
      /\ \A p \in DOMAIN heap : heap'[p] = heap[p]
      /\ \A p \in ToSet(new) : heap'[p] = fromManbaHTTPRule(ings[i0], rule, p)
  BY <1>1, <1>7
<1>9. IsList(all) /\ \A p : p \in ToSet(all) <=> p \in DOMAIN heap' /\ p[1] = i0
  <2>1. IsList(apis) /\ \A p : p \in ToSet(apis) <=> p \in DOMAIN heap /\ p[1] = i0
    BY <1>1 DEF IInv, HeapMade, i0
  <2>2. IsList(all) /\ ToSet(all) = ToSet(apis) \cup ToSet(new)
    BY <1>5, <2>1, ListConcat
  <2> QED
    BY <1>5, <1>8, <2>1, <2>2
<1> HIDE DEF all
<1>10. \A i, j \in Nat : Behind(i, j)' <=> Behind(i, j) \/ (i = i0 /\ j = j0)
  BY <1>2 DEF Behind, Positive, i0, j0
<1>11. ~Behind(i0, j0)
  BY <1>2 DEF Behind, Positive, i0, j0
<1>12. LET c == [base |-> services, routes |-> rule.route, ptrs |-> all]
       IN  AddInv(c, Len(rule.route), services')
  <2>1. \A s \in DOMAIN services : DOMAIN services[s] = SvcFields /\ IsList(services[s].apis)
    BY DEF IInv, ServicesMade, ServiceMade, SvcFields
  <2> QED
    BY <1>1, <1>3, <1>9, <2>1, RoutesAdded
<1> DEFINE Routed0(s) == \E j \in 1..Len(rule.route) : s = rule.route[j].cluster
<1>13. /\ DOMAIN services \subseteq DOMAIN services'
       /\ \A s \in DOMAIN services' : s \in DOMAIN services \/ Resolve(s) # {}
       /\ \A s : Routed0(s) /\ Resolve(s) # {} => s \in DOMAIN services'
       /\ \A s \in DOMAIN services' :
            /\ DOMAIN services'[s] = SvcFields /\ IsList(services'[s].apis)
            /\ s \in DOMAIN services =>
                 services'[s].servers = services[s].servers /\ services'[s].subset = services[s].subset
            /\ s \notin DOMAIN services => services'[s].servers = <<>>
            /\ \A p : p \in ToSet(services'[s].apis) <=>
                 \/ s \in DOMAIN services /\ p \in ToSet(services[s].apis)
                 \/ p \in ToSet(all) /\ Routed0(s)
  <2> DEFINE c == [base |-> services, routes |-> rule.route, ptrs |-> all]
  <2>1. c.base = services /\ c.routes = rule.route /\ c.ptrs = all /\ AddInv(c, Len(rule.route), services')
    BY <1>12
  <2> HIDE DEF c
  <2>2. /\ DOMAIN services \subseteq DOMAIN services'
        /\ \A s \in DOMAIN services' : s \in DOMAIN services \/ Resolve(s) # {}
    BY <2>1 DEF AddInv
  <2>3. ASSUME NEW s, Routed0(s), Resolve(s) # {}
        PROVE  s \in DOMAIN services'
    <3>1. PICK j \in 1..Len(rule.route) : s = rule.route[j].cluster
      BY <2>3
    <3>2. Resolve(rule.route[j].cluster) # {} => rule.route[j].cluster \in DOMAIN services'
      BY <2>1 DEF AddInv
    <3> QED
      BY <2>3, <3>1, <3>2
  <2>4. ASSUME NEW s \in DOMAIN services'
        PROVE  /\ DOMAIN services'[s] = SvcFields /\ IsList(services'[s].apis)
               /\ s \in DOMAIN services =>
                    services'[s].servers = services[s].servers /\ services'[s].subset = services[s].subset
               /\ s \notin DOMAIN services => services'[s].servers = <<>>
    BY <2>1 DEF AddInv
  <2>5. ASSUME NEW s \in DOMAIN services', NEW p
        PROVE  p \in ToSet(services'[s].apis) <=>
                 \/ s \in DOMAIN services /\ p \in ToSet(services[s].apis)
                 \/ p \in ToSet(all) /\ Routed0(s)
    BY <2>1 DEF AddInv
  <2> HIDE DEF Routed0
  <2> QED
    BY <2>2, <2>3, <2>4, <2>5
<1>14. \A s : s \in Found(rule) <=> Routed0(s) /\ Resolve(s) # {}
  <2>1. \A r : r \in ToSet(rule.route) <=> \E j \in 1..Len(rule.route) : r = rule.route[j]
    BY <1>3, ListDomain
  <2> QED
    BY <2>1 DEF Found
<1> HIDE DEF Routed0
<1>15. Phase'
  <2>1. left' \subseteq DOMAIN services'
    BY <1>1, <1>13 DEF IInv, Phase
  <2>2. at' \in Positive \X Positive /\ at'[1] <= Len(ings) + 1 /\ at'[2] <= Len(Rules(at'[1])) + 1
    BY <1>1, <1>2 DEF Positive
  <2> QED
    BY <1>1, <1>4, <2>1, <2>2 DEF IInv, Phase
<1>16. HeapMade'
  <2>1. ASSUME NEW p \in DOMAIN heap
        PROVE  APIMade(p)'
    <3>1. APIMade(p) /\ p[1] \in Nat /\ p[2] \in Nat
      BY <1>6 DEF Pointers, Positive
    <3>2. Behind(p[1], p[2])'
      BY <1>10, <3>1 DEF APIMade
    <3> QED
      BY <1>1, <1>4, <1>8, <3>1, <3>2 DEF APIMade
  <2>2. ASSUME NEW p \in ToSet(new)
        PROVE  APIMade(p)'
    <3>1. p \in Pointers /\ p[1] = i0 /\ p[2] = j0
      BY <1>5
    <3>2. Behind(p[1], p[2])'
      BY <1>2, <1>10, <3>1 DEF Positive
    <3>3. /\ DOMAIN heap'[p] = APIFields /\ heap'[p].name = APIName(ings[i0], p) /\ heap'[p].rule = rule
          /\ heap'[p].routings = <<>>
      BY <1>8 DEF fromManbaHTTPRule, APIFields
    <3>4. heap'[p].rule = Rules(p[1])[p[2]] /\ p[1] <= Len(ings) /\ p[2] <= Len(Rules(p[1]))
      BY <1>1, <1>2, <3>1, <3>3 DEF rule
    <3> QED
      BY <1>1, <1>4, <3>1, <3>2, <3>3, <3>4, ListEmpty DEF APIMade
  <2>3. \A p \in DOMAIN heap' : APIMade(p)'
    BY <1>8, <2>1, <2>2
  <2>4. IsList(apis') /\ ToSet(apis') = {p \in DOMAIN heap' : p[1] = at'[1]}
    BY <1>1, <1>2, <1>9
  <2> QED
    BY <2>3, <2>4 DEF HeapMade
<1>17. \A p \in DOMAIN heap' : \A s : Leads(p, s)' <=> (p \in DOMAIN heap /\ Leads(p, s)) \/ (p[1] = i0 /\ s \in Found(rule))
  <2> SUFFICES ASSUME NEW p \in DOMAIN heap', NEW s
               PROVE  Leads(p, s)' <=> (p \in DOMAIN heap /\ Leads(p, s)) \/ (p[1] = i0 /\ s \in Found(rule))
    OBVIOUS
  <2> DEFINE R == p[2]..Len(Rules(p[1]))
             F(j) == s \in Found(Rules(p[1])[j])
  <2>1. p[1] \in 1..Len(ings) /\ p[2] \in Nat /\ (p[1] = i0 => p[2] <= j0) /\ (p[1] = i0 => p[2] = j0 \/ p \in DOMAIN heap)
    <3>1. CASE p \in DOMAIN heap
      BY <1>2, <1>6, <3>1 DEF Pointers, Positive
    <3>2. CASE p \in ToSet(new)
      BY <1>2, <1>5, <3>2 DEF Positive
    <3> QED
      BY <1>8, <3>1, <3>2
  <2>2. Len(Rules(p[1])) \in Nat /\ R \subseteq Nat /\ p[1] \in Nat
    <3>1. Len(Rules(p[1])) \in Nat
      BY <1>1, <2>1, RuleLists, ListDomain DEF IInv
    <3> QED
      BY <1>2, <2>1, <3>1
  <2>3. Leads(p, s)' <=> \E j \in R : Behind(p[1], j)' /\ F(j)
    BY <1>4 DEF Leads
  <2>4. Leads(p, s) <=> \E j \in R : Behind(p[1], j) /\ F(j)
    BY DEF Leads
  <2>5. p[1] = i0 => j0 \in R /\ (F(j0) <=> s \in Found(rule))
    BY <1>2, <2>1, <2>2 DEF rule
  <2>6. p \notin DOMAIN heap => \A j \in R : ~Behind(p[1], j)
    <3>1. p \notin DOMAIN heap => p[1] = i0 /\ p[2] = j0
      BY <1>5, <1>8
    <3>2. \A j \in Nat : j >= j0 => ~Behind(i0, j)
      BY <1>2 DEF Behind, Positive, i0, j0
    <3> QED
      BY <1>2, <2>2, <3>1, <3>2
  <2> HIDE DEF R, F
  <2>7. \A j \in R : Behind(p[1], j)' <=> Behind(p[1], j) \/ (p[1] = i0 /\ j = j0)
    BY <1>10, <2>2
  <2> QED
    BY <2>3, <2>4, <2>5, <2>6, <2>7
<1>18. ServicesMade'
  <2>1. ASSUME NEW s \in DOMAIN services'
        PROVE  ServiceMade(s)'
    <3>1. Resolve(s) # {}
      BY <1>13 DEF IInv, ServicesMade, ServiceMade
    <3>2. ASSUME NEW p \in DOMAIN heap, Leads(p, s)
          PROVE  s \in DOMAIN services
      <4>1. PICK j \in p[2]..Len(Rules(p[1])) : Behind(p[1], j) /\ s \in Found(Rules(p[1])[j])
        BY <3>2 DEF Leads
      <4>2. p[1] \in 1..Len(ings) /\ j \in 1..Len(Rules(p[1]))
        <5>1. p[1] \in 1..Len(ings) /\ p[2] \in 1..Len(Rules(p[1]))
          BY <1>6
        <5>2. Len(Rules(p[1])) \in Nat
          BY <1>1, <5>1, RuleLists, ListDomain DEF IInv
        <5> QED
          BY <5>1, <5>2
      <4> QED
        BY <4>1, <4>2 DEF IInv, ServicesMade
    <3>3. \A p : p \in ToSet(services'[s].apis) <=> p \in DOMAIN heap' /\ Leads(p, s)'
      <4>1. s \in DOMAIN services => \A p : p \in ToSet(services[s].apis) <=> p \in DOMAIN heap /\ Leads(p, s)
        BY DEF IInv, ServicesMade, ServiceMade
      <4>2. s \in Found(rule) <=> Routed0(s)
        BY <1>14, <3>1
      <4> QED
        BY <1>8, <1>9, <1>13, <1>17, <3>2, <4>1, <4>2
    <3>4. ToSet(services'[s].apis) = {p \in DOMAIN heap' : Leads(p, s)'}
      BY <3>3
    <3>5. Sharing(services'[s].servers, services'[s].subset.policy)
      <4>1. CASE s \in DOMAIN services
        <5>1. Sharing(services[s].servers, services[s].subset.policy)
          BY <4>1 DEF IInv, ServicesMade, ServiceMade, Sharing
        <5> QED
          BY <1>13, <4>1, <5>1
      <4>2. CASE s \notin DOMAIN services
        <5>1. services'[s].servers = <<>> /\ 1..0 = {}
          BY <1>13, <4>2
        <5> QED
          BY <5>1, ListEmpty DEF Sharing
      <4> QED
        BY <4>1, <4>2
    <3> QED
      BY <1>4, <1>13, <3>1, <3>4, <3>5 DEF ServiceMade, Sharing, SvcFields
  <2>2. ASSUME NEW i \in 1..Len(ings), NEW j \in 1..Len(Rules(i)), Behind(i, j)'
        PROVE  Found(Rules(i)[j]) \subseteq DOMAIN services'
    <3>1. i \in Nat /\ j \in Nat
      BY <1>2
    <3>2. CASE Behind(i, j)
      BY <1>13, <3>2 DEF IInv, ServicesMade
    <3>3. CASE i = i0 /\ j = j0
      BY <1>13, <1>14, <3>3 DEF rule
    <3> QED
      BY <1>10, <2>2, <3>1, <3>2, <3>3
  <2> QED
    BY <1>1, <1>4, <2>1, <2>2 DEF ServicesMade
<1>19. NodesMade'
  <2>1. FilledServices = {} /\ FilledServices' = {}
    BY <1>1 DEF FilledServices
  <2>2. ASSUME NEW p \in DOMAIN heap'
        PROVE  DOMAIN heap'[p].proxies = {}
    <3>1. CASE p \in DOMAIN heap
      BY <1>8, <2>1, <3>1 DEF IInv, NodesMade
    <3>2. CASE p \in ToSet(new)
      <4>1. heap'[p].proxies = Nothing
        BY <1>8, <3>2 DEF fromManbaHTTPRule
      <4> QED
        BY <4>1 DEF Nothing
    <3> QED
      BY <1>8, <3>1, <3>2
  <2> QED
    BY <2>1, <2>2 DEF NodesMade
<1>20. StateMade'
  <2>1. keysMap' = {} /\ state' = NoState
    BY <1>1 DEF IInv, StateMade
  <2>2. /\ ToSet(state'.api) = {} /\ ToSet(state'.routing) = {}
        /\ ToSet(state'.cluster) = {} /\ ToSet(state'.server) = {}
    BY <2>1, ListEmpty DEF NoState
  <2> QED
    BY <1>1, <2>1, <2>2, NothingCollected DEF StateMade, Origins
<1> QED
  BY <1>15, <1>16, <1>18, <1>19, <1>20 DEF IInv

(* Every step of Build keeps the invariant. *)
LEMMA NextIInv == IInv /\ [Next]_vars => IInv'
<1> SUFFICES ASSUME IInv, [Next]_vars PROVE IInv'
  OBVIOUS
<1>1. CASE UNCHANGED vars
  <2>1. UNCHANGED <<pc, store, ings, at, apis, heap, services, left, keysMap, state, builds>>
    BY <1>1 DEF vars
  <2>2. /\ \A i : Rules(i)' = Rules(i)
        /\ \A i, j : Behind(i, j)' = Behind(i, j)
        /\ \A p : APIMade(p)' = APIMade(p)
        /\ \A s : ServiceMade(s)' = ServiceMade(s)
        /\ \A rule : Found(rule)' = Found(rule)
    BY <2>1, SameParsed, SameStore
  <2>3. Phase' /\ HeapMade' /\ ServicesMade'
    BY <2>1, <2>2 DEF IInv, Phase, HeapMade, ServicesMade
  <2>4. NodesMade'
    BY <2>1 DEF IInv, NodesMade, FilledServices
  <2>5. StateMade'
    BY <2>1 DEF IInv, StateMade, Origins, CollectedWhole, Cluster
  <2> QED
    BY <2>3, <2>4, <2>5 DEF IInv
<1>2. CASE Next
  <2>1. CASE Done
    BY <1>1, <2>1 DEF Done
  <2>2. CASE \E s \in left : Fill(s) \/ Collect(s)
    BY <2>2, FillIInv, CollectIInv
  <2> QED
    BY <1>2, <2>1, <2>2, ListIInv, ParseRuleIInv, NextIngressIInv, TurnIInv, AgainIInv DEF Next
<1> QED
  BY <1>1, <1>2

LEMMA Invariance == Spec => []IInv
BY InitIInv, NextIInv, PTL DEF Spec

-----------------------------------------------------------------------------
(***************************************************************************)
(* What the invariant says of the result.                                  *)
(***************************************************************************)
(* The positions of an API. *)
LEMMA Positions ==
  ASSUME IInv, NEW p \in DOMAIN heap
  PROVE  /\ pc # "list" /\ APIMade(p)
         /\ p = <<p[1], p[2], p[3], p[4]>> /\ \A n \in 1..4 : p[n] \in Positive
         /\ p[1] \in 1..Len(ings) /\ p[2] \in 1..Len(Rules(p[1])) /\ Len(Rules(p[1])) \in Nat
<1>1. pc # "list" /\ APIMade(p)
  BY DEF IInv, HeapMade, Phase
<1>2. p = <<p[1], p[2], p[3], p[4]>> /\ p[1] \in Positive /\ p[2] \in Positive /\ p[3] \in Positive /\ p[4] \in Positive
  BY <1>1 DEF APIMade, Pointers
<1>3. \A n \in 1..4 : n = 1 \/ n = 2 \/ n = 3 \/ n = 4
  OBVIOUS
<1>4. Len(ings) \in Nat
  BY ListDomain DEF IInv, Phase
<1>5. p[1] \in 1..Len(ings)
  BY <1>1, <1>2, <1>4 DEF APIMade, Positive
<1>6. Len(Rules(p[1])) \in Nat
  BY <1>1, <1>5, RuleLists, ListDomain DEF IInv
<1>7. p[2] \in 1..Len(Rules(p[1]))
  BY <1>1, <1>2, <1>6 DEF APIMade, Positive
<1>8. \A n \in 1..4 : p[n] \in Positive
  BY <1>2, <1>3
<1> QED
  BY <1>1, <1>2, <1>5, <1>6, <1>7, <1>8

(* A name that is taken is that of something kept. *)
LEMMA KeyKept ==
  ASSUME IInv, NEW kind \in ListKinds, NEW key, <<kind, key>> \in keysMap
  PROVE  \E y \in ToSet(state[kind]) : KeyOf(kind, y) = key
<1> DEFINE acc == [keys |-> keysMap, state |-> state]
<1>1. Unique(acc) /\ acc.keys = keysMap /\ acc.state = state
  BY DEF IInv, StateMade
<1> HIDE DEF acc
<1>2. PICK k \in ListKinds : \E y \in ToSet(acc.state[k]) : <<kind, key>> = <<k, KeyOf(k, y)>>
  BY <1>1 DEF Unique
<1> QED
  BY <1>1, <1>2

(* At the end every rule has been parsed, and every service collected. *)
LEMMA AllBehind ==
  ASSUME IInv, pc = "done"
  PROVE  /\ \A i \in 1..Len(ings) : \A j \in 1..Len(Rules(i)) : Found(Rules(i)[j]) \subseteq DOMAIN services
         /\ \A i \in 1..Len(ings) : \A j : Behind(i, j)
         /\ \A s \in DOMAIN services : CollectedWhole(s)
         /\ \A p \in DOMAIN heap : DOMAIN heap[p].proxies = {s \in DOMAIN services : Leads(p, s) /\ heap[p].rule.route # <<>>}
<1>1. \A i \in 1..Len(ings) : \A j : Behind(i, j)
  <2>1. Len(ings) \in Nat /\ at[1] \in Nat /\ at[1] > Len(ings)
    BY ListDomain DEF IInv, Phase, Positive
  <2> QED
    BY <2>1 DEF Behind
<1>2. \A i \in 1..Len(ings) : \A j \in 1..Len(Rules(i)) : Found(Rules(i)[j]) \subseteq DOMAIN services
  BY <1>1 DEF IInv, ServicesMade
<1>3. \A s \in DOMAIN services : CollectedWhole(s)
  BY DEF IInv, Phase, StateMade
<1>4. ASSUME NEW p \in DOMAIN heap
      PROVE  DOMAIN heap[p].proxies = {s \in DOMAIN services : Leads(p, s) /\ heap[p].rule.route # <<>>}
  <2>1. FilledServices = DOMAIN services
    BY DEF FilledServices
  <2>2. \A s \in DOMAIN services : p \in ToSet(services[s].apis) <=> Leads(p, s)
    BY DEF IInv, ServicesMade, ServiceMade
  <2>3. DOMAIN heap[p].proxies = {s \in DOMAIN services : p \in ToSet(services[s].apis) /\ heap[p].rule.route # <<>>}
    BY <2>1 DEF IInv, NodesMade
  <2> QED
    BY <2>2, <2>3
<1> QED
  BY <1>1, <1>2, <1>3, <1>4

LEMMA OneDigit ==
  ASSUME NEW x, NEW t, t = <<x>>
  PROVE  IsList(t) /\ Len(t) = 1 /\ t[1] = x
BY DEF IsList, ToSet

(* One digit more. *)
Extends(u, s, x) ==
  IsList(u) /\ Len(u) = Len(s) + 1 /\ (\A i \in 1..Len(s) : u[i] = s[i]) /\ u[Len(s) + 1] = x

LEMMA NextDigit ==
  ASSUME NEW s, IsList(s), NEW x, NEW t, t = <<x>>, NEW u, u = s \o t
  PROVE  Extends(u, s, x)
<1>1. Len(t) = 1 /\ t[1] = x /\ IsList(t)
  BY OneDigit
<1>2. IsList(u)
  BY <1>1, ListConcat
<1> DEFINE T == ToSet(s) \cup ToSet(t)
<1>3. s \in Seq(T) /\ t \in Seq(T)
  BY <1>1 DEF IsList
<1> HIDE DEF T
<1>4. Len(u) = Len(s) + Len(t) /\ Len(s) \in Nat
  BY <1>3
<1>5. \A i \in 1..Len(u) : u[i] = IF i <= Len(s) THEN s[i] ELSE t[i - Len(s)]
  BY <1>3
<1>6. Len(s) + 1 \in 1..Len(u) /\ (Len(s) + 1) - Len(s) = 1
  BY <1>1, <1>4
<1> QED
  BY <1>1, <1>2, <1>4, <1>5, <1>6 DEF Extends

Reads(s, a, b, c, d) == s[1] = a /\ s[2] = b /\ s[3] = c /\ s[4] = d

(* Four digits, one after the other, can be read off. *)
LEMMA FourDigits ==
  ASSUME NEW a, NEW b, NEW c, NEW d, NEW a1, a1 = <<a>>, NEW b1, b1 = <<b>>, NEW c1, c1 = <<c>>, NEW d1, d1 = <<d>>
  PROVE  Reads(a1 \o b1 \o c1 \o d1, a, b, c, d)
<1> DEFINE s == a1 \o b1 \o c1 \o d1
           t == a1 \o b1
           u == t \o c1
<1>1. IsList(a1) /\ Len(a1) = 1 /\ a1[1] = a
  BY OneDigit
<1>2. s = u \o d1
  OBVIOUS
<1> HIDE DEF s
<1>3. Extends(t, a1, b)
  BY <1>1, NextDigit
<1> HIDE DEF t
<1>4. IsList(t) /\ Len(t) = 2 /\ t[1] = a /\ t[2] = b
  BY <1>1, <1>3 DEF Extends
<1>5. Extends(u, t, c)
  BY <1>4, NextDigit
<1> HIDE DEF u
<1>6. IsList(u) /\ Len(u) = 3 /\ u[1] = a /\ u[2] = b /\ u[3] = c
  BY <1>4, <1>5 DEF Extends
<1>7. Extends(s, u, d)
  BY <1>2, <1>6, NextDigit
<1>8. 1 \in 1..3 /\ 2 \in 1..3 /\ 3 \in 1..3 /\ 3 + 1 = 4
  OBVIOUS
<1>9. (\A i \in 1..3 : s[i] = u[i]) /\ s[4] = d
  BY <1>6, <1>7, <1>8 DEF Extends
<1> QED
  BY <1>6, <1>8, <1>9 DEF Reads, s

(* Positions of one digit make different names. *)
LEMMA OneDigitNames ==
  ASSUME IInv, NEW p \in DOMAIN heap, NEW q \in DOMAIN heap, heap[p].name = heap[q].name,
         \A n \in 1..4 : p[n] <= 10 /\ q[n] <= 10
  PROVE  p = q
<1>1. ASSUME NEW r \in DOMAIN heap, \A n \in 1..4 : r[n] <= 10, NEW text, text = heap[r].name[2]
      PROVE  text[1] = r[1] - 1 /\ text[2] = r[2] - 1 /\ text[3] = r[3] - 1 /\ text[4] = r[4] - 1
  <2>1. ASSUME NEW n \in 1..4 PROVE r[n] - 1 \in Nat /\ Digits(r[n] - 1) = <<r[n] - 1>>
    <3>1. r[n] \in Positive
      BY Positions
    <3>2. r[n] - 1 \in Nat /\ r[n] - 1 < 10
      BY <1>1, <3>1 DEF Positive
    <3> QED
      BY <3>2 DEF Digits
  <2>2. heap[r].name = APIName(ings[r[1]], r)
    BY Positions DEF APIMade
  <2>3. text = Digits(r[1] - 1) \o Digits(r[2] - 1) \o Digits(r[3] - 1) \o Digits(r[4] - 1)
    BY <1>1, <2>2 DEF APIName
  <2> DEFINE a == r[1] - 1  b == r[2] - 1  c == r[3] - 1  d == r[4] - 1
  <2>4. a \in Nat /\ b \in Nat /\ c \in Nat /\ d \in Nat
    BY <2>1
  <2>5. Digits(a) = <<a>> /\ Digits(b) = <<b>> /\ Digits(c) = <<c>> /\ Digits(d) = <<d>>
    BY <2>1
  <2>6. text = Digits(a) \o Digits(b) \o Digits(c) \o Digits(d)
    BY <2>3
  <2> HIDE DEF a, b, c, d
  <2>7. Reads(Digits(a) \o Digits(b) \o Digits(c) \o Digits(d), a, b, c, d)
    BY <2>5, FourDigits
  <2> QED
    BY <2>6, <2>7 DEF Reads, a, b, c, d
<1>2. p[1] - 1 = q[1] - 1 /\ p[2] - 1 = q[2] - 1 /\ p[3] - 1 = q[3] - 1 /\ p[4] - 1 = q[4] - 1
  BY <1>1
<1>3. \A n \in 1..4 : p[n] \in Nat /\ q[n] \in Nat
  BY Positions DEF Positive
<1>4. p[1] = q[1] /\ p[2] = q[2] /\ p[3] = q[3] /\ p[4] = q[4]
  BY <1>2, <1>3
<1> QED
  BY <1>4, Positions

-----------------------------------------------------------------------------
(***************************************************************************)
(* Theorems.                                                               *)
(***************************************************************************)
(***************************************************************************)
(* The state of Build has its shape: every pointer leads to an API, nodes  *)
(* are for services, and no list holds two objects of one name.            *)
(***************************************************************************)
THEOREM ParserTypeCorrect == Spec => []TypeOK
<1>1. IInv => TypeOK
  <2> SUFFICES ASSUME IInv PROVE TypeOK
    OBVIOUS
  <2>1. /\ pc \in {"list", "parse", "fill", "collect", "done"} /\ builds \in 1..MaxBuilds
        /\ left \subseteq DOMAIN services
    BY DEF IInv, Phase
  <2>2. ToSet(ings) \subseteq store.ingresses
    BY ListEmpty DEF IInv, Phase
  <2>3. ToSet(apis) \subseteq DOMAIN heap /\ \A s \in DOMAIN services : ToSet(services[s].apis) \subseteq DOMAIN heap
    BY DEF IInv, HeapMade, ServicesMade, ServiceMade
  <2>4. \A p \in DOMAIN heap : DOMAIN heap[p].proxies \subseteq DOMAIN services
    <3>1. FilledServices \subseteq DOMAIN services
      BY DEF FilledServices
    <3> QED
      BY <3>1 DEF IInv, NodesMade
  <2>5. ASSUME NEW kind \in ListKinds, NEW m \in 1..Len(state[kind]), NEW n \in 1..Len(state[kind]), m # n
        PROVE  IF kind = "server" THEN state[kind][m].addr # state[kind][n].addr
               ELSE state[kind][m].name # state[kind][n].name
    <3> DEFINE acc == [keys |-> keysMap, state |-> state]
    <3>1. Unique(acc) /\ acc.state = state
      BY DEF IInv, StateMade
    <3> HIDE DEF acc
    <3>2. KeyOf(kind, state[kind][m]) # KeyOf(kind, state[kind][n])
      BY <2>5, <3>1 DEF Unique
    <3> QED
      BY <3>2 DEF KeyOf
  <2> QED
    BY <2>1, <2>2, <2>3, <2>4, <2>5 DEF TypeOK, ListKinds
<1> QED
  BY <1>1, Invariance, PTL

(***************************************************************************)
(* fromManbaHTTPRule gives two APIs one name only where a position in the  *)
(* ingress has two digits.                                                 *)
(***************************************************************************)
THEOREM ShortNamesDiffer == Spec => []NameClashNeedsTwoDigits
<1>1. IInv => NameClashNeedsTwoDigits
  <2> SUFFICES ASSUME IInv, NEW p \in DOMAIN heap, NEW q \in DOMAIN heap, p # q, heap[p].name = heap[q].name,
                      \A n \in 1..4 : ~(p[n] > 10 \/ q[n] > 10)
               PROVE  FALSE
    BY DEF NameClashNeedsTwoDigits
  <2>1. \A n \in 1..4 : p[n] \in Nat /\ q[n] \in Nat
    BY Positions DEF Positive
  <2>2. \A n \in 1..4 : p[n] <= 10 /\ q[n] <= 10
    BY <2>1
  <2> QED
    BY <2>2, OneDigitNames
<1> QED
  BY <1>1, Invariance, PTL

(***************************************************************************)
(* Every routing that Build collects goes with an API that is collected,   *)
(* and to a cluster that is, if any route leads to it.                     *)
(***************************************************************************)
THEOREM RoutingsCorrect == Spec => []RoutingsAnchored
<1>1. IInv => RoutingsAnchored
  <2> SUFFICES ASSUME IInv, pc = "done", NEW r \in ToSet(state.routing)
               PROVE  /\ \E a \in ToSet(state.api) : a.name = r.api
                      /\ Routed(r.cluster) => \E c \in ToSet(state.cluster) : c.name = r.cluster
    BY DEF RoutingsAnchored
  <2>1. \E a \in ToSet(state.api) : a.name = r.api
    <3>1. <<"api", r.api>> \in keysMap /\ "api" \in ListKinds
      BY DEF IInv, StateMade, Origins, ListKinds
    <3> QED
      BY <3>1, KeyKept DEF KeyOf
  <2>2. ASSUME Routed(r.cluster)
        PROVE  \E c \in ToSet(state.cluster) : c.name = r.cluster
    <3>1. PICK ing \in store.ingresses : \E rule \in ToSet(ing.http) : r.cluster \in Found(rule)
      BY <2>2 DEF Routed
    <3>2. PICK rule \in ToSet(ing.http) : r.cluster \in Found(rule)
      BY <3>1
    <3>3. PICK i \in 1..Len(ings) : ing = ings[i]
      BY <3>1, ListDomain DEF IInv, Phase
    <3>4. IsList(Rules(i)) /\ Rules(i) = ing.http
      BY <3>3, RuleLists DEF IInv, Rules
    <3>5. PICK j \in 1..Len(Rules(i)) : rule = Rules(i)[j]
      BY <3>4, ListDomain
    <3>6. r.cluster \in DOMAIN services
      BY <3>2, <3>5, AllBehind
    <3>7. <<"cluster", r.cluster>> \in keysMap /\ "cluster" \in ListKinds
      BY <3>6, AllBehind DEF CollectedWhole, ListKinds
    <3> QED
      BY <3>7, KeyKept DEF KeyOf
  <2> QED
    BY <2>1, <2>2
<1> QED
  BY <1>1, Invariance, PTL

(* The servers of a cluster are the addresses of its service's servers. *)
LEMMA ClusterServers ==
  ASSUME IInv, NEW s \in DOMAIN services
  PROVE  /\ IsList(services[s].servers) /\ IsList(Cluster(s).servers)
         /\ Len(Cluster(s).servers) = Len(services[s].servers)
         /\ \A a : a \in ToSet(Cluster(s).servers) <=> \E x \in ToSet(services[s].servers) : a = x.addr
<1> DEFINE list == services[s].servers
           addrs == Cluster(s).servers
<1>1. IsList(list)
  BY DEF IInv, ServicesMade, ServiceMade
<1>2. addrs = [n \in 1..Len(list) |-> list[n].addr]
  BY DEF Cluster
<1> HIDE DEF list, addrs
<1>3. Len(list) \in Nat /\ addrs = [n \in 1..Len(list) |-> addrs[n]]
  BY <1>1, <1>2, ListDomain
<1>4. IsList(addrs) /\ Len(addrs) = Len(list)
  BY <1>3, ListMade
<1>5. \A a : a \in ToSet(addrs) <=> \E n \in 1..Len(list) : a = list[n].addr
  BY <1>2, <1>4, ListDomain
<1>6. \A a : a \in ToSet(addrs) <=> \E x \in ToSet(list) : a = x.addr
  BY <1>1, <1>5, ListDomain
<1> QED
  BY <1>1, <1>4, <1>6 DEF list, addrs

(***************************************************************************)
(* parseServer divides the rate of a cluster among the servers that the    *)
(* cluster is bound to.                                                    *)
(***************************************************************************)
THEOREM RatesDivided == Spec => []QPSDivided
<1>1. IInv => QPSDivided
  <2> SUFFICES ASSUME IInv, pc = "done", ~Disputed, NEW c \in ToSet(state.cluster), NEW x \in ToSet(state.server),
                      services[c.name].subset.policy # NoPolicy, x.addr \in ToSet(c.servers)
               PROVE  x.qps = services[c.name].subset.policy.qps \div Len(c.servers)
    BY DEF QPSDivided
  <2> DEFINE s == c.name
             policy == services[s].subset.policy
             list == services[s].servers
  <2>1. s \in DOMAIN services /\ c = Cluster(s)
    BY DEF IInv, StateMade, Origins
  <2>2. PICK t \in DOMAIN services : x \in ToSet(services[t].servers)
    BY DEF IInv, StateMade, Origins
  <2>3. PICK y \in ToSet(list) : x.addr = y.addr
    BY <2>1, ClusterServers
  <2>4. x = y
    BY <2>1, <2>2, <2>3 DEF Disputed
  <2>5. Len(c.servers) = Len(list) /\ IsList(list)
    BY <2>1, ClusterServers
  <2>6. PICK n \in 1..Len(list) : y = list[n]
    BY <2>5, ListDomain
  <2>7. y = Server(y.addr, policy, Len(list))
    BY <2>1, <2>6 DEF IInv, ServicesMade, ServiceMade
  <2>8. y.qps = policy.qps \div Len(list)
    BY <2>7 DEF Server
  <2> QED
    BY <2>4, <2>5, <2>8
<1> QED
  BY <1>1, Invariance, PTL

(* An API that a service has is sent to it; the cluster has its servers. *)
LEMMA ServedIfLed ==
  ASSUME IInv, pc = "done", ~SameNames, NEW p \in DOMAIN heap, NEW s \in DOMAIN services,
         Leads(p, s), heap[p].rule.route # <<>>
  PROVE  Serves(p, s)
<1>1. CollectedWhole(s) /\ s \in DOMAIN heap[p].proxies
  BY AllBehind
<1>2. p \in ToSet(services[s].apis)
  BY DEF IInv, ServicesMade, ServiceMade
<1>3. PICK a \in ToSet(state.api) : a.name = heap[p].name
  <2>1. <<"api", heap[p].name>> \in keysMap /\ "api" \in ListKinds
    BY <1>1, <1>2 DEF CollectedWhole, ListKinds
  <2> QED
    BY <2>1, KeyKept DEF KeyOf
<1>4. a = Sent(heap[p])
  <2>1. PICK q \in DOMAIN heap : a = Sent(heap[q])
    BY DEF IInv, StateMade, Origins
  <2>2. heap[q].name = heap[p].name
    BY <1>3, <2>1 DEF Sent
  <2> QED
    BY <2>1, <2>2 DEF SameNames
<1>5. s \in DOMAIN a.proxies
  BY <1>1, <1>4 DEF Sent
<1>6. PICK c \in ToSet(state.cluster) : c.name = s
  <2>1. <<"cluster", s>> \in keysMap /\ "cluster" \in ListKinds
    BY <1>1 DEF CollectedWhole, ListKinds
  <2> QED
    BY <2>1, KeyKept DEF KeyOf
<1>7. c = Cluster(s)
  BY <1>6 DEF IInv, StateMade, Origins
<1>8. ASSUME NEW addr \in ToSet(c.servers)
      PROVE  addr \in {x.addr : x \in ToSet(state.server)}
  <2>1. PICK y \in ToSet(services[s].servers) : addr = y.addr
    BY <1>7, ClusterServers
  <2>2. <<"server", addr>> \in keysMap /\ "server" \in ListKinds
    BY <1>1, <2>1 DEF CollectedWhole, ListKinds
  <2>3. PICK x \in ToSet(state["server"]) : KeyOf("server", x) = addr
    BY <2>2, KeyKept
  <2> QED
    BY <2>3 DEF KeyOf
<1> QED
  BY <1>3, <1>5, <1>6, <1>8 DEF Serves

(* What an API reaches are the services that it leads to. *)
LEMMA ReachedLed ==
  ASSUME IInv, pc = "done", NEW p \in DOMAIN heap
  PROVE  \A s : s \in Reached(p) <=> s \in DOMAIN services /\ Leads(p, s) /\ heap[p].rule.route # <<>>
<1> SUFFICES ASSUME NEW s
             PROVE  s \in Reached(p) <=> s \in DOMAIN services /\ Leads(p, s) /\ heap[p].rule.route # <<>>
  OBVIOUS
<1> DEFINE R == p[2]..Len(Rules(p[1]))
<1>1. p[1] \in 1..Len(ings) /\ p[2] \in 1..Len(Rules(p[1])) /\ Len(Rules(p[1])) \in Nat
  BY Positions
<1>2. R \subseteq 1..Len(Rules(p[1]))
  BY <1>1
<1>3. Leads(p, s) <=> \E j \in R : s \in Found(Rules(p[1])[j])
  BY <1>1, AllBehind DEF Leads
<1>4. (\E j \in R : s \in Found(Rules(p[1])[j])) => s \in DOMAIN services
  BY <1>1, <1>2, AllBehind
<1>5. s \in Reached(p) <=> heap[p].rule.route # <<>> /\ \E j \in R : s \in Found(Rules(p[1])[j])
  BY DEF Reached, Rules
<1> QED
  BY <1>3, <1>4, <1>5

(***************************************************************************)
(* Whatever the order of maps and the sharing of APIs, clusters and        *)
(* servers: an API is sent to the clusters of its rule and of the rules    *)
(* after it in its ingress, all of them with their servers, and no others. *)
(***************************************************************************)
THEOREM RoutesCorrect == Spec => []RoutesReached
<1>1. IInv => RoutesReached
  <2> SUFFICES ASSUME IInv, pc = "done", ~SameNames, NEW p \in DOMAIN heap
               PROVE  /\ \A ref \in Reached(p) : Serves(p, ref)
                      /\ \A a \in ToSet(state.api) : a.name = heap[p].name => DOMAIN a.proxies = Reached(p)
    BY DEF RoutesReached
  <2>1. \A ref \in Reached(p) : Serves(p, ref)
    BY ReachedLed, ServedIfLed
  <2>2. ASSUME NEW a \in ToSet(state.api), a.name = heap[p].name
        PROVE  DOMAIN a.proxies = Reached(p)
    <3>1. PICK q \in DOMAIN heap : a = Sent(heap[q])
      BY DEF IInv, StateMade, Origins
    <3>2. heap[q].name = heap[p].name /\ a.proxies = heap[q].proxies
      BY <2>2, <3>1 DEF Sent
    <3>3. p = q
      BY <3>2 DEF SameNames
    <3>4. DOMAIN a.proxies = {s \in DOMAIN services : Leads(p, s) /\ heap[p].rule.route # <<>>}
      BY <3>2, <3>3, AllBehind
    <3>5. Reached(p) = {s \in DOMAIN services : Leads(p, s) /\ heap[p].rule.route # <<>>}
      <4> DEFINE U == UNION {Found(ings[p[1]].http[j]) : j \in p[2]..Len(ings[p[1]].http)}
      <4>1. Reached(p) = IF heap[p].rule.route = <<>> THEN {} ELSE U
        BY DEF Reached
      <4> HIDE DEF U
      <4>2. CASE heap[p].rule.route = <<>>
        BY <4>1, <4>2
      <4>3. CASE heap[p].rule.route # <<>>
        <5>1. \A s : s \in U <=> s \in DOMAIN services /\ Leads(p, s) /\ heap[p].rule.route # <<>>
          BY <4>1, <4>3, ReachedLed
        <5>2. U = {s \in DOMAIN services : Leads(p, s) /\ heap[p].rule.route # <<>>}
          BY <5>1
        <5> QED
          BY <4>1, <4>3, <5>2
      <4> QED
        BY <4>2, <4>3
    <3> QED
      BY <3>4, <3>5
  <2> QED
    BY <2>1, <2>2
<1> QED
  BY <1>1, Invariance, PTL

(* The webhook asks for what Build looks up: a cluster that it finds, and *)
(* the subset in it, resolve.                                             *)
LEMMA ExistingResolves ==
  ASSUME store \in Stores, NEW ref, isClusterExist(store.clusters, ref)
  PROVE  Resolve(ref) # {}
<1> DEFINE c == store.clusters[ref.name]
           subsets == c.subsets
           I == {i \in 1..Len(subsets) : subsets[i].name = ref.subset}
<1>1. ref.name \in DOMAIN store.clusters /\ \E s \in ToSet(subsets) : s.name = ref.subset
  BY DEF isClusterExist
<1>2. IsList(subsets)
  BY <1>1, StoresAssumption
<1>3. I # {} /\ I \in SUBSET (1..Len(subsets)) /\ Len(subsets) \in Nat
  BY <1>1, <1>2, ListDomain
<1>4. Min(I) \in I
  <2> DEFINE len == Len(subsets)
  <2>1. I # {} /\ I \in SUBSET (1..len) /\ len \in Nat
    BY <1>3
  <2> HIDE DEF I, len
  <2> QED
    BY <2>1, FirstFound
<1>5. getClusterSubset(subsets, ref.subset) = {subsets[Min(I)]}
  <2>1. getClusterSubset(subsets, ref.subset) =
          IF (IF I # {} THEN Min(I) ELSE 0) = 0 THEN {} ELSE {subsets[IF I # {} THEN Min(I) ELSE 0]}
    BY DEF getClusterSubset, SelectInSeq
  <2>2. Min(I) # 0
    <3>1. 0 \notin I
      BY <1>3
    <3> HIDE DEF I
    <3> QED
      BY <1>4, <3>1
  <2> HIDE DEF I
  <2> QED
    BY <1>3, <2>1, <2>2
<1>6. GetManbaCluster(ref.name) = {c}
  BY <1>1 DEF GetManbaCluster
<1> DEFINE x(s, d) == [labels |-> s.labels, policy |-> IF s.policy # NoPolicy THEN s.policy ELSE d.policy]
           sub == subsets[Min(I)]
<1>7. Resolve(ref) = UNION {{x(s, d) : s \in getClusterSubset(d.subsets, ref.subset)} : d \in GetManbaCluster(ref.name)}
  BY DEF Resolve
<1>8. sub \in getClusterSubset(c.subsets, ref.subset) /\ c \in GetManbaCluster(ref.name)
  BY <1>5, <1>6
<1> HIDE DEF x, sub, c, subsets, I
<1>9. x(sub, c) \in Resolve(ref)
  BY <1>7, <1>8
<1> QED
  BY <1>9

(***************************************************************************)
(* No route of an ingress that the admission webhook lets through is       *)
(* passed over by Build, as long as it sees the same clusters.             *)
(***************************************************************************)
THEOREM AdmittedCorrect == Spec => []AdmittedIsServed
<1>1. IInv => AdmittedIsServed
  <2> DEFINE req(n) == [resource |-> "manbaingresses", decodes |-> TRUE, object |-> ings[n]]
  <2> SUFFICES ASSUME IInv, pc = "done", ~SameNames, NEW n \in 1..Len(ings),
                      Handle(store.clusters, req(n)) = "Allowed",
                      NEW p \in DOMAIN heap, p[1] = n, NEW route \in ToSet(heap[p].rule.route)
               PROVE  Serves(p, route.cluster)
    BY DEF AdmittedIsServed
  <2> DEFINE rule == heap[p].rule
             ref == route.cluster
  <2>1. p[2] \in 1..Len(Rules(n)) /\ rule = Rules(n)[p[2]] /\ Len(Rules(n)) \in Nat
    BY Positions DEF APIMade
  <2>2. IsList(Rules(n)) /\ IsList(rule.route) /\ rule \in ToSet(ings[n].http)
    <3>1. IsList(Rules(n)) /\ IsList(rule.route)
      BY <2>1, RuleLists DEF IInv
    <3>2. rule \in ToSet(Rules(n))
      BY <2>1, <3>1, ListDomain
    <3> QED
      BY <3>1, <3>2 DEF Rules
  <2>3. ValidateManbaIngress(store.clusters, ings[n])
    BY DEF Handle
  <2>4. isClusterExist(store.clusters, ref)
    BY <2>2, <2>3 DEF ValidateManbaIngress
  <2>5. Resolve(ref) # {}
    BY <2>4, ExistingResolves DEF IInv, Phase
  <2>6. ref \in Found(rule)
    BY <2>5 DEF Found
  <2>7. rule.route # <<>>
    BY ListEmpty
  <2>8. ref \in DOMAIN services /\ Leads(p, ref)
    BY <2>1, <2>6, AllBehind DEF Leads
  <2> QED
    BY <2>7, <2>8, ServedIfLed
<1> QED
  BY <1>1, Invariance, PTL

-----------------------------------------------------------------------------
(***************************************************************************)
(* Servers that a cluster has twice.                                       *)
(***************************************************************************)
(* An address that is there is not added again. *)
OnceInv(c, i, acc) == IsList(acc) /\ Injective(acc) /\ ToSet(acc) \subseteq c

AddingApart == INSTANCE FoldTheorems WITH Op <- OnceOp, Inv <- OnceInv

PortOp(c, acc, x) == IF x[2] = c.port THEN Append(acc, x) ELSE acc

PortInv(c, i, acc) == IsList(acc) /\ Injective(acc) /\ \A x \in ToSet(acc) : \E j \in 1..i : x = c.list[j]

KeepingApart == INSTANCE FoldTheorems WITH Op <- PortOp, Inv <- PortInv

LEMMA WithPortApart ==
  ASSUME NEW list, NEW port, IsList(list), Injective(list)
  PROVE  Injective(WithPort(list, port)) /\ ToSet(WithPort(list, port)) \subseteq ToSet(list)
<1> DEFINE c == [list |-> list, port |-> port]
<1>0. c.list = list /\ c.port = port
  OBVIOUS
<1> HIDE DEF c
<1>1. Len(list) \in Nat /\ DOMAIN list = 1..Len(list) /\ \A x : x \in ToSet(list) <=> \E i \in 1..Len(list) : x = list[i]
  BY ListDomain
<1>2. PortInv(c, 0, <<>>)
  <2>1. Injective(<<>>)
    BY DEF Injective
  <2> QED
    BY <2>1, ListEmpty DEF PortInv
<1>3. ASSUME NEW j \in 1..Len(list), NEW a, PortInv(c, j - 1, a)
      PROVE  PortInv(c, j, PortOp(c, a, list[j]))
  <2>1. IsList(a) /\ Injective(a) /\ \A x \in ToSet(a) : \E i \in 1..(j - 1) : x = list[i]
    BY <1>0, <1>3 DEF PortInv
  <2>2. \A i \in 1..(j - 1) : i \in 1..j /\ i \in 1..Len(list) /\ i # j
    BY <1>1
  <2>3. j \in 1..j
    BY <1>1
  <2>4. list[j] \notin ToSet(a)
    BY <2>1, <2>2 DEF Injective
  <2>5. IsList(Append(a, list[j])) /\ Injective(Append(a, list[j])) /\ ToSet(Append(a, list[j])) = ToSet(a) \cup {list[j]}
    BY <2>1, <2>4, ListAppend, InjectiveAppend
  <2>6. PortInv(c, j, a) /\ PortInv(c, j, Append(a, list[j]))
    <3> DEFINE b == Append(a, list[j])
    <3> HIDE DEF b
    <3>1. IsList(b) /\ Injective(b) /\ ToSet(b) = ToSet(a) \cup {list[j]}
      BY <2>5 DEF b
    <3>2. PortInv(c, j, b)
      BY <1>0, <2>1, <2>2, <2>3, <3>1 DEF PortInv
    <3>3. PortInv(c, j, a)
      BY <1>0, <2>1, <2>2 DEF PortInv
    <3> QED
      BY <3>2, <3>3 DEF b
  <2> QED
    BY <2>6 DEF PortOp
<1>4. PortInv(c, Len(list), KeepingApart!Fold(c, <<>>, list))
  BY <1>1, <1>2, <1>3, KeepingApart!FoldKeeps
<1>5. WithPort(list, port) = KeepingApart!Fold(c, <<>>, list)
  BY <1>0 DEF WithPort, PortOp, KeepingApart!Fold, KeepingApart!MapThenFoldSet,
       KeepingApart!Last, FoldLeft, MapThenFoldSet, Max
<1> QED
  BY <1>0, <1>1, <1>4, <1>5 DEF PortInv

(* What is listed for a service are hosts that it has. *)
LEMMA ListedHosts ==
  ASSUME store \in Stores, NEW svc, NEW port, ~svc.external, NEW x \in ToSet(Listed(svc, port))
  PROVE  HasHost(svc, x[1])
<1> DEFINE subsets == GetEndpointsForService(svc.name)
           part(ss, m) == IF ss.ports[m].tcp /\ port.name \in {"", ss.ports[m].name}
                          THEN [a \in 1..Len(ss.addrs) |-> <<ss.addrs[a], ss.ports[m].port>>] ELSE <<>>
           parts(ss) == [m \in 1..Len(ss.ports) |-> part(ss, m)]
           all == [n \in 1..Len(subsets) |-> FlattenSeq(parts(subsets[n]))]
<1>1. /\ IsList(subsets) /\ \A ss \in ToSet(subsets) : IsList(ss.addrs) /\ IsList(ss.ports)
      /\ subsets # <<>> => svc.name \in DOMAIN store.endpoints /\ subsets = store.endpoints[svc.name]
  <2>1. CASE svc.name \in DOMAIN store.endpoints
    BY <2>1, StoresAssumption DEF GetEndpointsForService
  <2>2. CASE svc.name \notin DOMAIN store.endpoints
    BY <2>2, ListEmpty DEF GetEndpointsForService
  <2> QED
    BY <2>1, <2>2
<1>2. ASSUME NEW ss, IsList(ss.addrs), IsList(ss.ports)
      PROVE  IsList(FlattenSeq(parts(ss))) /\ \A y \in ToSet(FlattenSeq(parts(ss))) : y[1] \in ToSet(ss.addrs)
  <2>1. /\ Len(ss.addrs) \in Nat /\ Len(ss.ports) \in Nat
        /\ \A a \in 1..Len(ss.addrs) : ss.addrs[a] \in ToSet(ss.addrs)
    BY <1>2, ListDomain
  <2>2. ASSUME NEW m
        PROVE  IsList(part(ss, m)) /\ \A y \in ToSet(part(ss, m)) : y[1] \in ToSet(ss.addrs)
    <3> DEFINE f == [a \in 1..Len(ss.addrs) |-> <<ss.addrs[a], ss.ports[m].port>>]
    <3>1. f = [a \in 1..Len(ss.addrs) |-> f[a]] /\ \A a \in 1..Len(ss.addrs) : f[a][1] = ss.addrs[a]
      OBVIOUS
    <3> HIDE DEF f
    <3>2. IsList(f) /\ Len(f) = Len(ss.addrs)
      BY <2>1, <3>1, ListMade
    <3>3. \A y \in ToSet(f) : y[1] \in ToSet(ss.addrs)
      BY <2>1, <3>1, <3>2, ListDomain
    <3> QED
      BY <3>2, <3>3, ListEmpty DEF f
  <2> DEFINE p == parts(ss)
  <2>3. p = [m \in 1..Len(ss.ports) |-> p[m]] /\ \A m \in 1..Len(ss.ports) : p[m] = part(ss, m)
    <3> HIDE DEF part
    <3> QED
      OBVIOUS
  <2> HIDE DEF part, p
  <2>4. \A m \in 1..Len(ss.ports) : IsList(p[m]) /\ \A y \in ToSet(p[m]) : y[1] \in ToSet(ss.addrs)
    BY <2>2, <2>3
  <2>5. /\ IsList(FlattenSeq(p))
        /\ \A y : y \in ToSet(FlattenSeq(p)) <=> \E m \in 1..Len(ss.ports) : y \in ToSet(p[m])
    BY <2>1, <2>3, <2>4, Flattened
  <2> QED
    BY <2>4, <2>5 DEF p
<1>3. Listed(svc, port) = FlattenSeq(all)
  BY DEF Listed
<1>4. Len(subsets) \in Nat /\ \A n \in 1..Len(subsets) : subsets[n] \in ToSet(subsets)
  BY <1>1, ListDomain
<1> HIDE DEF subsets, parts
<1>5. /\ all = [n \in 1..Len(subsets) |-> all[n]]
      /\ \A n \in 1..Len(subsets) : all[n] = FlattenSeq(parts(subsets[n])) /\ IsList(all[n])
  BY <1>1, <1>2, <1>4
<1> HIDE DEF all
<1>6. PICK n \in 1..Len(subsets) : x \in ToSet(all[n])
  BY <1>3, <1>4, <1>5, Flattened
<1>7. x[1] \in ToSet(subsets[n].addrs) /\ subsets[n] \in ToSet(subsets)
  BY <1>1, <1>2, <1>4, <1>5, <1>6
<1>8. subsets # <<>>
  BY <1>7, ListEmpty
<1> QED
  BY <1>1, <1>7, <1>8 DEF HasHost

(* The endpoints of one service are different, and hosts that it has. *)
LEMMA EndpointsApart ==
  ASSUME store \in Stores, NEW svc, NEW port
  PROVE  /\ Injective(getEndpoints(svc, port))
         /\ \A x \in ToSet(getEndpoints(svc, port)) : HasHost(svc, x[1])
<1> DEFINE list == Listed(svc, port)
           S == ToSet(list)
           once == AddingApart!Fold(S, <<>>, list)
<1>1. IsList(list)
  BY ListedList
<1>2. getEndpoints(svc, port) = IF svc.external THEN External(svc, port) ELSE once
  BY DEF getEndpoints, OnceOp, AddingApart!Fold, AddingApart!MapThenFoldSet,
       AddingApart!Last, FoldLeft, MapThenFoldSet, Max
<1>3. CASE svc.external
  <2>1. getEndpoints(svc, port) \in {<<>>, << <<svc.host, port.target>> >>}
    BY <1>2, <1>3 DEF External
  <2>2. CASE getEndpoints(svc, port) = <<>>
    BY <2>2, ListEmpty DEF Injective
  <2>3. CASE getEndpoints(svc, port) = << <<svc.host, port.target>> >>
    <3> DEFINE e == << <<svc.host, port.target>> >>
    <3>1. Len(e) = 1 /\ e[1] = <<svc.host, port.target>> /\ DOMAIN e = 1..1
      OBVIOUS
    <3>2. Injective(e)
      BY <3>1 DEF Injective
    <3>3. \A x \in ToSet(e) : x = <<svc.host, port.target>>
      BY DEF ToSet
    <3> QED
      BY <1>3, <2>3, <3>2, <3>3 DEF HasHost
  <2> QED
    BY <2>1, <2>2, <2>3
<1>4. CASE ~svc.external
  <2> HIDE DEF list
  <2>1. /\ Len(list) \in Nat /\ DOMAIN list = 1..Len(list)
        /\ \A i \in 1..Len(list) : list[i] \in S
    BY <1>1, ListDomain
  <2>2. OnceInv(S, 0, <<>>)
    <3>1. Injective(<<>>)
      BY DEF Injective
    <3> QED
      BY <3>1, ListEmpty DEF OnceInv
  <2>3. \A j \in 1..Len(list) : \A a : OnceInv(S, j - 1, a) => OnceInv(S, j, OnceOp(S, a, list[j]))
    <3> SUFFICES ASSUME NEW j \in 1..Len(list), NEW a, OnceInv(S, j - 1, a)
                 PROVE  OnceInv(S, j, OnceOp(S, a, list[j]))
      OBVIOUS
    <3>1. IsList(a) /\ Injective(a) /\ ToSet(a) \subseteq S /\ list[j] \in S
      BY <2>1 DEF OnceInv
    <3>2. CASE list[j] \in ToSet(a)
      BY <3>1, <3>2 DEF OnceInv, OnceOp
    <3>3. CASE list[j] \notin ToSet(a)
      <4> DEFINE b == Append(a, list[j])
      <4>1. IsList(b) /\ Injective(b) /\ ToSet(b) = ToSet(a) \cup {list[j]}
        BY <3>1, <3>3, ListAppend, InjectiveAppend
      <4>2. OnceOp(S, a, list[j]) = b
        BY <3>3 DEF OnceOp
      <4> HIDE DEF b, S
      <4> QED
        BY <3>1, <4>1, <4>2 DEF OnceInv
    <3> QED
      BY <3>2, <3>3
  <2> HIDE DEF S
  <2>4. OnceInv(S, Len(list), once)
    BY <2>1, <2>2, <2>3, AddingApart!FoldKeeps
  <2>5. Injective(once) /\ ToSet(once) \subseteq S
    BY <2>4 DEF OnceInv
  <2>6. \A x \in S : HasHost(svc, x[1])
    BY <1>4, ListedHosts DEF S, list
  <2> QED
    BY <1>2, <1>4, <2>5, <2>6
<1> QED
  BY <1>3, <1>4

(* An address that a cluster would have twice is a host of two services. *)
Blamed(labels, x) ==
  \E a, b \in ListServices(labels) : a # b /\ HasHost(a, x[1]) /\ HasHost(b, x[1])

LEMMA ServersBlamed ==
  ASSUME store \in Stores, NEW labels, NEW list \in SetToSeqs(ListServices(labels)), NEW port,
         NEW f, f = getServiceEndpoints(list, port), NEW l \in 1..Len(f), NEW m \in 1..Len(f), l # m, f[l] = f[m]
  PROVE  Blamed(labels, f[l])
<1> DEFINE I == {i \in 1..Len(list) : Refuses(list[i], port)}
           stop == IF I # {} THEN Min(I) ELSE 0
           upTo == IF stop = 0 THEN Len(list) ELSE stop - 1
           q == [n \in 1..upTo |-> WithPort(getEndpoints(list[n], ServicePort(list[n], port)), port)]
<1>1. IsFiniteSet(ListServices(labels))
  <2>1. IsFiniteSet(store.services) /\ ListServices(labels) \subseteq store.services
    BY StoresAssumption DEF ListServices
  <2> QED
    BY <2>1, FS_Subset
<1>2. /\ IsList(list) /\ Len(list) \in Nat /\ ToSet(list) = ListServices(labels)
      /\ \A i \in 1..Len(list) : list[i] \in ListServices(labels)
  BY <1>1, SetListed, ListDomain
<1>3. \A i, j \in 1..Len(list) : i # j => list[i] # list[j]
  <2> DEFINE n == Cardinality(ListServices(labels))
  <2>1. n \in Nat
    BY <1>1, FS_CardinalityType
  <2>2. list \in [1..n -> ListServices(labels)] /\ \A i, j \in 1..n : i # j => list[i] # list[j]
    BY DEF SetToSeqs
  <2> HIDE DEF n
  <2>3. DOMAIN list = 1..n /\ DOMAIN list = 1..Len(list)
    BY <1>2, <2>2, ListDomain
  <2> QED
    BY <2>2, <2>3
<1>4. stop \in 0..Len(list)
  <2>1. I \in SUBSET (1..Len(list))
    OBVIOUS
  <2> HIDE DEF I
  <2>2. I # {} => Min(I) \in 1..Len(list)
    BY <1>2, <2>1, FirstFound
  <2> QED
    BY <1>2, <2>2
<1>5. f = FlattenSeq(q)
  BY DEF getServiceEndpoints, SelectInSeq
<1> HIDE DEF stop
<1>6. upTo \in 0..Len(list)
  BY <1>2, <1>4
<1> HIDE DEF upTo
<1>7. /\ q = [n \in 1..upTo |-> q[n]]
      /\ \A n \in 1..upTo : q[n] = WithPort(getEndpoints(list[n], ServicePort(list[n], port)), port)
  OBVIOUS
<1> HIDE DEF q
<1>8. \A n \in 1..upTo : /\ IsList(q[n]) /\ Injective(q[n])
                         /\ \A x \in ToSet(q[n]) : HasHost(list[n], x[1])
  <2> SUFFICES ASSUME NEW n \in 1..upTo
               PROVE  /\ IsList(q[n]) /\ Injective(q[n])
                      /\ \A x \in ToSet(q[n]) : HasHost(list[n], x[1])
    OBVIOUS
  <2> DEFINE e == getEndpoints(list[n], ServicePort(list[n], port))
  <2>1. IsList(e) /\ Injective(e) /\ \A x \in ToSet(e) : HasHost(list[n], x[1])
    BY EndpointsList, EndpointsApart
  <2>2. q[n] = WithPort(e, port)
    BY <1>7
  <2> HIDE DEF e
  <2> QED
    BY <2>1, <2>2, WithPortList, WithPortApart
<1>9. Doubled(q, upTo, f[l])
  <2>1. upTo \in Nat
    BY <1>2, <1>6
  <2> QED
    BY <1>5, <1>7, <1>8, <2>1, FlatRepeats
<1>10. PICK a \in 1..upTo, b \in 1..upTo : a # b /\ f[l] \in ToSet(q[a]) /\ f[l] \in ToSet(q[b])
  BY <1>9 DEF Doubled
<1>11. a \in 1..Len(list) /\ b \in 1..Len(list)
  BY <1>2, <1>6
<1>12. /\ list[a] \in ListServices(labels) /\ list[b] \in ListServices(labels) /\ list[a] # list[b]
       /\ HasHost(list[a], f[l][1]) /\ HasHost(list[b], f[l][1])
  BY <1>2, <1>3, <1>8, <1>10, <1>11
<1> QED
  BY <1>12 DEF Blamed

(* A service has a server at x twice, and was made for these labels. *)
Repeated(svc, labels, x) ==
  /\ labels = svc.subset.labels
  /\ \E l, m \in 1..Len(svc.servers) : l # m /\ svc.servers[l].addr = x /\ svc.servers[m].addr = x

(* Every server that a service has twice is a host of two Services. *)
BlameInv ==
  \A s \in DOMAIN services : \A labels, x : Repeated(services[s], labels, x) => Blamed(labels, x)

(* Who is to blame depends on the store alone. *)
LEMMA SameBlame ==
  ASSUME store' = store
  PROVE  \A labels, x : Blamed(labels, x)' = Blamed(labels, x)
<1>1. \A labels : ListServices(labels)' = ListServices(labels)
  BY DEF ListServices
<1>2. \A svc, host : HasHost(svc, host)' = HasHost(svc, host)
  BY DEF HasHost
<1> QED
  BY <1>1, <1>2 DEF Blamed

(* A service gets its servers. *)
LEMMA FillBlame ==
  ASSUME IInv, BlameInv, NEW s \in left, Fill(s)
  PROVE  BlameInv'
<1>1. store' = store /\ store \in Stores /\ s \in DOMAIN services /\ ServiceMade(s)
  BY DEF Fill, IInv, Phase, ServicesMade
<1> DEFINE labels == services[s].subset.labels
           policy == services[s].subset.policy
<1>2. PICK list \in SetToSeqs(ListServices(labels)) :
        services' = [services EXCEPT ![s].servers =
          [n \in 1..Len(getServiceEndpoints(list, s.port)) |->
             Server(getServiceEndpoints(list, s.port)[n], policy, Len(getServiceEndpoints(list, s.port)))]]
  BY DEF Fill
<1> DEFINE found == getServiceEndpoints(list, s.port)
           servers == [n \in 1..Len(found) |-> Server(found[n], policy, Len(found))]
<1>3. services' = [services EXCEPT ![s].servers = servers]
  BY <1>2
<1>4. /\ servers = [n \in 1..Len(found) |-> servers[n]]
      /\ \A n \in 1..Len(found) : servers[n] = Server(found[n], policy, Len(found))
  OBVIOUS
<1>5. IsList(found)
  BY <1>1, ServersList
<1>6. \A l, m \in 1..Len(found) : l # m /\ found[l] = found[m] => Blamed(labels, found[l])
  BY <1>1, ServersBlamed
<1> HIDE DEF found, servers, labels, policy
<1>7. Len(servers) = Len(found)
  BY <1>4, <1>5, ListDomain, ListMade
<1>8. \A n \in 1..Len(found) : servers[n].addr = found[n]
  BY <1>4 DEF Server
<1>9. /\ DOMAIN services' = DOMAIN services
      /\ \A t \in DOMAIN services : t # s => services'[t] = services[t]
      /\ services'[s] = [services[s] EXCEPT !.servers = servers]
  BY <1>1, <1>3
<1>10. services'[s].subset.labels = labels /\ services'[s].servers = servers
  BY <1>1, <1>9 DEF ServiceMade, labels
<1>11. \A x : Repeated(services'[s], labels, x) => Blamed(labels, x)
  BY <1>6, <1>7, <1>8, <1>10 DEF Repeated
<1>12. \A t \in DOMAIN services' : \A ls, x : Repeated(services'[t], ls, x) => Blamed(ls, x)
  <2> SUFFICES ASSUME NEW t \in DOMAIN services', NEW ls, NEW x, Repeated(services'[t], ls, x)
               PROVE  Blamed(ls, x)
    OBVIOUS
  <2>1. CASE t = s
    <3>1. ls = labels
      BY <1>10, <2>1 DEF Repeated
    <3> QED
      BY <1>11, <2>1, <3>1
  <2>2. CASE t # s
    BY <1>9, <2>2 DEF BlameInv
  <2> QED
    BY <2>1, <2>2
<1> QED
  BY <1>1, <1>12, SameBlame DEF BlameInv

(* A rule makes services that have no servers yet. *)
LEMMA ParseRuleBlame ==
  ASSUME IInv, BlameInv, ParseRule
  PROVE  BlameInv'
<1> DEFINE rule == ings[at[1]].http[at[2]]
           all == apis'
<1>1. /\ store' = store /\ services' = AddRoutes(services, rule.route, all)
      /\ IsList(rule.route) /\ IsList(all)
  <2>1. /\ pc = "parse" /\ store' = store /\ apis' = apis \o PointersOf(at[1], at[2], rule)
        /\ services' = AddRoutes(services, rule.route, apis \o PointersOf(at[1], at[2], rule))
    BY DEF ParseRule
  <2>2. IsList(all)
    BY ParseRuleIInv DEF IInv, HeapMade
  <2>3. at[1] \in 1..Len(ings) /\ at[2] \in 1..Len(Rules(at[1]))
    <3>1. at[1] \in Positive /\ at[2] \in Positive /\ Len(ings) \in Nat /\ at[1] <= Len(ings) /\ at[2] <= Len(Rules(at[1]))
      BY ListDomain DEF IInv, Phase, ParseRule, Rules
    <3>2. at[1] \in 1..Len(ings)
      BY <3>1 DEF Positive
    <3>3. Len(Rules(at[1])) \in Nat
      BY <2>1, <3>2, RuleLists, ListDomain DEF IInv
    <3> QED
      BY <3>1, <3>2, <3>3 DEF Positive
  <2>4. IsList(Rules(at[1])[at[2]].route)
    BY <2>1, <2>3, RuleLists DEF IInv
  <2> QED
    BY <2>1, <2>2, <2>4 DEF Rules
<1> HIDE DEF rule, all
<1> DEFINE c == [base |-> services, routes |-> rule.route, ptrs |-> all]
<1>2. AddInv(c, Len(rule.route), services')
  <2>1. \A s \in DOMAIN services : DOMAIN services[s] = SvcFields /\ IsList(services[s].apis)
    BY DEF IInv, ServicesMade, ServiceMade, SvcFields
  <2> QED
    BY <1>1, <2>1, RoutesAdded
<1>3. c.base = services
  OBVIOUS
<1> HIDE DEF c
<1>4. \A s \in DOMAIN services' :
        /\ s \in DOMAIN services =>
             services'[s].servers = services[s].servers /\ services'[s].subset = services[s].subset
        /\ s \notin DOMAIN services => services'[s].servers = <<>>
  BY <1>2, <1>3 DEF AddInv
<1>5. \A s \in DOMAIN services' : \A ls, x : Repeated(services'[s], ls, x) => Blamed(ls, x)
  <2> SUFFICES ASSUME NEW s \in DOMAIN services', NEW ls, NEW x, Repeated(services'[s], ls, x)
               PROVE  Blamed(ls, x)
    OBVIOUS
  <2>1. CASE s \in DOMAIN services
    <3>1. Repeated(services[s], ls, x)
      BY <1>4, <2>1 DEF Repeated
    <3> QED
      BY <2>1, <3>1 DEF BlameInv
  <2>2. CASE s \notin DOMAIN services
    <3>1. services'[s].servers = <<>> /\ 1..0 = {}
      BY <1>4, <2>2
    <3> QED
      BY <3>1, ListEmpty DEF Repeated
  <2> QED
    BY <2>1, <2>2
<1> QED
  BY <1>1, <1>5, SameBlame DEF BlameInv

LEMMA BlameInvariance == Spec => []BlameInv
<1>1. Init => BlameInv
  BY DEF Init, Nothing, BlameInv
<1>2. IInv /\ BlameInv /\ [Next]_vars => BlameInv'
  <2> SUFFICES ASSUME IInv, BlameInv, [Next]_vars PROVE BlameInv'
    OBVIOUS
  <2>1. CASE UNCHANGED <<store, services>>
    BY <2>1, SameBlame DEF BlameInv
  <2>2. CASE Again
    <3>1. DOMAIN services' = {}
      BY <2>2 DEF Again, Nothing
    <3> QED
      BY <3>1 DEF BlameInv
  <2>3. CASE ParseRule
    BY <2>3, ParseRuleBlame
  <2>4. CASE \E s \in left : Fill(s)
    BY <2>4, FillBlame
  <2>5. \/ UNCHANGED <<store, services>> \/ Again \/ ParseRule \/ \E s \in left : Fill(s)
    BY DEF Next, vars, List, NextIngress, Parsed, Collect, Filled, Collected, Done
  <2> QED
    BY <2>1, <2>2, <2>3, <2>4, <2>5
<1> QED
  BY <1>1, <1>2, Invariance, PTL DEF Spec

(***************************************************************************)
(* A cluster is bound to a server twice, so that OnUpdate fails on it      *)
(* whenever it runs, only when two Services of its subset have an endpoint *)
(* in common: getEndpoints itself lists no address twice.                  *)
(***************************************************************************)
THEOREM RepeatsBlamed == Spec => []RepeatedBlamesServices
<1>1. IInv /\ BlameInv => RepeatedBlamesServices
  <2> SUFFICES ASSUME IInv, BlameInv, pc = "done", NEW c \in ToSet(state.cluster),
                      NEW l \in 1..Len(c.servers), NEW m \in 1..Len(c.servers), l # m, c.servers[l] = c.servers[m]
               PROVE  Blamed(services[c.name].subset.labels, c.servers[l])
    BY DEF RepeatedBlamesServices, Blamed
  <2> DEFINE s == c.name
             list == services[s].servers
  <2>1. s \in DOMAIN services /\ c = Cluster(s)
    BY DEF IInv, StateMade, Origins
  <2>2. Len(c.servers) = Len(list)
    BY <2>1, ClusterServers
  <2>3. \A n \in 1..Len(list) : c.servers[n] = list[n].addr
    BY <2>1 DEF Cluster
  <2>4. Repeated(services[s], services[s].subset.labels, c.servers[l])
    BY <2>2, <2>3 DEF Repeated
  <2> QED
    BY <2>1, <2>4 DEF BlameInv
<1> QED
  BY <1>1, Invariance, BlameInvariance, PTL

(* Every node of an API is one that its rule may give it. *)
Noded(api) ==
  /\ api.proxies = [ref \in DOMAIN api.proxies |-> api.proxies[ref]]
  /\ \A ref \in DOMAIN api.proxies : api.proxies[ref] \in DispatchNode(api)

(* The routings that the rule of an API gives it. *)
RoutingsOf(api) ==
  ToSet(parseRouting(api, api.rule.mirror, "mirror")) \cup ToSet(parseRouting(api, api.rule.split, "split"))

(* They are those of the rule, under the name of the API. *)
LEMMA SameNodes ==
  ASSUME NEW api, NEW old, api.name = old.name, api.conf = old.conf, api.rule = old.rule
  PROVE  DispatchNode(api) = DispatchNode(old) /\ RoutingsOf(api) = RoutingsOf(old)
<1>1. DispatchNode(api) = DispatchNode(old)
  BY DEF DispatchNode
<1>2. \A list, strategy : parseRouting(api, list, strategy) = parseRouting(old, list, strategy)
  BY DEF parseRouting
<1> QED
  BY <1>1, <1>2 DEF RoutingsOf

(* Filling an API, in full. *)
LEMMA APINoded ==
  ASSUME NEW api, NEW s, NEW new \in fillAPI(api, s), WellFormed(api), Noded(api)
  PROVE  Noded(new) /\ ToSet(new.routings) = ToSet(api.routings) \cup RoutingsOf(api)
<1> DEFINE m == parseRouting(api, api.rule.mirror, "mirror")
           sp == parseRouting(api, api.rule.split, "split")
           all == api.routings \o m \o sp
           routed == [api EXCEPT !.routings = all]
           noded(node) == [routed EXCEPT !.proxies = [r \in DOMAIN @ \cup {s} |-> IF r = s THEN node ELSE @[r]]]
<1>1. IsList(m) /\ IsList(sp) /\ RoutingsOf(api) = ToSet(m) \cup ToSet(sp)
  BY RoutingsParsed DEF WellFormed, RoutingsOf
<1>2. fillAPI(api, s) = IF api.rule.route = <<>> \/ s \in DOMAIN api.proxies THEN {routed}
                        ELSE {noded(node) : node \in DispatchNode(api)}
  BY DEF fillAPI
<1> HIDE DEF m, sp
<1>3. ToSet(all) = ToSet(api.routings) \cup RoutingsOf(api)
  BY <1>1, ListConcat DEF WellFormed
<1> HIDE DEF all
<1>4. /\ DOMAIN routed = APIFields
      /\ routed.name = api.name /\ routed.conf = api.conf /\ routed.rule = api.rule
      /\ routed.proxies = api.proxies /\ routed.routings = all
  BY DEF WellFormed, APIFields
<1> HIDE DEF routed
<1>5. CASE api.rule.route = <<>> \/ s \in DOMAIN api.proxies
  <2>1. new = routed
    BY <1>2, <1>5
  <2>2. DispatchNode(routed) = DispatchNode(api)
    BY <1>4, SameNodes
  <2> QED
    BY <1>3, <1>4, <2>1, <2>2 DEF Noded
<1>6. CASE ~(api.rule.route = <<>> \/ s \in DOMAIN api.proxies)
  <2>1. PICK node \in DispatchNode(api) : new = noded(node)
    <3> HIDE DEF noded
    <3>1. new \in {noded(node) : node \in DispatchNode(api)}
      BY <1>2, <1>6
    <3> QED
      BY <3>1
  <2> DEFINE pr == [r \in DOMAIN routed.proxies \cup {s} |-> IF r = s THEN node ELSE routed.proxies[r]]
  <2>2. new = [routed EXCEPT !.proxies = pr]
    BY <2>1
  <2>3. /\ pr = [r \in DOMAIN pr |-> pr[r]] /\ DOMAIN pr = DOMAIN api.proxies \cup {s} /\ pr[s] = node
        /\ \A r \in DOMAIN api.proxies : r # s => pr[r] = api.proxies[r]
    BY <1>4
  <2> HIDE DEF pr, noded
  <2>4. /\ new.name = api.name /\ new.conf = api.conf /\ new.rule = api.rule
        /\ new.routings = all /\ new.proxies = pr
    BY <1>4, <2>2 DEF APIFields
  <2>5. DispatchNode(new) = DispatchNode(api)
    BY <2>4, SameNodes
  <2>6. \A r \in DOMAIN pr : pr[r] \in DispatchNode(api)
    BY <2>3 DEF Noded
  <2>7. Noded(new)
    BY <2>3, <2>4, <2>5, <2>6 DEF Noded
  <2> QED
    BY <1>3, <2>4, <2>7
<1> QED
  BY <1>5, <1>6

(* The heaps that the first i APIs may have led to. *)
NodedHeap(c, i, h) ==
  /\ DOMAIN h = DOMAIN c.h0
  /\ \A p \in DOMAIN h :
       /\ WellFormed(h[p]) /\ SameRule(h[p], c.h0[p]) /\ Noded(h[p])
       /\ \A r : r \in ToSet(h[p].routings) <=>
            \/ r \in ToSet(c.h0[p].routings)
            \/ r \in RoutingsOf(c.h0[p]) /\ \E j \in 1..i : p = c.ptrs[j]

NodeInv(c, i, heaps) == \A h \in heaps : NodedHeap(c, i, h)

Noding == INSTANCE FoldTheorems WITH Op <- FillOp, Inv <- NodeInv

(* One API more. *)
LEMMA NodeStep ==
  ASSUME NEW c, NEW i \in Nat, NEW heaps, NodeInv(c, i, heaps), c.ptrs[i + 1] \in DOMAIN c.h0
  PROVE  NodeInv(c, i + 1, FillOp(c, heaps, c.ptrs[i + 1]))
<1> DEFINE p == c.ptrs[i + 1]
<1> SUFFICES ASSUME NEW g \in FillOp(c, heaps, p)
             PROVE  NodedHeap(c, i + 1, g)
  BY DEF NodeInv
<1>1. PICK h \in heaps : \E api \in fillAPI(h[p], c.s) : g = [h EXCEPT ![p] = api]
  BY DEF FillOp
<1>2. PICK api \in fillAPI(h[p], c.s) : g = [h EXCEPT ![p] = api]
  BY <1>1
<1>3. NodedHeap(c, i, h)
  BY <1>1 DEF NodeInv
<1>4. p \in DOMAIN h /\ WellFormed(h[p]) /\ SameRule(h[p], c.h0[p]) /\ Noded(h[p])
  BY <1>3 DEF NodedHeap
<1>5. DOMAIN g = DOMAIN c.h0 /\ g[p] = api /\ \A q \in DOMAIN h : q # p => g[q] = h[q]
  BY <1>2, <1>3, <1>4 DEF NodedHeap
<1>6. WellFormed(api) /\ SameRule(api, h[p])
  BY <1>2, <1>4, APIFilled
<1>7. Noded(api) /\ ToSet(api.routings) = ToSet(h[p].routings) \cup RoutingsOf(h[p])
  BY <1>2, <1>4, APINoded
<1>8. SameRule(api, c.h0[p])
  BY <1>4, <1>6 DEF SameRule
<1>9. RoutingsOf(h[p]) = RoutingsOf(c.h0[p])
  BY <1>4, SameNodes DEF SameRule
<1>10. \A j : j \in 1..(i + 1) <=> j \in 1..i \/ j = i + 1
  OBVIOUS
<1>11. ASSUME NEW q \in DOMAIN g
       PROVE  /\ WellFormed(g[q]) /\ SameRule(g[q], c.h0[q]) /\ Noded(g[q])
              /\ \A r : r \in ToSet(g[q].routings) <=>
                   \/ r \in ToSet(c.h0[q].routings)
                   \/ r \in RoutingsOf(c.h0[q]) /\ \E j \in 1..(i + 1) : q = c.ptrs[j]
  <2>1. CASE q = p
    <3>1. \A r : r \in ToSet(api.routings) <=> r \in ToSet(c.h0[p].routings) \/ r \in RoutingsOf(c.h0[p])
      BY <1>3, <1>4, <1>7, <1>9 DEF NodedHeap
    <3>2. i + 1 \in 1..(i + 1) /\ p = c.ptrs[i + 1]
      OBVIOUS
    <3> HIDE DEF p
    <3> QED
      BY <1>5, <1>6, <1>7, <1>8, <2>1, <3>1, <3>2
  <2>2. CASE q # p
    <3>1. q \in DOMAIN h /\ g[q] = h[q]
      BY <1>3, <1>5, <2>2 DEF NodedHeap
    <3>2. \A j \in 1..(i + 1) : q = c.ptrs[j] => j \in 1..i
      BY <1>10, <2>2
    <3> QED
      BY <1>3, <1>10, <3>1, <3>2 DEF NodedHeap
  <2> QED
    BY <2>1, <2>2
<1> QED
  BY <1>5, <1>11 DEF NodedHeap

(* The loop over all APIs of a service, in full. *)
LEMMA APIsNoded ==
  ASSUME NEW h0, NEW ptrs, NEW s, IsList(ptrs), ToSet(ptrs) \subseteq DOMAIN h0,
         \A p \in DOMAIN h0 : WellFormed(h0[p]) /\ Noded(h0[p]), NEW h \in fillAPIs(h0, ptrs, s)
  PROVE  \A p \in DOMAIN h0 :
           /\ SameRule(h[p], h0[p]) /\ Noded(h[p])
           /\ \A r : r \in ToSet(h[p].routings) <=>
                \/ r \in ToSet(h0[p].routings)
                \/ r \in RoutingsOf(h0[p]) /\ p \in ToSet(ptrs)
<1> DEFINE c == [h0 |-> h0, ptrs |-> ptrs, s |-> s]
           n == Len(ptrs)
<1>1. c.h0 = h0 /\ c.ptrs = ptrs /\ c.s = s
  OBVIOUS
<1> HIDE DEF c
<1>2. n \in Nat /\ DOMAIN ptrs = 1..n /\ \A p : p \in ToSet(ptrs) <=> \E j \in 1..n : p = ptrs[j]
  BY ListDomain
<1>3. NodeInv(c, 0, {h0})
  <2>1. \A j \in 1..0 : FALSE
    OBVIOUS
  <2>2. \A p \in DOMAIN h0 : SameRule(h0[p], h0[p])
    BY DEF SameRule
  <2> QED
    BY <1>1, <2>1, <2>2 DEF NodeInv, NodedHeap
<1>4. \A j \in 1..n : \A a : NodeInv(c, j - 1, a) => NodeInv(c, j, FillOp(c, a, ptrs[j]))
  <2> SUFFICES ASSUME NEW j \in 1..n, NEW a, NodeInv(c, j - 1, a)
               PROVE  NodeInv(c, j, FillOp(c, a, ptrs[j]))
    OBVIOUS
  <2>1. j - 1 \in Nat /\ (j - 1) + 1 = j
    BY <1>2
  <2>2. ptrs[j] \in DOMAIN h0
    BY <1>2
  <2> QED
    BY <1>1, <2>1, <2>2, NodeStep
<1>5. NodeInv(c, n, Noding!Fold(c, {h0}, ptrs))
  <2> HIDE DEF n
  <2> QED
    BY <1>2, <1>3, <1>4, Noding!FoldKeeps
<1>6. fillAPIs(h0, ptrs, s) = Noding!Fold(c, {h0}, ptrs)
  BY <1>1 DEF fillAPIs, FillOp, Noding!Fold, Noding!MapThenFoldSet, Noding!Last,
       FoldLeft, MapThenFoldSet, Max
<1>7. NodedHeap(c, n, h)
  BY <1>5, <1>6 DEF NodeInv
<1> QED
  BY <1>1, <1>2, <1>7 DEF NodedHeap

(* A service that has the API has had its turn in fillOverride. *)
Touched(p) == \E s \in FilledServices : p \in ToSet(services[s].apis)

(* An API is what its rule makes of it. *)
APIFull(p) ==
  /\ heap[p].host = heap[p].rule.match[p[3]].host /\ heap[p].conf = heap[p].rule.conf
  /\ Noded(heap[p])
  /\ \A r : r \in ToSet(heap[p].routings) <=> Touched(p) /\ r \in RoutingsOf(heap[p])

FullInv == \A p \in DOMAIN heap : APIFull(p)

(* What the rule behind an API is like. *)
LEMMA RuleBehind ==
  ASSUME IInv, NEW p \in DOMAIN heap
  PROVE  LET rule == heap[p].rule
         IN  /\ IsList(rule.mirror) /\ IsList(rule.split) /\ IsList(rule.route) /\ IsList(rule.match)
             /\ \A route \in ToSet(rule.route) : IsMatch(route.match)
<1>1. pc # "list" /\ APIMade(p) /\ p[1] \in 1..Len(ings) /\ p[2] \in 1..Len(Rules(p[1]))
  BY Positions
<1>2. heap[p].rule = Rules(p[1])[p[2]]
  BY <1>1 DEF APIMade
<1>3. ings[p[1]] \in store.ingresses /\ IsList(Rules(p[1])) /\ store \in Stores
  BY <1>1, RuleLists DEF IInv, Phase
<1>4. heap[p].rule \in ToSet(ings[p[1]].http)
  BY <1>1, <1>2, <1>3, ListDomain DEF Rules
<1> QED
  BY <1>3, <1>4, StoresAssumption

(* Where the matches are short, those of its routes are. *)
LEMMA RuleShort ==
  ASSUME IInv, ShortMatches, NEW p \in DOMAIN heap
  PROVE  \A route \in ToSet(heap[p].rule.route) : Cardinality(route.match) <= 6
<1>1. pc # "list" /\ APIMade(p) /\ p[1] \in 1..Len(ings) /\ p[2] \in 1..Len(Rules(p[1]))
  BY Positions
<1>2. heap[p].rule = Rules(p[1])[p[2]]
  BY <1>1 DEF APIMade
<1>3. ings[p[1]] \in store.ingresses /\ IsList(Rules(p[1]))
  BY <1>1, RuleLists DEF IInv, Phase
<1>4. heap[p].rule \in ToSet(ings[p[1]].http)
  BY <1>1, <1>2, <1>3, ListDomain DEF Rules
<1> QED
  BY <1>3, <1>4 DEF ShortMatches

LEMMA FillFull ==
  ASSUME IInv, FullInv, NEW s \in left, Fill(s)
  PROVE  FullInv'
<1>1. /\ s \in DOMAIN services /\ ServiceMade(s) /\ pc = "fill" /\ pc' = "fill" /\ left' = left \ {s}
      /\ heap' \in fillAPIs(heap, services[s].apis, s)
  BY DEF Fill, IInv, Phase, ServicesMade
<1>2. \A p \in DOMAIN heap : WellFormed(heap[p]) /\ Noded(heap[p])
  <2> SUFFICES ASSUME NEW p \in DOMAIN heap PROVE WellFormed(heap[p]) /\ Noded(heap[p])
    OBVIOUS
  <2>1. IsList(heap[p].rule.mirror) /\ IsList(heap[p].rule.split) /\ APIMade(p)
    BY RuleBehind DEF IInv, HeapMade
  <2> QED
    BY <2>1 DEF WellFormed, APIMade, FullInv, APIFull
<1>3. IInv'
  BY FillIInv
<1> DEFINE h == heap'
           ptrs == services[s].apis
<1>4. IsList(ptrs) /\ ToSet(ptrs) \subseteq DOMAIN heap /\ h \in fillAPIs(heap, ptrs, s)
  BY <1>1 DEF ServiceMade
<1> HIDE DEF h, ptrs
<1>5. \A p \in DOMAIN heap :
        /\ SameRule(h[p], heap[p]) /\ Noded(h[p])
        /\ \A r : r \in ToSet(h[p].routings) <=>
             \/ r \in ToSet(heap[p].routings)
             \/ r \in RoutingsOf(heap[p]) /\ p \in ToSet(ptrs)
  BY <1>2, <1>4, APIsNoded
<1>6. DOMAIN h = DOMAIN heap
  <2>1. \A p \in DOMAIN heap : WellFormed(heap[p])
    BY <1>2
  <2> QED
    BY <1>4, <2>1, APIsFilled
<1>7. DOMAIN services' = DOMAIN services /\ \A t \in DOMAIN services : services'[t].apis = services[t].apis
  <2>1. PICK servers : services' = [services EXCEPT ![s].servers = servers]
    BY DEF Fill
  <2>2. /\ DOMAIN services' = DOMAIN services
        /\ \A t \in DOMAIN services : t # s => services'[t] = services[t]
        /\ services'[s] = [services[s] EXCEPT !.servers = servers]
    BY <1>1, <2>1
  <2>3. services'[s].apis = services[s].apis
    BY <1>1, <2>2 DEF ServiceMade
  <2> QED
    BY <2>2, <2>3
<1>8. FilledServices' = FilledServices \cup {s} /\ FilledServices \subseteq DOMAIN services
  BY <1>1, <1>7 DEF FilledServices
<1>9. \A p : Touched(p)' <=> Touched(p) \/ p \in ToSet(ptrs)
  BY <1>1, <1>7, <1>8 DEF Touched, ptrs
<1>10. ASSUME NEW p \in DOMAIN heap
       PROVE  /\ h[p].host = h[p].rule.match[p[3]].host /\ h[p].conf = h[p].rule.conf
              /\ \A r : r \in ToSet(h[p].routings) <=> Touched(p)' /\ r \in RoutingsOf(h[p])
  <2>1. APIFull(p) /\ SameRule(h[p], heap[p])
    BY <1>5 DEF FullInv
  <2>2. RoutingsOf(h[p]) = RoutingsOf(heap[p])
    BY <2>1, SameNodes DEF SameRule
  <2>3. h[p].host = h[p].rule.match[p[3]].host /\ h[p].conf = h[p].rule.conf
    BY <2>1 DEF APIFull, SameRule
  <2>4. \A r : r \in ToSet(h[p].routings) <=> Touched(p)' /\ r \in RoutingsOf(h[p])
    BY <1>5, <1>9, <2>1, <2>2 DEF APIFull
  <2> QED
    BY <2>3, <2>4
<1> QED
  BY <1>5, <1>6, <1>10 DEF FullInv, APIFull, h

LEMMA ParseRuleFull ==
  ASSUME IInv, FullInv, ParseRule
  PROVE  FullInv'
<1> DEFINE ing == ings[at[1]]
           rule == ing.http[at[2]]
           new == PointersOf(at[1], at[2], rule)
<1>1. /\ pc = "parse" /\ pc' = "parse"
      /\ heap' = [p \in DOMAIN heap \cup ToSet(new) |->
                    IF p \in DOMAIN heap THEN heap[p] ELSE fromManbaHTTPRule(ing, rule, p)]
  BY DEF ParseRule
<1>2. FilledServices = {} /\ FilledServices' = {}
  BY <1>1 DEF FilledServices
<1>3. \A p : ~Touched(p) /\ ~Touched(p)'
  BY <1>2 DEF Touched
<1> HIDE DEF ing, rule, new
<1>4. ASSUME NEW p \in DOMAIN heap'
      PROVE  APIFull(p)'
  <2>1. CASE p \in DOMAIN heap
    <3>1. heap'[p] = heap[p]
      BY <1>1, <2>1
    <3> QED
      BY <1>3, <2>1, <3>1 DEF FullInv, APIFull
  <2>2. CASE p \notin DOMAIN heap
    <3>1. heap'[p] = fromManbaHTTPRule(ing, rule, p)
      BY <1>1, <2>2
    <3>2. /\ heap'[p].host = rule.match[p[3]].host /\ heap'[p].conf = rule.conf /\ heap'[p].rule = rule
          /\ heap'[p].proxies = Nothing /\ heap'[p].routings = <<>>
      BY <3>1 DEF fromManbaHTTPRule
    <3>3. Nothing = [r \in DOMAIN Nothing |-> Nothing[r]] /\ DOMAIN Nothing = {}
      BY DEF Nothing
    <3>4. Noded(heap'[p])
      BY <3>2, <3>3 DEF Noded
    <3> QED
      BY <1>3, <3>2, <3>4, ListEmpty DEF APIFull
  <2> QED
    BY <2>1, <2>2
<1> QED
  BY <1>4 DEF FullInv

LEMMA FullInvariance == Spec => []FullInv
<1>1. Init => FullInv
  BY DEF Init, Nothing, FullInv
<1>2. IInv /\ FullInv /\ [Next]_vars => FullInv'
  <2> SUFFICES ASSUME IInv, FullInv, [Next]_vars PROVE FullInv'
    OBVIOUS
  <2>1. CASE heap' = heap /\ services' = services /\ FilledServices' = FilledServices
    <3>1. \A p : Touched(p)' <=> Touched(p)
      BY <2>1 DEF Touched
    <3> QED
      BY <2>1, <3>1 DEF FullInv, APIFull
  <2>2. CASE Again
    <3>1. DOMAIN heap' = {}
      BY <2>2 DEF Again, Nothing
    <3> QED
      BY <3>1 DEF FullInv
  <2>3. CASE ParseRule
    BY <2>3, ParseRuleFull
  <2>4. CASE \E s \in left : Fill(s)
    BY <2>4, FillFull
  <2>5. CASE UNCHANGED vars \/ Done
    <3>1. UNCHANGED <<pc, heap, services, left>>
      BY <2>5 DEF vars, Done
    <3> QED
      BY <2>1, <3>1 DEF FilledServices
  <2>6. CASE List \/ NextIngress \/ Parsed
    <3>1. pc \in {"list", "parse"} /\ heap' = heap /\ services' = services
      BY <2>6 DEF List, NextIngress, Parsed
    <3>2. pc' = "parse" \/ (pc' = "fill" /\ left' = DOMAIN services)
      BY <2>6 DEF List, NextIngress, Parsed
    <3>3. FilledServices' = {} /\ FilledServices = {}
      BY <3>1, <3>2 DEF FilledServices
    <3> QED
      BY <2>1, <3>1, <3>3
  <2>7. CASE Filled \/ Collected \/ \E s \in left : Collect(s)
    <3>1. heap' = heap /\ services' = services /\ pc' \in {"collect", "done"} /\ (pc = "collect" \/ (pc = "fill" /\ left = {}))
      BY <2>7 DEF Filled, Collected, Collect
    <3>2. FilledServices' = DOMAIN services /\ FilledServices = DOMAIN services
      BY <3>1 DEF FilledServices
    <3> QED
      BY <2>1, <3>1, <3>2
  <2> QED
    BY <2>2, <2>3, <2>4, <2>5, <2>6, <2>7 DEF Next
<1> QED
  BY <1>1, <1>2, Invariance, PTL DEF Spec

(***************************************************************************)
(* Whatever order the maps of a match are gone through in, and however the *)
(* list is sorted, a node checks every parameter of its rule's first route *)
(* once, and none besides.                                                 *)
(***************************************************************************)
THEOREM ParametersOnce == Spec => []EveryParameterOnce
<1>1. IInv /\ FullInv => EveryParameterOnce
  <2> SUFFICES ASSUME IInv, FullInv, NEW p \in DOMAIN heap, NEW ref \in DOMAIN heap[p].proxies
               PROVE  LET list  == heap[p].proxies[ref].validations
                          match == Head(heap[p].rule.route).match
                      IN  ToSet(list) = match /\ Len(list) = Cardinality(match)
    BY DEF EveryParameterOnce
  <2> DEFINE route == Head(heap[p].rule.route)
  <2>1. heap[p].proxies[ref] \in DispatchNode(heap[p])
    BY DEF FullInv, APIFull, Noded
  <2>2. PICK v \in ToManbaValidations(route.match) : heap[p].proxies[ref].validations = v
    BY <2>1 DEF DispatchNode
  <2>3. heap[p].rule.route # <<>>
    BY DEF IInv, NodesMade
  <2>4. IsMatch(route.match)
    <3> DEFINE list == heap[p].rule.route
    <3>1. IsList(list) /\ \A r \in ToSet(list) : IsMatch(r.match)
      BY RuleBehind
    <3> HIDE DEF list
    <3>2. Len(list) \in Nat /\ Len(list) # 0
      BY <2>3, <3>1, ListDomain DEF list, IsList
    <3>3. list[1] \in ToSet(list)
      BY <3>1, <3>2, ListDomain
    <3>4. Head(list) = list[1]
      BY <3>1, <3>2 DEF IsList
    <3> QED
      BY <3>1, <3>3, <3>4 DEF list
  <2>5. Complete(v, route.match)
    BY <2>2, <2>4, ValidationsComplete
  <2> QED
    BY <2>2, <2>5 DEF Complete
<1> QED
  BY <1>1, Invariance, FullInvariance, PTL


-----------------------------------------------------------------------------
(***************************************************************************)
(* Two Builds of one store.                                                *)
(***************************************************************************)
(* Of two APIs of an ingress, the one whose rule, match or place in the      *)
(* match comes first.                                                        *)
Earlier(q, p) ==
  /\ q[1] = p[1]
  /\ \/ q[2] < p[2]
     \/ q[2] = p[2] /\ q[3] < p[3]
     \/ q[2] = p[2] /\ q[3] = p[3] /\ q[4] < p[4]

(* A list of APIs has those that are earlier before those that are later. *)
Closed(S, list) ==
  \A n \in 1..Len(list) : \A q \in S : Earlier(q, list[n]) => \E m \in 1..Len(list) : m < n /\ list[m] = q

RuleOf(l, p) == l[p[1]].http[p[2]]

(* The APIs of a list of ingresses. *)
IsAPI(l, p) ==
  /\ p \in Pointers /\ p[1] <= Len(l) /\ p[2] <= Len(l[p[1]].http)
  /\ p[3] <= Len(RuleOf(l, p).match) /\ p[4] <= RuleOf(l, p).match[p[3]].rules

(* What Build has made is all of what it has gone through. *)
HeapWhole == \A p : p \in DOMAIN heap <=> IsAPI(ings, p) /\ Behind(p[1], p[2])

ServiceWhole(s) ==
  /\ services[s].subset = CHOOSE x \in Resolve(s) : TRUE
  /\ Closed(DOMAIN heap, services[s].apis)
  /\ \E i \in 1..Len(ings) : \E j \in 1..Len(Rules(i)) : Behind(i, j) /\ s \in Found(Rules(i)[j])

(* The servers of a reference, the services having been listed in this order. *)
ServersOf(list, port, policy) ==
  LET found == getServiceEndpoints(list, port)
  IN  [n \in 1..Len(found) |-> Server(found[n], policy, Len(found))]

ServersWhole(s) ==
  \E list \in SetToSeqs(ListServices(services[s].subset.labels)) :
    services[s].servers = ServersOf(list, s.port, services[s].subset.policy)

Sorted(l) == \A a, b \in 1..Len(l) : a < b => l[a].ts <= l[b].ts

WholeInv ==
  /\ pc # "list" => ings \in SetToSeqs(store.ingresses) /\ Sorted(ings)
  /\ HeapWhole
  /\ Closed(DOMAIN heap, apis)
  /\ \A s \in DOMAIN services : ServiceWhole(s)
  /\ \A s \in FilledServices : ServersWhole(s)

(* Of the APIs with one name the earliest is kept, and of the routings too. *)
KeptAPI(a) ==
  \E s \in DOMAIN services : \E p \in ToSet(services[s].apis) :
    /\ a = Sent(heap[p])
    /\ \A q \in DOMAIN heap : Earlier(q, p) => heap[q].name # heap[p].name

KeptRouting(r) ==
  \E s \in DOMAIN services : \E p \in ToSet(services[s].apis) :
    /\ r \in ToSet(heap[p].routings)
    /\ \A q \in DOMAIN heap : Earlier(q, p) => \A t \in ToSet(heap[q].routings) : t.name # r.name

FirstInv ==
  /\ \A a \in ToSet(state.api) : KeptAPI(a)
  /\ \A r \in ToSet(state.routing) : KeptRouting(r)
  /\ pc \in {"collect", "done"} =>
       \A s \in DOMAIN services \ left : \A p \in ToSet(services[s].apis) :
         \A r \in ToSet(heap[p].routings) : <<"routing", r.name>> \in keysMap

-----------------------------------------------------------------------------
(* The sort of the binds. *)
BindStays(sorted, b) == {n \in 1..Len(sorted) : ~BindLess(b, sorted[n])}

BindAfter(sorted, b) ==
  IF BindStays(sorted, b) = {} THEN 0
  ELSE CHOOSE n \in BindStays(sorted, b) : \A m \in BindStays(sorted, b) : m <= n

BindOp(c, sorted, b) == Inserted(sorted, BindAfter(sorted, b), b)

SortingBinds == INSTANCE FoldTheorems WITH Op <- BindOp, Inv <- SortInv

LEMMA BindAfterPlace ==
  ASSUME NEW sorted, IsList(sorted), NEW b
  PROVE  BindAfter(sorted, b) \in 0..Len(sorted)
<1> DEFINE S == BindStays(sorted, b)
<1>1. Len(sorted) \in Nat /\ S \in SUBSET (1..Len(sorted))
  BY ListDomain DEF BindStays
<1>2. CASE S = {}
  BY <1>1, <1>2 DEF BindAfter
<1>3. CASE S # {}
  <2>1. PICK n \in S : \A m \in S : m <= n
    <3> HIDE DEF S
    <3>1. AddingOnce!HasLast(Len(sorted))
      BY <1>1, AddingOnce!LastExists
    <3>2. \E x \in S : \A y \in S : x >= y
      BY <1>1, <1>3, <3>1 DEF AddingOnce!HasLast
    <3>3. PICK x \in S : \A y \in S : x >= y
      BY <3>2
    <3>4. \A y \in S : y <= x
      BY <1>1, <3>3
    <3> QED
      BY <3>4
  <2>2. BindAfter(sorted, b) = CHOOSE x \in S : \A y \in S : y <= x
    BY <1>3 DEF BindAfter
  <2> HIDE DEF S
  <2> DEFINE A == BindAfter(sorted, b)
  <2>3. A \in S
    BY <2>1, <2>2
  <2> HIDE DEF A
  <2>4. A \in 0..Len(sorted)
    BY <1>1, <2>3
  <2> QED
    BY <2>4 DEF A
<1> QED
  BY <1>2, <1>3

(* It loses nothing and adds nothing. *)
LEMMA BindsKept ==
  ASSUME NEW list, IsList(list)
  PROVE  ToSet(SortBinds(list)) = ToSet(list)
<1> DEFINE n == Len(list)
<1>1. n \in Nat /\ DOMAIN list = 1..n /\ \A x : x \in ToSet(list) <=> \E j \in 1..n : x = list[j]
  BY ListDomain
<1> HIDE DEF n
<1>2. SortInv(list, 0, <<>>)
  <2>1. \A j \in 1..0 : FALSE
    OBVIOUS
  <2> QED
    BY <2>1, ListEmpty DEF SortInv
<1>3. ASSUME NEW j \in 1..n, NEW a, SortInv(list, j - 1, a)
      PROVE  SortInv(list, j, BindOp(list, a, list[j]))
  <2>1. IsList(a) /\ Len(a) = j - 1 /\ \A x : x \in ToSet(a) <=> \E m \in 1..(j - 1) : x = list[m]
    BY <1>3 DEF SortInv
  <2> DEFINE b == BindOp(list, a, list[j])
  <2>2. IsList(b) /\ Len(b) = Len(a) + 1 /\ ToSet(b) = ToSet(a) \cup {list[j]}
    BY <2>1, BindAfterPlace, InsertedPlaces DEF BindOp
  <2> HIDE DEF b
  <2>3. (\A m : m \in 1..j <=> m \in 1..(j - 1) \/ m = j) /\ (j - 1) + 1 = j
    BY <1>1
  <2>4. SortInv(list, j, b)
    BY <2>1, <2>2, <2>3 DEF SortInv
  <2> QED
    BY <2>4 DEF b
<1>4. SortInv(list, n, SortingBinds!Fold(list, <<>>, list))
  BY <1>1, <1>2, <1>3, SortingBinds!FoldKeeps
<1>5. SortBinds(list) = SortingBinds!Fold(list, <<>>, list)
  BY DEF SortBinds, BindOp, Inserted, BindAfter, BindStays, SortingBinds!Fold, SortingBinds!MapThenFoldSet,
         SortingBinds!Last, FoldLeft, MapThenFoldSet, Max
<1>6. \A x : x \in ToSet(SortBinds(list)) <=> x \in ToSet(list)
  BY <1>1, <1>4, <1>5 DEF SortInv
<1> QED
  BY <1>6

-----------------------------------------------------------------------------
(* The APIs of a rule are listed in their order. *)
LEMMA PointersClosed ==
  ASSUME NEW i \in Nat, NEW j \in Nat, NEW rule, IsList(rule.match),
         \A k \in 1..Len(rule.match) : rule.match[k].rules \in Nat
  PROVE  Closed(ToSet(PointersOf(i, j, rule)), PointersOf(i, j, rule))
<1> DEFINE n == Len(rule.match)
           part(k) == [g \in 1..rule.match[k].rules |-> <<i, j, k, g>>]
           q == [k \in 1..n |-> part(k)]
           f == PointersOf(i, j, rule)
<1>1. n \in Nat
  BY ListDomain
<1>2. ASSUME NEW k \in 1..n
      PROVE  IsList(part(k)) /\ Len(part(k)) = rule.match[k].rules
  <2> DEFINE m == rule.match[k].rules
             s == part(k)
  <2>1. m \in Nat /\ s = [g \in 1..m |-> s[g]]
    OBVIOUS
  <2> HIDE DEF m, s
  <2>2. IsList(s) /\ Len(s) = m
    BY <2>1, ListMade
  <2> QED
    BY <2>2 DEF s, m
<1>3. f = FlattenSeq(q)
  BY DEF PointersOf
<1>4. q = [k \in 1..n |-> q[k]] /\ \A k \in 1..n : q[k] = part(k)
  OBVIOUS
<1>5. \A k \in 1..n : \A g \in 1..rule.match[k].rules : part(k)[g] = <<i, j, k, g>>
  OBVIOUS
<1>6. \A p : p \in ToSet(f) <=> \E k \in 1..n : \E g \in 1..rule.match[k].rules : p = <<i, j, k, g>>
  BY PointersMade
<1> HIDE DEF f, q, n, part
<1>7. \A k \in 1..n : IsList(q[k]) /\ Len(q[k]) = rule.match[k].rules
  BY <1>2, <1>4
<1>8. ASSUME NEW l \in 1..Len(f), NEW p \in ToSet(f), Earlier(p, f[l])
      PROVE  \E e \in 1..Len(f) : e < l /\ f[e] = p
  <2>1. PlacedAt(q, n, f, l)
    BY <1>1, <1>3, <1>4, <1>7, FlatPlaces
  <2>2. PICK k \in 1..n : \E g \in 1..Len(q[k]) :
          /\ f[l] = q[k][g]
          /\ \A a \in 1..n : \A b \in 1..Len(q[a]) :
               (a < k \/ (a = k /\ b < g)) => \E e \in 1..Len(f) : e < l /\ f[e] = q[a][b]
    BY <2>1 DEF PlacedAt
  <2>3. PICK g \in 1..Len(q[k]) :
          /\ f[l] = q[k][g]
          /\ \A a \in 1..n : \A b \in 1..Len(q[a]) :
               (a < k \/ (a = k /\ b < g)) => \E e \in 1..Len(f) : e < l /\ f[e] = q[a][b]
    BY <2>2
  <2>4. f[l] = <<i, j, k, g>>
    BY <1>4, <1>5, <1>7, <2>3
  <2>5. PICK a \in 1..n : \E b \in 1..rule.match[a].rules : p = <<i, j, a, b>>
    BY <1>6
  <2>6. PICK b \in 1..rule.match[a].rules : p = <<i, j, a, b>>
    BY <2>5
  <2>7. a < k \/ (a = k /\ b < g)
    BY <1>8, <2>4, <2>6 DEF Earlier
  <2>8. b \in 1..Len(q[a]) /\ q[a][b] = p
    BY <1>4, <1>5, <1>7, <2>6
  <2> QED
    BY <2>3, <2>7, <2>8
<1>9. Closed(ToSet(f), f)
  BY <1>8 DEF Closed
<1> QED
  BY <1>9 DEF f

(* A list in order, and after it another. *)
LEMMA ClosedConcat ==
  ASSUME NEW S, NEW s, NEW t, IsList(s), IsList(t), Closed(S, s),
         \A n \in 1..Len(t) : \A q \in S : Earlier(q, t[n]) =>
           q \in ToSet(s) \/ \E m \in 1..Len(t) : m < n /\ t[m] = q
  PROVE  Closed(S, s \o t)
<1> DEFINE u == s \o t
<1>1. /\ Len(u) = Len(s) + Len(t) /\ Len(s) \in Nat /\ Len(t) \in Nat
      /\ \A i \in 1..Len(u) : (i \in 1..Len(s) /\ u[i] = s[i]) \/ (i - Len(s) \in 1..Len(t) /\ u[i] = t[i - Len(s)])
  BY ConcatPlaces
<1> HIDE DEF u
<1>2. \A e \in 1..Len(s) : e \in 1..Len(u) /\ u[e] = s[e]
  BY <1>1
<1>3. \A b \in 1..Len(t) : Len(s) + b \in 1..Len(u) /\ u[Len(s) + b] = t[b]
  <2> SUFFICES ASSUME NEW b \in 1..Len(t) PROVE Len(s) + b \in 1..Len(u) /\ u[Len(s) + b] = t[b]
    OBVIOUS
  <2> DEFINE i == Len(s) + b
  <2>1. i \in 1..Len(u) /\ i \notin 1..Len(s) /\ i - Len(s) = b
    BY <1>1
  <2> HIDE DEF i
  <2>2. u[i] = t[b]
    BY <1>1, <2>1
  <2> QED
    BY <2>1, <2>2 DEF i
<1>4. ASSUME NEW n \in 1..Len(u), NEW q \in S, Earlier(q, u[n])
      PROVE  \E m \in 1..Len(u) : m < n /\ u[m] = q
  <2>1. CASE n \in 1..Len(s)
    <3>1. u[n] = s[n]
      BY <1>2, <2>1
    <3>2. PICK m \in 1..Len(s) : m < n /\ s[m] = q
      BY <1>4, <2>1, <3>1 DEF Closed
    <3> QED
      BY <1>2, <3>2
  <2>2. CASE n \notin 1..Len(s)
    <3> DEFINE b == n - Len(s)
    <3>1. b \in 1..Len(t) /\ u[n] = t[b]
      BY <1>1, <2>2
    <3>2. CASE q \in ToSet(s)
      <4>1. PICK m \in 1..Len(s) : s[m] = q
        BY <3>2, ListDomain
      <4>2. m < n
        BY <1>1, <2>2
      <4> QED
        BY <1>2, <4>1, <4>2
    <3>3. CASE \E m \in 1..Len(t) : m < b /\ t[m] = q
      <4>1. PICK m \in 1..Len(t) : m < b /\ t[m] = q
        BY <3>3
      <4>2. Len(s) + m < n
        BY <1>1, <4>1
      <4> QED
        BY <1>3, <4>1, <4>2
    <3> HIDE DEF b
    <3> QED
      BY <1>4, <3>1, <3>2, <3>3
  <2> QED
    BY <2>1, <2>2
<1>5. Closed(S, u)
  BY <1>4 DEF Closed
<1> QED
  BY <1>5 DEF u

ClosedOp(a, s, S) ==
  /\ DOMAIN a[s] = SvcFields /\ IsList(a[s].apis) /\ Closed(S, a[s].apis)
  /\ a[s].subset = CHOOSE x \in Resolve(s) : TRUE

CloseInv(c, i, a) == \A s \in DOMAIN a : ClosedOp(a, s, c.dom)

Closing == INSTANCE FoldTheorems WITH Op <- AddOp, Inv <- CloseInv

(* A route adds a list in order. *)
LEMMA CloseStep ==
  ASSUME NEW c, IsList(c.ptrs), Closed(c.dom, c.ptrs), NEW i, NEW a, CloseInv(c, i, a), NEW route, NEW k
  PROVE  CloseInv(c, k, AddOp(c, a, route))
<1> DEFINE ref == route.cluster
           b == AddRoute(a, ref, c.ptrs)
<1>1. CASE ref \in DOMAIN a
  <2>1. /\ DOMAIN b = DOMAIN a
        /\ \A s \in DOMAIN a : s # ref => b[s] = a[s]
        /\ b[ref] = [a[ref] EXCEPT !.apis = @ \o c.ptrs]
    BY <1>1 DEF AddRoute
  <2>2. ClosedOp(a, ref, c.dom)
    BY <1>1 DEF CloseInv
  <2>3. DOMAIN b[ref] = SvcFields /\ b[ref].subset = a[ref].subset /\ b[ref].apis = a[ref].apis \o c.ptrs
    BY <2>1, <2>2 DEF SvcFields, ClosedOp
  <2>4. IsList(a[ref].apis) /\ Closed(c.dom, a[ref].apis)
    BY <2>2 DEF ClosedOp
  <2>5. IsList(a[ref].apis \o c.ptrs)
    BY <2>4, ListConcat
  <2>6. Closed(c.dom, a[ref].apis \o c.ptrs)
    <3>1. \A n \in 1..Len(c.ptrs) : \A q \in c.dom : Earlier(q, c.ptrs[n]) =>
            \E m \in 1..Len(c.ptrs) : m < n /\ c.ptrs[m] = q
      BY DEF Closed
    <3> QED
      BY <2>4, <3>1, ClosedConcat
  <2> HIDE DEF b
  <2>7. ClosedOp(b, ref, c.dom)
    BY <2>2, <2>3, <2>5, <2>6 DEF ClosedOp
  <2>8. \A s \in DOMAIN b : ClosedOp(b, s, c.dom)
    BY <2>1, <2>7 DEF CloseInv, ClosedOp
  <2> QED
    BY <2>8 DEF CloseInv, AddOp, b
<1>2. CASE ref \notin DOMAIN a /\ Resolve(ref) = {}
  <2>1. b = a
    BY <1>2 DEF AddRoute
  <2> QED
    BY <2>1 DEF CloseInv, AddOp
<1>3. CASE ref \notin DOMAIN a /\ Resolve(ref) # {}
  <2> DEFINE new == [apis |-> c.ptrs, subset |-> CHOOSE s \in Resolve(ref) : TRUE, servers |-> <<>>]
  <2>1. b = [r \in DOMAIN a \cup {ref} |-> IF r # ref THEN a[r] ELSE new]
    BY <1>3 DEF AddRoute
  <2>2. DOMAIN new = SvcFields /\ new.apis = c.ptrs /\ new.subset = CHOOSE s \in Resolve(ref) : TRUE
    BY DEF SvcFields
  <2> HIDE DEF new, b
  <2>3. /\ DOMAIN b = DOMAIN a \cup {ref} /\ b[ref] = new
        /\ \A s \in DOMAIN a : s # ref /\ b[s] = a[s]
    BY <1>3, <2>1
  <2>4. ClosedOp(b, ref, c.dom)
    BY <2>2, <2>3 DEF ClosedOp
  <2>5. \A s \in DOMAIN b : ClosedOp(b, s, c.dom)
    BY <2>3, <2>4 DEF CloseInv, ClosedOp
  <2> QED
    BY <2>5 DEF CloseInv, AddOp, b
<1> QED
  BY <1>1, <1>2, <1>3

LEMMA RoutesClosed ==
  ASSUME NEW svcs, NEW routes, NEW ptrs, IsList(routes), IsList(ptrs), NEW S, Closed(S, ptrs),
         \A s \in DOMAIN svcs : ClosedOp(svcs, s, S)
  PROVE  LET b == AddRoutes(svcs, routes, ptrs) IN \A s \in DOMAIN b : ClosedOp(b, s, S)
<1> DEFINE c == [ptrs |-> ptrs, dom |-> S]
           n == Len(routes)
<1>1. c.ptrs = ptrs /\ c.dom = S
  OBVIOUS
<1> HIDE DEF c
<1>2. n \in Nat /\ DOMAIN routes = 1..n
  BY ListDomain
<1>3. CloseInv(c, 0, svcs)
  BY <1>1 DEF CloseInv
<1>4. \A j \in 1..n : \A a : CloseInv(c, j - 1, a) => CloseInv(c, j, AddOp(c, a, routes[j]))
  BY <1>1, CloseStep
<1>5. CloseInv(c, n, Closing!Fold(c, svcs, routes))
  <2> HIDE DEF n
  <2> QED
    BY <1>2, <1>3, <1>4, Closing!FoldKeeps
<1>6. AddRoutes(svcs, routes, ptrs) = Closing!Fold(c, svcs, routes)
  BY <1>1 DEF AddRoutes, AddOp, Closing!Fold, Closing!MapThenFoldSet, Closing!Last,
       FoldLeft, MapThenFoldSet, Max
<1>7. CloseInv(c, n, AddRoutes(svcs, routes, ptrs))
  BY <1>5, <1>6
<1> QED
  BY <1>1, <1>7 DEF CloseInv

-----------------------------------------------------------------------------
(* What a rule adds. *)
LEMMA RuleAdds ==
  ASSUME IInv, ParseRule
  PROVE  LET i0 == at[1]  j0 == at[2]  rule == Rules(i0)[j0]  new == PointersOf(i0, j0, rule)
         IN  /\ i0 \in 1..Len(ings) /\ j0 \in 1..Len(Rules(i0)) /\ i0 \in Positive /\ j0 \in Positive
             /\ pc = "parse" /\ pc' = "parse" /\ store' = store /\ ings' = ings
             /\ at'[1] = i0 /\ at'[2] = j0 + 1 /\ apis' = apis \o new
             /\ services' = AddRoutes(services, rule.route, apis \o new)
             /\ DOMAIN heap' = DOMAIN heap \cup ToSet(new)
             /\ IsList(rule.match) /\ IsList(rule.route)
             /\ \A k \in 1..Len(rule.match) : rule.match[k].rules \in Nat
<1> DEFINE i0 == at[1]
           j0 == at[2]
           rule == Rules(i0)[j0]
           new == PointersOf(i0, j0, rule)
<1>1. /\ UNCHANGED <<pc, store, ings>>
      /\ pc = "parse" /\ i0 <= Len(ings) /\ j0 <= Len(Rules(i0)) /\ at' = <<i0, j0 + 1>>
      /\ apis' = apis \o new /\ services' = AddRoutes(services, rule.route, apis \o new)
      /\ DOMAIN heap' = DOMAIN heap \cup ToSet(new)
  BY DEF ParseRule, Rules
<1>2. i0 \in Positive /\ j0 \in Positive /\ Len(ings) \in Nat
  BY ListDomain DEF IInv, Phase
<1>3. i0 \in 1..Len(ings)
  BY <1>1, <1>2 DEF Positive
<1>4. Len(Rules(i0)) \in Nat
  BY <1>1, <1>3, RuleLists, ListDomain DEF IInv
<1>5. j0 \in 1..Len(Rules(i0))
  BY <1>1, <1>2, <1>4 DEF Positive
<1>6. IsList(rule.match) /\ IsList(rule.route) /\ \A k \in 1..Len(rule.match) : rule.match[k].rules \in Nat
  BY <1>1, <1>3, <1>5, RuleLists DEF IInv
<1>7. at'[1] = i0 /\ at'[2] = j0 + 1
  BY <1>1
<1> HIDE DEF i0, j0, rule, new
<1>8. /\ i0 \in 1..Len(ings) /\ j0 \in 1..Len(Rules(i0)) /\ i0 \in Positive /\ j0 \in Positive
      /\ pc = "parse" /\ pc' = "parse" /\ store' = store /\ ings' = ings
      /\ at'[1] = i0 /\ at'[2] = j0 + 1 /\ apis' = apis \o new
      /\ services' = AddRoutes(services, rule.route, apis \o new)
      /\ DOMAIN heap' = DOMAIN heap \cup ToSet(new)
      /\ IsList(rule.match) /\ IsList(rule.route)
      /\ \A k \in 1..Len(rule.match) : rule.match[k].rules \in Nat
  BY <1>1, <1>2, <1>3, <1>5, <1>6, <1>7
<1> QED
  BY <1>8 DEF i0, j0, rule, new

(* The APIs of a rule, by their places. *)
LEMMA RulePointers ==
  ASSUME NEW i \in Positive, NEW j \in Positive, NEW rule, IsList(rule.match),
         \A k \in 1..Len(rule.match) : rule.match[k].rules \in Nat,
         NEW l, i <= Len(l), j <= Len(l[i].http)
  PROVE  rule = l[i].http[j] =>
           \A p : p \in ToSet(PointersOf(i, j, rule)) <=> IsAPI(l, p) /\ p[1] = i /\ p[2] = j
<1>0. \A p : p \in ToSet(PointersOf(i, j, rule)) <=>
        \E k \in 1..Len(rule.match) : \E g \in 1..rule.match[k].rules : p = <<i, j, k, g>>
  BY PointersMade
<1> SUFFICES ASSUME rule = l[i].http[j], NEW p
             PROVE  p \in ToSet(PointersOf(i, j, rule)) <=> IsAPI(l, p) /\ p[1] = i /\ p[2] = j
  OBVIOUS
<1>1. p \in ToSet(PointersOf(i, j, rule)) <=>
        \E k \in 1..Len(rule.match) : \E g \in 1..rule.match[k].rules : p = <<i, j, k, g>>
  BY <1>0
<1>2. Len(rule.match) \in Nat
  BY ListDomain
<1>3. ASSUME NEW k \in 1..Len(rule.match), NEW g \in 1..rule.match[k].rules, p = <<i, j, k, g>>
      PROVE  IsAPI(l, p) /\ p[1] = i /\ p[2] = j
  <2>1. k \in Positive /\ g \in Positive /\ rule.match[k].rules \in Nat
    BY <1>2 DEF Positive
  <2>2. p[1] = i /\ p[2] = j /\ p[3] = k /\ p[4] = g /\ p \in Pointers
    BY <1>3, <2>1 DEF Pointers
  <2>3. k <= Len(rule.match) /\ g <= rule.match[k].rules
    BY <1>2, <2>1
  <2>4. RuleOf(l, p) = rule
    BY <2>2 DEF RuleOf
  <2> QED
    BY <2>2, <2>3, <2>4 DEF IsAPI
<1>4. ASSUME IsAPI(l, p), p[1] = i, p[2] = j
      PROVE  \E k \in 1..Len(rule.match) : \E g \in 1..rule.match[k].rules : p = <<i, j, k, g>>
  <2>1. RuleOf(l, p) = rule
    BY <1>4 DEF RuleOf
  <2>2. p \in Pointers /\ p[3] <= Len(rule.match) /\ p[4] <= rule.match[p[3]].rules
    BY <1>4, <2>1 DEF IsAPI
  <2>3. p = <<i, j, p[3], p[4]>> /\ p[3] \in Positive /\ p[4] \in Positive
    BY <1>4, <2>2 DEF Pointers
  <2>4. p[3] \in 1..Len(rule.match)
    BY <1>2, <2>2, <2>3 DEF Positive
  <2>5. p[4] \in 1..rule.match[p[3]].rules
    BY <2>2, <2>3, <2>4 DEF Positive
  <2> QED
    BY <2>3, <2>4, <2>5
<1> QED
  BY <1>1, <1>3, <1>4

LEMMA ParseRuleWhole ==
  ASSUME IInv, WholeInv, ParseRule
  PROVE  WholeInv'
<1> DEFINE i0 == at[1]
           j0 == at[2]
           rule == Rules(i0)[j0]
           new == PointersOf(i0, j0, rule)
           all == apis \o new
           dom == DOMAIN heap \cup ToSet(new)
<1>1. /\ i0 \in 1..Len(ings) /\ j0 \in 1..Len(Rules(i0)) /\ i0 \in Positive /\ j0 \in Positive
      /\ pc = "parse" /\ pc' = "parse" /\ store' = store /\ ings' = ings
      /\ at'[1] = i0 /\ at'[2] = j0 + 1 /\ apis' = all
      /\ services' = AddRoutes(services, rule.route, all)
      /\ DOMAIN heap' = dom
      /\ IsList(rule.match) /\ IsList(rule.route)
      /\ \A k \in 1..Len(rule.match) : rule.match[k].rules \in Nat
  BY RuleAdds
<1>2. at[1] = i0 /\ at[2] = j0 /\ rule = ings[i0].http[j0]
  BY DEF Rules
<1>3. Len(ings) \in Nat /\ Len(Rules(i0)) \in Nat
  BY <1>1, RuleLists, ListDomain DEF IInv, Phase
<1>4. \A p : p \in ToSet(new) <=> IsAPI(ings, p) /\ p[1] = i0 /\ p[2] = j0
  <2>1. Rules(i0) = ings[i0].http
    BY DEF Rules
  <2> HIDE DEF i0, j0, rule
  <2>2. i0 <= Len(ings) /\ j0 <= Len(ings[i0].http)
    BY <1>1, <1>3, <2>1
  <2>3. /\ i0 \in Positive /\ j0 \in Positive /\ rule = ings[i0].http[j0] /\ IsList(rule.match)
        /\ \A k \in 1..Len(rule.match) : rule.match[k].rules \in Nat
    BY <1>1, <1>2
  <2> QED
    BY <2>2, <2>3, RulePointers
<1>5. IsList(new)
  BY <1>1, PointersMade
<1>6. Closed(ToSet(new), new)
  <2>1. i0 \in Nat /\ j0 \in Nat
    BY <1>1 DEF Positive
  <2> QED
    BY <1>1, <2>1, PointersClosed
<1> HIDE DEF i0, j0, rule, new
<1>7. \A p : IsAPI(ings, p) => p[1] \in Nat /\ p[2] \in Nat
  BY DEF IsAPI, Pointers, Positive
<1>8. \A i, j \in Nat : Behind(i, j)' <=> Behind(i, j) \/ (i = i0 /\ j = j0)
  <2>1. i0 \in Nat /\ j0 \in Nat
    BY <1>1 DEF Positive
  <2>2. \A i, j : Behind(i, j)' <=> i < i0 \/ (i = i0 /\ j < j0 + 1)
    BY <1>1 DEF Behind
  <2>3. \A i, j : Behind(i, j) <=> i < i0 \/ (i = i0 /\ j < j0)
    BY <1>2 DEF Behind
  <2> QED
    BY <2>1, <2>2, <2>3
<1>9. HeapWhole'
  <2> SUFFICES ASSUME NEW p
               PROVE  p \in dom <=> IsAPI(ings, p) /\ Behind(p[1], p[2])'
    BY <1>1 DEF HeapWhole
  <2>1. p \in DOMAIN heap <=> IsAPI(ings, p) /\ Behind(p[1], p[2])
    BY DEF WholeInv, HeapWhole
  <2> QED
    BY <1>4, <1>7, <1>8, <2>1
<1>10. IsList(apis) /\ ToSet(apis) = {p \in DOMAIN heap : p[1] = i0} /\ Closed(DOMAIN heap, apis)
  BY <1>2 DEF IInv, HeapMade, WholeInv
<1>11. ASSUME NEW p \in DOMAIN heap, NEW q \in ToSet(new) PROVE ~Earlier(q, p)
  <2>1. q[1] = i0 /\ q[2] = j0
    BY <1>4
  <2>2. IsAPI(ings, p) /\ Behind(p[1], p[2])
    BY DEF WholeInv, HeapWhole
  <2>3. p[1] = i0 => p[2] < j0
    <3>1. p[1] \in Nat /\ i0 \in Nat
      BY <1>1, <1>7, <2>2 DEF Positive
    <3> QED
      BY <1>2, <2>2, <3>1 DEF Behind
  <2>4. p[2] \in Nat /\ j0 \in Nat
    BY <1>1, <1>7, <2>2 DEF Positive
  <2> QED
    BY <2>1, <2>3, <2>4 DEF Earlier
<1>12. ASSUME NEW list, IsList(list), ToSet(list) \subseteq DOMAIN heap, Closed(DOMAIN heap, list)
       PROVE  Closed(dom, list)
  <2>1. \A n \in 1..Len(list) : list[n] \in DOMAIN heap
    BY <1>12, ListDomain
  <2>2. \A n \in 1..Len(list) : \A q \in dom : Earlier(q, list[n]) => q \in DOMAIN heap
    BY <1>11, <2>1
  <2> QED
    BY <1>12, <2>2 DEF Closed
<1>13. Closed(dom, all)
  <2>1. Closed(dom, apis)
    BY <1>10, <1>12
  <2>2. ASSUME NEW n \in 1..Len(new), NEW q \in dom, Earlier(q, new[n])
        PROVE  q \in ToSet(apis) \/ \E m \in 1..Len(new) : m < n /\ new[m] = q
    <3>1. new[n] \in ToSet(new)
      BY <1>5, ListDomain
    <3>2. q[1] = i0
      BY <1>4, <2>2, <3>1 DEF Earlier
    <3>3. CASE q \in DOMAIN heap
      BY <1>10, <3>2, <3>3
    <3>4. CASE q \in ToSet(new)
      BY <1>6, <2>2, <3>4 DEF Closed
    <3> QED
      BY <3>3, <3>4
  <2> HIDE DEF dom
  <2> QED
    BY <1>5, <1>10, <2>1, <2>2, ClosedConcat
<1>14. IsList(all)
  BY <1>5, <1>10, ListConcat
<1>15. \A s \in DOMAIN services : ServiceMade(s) /\ ServiceWhole(s)
  BY DEF IInv, ServicesMade, WholeInv
<1>16. \A s \in DOMAIN services : ClosedOp(services, s, dom)
  <2> SUFFICES ASSUME NEW s \in DOMAIN services PROVE ClosedOp(services, s, dom)
    OBVIOUS
  <2>1. /\ DOMAIN services[s] = SvcFields /\ IsList(services[s].apis) /\ ToSet(services[s].apis) \subseteq DOMAIN heap
        /\ Closed(DOMAIN heap, services[s].apis) /\ services[s].subset = CHOOSE x \in Resolve(s) : TRUE
    BY <1>15 DEF ServiceMade, ServiceWhole, SvcFields
  <2>2. Closed(dom, services[s].apis)
    BY <1>12, <2>1
  <2> QED
    BY <2>1, <2>2 DEF ClosedOp
<1>17. \A s \in DOMAIN services' : ClosedOp(services', s, dom)
  <2> HIDE DEF all, dom
  <2> QED
    BY <1>1, <1>13, <1>14, <1>16, RoutesClosed
<1>18. \A s \in DOMAIN services' : s \in DOMAIN services \/ s \in Found(rule)
  <2> DEFINE c == [base |-> services, routes |-> rule.route, ptrs |-> all]
  <2>1. c.base = services /\ c.routes = rule.route
    OBVIOUS
  <2>2. AddInv(c, Len(rule.route), services')
    <3>1. \A s \in DOMAIN services : DOMAIN services[s] = SvcFields /\ IsList(services[s].apis)
      BY <1>16 DEF ClosedOp
    <3> HIDE DEF all
    <3> QED
      BY <1>1, <1>14, <3>1, RoutesAdded
  <2> HIDE DEF c
  <2>3. ASSUME NEW s \in DOMAIN services', s \notin DOMAIN services PROVE s \in Found(rule)
    <3>1. Resolve(s) # {} /\ \E j \in 1..Len(rule.route) : s = rule.route[j].cluster
      BY <2>1, <2>2, <2>3 DEF AddInv
    <3>2. PICK j \in 1..Len(rule.route) : s = rule.route[j].cluster
      BY <3>1
    <3>3. rule.route[j] \in ToSet(rule.route)
      BY <1>1, ListDomain
    <3> QED
      BY <3>1, <3>2, <3>3 DEF Found
  <2> QED
    BY <2>3
<1>19. /\ \A i : Rules(i)' = Rules(i)
       /\ \A ref : Resolve(ref)' = Resolve(ref)
       /\ \A r : Found(r)' = Found(r)
  BY <1>1, SameStore DEF Rules
<1>20. ASSUME NEW s \in DOMAIN services'
       PROVE  \E i \in 1..Len(ings) : \E j \in 1..Len(Rules(i)) : Behind(i, j)' /\ s \in Found(Rules(i)[j])
  <2>1. CASE s \in DOMAIN services
    <3>1. PICK i \in 1..Len(ings) : \E j \in 1..Len(Rules(i)) : Behind(i, j) /\ s \in Found(Rules(i)[j])
      BY <1>15, <2>1 DEF ServiceWhole
    <3>2. PICK j \in 1..Len(Rules(i)) : Behind(i, j) /\ s \in Found(Rules(i)[j])
      BY <3>1
    <3>3. i \in Nat /\ j \in Nat
      OBVIOUS
    <3> QED
      BY <1>8, <3>2, <3>3
  <2>2. CASE s \in Found(rule)
    <3>1. PICK i \in 1..Len(ings) : i = i0
      BY <1>1
    <3>2. PICK j \in 1..Len(Rules(i)) : j = j0
      BY <1>1, <3>1
    <3>3. Behind(i, j)'
      BY <1>8, <3>1, <3>2
    <3>4. s \in Found(Rules(i)[j])
      BY <2>2, <3>1, <3>2 DEF rule
    <3> QED
      BY <3>3, <3>4
  <2> QED
    BY <1>18, <2>1, <2>2
<1>21. \A s \in DOMAIN services' : ServiceWhole(s)'
  <2> SUFFICES ASSUME NEW s \in DOMAIN services' PROVE ServiceWhole(s)'
    OBVIOUS
  <2>1. services'[s].subset = (CHOOSE x \in Resolve(s) : TRUE)' /\ Closed(dom, services'[s].apis)
    BY <1>17, <1>19 DEF ClosedOp
  <2>2. \E i \in 1..Len(ings') : \E j \in 1..Len(Rules(i)') : Behind(i, j)' /\ s \in Found(Rules(i)[j])'
    BY <1>1, <1>19, <1>20
  <2> QED
    BY <1>1, <2>1, <2>2 DEF ServiceWhole
<1>22. FilledServices' = {}
  BY <1>1 DEF FilledServices
<1>23. ings' \in SetToSeqs(store.ingresses)' /\ Sorted(ings')
  BY <1>1 DEF WholeInv, Sorted
<1> QED
  BY <1>1, <1>9, <1>13, <1>21, <1>22, <1>23 DEF WholeInv, Sorted

(* The servers of a reference depend on the store alone. *)
LEMMA SameServers ==
  ASSUME store' = store
  PROVE  /\ \A labels : ListServices(labels)' = ListServices(labels)
         /\ \A list, port : getServiceEndpoints(list, port)' = getServiceEndpoints(list, port)
         /\ \A list, port, policy : ServersOf(list, port, policy)' = ServersOf(list, port, policy)
<1>1. \A labels : ListServices(labels)' = ListServices(labels)
  BY DEF ListServices
<1>2. \A name : GetEndpointsForService(name)' = GetEndpointsForService(name)
  BY DEF GetEndpointsForService
<1>3. ASSUME NEW svc, NEW port PROVE Listed(svc, port)' = Listed(svc, port)
  <2> DEFINE found(ss) ==
               FlattenSeq([m \in 1..Len(ss.ports) |->
                 IF ss.ports[m].tcp /\ port.name \in {"", ss.ports[m].name}
                 THEN [a \in 1..Len(ss.addrs) |-> <<ss.addrs[a], ss.ports[m].port>>] ELSE <<>>])
             all(subsets) == FlattenSeq([n \in 1..Len(subsets) |-> found(subsets[n])])
  <2>1. Listed(svc, port) = all(GetEndpointsForService(svc.name))
    BY DEF Listed
  <2>2. Listed(svc, port)' = all(GetEndpointsForService(svc.name)')
    BY DEF Listed
  <2> HIDE DEF all
  <2> QED
    BY <1>2, <2>1, <2>2
<1>4. ASSUME NEW svc, NEW port PROVE getEndpoints(svc, port)' = getEndpoints(svc, port)
  <2> DEFINE of(list) == IF svc.external THEN External(svc, port) ELSE AddingOnce!Fold(0, <<>>, list)
  <2>1. getEndpoints(svc, port) = of(Listed(svc, port))
    BY DEF getEndpoints, OnceOp, AddingOnce!Fold, AddingOnce!MapThenFoldSet,
         AddingOnce!Last, FoldLeft, MapThenFoldSet, Max
  <2>2. getEndpoints(svc, port)' = of(Listed(svc, port)')
    BY DEF getEndpoints, OnceOp, AddingOnce!Fold, AddingOnce!MapThenFoldSet,
         AddingOnce!Last, FoldLeft, MapThenFoldSet, Max
  <2> HIDE DEF of
  <2> QED
    BY <1>3, <2>1, <2>2
<1>5. ASSUME NEW list, NEW port PROVE getServiceEndpoints(list, port)' = getServiceEndpoints(list, port)
  <2> DEFINE I == {i \in 1..Len(list) : Refuses(list[i], port)}
             stop == IF I # {} THEN Min(I) ELSE 0
             upTo == IF stop = 0 THEN Len(list) ELSE stop - 1
  <2>1. getServiceEndpoints(list, port)
          = FlattenSeq([n \in 1..upTo |-> WithPort(getEndpoints(list[n], ServicePort(list[n], port)), port)])
    BY DEF getServiceEndpoints, SelectInSeq
  <2>2. getServiceEndpoints(list, port)'
          = FlattenSeq([n \in 1..upTo |-> WithPort(getEndpoints(list[n], ServicePort(list[n], port))', port)])
    BY DEF getServiceEndpoints, SelectInSeq
  <2> HIDE DEF upTo
  <2> QED
    BY <1>4, <2>1, <2>2
<1>6. \A list, port, policy : ServersOf(list, port, policy)' = ServersOf(list, port, policy)
  BY <1>5 DEF ServersOf
<1> QED
  BY <1>1, <1>5, <1>6

LEMMA FillWhole ==
  ASSUME IInv, WholeInv, NEW s \in left, Fill(s)
  PROVE  WholeInv'
<1>1. /\ UNCHANGED <<pc, store, ings, at, apis>>
      /\ pc = "fill" /\ left' = left \ {s} /\ heap' \in fillAPIs(heap, services[s].apis, s)
  BY DEF Fill
<1>2. s \in DOMAIN services /\ ServiceMade(s)
  BY DEF IInv, Phase, ServicesMade
<1>3. DOMAIN heap' = DOMAIN heap
  <2>1. \A p \in DOMAIN heap : WellFormed(heap[p])
    <3> SUFFICES ASSUME NEW p \in DOMAIN heap PROVE WellFormed(heap[p])
      OBVIOUS
    <3>1. IsList(heap[p].rule.mirror) /\ IsList(heap[p].rule.split) /\ APIMade(p)
      BY RuleBehind DEF IInv, HeapMade
    <3> QED
      BY <3>1 DEF WellFormed, APIMade
  <2> DEFINE h == heap'
             ptrs == services[s].apis
  <2>2. IsList(ptrs) /\ ToSet(ptrs) \subseteq DOMAIN heap /\ h \in fillAPIs(heap, ptrs, s)
    BY <1>1, <1>2 DEF ServiceMade
  <2> HIDE DEF h, ptrs
  <2>3. DOMAIN h = DOMAIN heap
    BY <2>1, <2>2, APIsFilled
  <2> QED
    BY <2>3 DEF h
<1>4. PICK list \in SetToSeqs(ListServices(services[s].subset.labels)) :
        services' = [services EXCEPT ![s].servers = ServersOf(list, s.port, services[s].subset.policy)]
  BY DEF Fill, ServersOf
<1> DEFINE servers == ServersOf(list, s.port, services[s].subset.policy)
<1>5. services' = [services EXCEPT ![s].servers = servers]
  BY <1>4
<1> HIDE DEF servers
<1>6. /\ DOMAIN services' = DOMAIN services
      /\ \A t \in DOMAIN services : t # s => services'[t] = services[t]
      /\ services'[s] = [services[s] EXCEPT !.servers = servers]
  BY <1>2, <1>5
<1>7. services'[s].apis = services[s].apis /\ services'[s].subset = services[s].subset /\ services'[s].servers = servers
  BY <1>2, <1>6 DEF ServiceMade
<1>8. \A t \in DOMAIN services : services'[t].apis = services[t].apis /\ services'[t].subset = services[t].subset
  BY <1>6, <1>7
<1>9. /\ \A i : Rules(i)' = Rules(i)
      /\ \A i, j : Behind(i, j)' = Behind(i, j)
      /\ \A ref : Resolve(ref)' = Resolve(ref)
      /\ \A rule : Found(rule)' = Found(rule)
  BY <1>1, SameStore DEF Rules, Behind
<1>10. HeapWhole'
  BY <1>1, <1>3, <1>9 DEF WholeInv, HeapWhole
<1>11. \A t \in DOMAIN services : ServiceWhole(t)'
  BY <1>1, <1>3, <1>8, <1>9 DEF WholeInv, ServiceWhole
<1>12. FilledServices' = FilledServices \cup {s} /\ FilledServices \subseteq DOMAIN services /\ s \notin FilledServices
  BY <1>1, <1>2, <1>6 DEF FilledServices
<1>13. ServersWhole(s)'
  BY <1>1, <1>7, SameServers DEF ServersWhole, servers
<1>14. \A t \in FilledServices : ServersWhole(t)'
  BY <1>1, <1>6, <1>12, SameServers DEF ServersWhole, WholeInv
<1> QED
  BY <1>1, <1>3, <1>6, <1>10, <1>11, <1>12, <1>13, <1>14 DEF WholeInv, Sorted

LEMMA NextIngressWhole ==
  ASSUME IInv, WholeInv, NextIngress
  PROVE  WholeInv'
<1>1. /\ UNCHANGED <<pc, store, ings, heap, services>> /\ apis' = <<>> /\ pc = "parse"
      /\ at' = <<at[1] + 1, 1>> /\ at[1] <= Len(ings) /\ at[2] > Len(ings[at[1]].http)
  BY DEF NextIngress
<1>2. /\ at[1] \in Positive /\ at[2] \in Positive /\ at'[1] = at[1] + 1 /\ at'[2] = 1
      /\ at[1] \in 1..Len(ings) /\ at[2] = Len(Rules(at[1])) + 1
      /\ Len(ings) \in Nat /\ Len(Rules(at[1])) \in Nat
  <2>1. at \in Positive \X Positive /\ IsList(ings) /\ Len(ings) \in Nat
    BY ListDomain DEF IInv, Phase
  <2>2. at[1] \in 1..Len(ings)
    BY <1>1, <2>1 DEF Positive
  <2>3. Len(Rules(at[1])) \in Nat
    BY <1>1, <2>2, RuleLists, ListDomain DEF IInv
  <2> QED
    BY <1>1, <2>1, <2>2, <2>3 DEF IInv, Phase, Rules, Positive
<1>3. ASSUME NEW i \in 1..Len(ings), NEW j \in 1..Len(Rules(i))
      PROVE  Behind(i, j)' <=> Behind(i, j)
  <2>1. Len(Rules(i)) \in Nat
    BY <1>1, RuleLists, ListDomain DEF IInv
  <2>2. CASE i = at[1]
    BY <1>2, <2>1, <2>2 DEF Behind
  <2>3. CASE i # at[1]
    BY <1>2, <2>1, <2>3 DEF Behind, Positive
  <2> QED
    BY <2>2, <2>3
<1>4. (\A i : Rules(i)' = Rules(i)) /\ (\A ref : Resolve(ref)' = Resolve(ref)) /\ \A rule : Found(rule)' = Found(rule)
  BY <1>1, SameStore DEF Rules
<1>5. \A p : IsAPI(ings, p) => p[1] \in 1..Len(ings) /\ p[2] \in 1..Len(Rules(p[1]))
  <2> SUFFICES ASSUME NEW p, IsAPI(ings, p) PROVE p[1] \in 1..Len(ings) /\ p[2] \in 1..Len(Rules(p[1]))
    OBVIOUS
  <2>1. p[1] \in Positive /\ p[2] \in Positive /\ p[1] <= Len(ings) /\ p[2] <= Len(Rules(p[1]))
    BY DEF IsAPI, Pointers, Rules
  <2>2. p[1] \in 1..Len(ings)
    BY <1>2, <2>1 DEF Positive
  <2>3. Len(Rules(p[1])) \in Nat
    BY <1>1, <2>2, RuleLists, ListDomain DEF IInv
  <2> QED
    BY <2>1, <2>2, <2>3 DEF Positive
<1>6. HeapWhole'
  <2> SUFFICES ASSUME NEW p PROVE p \in DOMAIN heap <=> IsAPI(ings, p) /\ Behind(p[1], p[2])'
    BY <1>1 DEF HeapWhole
  <2>1. p \in DOMAIN heap <=> IsAPI(ings, p) /\ Behind(p[1], p[2])
    BY DEF WholeInv, HeapWhole
  <2> QED
    BY <1>3, <1>5, <2>1
<1>7. \A s \in DOMAIN services : ServiceWhole(s)'
  <2> SUFFICES ASSUME NEW s \in DOMAIN services PROVE ServiceWhole(s)'
    OBVIOUS
  <2>1. ServiceWhole(s)
    BY DEF WholeInv
  <2>2. \E i \in 1..Len(ings) : \E j \in 1..Len(Rules(i)) : Behind(i, j)' /\ s \in Found(Rules(i)[j])
    BY <1>3, <2>1 DEF ServiceWhole
  <2> QED
    BY <1>1, <1>4, <2>1, <2>2 DEF ServiceWhole
<1>8. FilledServices' = {}
  BY <1>1 DEF FilledServices
<1>9. Closed(DOMAIN heap', apis')
  BY <1>1, ListEmpty DEF Closed
<1> QED
  BY <1>1, <1>6, <1>7, <1>8, <1>9 DEF WholeInv, Sorted

LEMMA ListWhole ==
  ASSUME IInv, WholeInv, List
  PROVE  WholeInv'
<1>1. DOMAIN heap' = {} /\ DOMAIN services' = {} /\ apis' = <<>> /\ pc' = "parse" /\ store' = store
  BY DEF List, IInv, Phase
<1>2. ings' \in SetToSeqs(store'.ingresses) /\ Sorted(ings')
  BY DEF List, Sorted
<1>3. HeapWhole'
  <2>1. at' = <<1, 1>>
    BY DEF List
  <2>2. \A p : IsAPI(ings', p) => p[1] \in Positive /\ p[2] \in Positive
    BY DEF IsAPI, Pointers
  <2>3. \A i, j \in Positive : ~Behind(i, j)'
    BY <2>1 DEF Behind, Positive
  <2> QED
    BY <1>1, <2>2, <2>3 DEF HeapWhole
<1>4. Closed(DOMAIN heap', apis')
  BY <1>1, ListEmpty DEF Closed
<1>5. FilledServices' = {}
  BY <1>1 DEF FilledServices
<1> QED
  BY <1>1, <1>2, <1>3, <1>4, <1>5 DEF WholeInv, Sorted

LEMMA NothingWhole ==
  ASSUME ings = <<>>, at = <<1, 1>>, pc = "list", apis = <<>>, heap = Nothing, services = Nothing
  PROVE  WholeInv
<1>1. DOMAIN heap = {} /\ DOMAIN services = {}
  BY DEF Nothing
<1>2. \A p : ~(IsAPI(ings, p) /\ Behind(p[1], p[2]))
  <2>1. \A p : IsAPI(ings, p) => p[1] \in Positive /\ p[2] \in Positive
    BY DEF IsAPI, Pointers
  <2>2. \A i, j \in Positive : ~Behind(i, j)
    BY DEF Behind, Positive
  <2> QED
    BY <2>1, <2>2
<1>3. Closed(DOMAIN heap, apis)
  BY ListEmpty DEF Closed
<1>4. FilledServices = {}
  BY DEF FilledServices
<1> QED
  BY <1>1, <1>2, <1>3, <1>4 DEF WholeInv, HeapWhole

LEMMA WholeInvariance == Spec => []WholeInv
<1>1. Init => WholeInv
  BY NothingWhole DEF Init
<1>2. IInv /\ WholeInv /\ [Next]_vars => WholeInv'
  <2> SUFFICES ASSUME IInv, WholeInv, [Next]_vars PROVE WholeInv'
    OBVIOUS
  <2>1. CASE UNCHANGED <<store, ings, at, apis, heap, services>> /\ FilledServices' = FilledServices /\ (pc = "list" => pc' = "list")
    <3>1. /\ \A i : Rules(i)' = Rules(i)
          /\ \A i, j : Behind(i, j)' = Behind(i, j)
          /\ \A ref : Resolve(ref)' = Resolve(ref)
          /\ \A rule : Found(rule)' = Found(rule)
      BY <2>1, SameStore DEF Rules, Behind
    <3>2. HeapWhole'
      BY <2>1, <3>1 DEF WholeInv, HeapWhole
    <3>3. \A t \in DOMAIN services : ServiceWhole(t)'
      BY <2>1, <3>1 DEF WholeInv, ServiceWhole
    <3>4. \A t \in FilledServices : ServersWhole(t)'
      BY <2>1, SameServers DEF ServersWhole, WholeInv
    <3> QED
      BY <2>1, <3>2, <3>3, <3>4 DEF WholeInv, Sorted
  <2>2. CASE Again
    <3>1. ings' = <<>> /\ at' = <<1, 1>> /\ pc' = "list" /\ apis' = <<>> /\ heap' = Nothing /\ services' = Nothing
      BY <2>2 DEF Again
    <3>2. DOMAIN heap' = {} /\ DOMAIN services' = {}
      BY <3>1 DEF Nothing
    <3>3. \A p : ~(IsAPI(ings', p) /\ Behind(p[1], p[2])')
      <4>1. \A p : IsAPI(ings', p) => p[1] \in Positive /\ p[2] \in Positive
        BY DEF IsAPI, Pointers
      <4>2. \A i, j \in Positive : ~Behind(i, j)'
        BY <3>1 DEF Behind, Positive
      <4> QED
        BY <4>1, <4>2
    <3>4. Closed(DOMAIN heap', apis')
      BY <3>1, ListEmpty DEF Closed
    <3>5. FilledServices' = {}
      BY <3>1 DEF FilledServices
    <3> QED
      BY <3>1, <3>2, <3>3, <3>4, <3>5 DEF WholeInv, HeapWhole
  <2>3. CASE ParseRule
    BY <2>3, ParseRuleWhole
  <2>4. CASE \E s \in left : Fill(s)
    BY <2>4, FillWhole
  <2>5. CASE List
    BY <2>5, ListWhole
  <2>6. CASE NextIngress
    BY <2>6, NextIngressWhole
  <2>7. CASE UNCHANGED vars \/ Done
    <3>1. UNCHANGED <<pc, store, ings, at, apis, heap, services, left>>
      BY <2>7 DEF vars, Done
    <3> QED
      BY <2>1, <3>1 DEF FilledServices
  <2>8. CASE Parsed \/ Filled \/ Collected \/ \E s \in left : Collect(s)
    <3>1. /\ UNCHANGED <<store, ings, at, apis, heap, services>> /\ pc # "list"
          /\ \/ pc = "parse" /\ pc' = "fill" /\ left' = DOMAIN services
             \/ pc' \in {"collect", "done"} /\ (pc = "collect" \/ (pc = "fill" /\ left = {}))
      BY <2>8 DEF Parsed, Filled, Collected, Collect
    <3>2. FilledServices' = FilledServices
      BY <3>1 DEF FilledServices
    <3> QED
      BY <2>1, <3>1, <3>2
  <2> QED
    BY <2>2, <2>3, <2>4, <2>5, <2>6, <2>7, <2>8 DEF Next
<1> QED
  BY <1>1, <1>2, Invariance, PTL DEF Spec

(* What the loop over the APIs of a service keeps. *)
FirstAPI(p) == \A q \in DOMAIN heap : Earlier(q, p) => heap[q].name # heap[p].name

FirstRouting(p, r) ==
  \A q \in DOMAIN heap : Earlier(q, p) => \A t \in ToSet(heap[q].routings) : t.name # r.name

FirstKept(c, i, b) ==
  /\ APIInv(c, i, b)
  /\ \A a \in ToSet(b.state.api) :
       a \in ToSet(c.acc.state.api) \/ \E p \in ToSet(c.ptrs) : a = Sent(heap[p]) /\ FirstAPI(p)
  /\ \A r \in ToSet(b.state.routing) :
       \/ r \in ToSet(c.acc.state.routing)
       \/ \E p \in ToSet(c.ptrs) : r \in ToSet(heap[p].routings) /\ FirstRouting(p, r)
  /\ \A j \in 1..i : \A r \in ToSet(heap[c.ptrs[j]].routings) : <<"routing", r.name>> \in b.keys

KeepingFirst == INSTANCE FoldTheorems WITH Op <- APIOp, Inv <- FirstKept

LEMMA FirstStep ==
  ASSUME NEW c, NEW i \in Nat, NEW a, NEW p, p = c.ptrs[i + 1], p \in ToSet(c.ptrs), FirstKept(c, i, a),
         IsList(heap[p].routings), \A r \in ToSet(heap[p].routings) : r.api = heap[p].name,
         \A q \in DOMAIN heap : Earlier(q, p) => \E m \in 1..i : c.ptrs[m] = q
  PROVE  FirstKept(c, i + 1, APIOp(c, a, p))
<1> DEFINE x == Sent(heap[p])
           d == check(a, "api", heap[p].name, x)
           rs == heap[p].routings
           b == checkRoutings(d, rs)
<1>1. "api" \in ListKinds /\ heap[p].name = KeyOf("api", x) /\ Unique(a) /\ APIInv(c, i, a)
  BY DEF ListKinds, KeyOf, Sent, APIInv, FirstKept
<1>2. d = check(a, "api", KeyOf("api", x), x)
  BY <1>1
<1>3. <<"api", heap[p].name>> \in a.keys => d = a
  BY DEF check
<1> HIDE DEF d, x
<1>4. Adds(a, "api", x, d)
  BY <1>1, <1>2, Checked
<1>5. /\ Unique(d) /\ a.keys \subseteq d.keys /\ d.state.routing = a.state.routing
      /\ ToSet(d.state.api) \subseteq ToSet(a.state.api) \cup {x}
  BY <1>1, <1>4 DEF Adds, ListKinds
<1>6. RoutingInv([acc |-> d, list |-> rs], Len(rs), b)
  BY <1>5, RoutingsChecked
<1>7. /\ d.keys \subseteq b.keys /\ b.state.api = d.state.api
      /\ \A r \in ToSet(b.state.routing) : r \in ToSet(d.state.routing) \/ (r \in ToSet(rs) /\ <<"routing", r.name>> \notin d.keys)
      /\ \A j \in 1..Len(rs) : <<"routing", rs[j].name>> \in b.keys
  <2> HIDE DEF b, rs
  <2> QED
    BY <1>6 DEF RoutingInv, ListKinds
<1>8. APIOp(c, a, p) = b
  BY DEF APIOp, d, x
<1> HIDE DEF b
<1>9. APIInv(c, i + 1, b)
  <2>1. APIInv(c, i + 1, APIOp(c, a, p))
    BY <1>1, APIStep
  <2> QED
    BY <1>8, <2>1
<1>10. \A r \in ToSet(rs) : <<"routing", r.name>> \in b.keys
  <2>1. IsList(rs)
    OBVIOUS
  <2>2. \A j \in 1..Len(rs) : <<"routing", rs[j].name>> \in b.keys
    BY <1>7
  <2> HIDE DEF rs
  <2>3. \A r \in ToSet(rs) : \E j \in 1..Len(rs) : r = rs[j]
    BY <2>1, ListDomain
  <2> QED
    BY <2>2, <2>3
<1>11. \A y \in ToSet(b.state.api) :
         y \in ToSet(c.acc.state.api) \/ \E q \in ToSet(c.ptrs) : y = Sent(heap[q]) /\ FirstAPI(q)
  <2> SUFFICES ASSUME NEW y \in ToSet(b.state.api), y \notin ToSet(c.acc.state.api)
               PROVE  \E q \in ToSet(c.ptrs) : y = Sent(heap[q]) /\ FirstAPI(q)
    OBVIOUS
  <2>1. CASE y \in ToSet(a.state.api)
    BY <2>1 DEF FirstKept
  <2>2. CASE y \notin ToSet(a.state.api)
    <3>1. y = x /\ d # a
      BY <1>5, <1>7, <2>2
    <3>2. <<"api", heap[p].name>> \notin a.keys
      BY <1>3, <3>1
    <3>3. ASSUME NEW q \in DOMAIN heap, Earlier(q, p) PROVE heap[q].name # heap[p].name
      <4>1. PICK m \in 1..i : c.ptrs[m] = q
        BY <3>3
      <4>2. <<"api", heap[q].name>> \in a.keys
        BY <1>1, <4>1 DEF APIInv
      <4> QED
        BY <3>2, <4>2
    <3>4. FirstAPI(p)
      BY <3>3 DEF FirstAPI
    <3> QED
      BY <3>1, <3>4 DEF x
  <2> QED
    BY <2>1, <2>2
<1>12. \A r \in ToSet(b.state.routing) :
         \/ r \in ToSet(c.acc.state.routing)
         \/ \E q \in ToSet(c.ptrs) : r \in ToSet(heap[q].routings) /\ FirstRouting(q, r)
  <2> SUFFICES ASSUME NEW r \in ToSet(b.state.routing), r \notin ToSet(c.acc.state.routing)
               PROVE  \E q \in ToSet(c.ptrs) : r \in ToSet(heap[q].routings) /\ FirstRouting(q, r)
    OBVIOUS
  <2>1. CASE r \in ToSet(d.state.routing)
    BY <1>5, <2>1 DEF FirstKept
  <2>2. CASE r \in ToSet(rs) /\ <<"routing", r.name>> \notin d.keys
    <3>1. <<"routing", r.name>> \notin a.keys
      BY <1>5, <2>2
    <3>2. ASSUME NEW q \in DOMAIN heap, Earlier(q, p), NEW t \in ToSet(heap[q].routings) PROVE t.name # r.name
      <4>1. PICK m \in 1..i : c.ptrs[m] = q
        BY <3>2
      <4>2. <<"routing", t.name>> \in a.keys
        BY <4>1 DEF FirstKept
      <4> QED
        BY <3>1, <4>2
    <3>3. FirstRouting(p, r)
      BY <3>2 DEF FirstRouting
    <3> QED
      BY <2>2, <3>3
  <2> QED
    BY <1>7, <2>1, <2>2
<1>13. \A j \in 1..(i + 1) : \A r \in ToSet(heap[c.ptrs[j]].routings) : <<"routing", r.name>> \in b.keys
  <2> SUFFICES ASSUME NEW j \in 1..(i + 1), NEW r \in ToSet(heap[c.ptrs[j]].routings)
               PROVE  <<"routing", r.name>> \in b.keys
    OBVIOUS
  <2>1. CASE j = i + 1
    BY <1>10, <2>1
  <2>2. CASE j \in 1..i
    <3>1. <<"routing", r.name>> \in a.keys
      BY <2>2 DEF FirstKept
    <3> QED
      BY <1>5, <1>7, <3>1
  <2> QED
    BY <2>1, <2>2
<1>14. FirstKept(c, i + 1, b)
  BY <1>9, <1>11, <1>12, <1>13 DEF FirstKept
<1> QED
  BY <1>8, <1>14

LEMMA FirstOfService ==
  ASSUME NEW acc, NEW ptrs, Unique(acc), IsList(ptrs), Closed(DOMAIN heap, ptrs),
         \A p \in ToSet(ptrs) :
           IsList(heap[p].routings) /\ \A r \in ToSet(heap[p].routings) : r.api = heap[p].name
  PROVE  FirstKept([acc |-> acc, ptrs |-> ptrs], Len(ptrs), checkAPIs(acc, ptrs))
<1> DEFINE c == [acc |-> acc, ptrs |-> ptrs]
           n == Len(ptrs)
<1>1. c.acc = acc /\ c.ptrs = ptrs
  OBVIOUS
<1> HIDE DEF c
<1>2. n \in Nat /\ DOMAIN ptrs = 1..n /\ \A j \in 1..n : ptrs[j] \in ToSet(ptrs)
  BY ListDomain
<1>3. FirstKept(c, 0, acc)
  <2>1. \A j \in 1..0 : FALSE
    OBVIOUS
  <2> QED
    BY <1>1, <2>1 DEF FirstKept, APIInv
<1>4. \A j \in 1..n : \A a : FirstKept(c, j - 1, a) => FirstKept(c, j, APIOp(c, a, ptrs[j]))
  <2> SUFFICES ASSUME NEW j \in 1..n, NEW a, FirstKept(c, j - 1, a)
               PROVE  FirstKept(c, j, APIOp(c, a, ptrs[j]))
    OBVIOUS
  <2>1. j - 1 \in Nat /\ (j - 1) + 1 = j
    BY <1>2
  <2>2. ptrs[j] \in ToSet(c.ptrs) /\ ptrs[j] = c.ptrs[(j - 1) + 1]
    BY <1>1, <1>2, <2>1
  <2>3. IsList(heap[ptrs[j]].routings) /\ \A r \in ToSet(heap[ptrs[j]].routings) : r.api = heap[ptrs[j]].name
    BY <1>2
  <2>4. \A q \in DOMAIN heap : Earlier(q, ptrs[j]) => \E m \in 1..(j - 1) : c.ptrs[m] = q
    <3> SUFFICES ASSUME NEW q \in DOMAIN heap, Earlier(q, ptrs[j]) PROVE \E m \in 1..(j - 1) : c.ptrs[m] = q
      OBVIOUS
    <3>1. PICK m \in 1..n : m < j /\ ptrs[m] = q
      BY DEF Closed
    <3>2. m \in 1..(j - 1)
      BY <1>2, <3>1
    <3> QED
      BY <1>1, <3>1, <3>2
  <2> DEFINE i == j - 1
             p == ptrs[j]
  <2> HIDE DEF i, p
  <2>5. FirstKept(c, i + 1, APIOp(c, a, p))
    BY <2>1, <2>2, <2>3, <2>4, FirstStep DEF i, p
  <2> QED
    BY <2>1, <2>5 DEF i, p
<1>5. FirstKept(c, n, KeepingFirst!Fold(c, acc, ptrs))
  <2> HIDE DEF n
  <2> QED
    BY <1>2, <1>3, <1>4, KeepingFirst!FoldKeeps
<1>6. checkAPIs(acc, ptrs) = KeepingFirst!Fold(c, acc, ptrs)
  BY DEF checkAPIs, APIOp, KeepingFirst!Fold, KeepingFirst!MapThenFoldSet, KeepingFirst!Last,
       FoldLeft, MapThenFoldSet, Max
<1> QED
  BY <1>5, <1>6 DEF c

(* The APIs and routings that a service adds are the first of their names. *)
LEMMA ServiceFirst ==
  ASSUME IInv, WholeInv, NEW s \in DOMAIN services, NEW acc, acc = [keys |-> keysMap, state |-> state],
         NEW w, w = checkAPIs(acc, services[s].apis),
         NEW v, v = check(w, "cluster", s, Cluster(s)),
         NEW b, b = checkServers(v, services[s].servers)
  PROVE  /\ \A a \in ToSet(b.state.api) :
              a \in ToSet(state.api) \/ \E p \in ToSet(services[s].apis) : a = Sent(heap[p]) /\ FirstAPI(p)
         /\ \A r \in ToSet(b.state.routing) :
              \/ r \in ToSet(state.routing)
              \/ \E p \in ToSet(services[s].apis) : r \in ToSet(heap[p].routings) /\ FirstRouting(p, r)
         /\ \A p \in ToSet(services[s].apis) : \A r \in ToSet(heap[p].routings) : <<"routing", r.name>> \in b.keys
<1> DEFINE ptrs == services[s].apis
           list == services[s].servers
           x == Cluster(s)
<1>1. Unique(acc) /\ acc.keys = keysMap /\ acc.state = state
  BY DEF IInv, StateMade
<1>2. IsList(ptrs) /\ IsList(list) /\ ToSet(ptrs) \subseteq DOMAIN heap /\ Closed(DOMAIN heap, ptrs)
  BY DEF IInv, ServicesMade, ServiceMade, WholeInv, ServiceWhole
<1>3. \A p \in ToSet(ptrs) : IsList(heap[p].routings) /\ \A r \in ToSet(heap[p].routings) : r.api = heap[p].name
  BY <1>2 DEF IInv, HeapMade, APIMade
<1>4. x.name = s /\ KeyOf("cluster", x) = s /\ "cluster" \in ListKinds
  BY DEF Cluster, KeyOf, ListKinds
<1> HIDE DEF ptrs, list, x
<1>5. /\ Unique(w)
      /\ \A a \in ToSet(w.state.api) : a \in ToSet(state.api) \/ \E p \in ToSet(ptrs) : a = Sent(heap[p]) /\ FirstAPI(p)
      /\ \A r \in ToSet(w.state.routing) :
           r \in ToSet(state.routing) \/ \E p \in ToSet(ptrs) : r \in ToSet(heap[p].routings) /\ FirstRouting(p, r)
      /\ \A j \in 1..Len(ptrs) : \A r \in ToSet(heap[ptrs[j]].routings) : <<"routing", r.name>> \in w.keys
  <2> DEFINE c == [acc |-> acc, ptrs |-> ptrs]
  <2>1. c.acc = acc /\ c.ptrs = ptrs
    OBVIOUS
  <2>2. w = checkAPIs(acc, ptrs)
    BY DEF ptrs
  <2>3. FirstKept(c, Len(ptrs), w)
    BY <1>1, <1>2, <1>3, <2>2, FirstOfService
  <2> HIDE DEF c
  <2> QED
    BY <1>1, <2>1, <2>3 DEF FirstKept, APIInv
<1>6. \A p \in ToSet(ptrs) : \A r \in ToSet(heap[p].routings) : <<"routing", r.name>> \in w.keys
  <2>1. \A p \in ToSet(ptrs) : \E j \in 1..Len(ptrs) : p = ptrs[j]
    BY <1>2, ListDomain
  <2> QED
    BY <1>5, <2>1
<1>7. Unique(v) /\ w.keys \subseteq v.keys /\ v.state.api = w.state.api /\ v.state.routing = w.state.routing
  <2>1. v = check(w, "cluster", KeyOf("cluster", x), x)
    BY <1>4 DEF x
  <2>2. Adds(w, "cluster", x, v)
    BY <1>4, <1>5, <2>1, Checked
  <2> QED
    BY <1>4, <2>2 DEF Adds, ListKinds
<1>8. v.keys \subseteq b.keys /\ b.state.api = v.state.api /\ b.state.routing = v.state.routing
  <2> DEFINE c == [acc |-> v, list |-> list]
  <2>1. c.acc = v /\ c.list = list
    OBVIOUS
  <2>2. b = checkServers(v, list)
    BY DEF list
  <2>3. ServerInv(c, Len(list), b)
    BY <1>2, <1>7, <2>2, ServersChecked
  <2> HIDE DEF c
  <2> QED
    BY <2>1, <2>3 DEF ServerInv, ListKinds
<1>9. \A p \in ToSet(ptrs) : \A r \in ToSet(heap[p].routings) : <<"routing", r.name>> \in b.keys
  BY <1>6, <1>7, <1>8
<1> QED
  BY <1>5, <1>7, <1>8, <1>9 DEF ptrs

LEMMA CollectFirst ==
  ASSUME IInv, WholeInv, FirstInv, NEW s \in left, Collect(s)
  PROVE  FirstInv'
<1>1. UNCHANGED <<heap, services>> /\ pc = "collect" /\ pc' = pc /\ left' = left \ {s} /\ s \in DOMAIN services
  BY DEF Collect, IInv, Phase
<1> DEFINE acc == [keys |-> keysMap, state |-> state]
           w == checkAPIs(acc, services[s].apis)
           v == check(w, "cluster", s, Cluster(s))
           b == checkServers(v, services[s].servers)
<1>2. keysMap' = b.keys /\ state' = b.state
  BY DEF Collect
<1>3. /\ \A a \in ToSet(b.state.api) :
           a \in ToSet(state.api) \/ \E p \in ToSet(services[s].apis) : a = Sent(heap[p]) /\ FirstAPI(p)
      /\ \A r \in ToSet(b.state.routing) :
           \/ r \in ToSet(state.routing)
           \/ \E p \in ToSet(services[s].apis) : r \in ToSet(heap[p].routings) /\ FirstRouting(p, r)
      /\ \A p \in ToSet(services[s].apis) : \A r \in ToSet(heap[p].routings) : <<"routing", r.name>> \in b.keys
  <2> HIDE DEF acc, w, v, b
  <2> QED
    BY <1>1, ServiceFirst DEF acc, w, v, b
<1>4. keysMap \subseteq b.keys
  <2> HIDE DEF acc, w, v, b
  <2> QED
    BY <1>1, ServiceCollected DEF acc, w, v, b
<1> HIDE DEF b
<1>5. \A a : KeptAPI(a)' <=> KeptAPI(a)
  BY <1>1 DEF KeptAPI
<1>6. \A r : KeptRouting(r)' <=> KeptRouting(r)
  BY <1>1 DEF KeptRouting
<1>7. \A a \in ToSet(state'.api) : KeptAPI(a)
  <2> SUFFICES ASSUME NEW a \in ToSet(b.state.api) PROVE KeptAPI(a)
    BY <1>2
  <2>1. CASE a \in ToSet(state.api)
    BY <2>1 DEF FirstInv
  <2>2. CASE \E p \in ToSet(services[s].apis) : a = Sent(heap[p]) /\ FirstAPI(p)
    BY <1>1, <2>2 DEF KeptAPI, FirstAPI
  <2> QED
    BY <1>3, <2>1, <2>2
<1>8. \A r \in ToSet(state'.routing) : KeptRouting(r)
  <2> SUFFICES ASSUME NEW r \in ToSet(b.state.routing) PROVE KeptRouting(r)
    BY <1>2
  <2>1. CASE r \in ToSet(state.routing)
    BY <2>1 DEF FirstInv
  <2>2. CASE \E p \in ToSet(services[s].apis) : r \in ToSet(heap[p].routings) /\ FirstRouting(p, r)
    BY <1>1, <2>2 DEF KeptRouting, FirstRouting
  <2> QED
    BY <1>3, <2>1, <2>2
<1>9. \A t \in DOMAIN services \ left' : \A p \in ToSet(services[t].apis) :
        \A r \in ToSet(heap[p].routings) : <<"routing", r.name>> \in b.keys
  <2> SUFFICES ASSUME NEW t \in DOMAIN services \ left', NEW p \in ToSet(services[t].apis), NEW r \in ToSet(heap[p].routings)
               PROVE  <<"routing", r.name>> \in b.keys
    OBVIOUS
  <2>1. CASE t = s
    BY <1>3, <2>1
  <2>2. CASE t # s
    <3>1. <<"routing", r.name>> \in keysMap
      BY <1>1, <2>2 DEF FirstInv
    <3> QED
      BY <1>4, <3>1
  <2> QED
    BY <2>1, <2>2
<1> QED
  BY <1>1, <1>2, <1>5, <1>6, <1>7, <1>8, <1>9 DEF FirstInv

LEMMA FirstInvariance == Spec => []FirstInv
<1>1. Init => FirstInv
  <2> SUFFICES ASSUME Init PROVE FirstInv
    OBVIOUS
  <2>1. pc = "list" /\ ToSet(state.api) = {} /\ ToSet(state.routing) = {}
    BY ListEmpty DEF Init, NoState
  <2> QED
    BY <2>1 DEF FirstInv
<1>2. IInv /\ WholeInv /\ FirstInv /\ [Next]_vars => FirstInv'
  <2> SUFFICES ASSUME IInv, WholeInv, FirstInv, [Next]_vars PROVE FirstInv'
    OBVIOUS
  <2>1. IInv'
    BY NextIInv
  <2>2. ASSUME state' = NoState, pc' \in {"collect", "done"} => left' = DOMAIN services' PROVE FirstInv'
    <3>1. ToSet(state'.api) = {} /\ ToSet(state'.routing) = {}
      BY <2>2, ListEmpty DEF NoState
    <3> QED
      BY <2>2, <3>1 DEF FirstInv
  <2>3. CASE pc' \in {"list", "parse", "fill"}
    <3>1. state' = NoState
      BY <2>1, <2>3 DEF IInv, StateMade
    <3>2. ~(pc' \in {"collect", "done"})
      BY <2>3
    <3> QED
      BY <2>2, <3>1, <3>2
  <2>4. CASE Filled
    <3>1. state = NoState /\ state' = state /\ left' = DOMAIN services /\ services' = services
      BY <2>4 DEF Filled, IInv, StateMade
    <3> QED
      BY <2>2, <3>1
  <2>5. CASE UNCHANGED <<heap, services, left, keysMap, state>> /\ (pc' = pc \/ pc = "collect")
    <3>1. (\A a : KeptAPI(a)' <=> KeptAPI(a)) /\ \A r : KeptRouting(r)' <=> KeptRouting(r)
      BY <2>5 DEF KeptAPI, KeptRouting
    <3> QED
      BY <2>5, <3>1 DEF FirstInv
  <2>6. CASE \E s \in left : Collect(s)
    BY <2>6, CollectFirst
  <2>7. CASE UNCHANGED vars \/ Done \/ Collected
    BY <2>5, <2>7 DEF vars, Done, Collected
  <2>8. CASE List \/ ParseRule \/ NextIngress \/ Parsed \/ Again \/ \E s \in left : Fill(s)
    BY <2>3, <2>8 DEF List, ParseRule, NextIngress, Parsed, Again, Fill
  <2> QED
    BY <2>4, <2>6, <2>7, <2>8 DEF Next
<1> QED
  BY <1>1, <1>2, Invariance, WholeInvariance, PTL DEF Spec

-----------------------------------------------------------------------------
(***************************************************************************)
(* The configuration of a store: what every Build of it makes, when no two *)
(* ingresses are as old as each other, no server is disputed and no        *)
(* service refused.                                                        *)
(***************************************************************************)
Oldest == CHOOSE l \in SetToSeqs(store.ingresses) : Sorted(l)

Refs == UNION {UNION {Found(rule) : rule \in ToSet(ing.http)} : ing \in store.ingresses}

SubsetOf(s) == CHOOSE x \in Resolve(s) : TRUE

ServicesOf(s) == CHOOSE list \in SetToSeqs(ListServices(SubsetOf(s).labels)) : TRUE

ServersFor(s) == ServersOf(ServicesOf(s), s.port, SubsetOf(s).policy)

APIsOf == {p \in Pointers : IsAPI(Oldest, p)}

Made(p) ==
  [name |-> APIName(Oldest[p[1]], p), host |-> RuleOf(Oldest, p).match[p[3]].host,
   conf |-> RuleOf(Oldest, p).conf, rule |-> RuleOf(Oldest, p)]

LedTo(p) ==
  {s \in Refs : \E j \in p[2]..Len(Oldest[p[1]].http) : s \in Found(Oldest[p[1]].http[j])}

NodeOf(api) == CHOOSE node \in DispatchNode(api) : TRUE

APIOf(p) ==
  [name |-> Made(p).name, host |-> Made(p).host, conf |-> Made(p).conf,
   proxies |-> [s \in {s \in LedTo(p) : Made(p).rule.route # <<>>} |-> NodeOf(Made(p))]]

RoutingsFor(p) == IF LedTo(p) = {} THEN {} ELSE RoutingsOf(Made(p))

TargetAPIs ==
  {APIOf(p) : p \in {p \in APIsOf : LedTo(p) # {}
                       /\ \A q \in APIsOf : Earlier(q, p) => Made(q).name # Made(p).name}}

TargetRoutings ==
  UNION {{r \in RoutingsFor(p) : \A q \in APIsOf : Earlier(q, p) => \A t \in RoutingsFor(q) : t.name # r.name} :
           p \in APIsOf}

TargetCluster(s) ==
  [name |-> s,
   lb |-> IF ServersFor(s) # <<>> /\ SubsetOf(s).policy # NoPolicy THEN SubsetOf(s).policy.lb ELSE "default"]

Target ==
  [api |-> TargetAPIs, routing |-> TargetRoutings, cluster |-> {TargetCluster(s) : s \in Refs},
   server |-> UNION {ToSet(ServersFor(s)) : s \in Refs},
   bind |-> UNION {{[cluster |-> s, server |-> x.addr] : x \in ToSet(ServersFor(s))} : s \in Refs}]

Unordered(c) == [c EXCEPT !.bind = ToSet(@)]

Calm ==
  /\ ShortMatches
  /\ \A s \in Refs : \A svc \in store.services : ~Refuses(svc, s.port)
  /\ \A s, t \in Refs : \A x \in ToSet(ServersFor(s)), y \in ToSet(ServersFor(t)) : x.addr = y.addr => x = y

PrevInv == prev # NoConfig /\ DistinctTimes /\ Calm => Unordered(prev) = Target

(* It depends on the store alone. *)
LEMMA SameTarget ==
  ASSUME store' = store
  PROVE  Target' = Target /\ (Calm' <=> Calm) /\ (DistinctTimes' <=> DistinctTimes)
<1>1. (\A ref : Resolve(ref)' = Resolve(ref)) /\ \A rule : Found(rule)' = Found(rule)
  BY SameStore
<1>2. Oldest' = Oldest
  BY DEF Oldest, Sorted
<1>3. Refs' = Refs
  BY <1>1 DEF Refs
<1>4. \A s : SubsetOf(s)' = SubsetOf(s)
  BY <1>1 DEF SubsetOf
<1>5. \A s : ServicesOf(s)' = ServicesOf(s)
  BY <1>4, SameServers DEF ServicesOf
<1>6. \A s : ServersFor(s)' = ServersFor(s)
  <2>1. \A list, port, policy : ServersOf(list, port, policy)' = ServersOf(list, port, policy)
    BY SameServers
  <2> QED
    BY <1>4, <1>5, <2>1 DEF ServersFor
<1>7. APIsOf' = APIsOf
  BY <1>2 DEF APIsOf
<1>8. \A p : Made(p)' = Made(p)
  BY <1>2 DEF Made
<1>9. \A p : LedTo(p)' = LedTo(p)
  BY <1>1, <1>2, <1>3 DEF LedTo
<1>10. \A p : APIOf(p)' = APIOf(p)
  BY <1>8, <1>9 DEF APIOf
<1>11. \A p : RoutingsFor(p)' = RoutingsFor(p)
  BY <1>8, <1>9 DEF RoutingsFor
<1>12. TargetAPIs' = TargetAPIs
  BY <1>7, <1>8, <1>9, <1>10 DEF TargetAPIs
<1>13. TargetRoutings' = TargetRoutings
  BY <1>7, <1>11 DEF TargetRoutings
<1>14. \A s : TargetCluster(s)' = TargetCluster(s)
  BY <1>4, <1>6 DEF TargetCluster
<1>15. Target' = Target
  <2> DEFINE C == {TargetCluster(s) : s \in Refs}
             V == UNION {ToSet(ServersFor(s)) : s \in Refs}
             b(s) == {[cluster |-> s, server |-> x.addr] : x \in ToSet(ServersFor(s))}
             B == UNION {b(s) : s \in Refs}
  <2>1. C' = C
    BY <1>3, <1>14
  <2>2. V' = V
    BY <1>3, <1>6
  <2>3. \A s : b(s)' = b(s)
    BY <1>6
  <2>4. B' = B
    <3> HIDE DEF b
    <3> QED
      BY <1>3, <2>3
  <2>5. Target = [api |-> TargetAPIs, routing |-> TargetRoutings, cluster |-> C, server |-> V, bind |-> B]
    BY DEF Target
  <2>6. Target' = [api |-> TargetAPIs', routing |-> TargetRoutings', cluster |-> C', server |-> V', bind |-> B']
    BY DEF Target
  <2> HIDE DEF C, V, B
  <2> QED
    BY <1>12, <1>13, <2>1, <2>2, <2>4, <2>5, <2>6
<1>16. Calm' <=> Calm
  BY <1>3, <1>6 DEF Calm, ShortMatches
<1> QED
  BY <1>15, <1>16 DEF DistinctTimes

(* Ingresses of different ages can be sorted in one way. *)
LEMMA SortedSame ==
  ASSUME store \in Stores, DistinctTimes, NEW l \in SetToSeqs(store.ingresses), NEW m \in SetToSeqs(store.ingresses),
         Sorted(l), Sorted(m)
  PROVE  l = m
<1> DEFINE S == store.ingresses
           n == Cardinality(S)
<1>1. IsFiniteSet(S) /\ n \in Nat /\ \A x \in S : x.ts \in Nat
  BY StoresAssumption, FS_CardinalityType
<1>2. ASSUME NEW s \in SetToSeqs(S) PROVE IsList(s) /\ ToSet(s) = S /\ Len(s) = n /\ Injective(s)
  <2>1. IsList(s) /\ ToSet(s) = S
    BY <1>1, SetListed
  <2>2. s \in [1..n -> S] /\ \A i, j \in 1..n : i # j => s[i] # s[j]
    BY DEF SetToSeqs
  <2> HIDE DEF n, S
  <2>3. s = [i \in 1..n |-> s[i]]
    BY <2>2
  <2>4. Len(s) = n
    BY <1>1, <2>3, ListMade
  <2> QED
    BY <2>1, <2>2, <2>4 DEF Injective
<1>3. /\ IsList(l) /\ ToSet(l) = S /\ Len(l) = n /\ Injective(l)
      /\ IsList(m) /\ ToSet(m) = S /\ Len(m) = n /\ Injective(m)
  BY <1>2
<1>4. ASSUME NEW x, NEW y, Before(l, x, y) PROVE Before(m, x, y)
  <2>1. x # y /\ x \in S /\ y \in S
    BY <1>3, <1>4, BeforeOneWay
  <2>2. x.ts <= y.ts
    BY <1>4 DEF Before, Sorted
  <2>3. x.ts < y.ts
    BY <1>1, <2>1, <2>2 DEF DistinctTimes
  <2>4. ~Before(m, y, x)
    <3> SUFFICES ASSUME Before(m, y, x) PROVE FALSE
      OBVIOUS
    <3>1. y.ts <= x.ts
      BY DEF Before, Sorted
    <3> QED
      BY <1>1, <2>1, <2>3, <3>1
  <2>5. Before(m, x, y) \/ Before(m, y, x)
    BY <1>3, <2>1, BeforeSomeWay
  <2> QED
    BY <2>4, <2>5
<1>5. Ordered(l, m)
  <2> HIDE DEF S, n
  <2> QED
    BY <1>3, <1>4 DEF Ordered
<1> QED
  BY <1>5, OrderedSame

LEMMA OldestOne ==
  ASSUME store \in Stores, DistinctTimes, NEW l \in SetToSeqs(store.ingresses), Sorted(l)
  PROVE  l = Oldest
<1>1. Oldest \in SetToSeqs(store.ingresses) /\ Sorted(Oldest)
  BY DEF Oldest
<1> QED
  BY <1>1, SortedSame

(* Services that are not refused can be listed in any order. *)
LEMMA EndpointsAny ==
  ASSUME store \in Stores, NEW labels, NEW port, \A svc \in store.services : ~Refuses(svc, port),
         NEW list \in SetToSeqs(ListServices(labels)), NEW w,
         w = [svc \in ListServices(labels) |-> WithPort(getEndpoints(svc, ServicePort(svc, port)), port)]
  PROVE  LET found == getServiceEndpoints(list, port)
         IN  /\ Counted(Elements(ListServices(labels), w), Len(found))
             /\ IsList(found)
             /\ \A y : y \in ToSet(found) <=> \E x \in ListServices(labels) : y \in ToSet(w[x])
<1> DEFINE S == ListServices(labels)
           I == {i \in 1..Len(list) : Refuses(list[i], port)}
           stop == IF I # {} THEN Min(I) ELSE 0
           upTo == IF stop = 0 THEN Len(list) ELSE stop - 1
           q == [n \in 1..upTo |-> WithPort(getEndpoints(list[n], ServicePort(list[n], port)), port)]
           r == [n \in 1..Len(list) |-> w[list[n]]]
<1>1. IsFiniteSet(S) /\ S \subseteq store.services
  <2>1. IsFiniteSet(store.services) /\ S \subseteq store.services
    BY StoresAssumption DEF ListServices
  <2> QED
    BY <2>1, FS_Subset
<1>2. IsList(list) /\ ToSet(list) = S
  BY <1>1, SetListed
<1>3. \A i \in 1..Len(list) : list[i] \in S
  BY <1>2, ListDomain
<1>4. I = {}
  BY <1>1, <1>3
<1>5. getServiceEndpoints(list, port) = FlattenSeq(q)
  BY DEF getServiceEndpoints, SelectInSeq
<1>6. upTo = Len(list)
  BY <1>4
<1> HIDE DEF upTo
<1>7. q = r
  BY <1>3, <1>6
<1>8. \A x \in S : IsList(w[x])
  BY EndpointsList, WithPortList
<1> HIDE DEF q, S
<1>9. /\ Counted(Elements(S, w), Len(FlattenSeq(r)))
      /\ IsList(FlattenSeq(r))
      /\ \A y : y \in ToSet(FlattenSeq(r)) <=> \E x \in S : y \in ToSet(w[x])
  <2>1. r = [n \in 1..Len(list) |-> r[n]] /\ \A n \in 1..Len(list) : r[n] = w[list[n]]
    OBVIOUS
  <2>2. list \in SetToSeqs(S) /\ Rows(S, list, w, r)
    BY <1>8, <2>1 DEF S, Rows
  <2> HIDE DEF r
  <2> QED
    BY <1>1, <2>2, SameLength
<1> QED
  BY <1>5, <1>7, <1>9 DEF S

LEMMA ServersAny ==
  ASSUME store \in Stores, NEW labels, NEW port, NEW policy, \A svc \in store.services : ~Refuses(svc, port),
         NEW list \in SetToSeqs(ListServices(labels)), NEW m \in SetToSeqs(ListServices(labels))
  PROVE  ToSet(ServersOf(list, port, policy)) = ToSet(ServersOf(m, port, policy))
<1> DEFINE S == ListServices(labels)
           w == [svc \in S |-> WithPort(getEndpoints(svc, ServicePort(svc, port)), port)]
           T == Elements(S, w)
           f == getServiceEndpoints(list, port)
           g == getServiceEndpoints(m, port)
<1>1. Counted(T, Len(f)) /\ IsList(f) /\ \A y : y \in ToSet(f) <=> \E x \in S : y \in ToSet(w[x])
  BY EndpointsAny
<1>2. Counted(T, Len(g)) /\ IsList(g) /\ \A y : y \in ToSet(g) <=> \E x \in S : y \in ToSet(w[x])
  BY EndpointsAny
<1>3. ServersOf(list, port, policy) = [n \in 1..Len(f) |-> Server(f[n], policy, Len(f))]
  BY DEF ServersOf
<1>4. ServersOf(m, port, policy) = [n \in 1..Len(g) |-> Server(g[n], policy, Len(g))]
  BY DEF ServersOf
<1> HIDE DEF T, f, g, w, S
<1>5. Len(f) = Len(g) /\ ToSet(f) = ToSet(g)
  BY <1>1, <1>2 DEF Counted
<1>6. ASSUME NEW h, IsList(h), NEW s, s = [n \in 1..Len(h) |-> Server(h[n], policy, Len(h))]
      PROVE  \A x : x \in ToSet(s) <=> \E y \in ToSet(h) : x = Server(y, policy, Len(h))
  <2>1. Len(h) \in Nat /\ \A y : y \in ToSet(h) <=> \E n \in 1..Len(h) : y = h[n]
    BY <1>6, ListDomain
  <2>2. s = [n \in 1..Len(h) |-> s[n]] /\ \A n \in 1..Len(h) : s[n] = Server(h[n], policy, Len(h))
    BY <1>6
  <2>3. IsList(s) /\ Len(s) = Len(h)
    BY <2>1, <2>2, ListMade
  <2>4. \A x : x \in ToSet(s) <=> \E n \in 1..Len(h) : x = s[n]
    BY <2>3, ListDomain
  <2> QED
    BY <2>1, <2>2, <2>4
<1>7. \A x : x \in ToSet(ServersOf(list, port, policy)) <=> \E y \in ToSet(f) : x = Server(y, policy, Len(f))
  BY <1>1, <1>3, <1>6
<1>8. \A x : x \in ToSet(ServersOf(m, port, policy)) <=> \E y \in ToSet(g) : x = Server(y, policy, Len(g))
  BY <1>2, <1>4, <1>6
<1> QED
  BY <1>5, <1>7, <1>8

-----------------------------------------------------------------------------
(* At its end, a Build has parsed the ingresses in the order of their age. *)
LEMMA DoneIngresses ==
  ASSUME IInv, WholeInv, pc = "done", DistinctTimes
  PROVE  /\ ings = Oldest /\ store \in Stores
         /\ IsList(ings) /\ ToSet(ings) = store.ingresses
         /\ \A i \in 1..Len(ings) : IsList(Rules(i)) /\ Len(Rules(i)) \in Nat
<1>1. store \in Stores /\ IsList(ings) /\ ToSet(ings) = store.ingresses /\ Phase
  BY DEF IInv, Phase
<1>2. ings = Oldest
  BY <1>1, OldestOne DEF WholeInv
<1>3. \A i \in 1..Len(ings) : IsList(Rules(i))
  BY <1>1, RuleLists
<1> QED
  BY <1>1, <1>2, <1>3, ListDomain

(* Its services are the references that lead to a cluster. *)
LEMMA DoneServices ==
  ASSUME IInv, WholeInv, pc = "done", DistinctTimes
  PROVE  /\ DOMAIN services = Refs
         /\ \A s \in Refs : services[s].subset = SubsetOf(s) /\ IsList(services[s].servers)
         /\ \A s \in Refs : \E list \in SetToSeqs(ListServices(SubsetOf(s).labels)) :
              services[s].servers = ServersOf(list, s.port, SubsetOf(s).policy)
<1>1. ings = Oldest /\ store \in Stores /\ IsList(ings) /\ ToSet(ings) = store.ingresses
  BY DoneIngresses
<1>2. \A i \in 1..Len(ings) : IsList(ings[i].http)
  BY DoneIngresses DEF Rules
<1>3. ASSUME NEW s PROVE s \in Refs <=> \E i \in 1..Len(ings) : \E j \in 1..Len(Rules(i)) : s \in Found(Rules(i)[j])
  <2>1. s \in Refs <=> \E ing \in ToSet(ings) : \E rule \in ToSet(ing.http) : s \in Found(rule)
    BY <1>1 DEF Refs
  <2>2. (\E ing \in ToSet(ings) : \E rule \in ToSet(ing.http) : s \in Found(rule))
          <=> \E i \in 1..Len(ings) : \E rule \in ToSet(ings[i].http) : s \in Found(rule)
    BY <1>1, ListDomain
  <2>3. ASSUME NEW i \in 1..Len(ings)
        PROVE  (\E rule \in ToSet(ings[i].http) : s \in Found(rule))
                 <=> \E j \in 1..Len(ings[i].http) : s \in Found(ings[i].http[j])
    BY <1>2, ListDomain
  <2> QED
    BY <2>1, <2>2, <2>3 DEF Rules
<1>4. \A s \in DOMAIN services : \E i \in 1..Len(ings) : \E j \in 1..Len(Rules(i)) : s \in Found(Rules(i)[j])
  BY DEF WholeInv, ServiceWhole
<1>5. \A s : (\E i \in 1..Len(ings) : \E j \in 1..Len(Rules(i)) : s \in Found(Rules(i)[j])) => s \in DOMAIN services
  BY AllBehind
<1>6. DOMAIN services = Refs
  BY <1>3, <1>4, <1>5
<1>7. \A s \in Refs : services[s].subset = SubsetOf(s)
  BY <1>6 DEF WholeInv, ServiceWhole, SubsetOf
<1>8. \A s \in Refs : IsList(services[s].servers)
  BY <1>6 DEF IInv, ServicesMade, ServiceMade
<1>9. FilledServices = Refs
  BY <1>6 DEF FilledServices
<1>10. \A s \in Refs : ServersWhole(s)
  BY <1>9 DEF WholeInv
<1> QED
  BY <1>6, <1>7, <1>8, <1>10 DEF ServersWhole

(* Its APIs are those of the ingresses. *)
LEMMA DoneHeap ==
  ASSUME IInv, WholeInv, FullInv, pc = "done", DistinctTimes
  PROVE  /\ DOMAIN heap = APIsOf
         /\ \A p \in APIsOf : /\ heap[p].name = Made(p).name /\ heap[p].host = Made(p).host
                              /\ heap[p].conf = Made(p).conf /\ heap[p].rule = Made(p).rule
         /\ \A p \in APIsOf : \A s \in Refs : p \in ToSet(services[s].apis) <=> s \in LedTo(p)
<1>1. ings = Oldest /\ IsList(ings) /\ \A i \in 1..Len(ings) : IsList(Rules(i)) /\ Len(Rules(i)) \in Nat
  BY DoneIngresses
<1>2. DOMAIN services = Refs
  BY DoneServices
<1>3. \A p : IsAPI(ings, p) => p[1] \in 1..Len(ings)
  <2>1. Len(ings) \in Nat
    BY <1>1, ListDomain
  <2> QED
    BY <2>1 DEF IsAPI, Pointers, Positive
<1>4. \A p : p \in DOMAIN heap <=> IsAPI(ings, p)
  BY <1>3, AllBehind DEF WholeInv, HeapWhole
<1>5. DOMAIN heap = APIsOf
  BY <1>1, <1>4 DEF APIsOf, IsAPI
<1>6. ASSUME NEW p \in DOMAIN heap
      PROVE  /\ heap[p].name = Made(p).name /\ heap[p].host = Made(p).host
             /\ heap[p].conf = Made(p).conf /\ heap[p].rule = Made(p).rule
  <2>1. heap[p].name = APIName(ings[p[1]], p) /\ heap[p].rule = RuleOf(ings, p)
    BY DEF IInv, HeapMade, APIMade, Rules, RuleOf
  <2>2. heap[p].host = heap[p].rule.match[p[3]].host /\ heap[p].conf = heap[p].rule.conf
    BY DEF FullInv, APIFull
  <2> QED
    BY <1>1, <2>1, <2>2 DEF Made
<1>7. ASSUME NEW p \in DOMAIN heap, NEW s \in Refs
      PROVE  p \in ToSet(services[s].apis) <=> s \in LedTo(p)
  <2>1. p \in ToSet(services[s].apis) <=> Leads(p, s)
    BY <1>2 DEF IInv, ServicesMade, ServiceMade
  <2>2. p[1] \in 1..Len(ings)
    BY Positions
  <2>3. Leads(p, s) <=> \E j \in p[2]..Len(Rules(p[1])) : s \in Found(Rules(p[1])[j])
    BY <2>2, AllBehind DEF Leads
  <2>4. s \in LedTo(p) <=> \E j \in p[2]..Len(Rules(p[1])) : s \in Found(Rules(p[1])[j])
    BY <1>1 DEF LedTo, Rules
  <2> QED
    BY <2>1, <2>3, <2>4
<1> QED
  BY <1>5, <1>6, <1>7

(* They have one node each for what they lead to, and their routings. *)
LEMMA DoneAPI ==
  ASSUME IInv, WholeInv, FullInv, pc = "done", DistinctTimes, ShortMatches, NEW p \in APIsOf
  PROVE  Sent(heap[p]) = APIOf(p) /\ \A r : r \in ToSet(heap[p].routings) <=> r \in RoutingsFor(p)
<1> DEFINE api == heap[p]
           made == Made(p)
<1>1. p \in DOMAIN heap /\ DOMAIN services = Refs
  BY DoneHeap, DoneServices
<1>2. api.name = made.name /\ api.host = made.host /\ api.conf = made.conf /\ api.rule = made.rule
  BY DoneHeap
<1>3. DispatchNode(api) = DispatchNode(made) /\ RoutingsOf(api) = RoutingsOf(made)
  <2> HIDE DEF api, made
  <2> QED
    BY <1>2, SameNodes
<1>4. \A s \in Refs : p \in ToSet(services[s].apis) <=> s \in LedTo(p)
  BY DoneHeap
<1>5. LedTo(p) \subseteq Refs
  BY DEF LedTo
<1>6. DOMAIN api.proxies = {s \in LedTo(p) : made.rule.route # <<>>}
  <2>1. FilledServices = Refs
    BY <1>1 DEF FilledServices
  <2>2. DOMAIN api.proxies = {s \in Refs : p \in ToSet(services[s].apis) /\ api.rule.route # <<>>}
    BY <1>1, <2>1 DEF IInv, NodesMade
  <2> HIDE DEF api, made
  <2> QED
    BY <1>2, <1>4, <1>5, <2>2
<1>7. Noded(api)
  BY <1>1 DEF FullInv, APIFull
<1>8. ASSUME NEW s \in DOMAIN api.proxies
      PROVE  api.proxies[s] = NodeOf(made)
  <2> DEFINE route == Head(api.rule.route)
             list == api.rule.route
  <2>1. api.rule.route # <<>>
    BY <1>1 DEF IInv, NodesMade
  <2>2. IsMatch(route.match) /\ Cardinality(route.match) <= 6
    <3>1. IsList(list) /\ \A r \in ToSet(list) : IsMatch(r.match) /\ Cardinality(r.match) <= 6
      BY <1>1, RuleBehind, RuleShort
    <3> HIDE DEF list
    <3>2. Len(list) \in Nat /\ Len(list) # 0
      BY <2>1, <3>1, ListDomain DEF list, IsList
    <3>3. list[1] \in ToSet(list)
      BY <3>1, <3>2, ListDomain
    <3>4. Head(list) = list[1]
      BY <3>1, <3>2 DEF IsList
    <3> QED
      BY <3>1, <3>3, <3>4 DEF list
  <2>3. api.proxies[s] \in DispatchNode(api)
    BY <1>7 DEF Noded
  <2>4. NodeOf(made) \in DispatchNode(api)
    BY <1>3, <2>3 DEF NodeOf
  <2>5. \A x, y \in DispatchNode(api) : x = y
    <3> DEFINE of(v) == [rule |-> api.conf, route |-> route.conf, validations |-> v]
    <3>1. DispatchNode(api) = {of(v) : v \in ToManbaValidations(route.match)}
      BY DEF DispatchNode
    <3>2. \A v, w \in ToManbaValidations(route.match) : v = w
      BY <2>2, ValidationsOne
    <3> HIDE DEF of, route, api
    <3> QED
      BY <3>1, <3>2
  <2> QED
    BY <2>3, <2>4, <2>5
<1>9. api.proxies = [s \in {s \in LedTo(p) : made.rule.route # <<>>} |-> NodeOf(made)]
  <2>1. api.proxies = [s \in DOMAIN api.proxies |-> api.proxies[s]]
    BY <1>7 DEF Noded
  <2> HIDE DEF api, made
  <2> QED
    BY <1>6, <1>8, <2>1
<1>10. Sent(heap[p]) = APIOf(p)
  <2>1. Sent(heap[p]) = [name |-> api.name, host |-> api.host, conf |-> api.conf, proxies |-> api.proxies]
    BY DEF Sent
  <2> HIDE DEF api
  <2> QED
    BY <1>2, <1>9, <2>1 DEF APIOf
<1>11. Touched(p) <=> LedTo(p) # {}
  BY <1>1, <1>4, <1>5 DEF Touched, FilledServices
<1>12. \A r : r \in ToSet(api.routings) <=> Touched(p) /\ r \in RoutingsOf(api)
  BY <1>1 DEF FullInv, APIFull
<1>13. \A r : r \in ToSet(api.routings) <=> r \in RoutingsFor(p)
  BY <1>3, <1>11, <1>12 DEF RoutingsFor
<1> QED
  BY <1>10, <1>13

(* Two APIs with one name are of one ingress: one of them is earlier. *)
LEMMA SameNameEarlier ==
  ASSUME IInv, WholeInv, FullInv, pc = "done", DistinctTimes, NEW p \in APIsOf, NEW q \in APIsOf,
         Made(p).name = Made(q).name
  PROVE  p = q \/ Earlier(p, q) \/ Earlier(q, p)
<1>1. p \in DOMAIN heap /\ q \in DOMAIN heap
  BY DoneHeap
<1>2. /\ p = <<p[1], p[2], p[3], p[4]>> /\ p[1] \in 1..Len(ings) /\ \A n \in 1..4 : p[n] \in Positive
      /\ q = <<q[1], q[2], q[3], q[4]>> /\ q[1] \in 1..Len(ings) /\ \A n \in 1..4 : q[n] \in Positive
  BY <1>1, Positions
<1>3. ings = Oldest /\ ings[p[1]] \in store.ingresses /\ ings[q[1]] \in store.ingresses /\ store \in Stores
  BY <1>2, DoneIngresses, ListDomain
<1>4. ings[p[1]].name = ings[q[1]].name
  BY <1>3 DEF Made, APIName
<1>5. ings[p[1]] = ings[q[1]]
  BY <1>3, <1>4, StoresAssumption
<1>6. p[1] = q[1]
  <2> DEFINE S == store.ingresses
             n == Cardinality(S)
  <2>1. IsFiniteSet(S)
    BY <1>3, StoresAssumption
  <2>2. ings \in SetToSeqs(S)
    BY DEF WholeInv
  <2>3. n \in Nat
    BY <2>1, FS_CardinalityType
  <2>4. ings \in [1..n -> S] /\ \A i, j \in 1..n : i # j => ings[i] # ings[j]
    BY <2>2 DEF SetToSeqs
  <2>5. DOMAIN ings = 1..Len(ings)
    BY DoneIngresses, ListDomain
  <2>6. 1..Len(ings) = 1..n
    BY <2>4, <2>5
  <2> HIDE DEF n, S
  <2> QED
    BY <1>2, <1>5, <2>4, <2>6
<1>7. p[2] \in Nat /\ p[3] \in Nat /\ p[4] \in Nat /\ q[2] \in Nat /\ q[3] \in Nat /\ q[4] \in Nat
  BY <1>2 DEF Positive
<1>8. CASE p[2] = q[2] /\ p[3] = q[3] /\ p[4] = q[4]
  BY <1>2, <1>6, <1>8
<1>9. CASE ~(p[2] = q[2] /\ p[3] = q[3] /\ p[4] = q[4])
  BY <1>6, <1>7, <1>9 DEF Earlier
<1> QED
  BY <1>8, <1>9

(* The routings of an API are told apart by their names. *)
LEMMA RoutingNames ==
  ASSUME NEW api, IsList(api.rule.mirror), IsList(api.rule.split)
  PROVE  /\ \A r \in RoutingsOf(api) : r.name[1] = api.name
         /\ \A r, t \in RoutingsOf(api) : r.name = t.name => r = t
<1> DEFINE row(list, strategy, n) ==
             [name |-> RoutingName(api.name, strategy, n), api |-> api.name,
              cluster |-> list[n].cluster, rate |-> list[n].rate]
           mirror == api.rule.mirror
           split == api.rule.split
<1>1. ASSUME NEW list, IsList(list), NEW strategy
      PROVE  \A r \in ToSet(parseRouting(api, list, strategy)) : \E n \in 1..Len(list) : r = row(list, strategy, n)
  <2> DEFINE rows == parseRouting(api, list, strategy)
  <2>1. Len(list) \in Nat
    BY <1>1, ListDomain
  <2>2. rows = [n \in 1..Len(list) |-> row(list, strategy, n)]
    BY DEF parseRouting
  <2> HIDE DEF rows, row
  <2>3. IsList(rows) /\ Len(rows) = Len(list)
    BY <2>1, <2>2, ListMade
  <2>4. \A r \in ToSet(rows) : \E n \in 1..Len(list) : r = rows[n]
    BY <2>3, ListDomain
  <2>5. \A r \in ToSet(rows) : \E n \in 1..Len(list) : r = row(list, strategy, n)
    BY <2>2, <2>4
  <2> QED
    BY <2>5 DEF rows
<1>2. \A r \in RoutingsOf(api) : \/ \E n \in 1..Len(mirror) : r = row(mirror, "mirror", n)
                                 \/ \E n \in 1..Len(split) : r = row(split, "split", n)
  <2> HIDE DEF row
  <2> QED
    BY <1>1 DEF RoutingsOf
<1>3. \A list, strategy, n : row(list, strategy, n).name = <<api.name, strategy, n>>
  BY DEF RoutingName
<1> HIDE DEF row, mirror, split
<1>4. \A r \in RoutingsOf(api) : r.name[1] = api.name
  BY <1>2, <1>3
<1>5. ASSUME NEW r \in RoutingsOf(api), NEW t \in RoutingsOf(api), r.name = t.name
      PROVE  r = t
  <2>1. CASE \E n \in 1..Len(mirror) : r = row(mirror, "mirror", n)
    BY <1>2, <1>3, <1>5, <2>1
  <2>2. CASE \E n \in 1..Len(split) : r = row(split, "split", n)
    BY <1>2, <1>3, <1>5, <2>2
  <2> QED
    BY <1>2, <2>1, <2>2
<1> QED
  BY <1>4, <1>5

(* The APIs that are kept. *)
LEMMA DoneAPIs ==
  ASSUME IInv, WholeInv, FullInv, FirstInv, pc = "done", DistinctTimes, ShortMatches
  PROVE  ToSet(state.api) = TargetAPIs
<1> DEFINE first(p) == \A q \in APIsOf : Earlier(q, p) => Made(q).name # Made(p).name
<1>1. DOMAIN heap = APIsOf /\ \A p \in APIsOf : heap[p].name = Made(p).name
  BY DoneHeap
<1>2. DOMAIN services = Refs
  BY DoneServices
<1>3. \A p \in APIsOf : \A s \in Refs : p \in ToSet(services[s].apis) <=> s \in LedTo(p)
  BY DoneHeap
<1>4. \A p \in APIsOf : Sent(heap[p]) = APIOf(p)
  BY DoneAPI
<1>5. \A p : LedTo(p) \subseteq Refs
  BY DEF LedTo
<1>6. \A s \in Refs : ToSet(services[s].apis) \subseteq APIsOf
  BY <1>1, <1>2 DEF IInv, ServicesMade, ServiceMade
<1>7. ASSUME NEW a \in ToSet(state.api)
      PROVE  \E p \in APIsOf : a = APIOf(p) /\ LedTo(p) # {} /\ first(p)
  <2>1. PICK s \in Refs : \E p \in ToSet(services[s].apis) :
           a = Sent(heap[p]) /\ \A q \in DOMAIN heap : Earlier(q, p) => heap[q].name # heap[p].name
    BY <1>2 DEF FirstInv, KeptAPI
  <2>2. PICK p \in ToSet(services[s].apis) :
           a = Sent(heap[p]) /\ \A q \in DOMAIN heap : Earlier(q, p) => heap[q].name # heap[p].name
    BY <2>1
  <2>3. p \in APIsOf
    BY <1>6
  <2>4. LedTo(p) # {} /\ first(p) /\ a = APIOf(p)
    BY <1>1, <1>3, <1>4, <2>2, <2>3
  <2> QED
    BY <2>3, <2>4
<1>8. ASSUME NEW p \in APIsOf, LedTo(p) # {}, first(p)
      PROVE  APIOf(p) \in ToSet(state.api)
  <2>1. PICK s \in Refs : p \in ToSet(services[s].apis)
    BY <1>3, <1>5, <1>8
  <2>2. <<"api", Made(p).name>> \in keysMap /\ "api" \in ListKinds
    BY <1>1, <1>2, <2>1, AllBehind DEF CollectedWhole, ListKinds
  <2>3. PICK a \in ToSet(state["api"]) : KeyOf("api", a) = Made(p).name
    BY <2>2, KeyKept
  <2>4. a \in ToSet(state.api) /\ a.name = Made(p).name
    BY <2>3 DEF KeyOf
  <2>5. PICK q \in APIsOf : a = APIOf(q) /\ first(q)
    BY <1>7, <2>4
  <2>6. Made(q).name = Made(p).name
    BY <2>4, <2>5 DEF APIOf
  <2>7. p = q
    BY <1>8, <2>5, <2>6, SameNameEarlier
  <2> QED
    BY <2>4, <2>5, <2>7
<1> QED
  BY <1>7, <1>8 DEF TargetAPIs

(* The routings that are kept. *)
LEMMA DoneRoutings ==
  ASSUME IInv, WholeInv, FullInv, FirstInv, pc = "done", DistinctTimes, ShortMatches
  PROVE  ToSet(state.routing) = TargetRoutings
<1> DEFINE first(p, r) == \A q \in APIsOf : Earlier(q, p) => \A t \in RoutingsFor(q) : t.name # r.name
<1>1. DOMAIN heap = APIsOf /\ DOMAIN services = Refs
  BY DoneHeap, DoneServices
<1>2. \A p \in APIsOf : \A s \in Refs : p \in ToSet(services[s].apis) <=> s \in LedTo(p)
  BY DoneHeap
<1>3. \A p \in APIsOf : \A r : r \in ToSet(heap[p].routings) <=> r \in RoutingsFor(p)
  BY DoneAPI
<1>4. \A p : LedTo(p) \subseteq Refs
  BY DEF LedTo
<1>5. \A s \in Refs : ToSet(services[s].apis) \subseteq APIsOf
  BY <1>1 DEF IInv, ServicesMade, ServiceMade
<1>6. ASSUME NEW r \in ToSet(state.routing)
      PROVE  \E p \in APIsOf : r \in RoutingsFor(p) /\ first(p, r)
  <2>1. PICK s \in Refs : \E p \in ToSet(services[s].apis) :
           /\ r \in ToSet(heap[p].routings)
           /\ \A q \in DOMAIN heap : Earlier(q, p) => \A t \in ToSet(heap[q].routings) : t.name # r.name
    BY <1>1 DEF FirstInv, KeptRouting
  <2>2. PICK p \in ToSet(services[s].apis) :
           /\ r \in ToSet(heap[p].routings)
           /\ \A q \in DOMAIN heap : Earlier(q, p) => \A t \in ToSet(heap[q].routings) : t.name # r.name
    BY <2>1
  <2>3. p \in APIsOf
    BY <1>5
  <2>4. r \in RoutingsFor(p) /\ first(p, r)
    BY <1>1, <1>3, <2>2, <2>3
  <2> QED
    BY <2>3, <2>4
<1>7. ASSUME NEW p \in APIsOf, NEW r \in RoutingsFor(p), first(p, r)
      PROVE  r \in ToSet(state.routing)
  <2>1. LedTo(p) # {} /\ r \in RoutingsOf(Made(p))
    BY DEF RoutingsFor
  <2>2. PICK s \in Refs : p \in ToSet(services[s].apis)
    BY <1>2, <1>4, <2>1
  <2>3. <<"routing", r.name>> \in keysMap /\ "routing" \in ListKinds
    <3>1. left = {}
      BY DEF IInv, Phase
    <3> QED
      BY <1>1, <1>3, <2>2, <3>1 DEF FirstInv, ListKinds
  <2>4. PICK y \in ToSet(state["routing"]) : KeyOf("routing", y) = r.name
    BY <2>3, KeyKept
  <2>5. y \in ToSet(state.routing) /\ y.name = r.name
    BY <2>4 DEF KeyOf
  <2>6. PICK q \in APIsOf : y \in RoutingsFor(q) /\ first(q, y)
    BY <1>6, <2>5
  <2>7. y \in RoutingsOf(Made(q))
    BY <2>6 DEF RoutingsFor
  <2>8. \A x \in APIsOf : IsList(Made(x).rule.mirror) /\ IsList(Made(x).rule.split)
    BY <1>1, DoneHeap, RuleBehind
  <2>9. r.name[1] = Made(p).name /\ y.name[1] = Made(q).name
    BY <2>1, <2>7, <2>8, RoutingNames
  <2>10. p = q
    BY <1>7, <2>5, <2>6, <2>9, SameNameEarlier
  <2>11. r = y
    BY <2>1, <2>5, <2>7, <2>8, <2>10, RoutingNames
  <2> QED
    BY <2>5, <2>11
<1> QED
  <2>1. \A r : r \in TargetRoutings <=> \E p \in APIsOf : r \in RoutingsFor(p) /\ first(p, r)
    BY DEF TargetRoutings
  <2> HIDE DEF first
  <2> QED
    BY <1>6, <1>7, <2>1

(* The servers of a cluster, when no service is refused. *)
LEMMA DoneServers ==
  ASSUME IInv, WholeInv, pc = "done", DistinctTimes,
         \A s \in Refs : \A svc \in store.services : ~Refuses(svc, s.port)
  PROVE  \A s \in Refs : /\ ToSet(services[s].servers) = ToSet(ServersFor(s))
                         /\ services[s].servers = <<>> <=> ServersFor(s) = <<>>
<1> SUFFICES ASSUME NEW s \in Refs
             PROVE  /\ ToSet(services[s].servers) = ToSet(ServersFor(s))
                    /\ services[s].servers = <<>> <=> ServersFor(s) = <<>>
  OBVIOUS
<1> DEFINE S == SetToSeqs(ListServices(SubsetOf(s).labels))
<1>1. PICK list \in S : services[s].servers = ServersOf(list, s.port, SubsetOf(s).policy)
  BY DoneServices
<1>2. ServicesOf(s) \in S
  BY DEF ServicesOf
<1>3. store \in Stores /\ \A svc \in store.services : ~Refuses(svc, s.port)
  BY DoneIngresses
<1>4. ToSet(services[s].servers) = ToSet(ServersFor(s))
  BY <1>1, <1>2, <1>3, ServersAny DEF ServersFor
<1>5. IsList(services[s].servers)
  BY DoneServices
<1>6. IsList(ServersFor(s))
  <2> DEFINE found == getServiceEndpoints(ServicesOf(s), s.port)
             f == ServersFor(s)
  <2>1. IsList(found)
    BY <1>2, <1>3, EndpointsAny
  <2>2. Len(found) \in Nat
    BY <2>1, ListDomain
  <2>3. f = [n \in 1..Len(found) |-> f[n]]
    BY DEF ServersFor, ServersOf
  <2> HIDE DEF found, f
  <2>4. IsList(f)
    BY <2>2, <2>3, ListMade
  <2> QED
    BY <2>4 DEF f
<1>7. ASSUME NEW l, IsList(l) PROVE l = <<>> <=> ToSet(l) = {}
  BY <1>7, ListDomain DEF IsList
<1> QED
  BY <1>4, <1>5, <1>6, <1>7

(* The clusters that are kept. *)
LEMMA DoneClusters ==
  ASSUME IInv, WholeInv, pc = "done", DistinctTimes
  PROVE  /\ IsList(state.cluster)
         /\ \A c : c \in ToSet(state.cluster) <=> \E s \in Refs : c = Cluster(s)
         /\ \A s : Cluster(s).name = s
<1>1. DOMAIN services = Refs
  BY DoneServices
<1>2. \A s : Cluster(s).name = s
  BY DEF Cluster
<1>3. ASSUME NEW s \in Refs PROVE Cluster(s) \in ToSet(state.cluster)
  <2>1. <<"cluster", s>> \in keysMap /\ "cluster" \in ListKinds
    BY <1>1, AllBehind DEF CollectedWhole, ListKinds
  <2>2. PICK c \in ToSet(state["cluster"]) : KeyOf("cluster", c) = s
    BY <2>1, KeyKept
  <2>3. c \in ToSet(state.cluster) /\ c.name = s
    BY <2>2 DEF KeyOf
  <2> QED
    BY <2>3 DEF IInv, StateMade, Origins
<1>4. \A c \in ToSet(state.cluster) : c.name \in Refs /\ c = Cluster(c.name)
  BY <1>1 DEF IInv, StateMade, Origins
<1>5. IsList(state.cluster)
  BY DEF IInv, StateMade, Unique, ListKinds
<1> QED
  BY <1>2, <1>3, <1>4, <1>5

(* The binds: every cluster with each of its servers. *)
LEMMA DoneBinds ==
  ASSUME IInv, WholeInv, pc = "done", DistinctTimes
  PROVE  \A b : b \in ToSet(toStable.bind) <=>
           \E s \in Refs : \E x \in ToSet(services[s].servers) : b = [cluster |-> s, server |-> x.addr]
<1> DEFINE clusters == state.cluster
           row(c, a) == [cluster |-> c.name, server |-> a]
           rows(c) == [m \in 1..Len(c.servers) |-> row(c, c.servers[m])]
           q == [n \in 1..Len(clusters) |-> rows(clusters[n])]
<1>1. /\ IsList(clusters) /\ \A c : c \in ToSet(clusters) <=> \E s \in Refs : c = Cluster(s)
      /\ \A s : Cluster(s).name = s
  BY DoneClusters
<1>2. DOMAIN services = Refs
  BY DoneServices
<1>3. toStable.bind = SortBinds(FlattenSeq(q))
  BY DEF toStable
<1>4. \A s \in Refs : IsList(Cluster(s).servers)
  BY <1>2, ClusterServers
<1>5. ASSUME NEW c, IsList(c.servers)
      PROVE  IsList(rows(c)) /\ \A b : b \in ToSet(rows(c)) <=> \E a \in ToSet(c.servers) : b = row(c, a)
  <2> DEFINE list == c.servers
             r == rows(c)
  <2>1. Len(list) \in Nat /\ \A a : a \in ToSet(list) <=> \E m \in 1..Len(list) : a = list[m]
    BY <1>5, ListDomain
  <2>2. r = [m \in 1..Len(list) |-> r[m]] /\ \A m \in 1..Len(list) : r[m] = row(c, list[m])
    OBVIOUS
  <2> HIDE DEF list, r, row
  <2>3. IsList(r) /\ Len(r) = Len(list)
    BY <2>1, <2>2, ListMade
  <2>4. \A b : b \in ToSet(r) <=> \E m \in 1..Len(list) : b = r[m]
    BY <2>3, ListDomain
  <2>5. \A b : b \in ToSet(r) <=> \E a \in ToSet(list) : b = row(c, a)
    BY <2>1, <2>2, <2>4
  <2> QED
    BY <2>3, <2>5 DEF list, r
<1>6. Len(clusters) \in Nat /\ \A c : c \in ToSet(clusters) <=> \E n \in 1..Len(clusters) : c = clusters[n]
  BY <1>1, ListDomain
<1>7. \A n \in 1..Len(clusters) : clusters[n] \in ToSet(clusters) /\ IsList(clusters[n].servers)
  BY <1>1, <1>4, <1>6
<1>8. q = [n \in 1..Len(clusters) |-> q[n]] /\ \A n \in 1..Len(clusters) : q[n] = rows(clusters[n])
  OBVIOUS
<1> HIDE DEF q, rows, row, clusters
<1>9. \A n \in 1..Len(clusters) : IsList(q[n])
  BY <1>5, <1>7, <1>8
<1>10. IsList(FlattenSeq(q)) /\ \A b : b \in ToSet(FlattenSeq(q)) <=> \E n \in 1..Len(clusters) : b \in ToSet(q[n])
  BY <1>6, <1>8, <1>9, Flattened
<1>11. ToSet(toStable.bind) = ToSet(FlattenSeq(q))
  BY <1>3, <1>10, BindsKept
<1>12. \A b : b \in ToSet(toStable.bind) <=> \E c \in ToSet(clusters) : b \in ToSet(rows(c))
  BY <1>6, <1>8, <1>10, <1>11
<1>13. \A b : b \in ToSet(toStable.bind) <=> \E s \in Refs : b \in ToSet(rows(Cluster(s)))
  BY <1>1, <1>12
<1>14. ASSUME NEW s \in Refs, NEW b
       PROVE  b \in ToSet(rows(Cluster(s))) <=> \E x \in ToSet(services[s].servers) : b = [cluster |-> s, server |-> x.addr]
  <2>1. b \in ToSet(rows(Cluster(s))) <=> \E a \in ToSet(Cluster(s).servers) : b = row(Cluster(s), a)
    BY <1>4, <1>5
  <2>2. \A a : a \in ToSet(Cluster(s).servers) <=> \E x \in ToSet(services[s].servers) : a = x.addr
    BY <1>2, ClusterServers
  <2>3. \A a : row(Cluster(s), a) = [cluster |-> s, server |-> a]
    BY <1>1 DEF row
  <2> QED
    BY <2>1, <2>2, <2>3
<1> QED
  BY <1>13, <1>14

(* The whole configuration. *)
LEMMA DoneConfig ==
  ASSUME IInv, WholeInv, FullInv, FirstInv, pc = "done", DistinctTimes, Calm
  PROVE  Unordered(toStable) = Target
<1> DEFINE cut(c) == [name |-> c.name, lb |-> c.lb]
           bind(s, x) == [cluster |-> s, server |-> x.addr]
           binds(s) == {bind(s, x) : x \in ToSet(ServersFor(s))}
<1>1. DOMAIN services = Refs /\ \A s \in Refs : services[s].subset = SubsetOf(s)
  BY DoneServices
<1>2. \A s \in Refs : /\ ToSet(services[s].servers) = ToSet(ServersFor(s))
                      /\ services[s].servers = <<>> <=> ServersFor(s) = <<>>
  BY DoneServers DEF Calm
<1>3. {cut(c) : c \in ToSet(state.cluster)} = {TargetCluster(s) : s \in Refs}
  <2>1. \A c : c \in ToSet(state.cluster) <=> \E s \in Refs : c = Cluster(s)
    BY DoneClusters
  <2>2. ASSUME NEW s \in Refs PROVE cut(Cluster(s)) = TargetCluster(s)
    <3>1. CASE ServersFor(s) # <<>> /\ SubsetOf(s).policy # NoPolicy
      BY <1>1, <1>2, <3>1 DEF Cluster, TargetCluster
    <3>2. CASE ~(ServersFor(s) # <<>> /\ SubsetOf(s).policy # NoPolicy)
      BY <1>1, <1>2, <3>2 DEF Cluster, TargetCluster
    <3> QED
      BY <3>1, <3>2
  <2> HIDE DEF cut
  <2> QED
    BY <2>1, <2>2
<1>4. ToSet(state.server) = UNION {ToSet(ServersFor(s)) : s \in Refs}
  <2>1. \A x \in ToSet(state.server) : \E s \in Refs : x \in ToSet(ServersFor(s))
    BY <1>1, <1>2 DEF IInv, StateMade, Origins
  <2>2. ASSUME NEW s \in Refs, NEW x \in ToSet(ServersFor(s)) PROVE x \in ToSet(state.server)
    <3>1. <<"server", x.addr>> \in keysMap /\ "server" \in ListKinds
      BY <1>1, <1>2, AllBehind DEF CollectedWhole, ListKinds
    <3>2. PICK y \in ToSet(state["server"]) : KeyOf("server", y) = x.addr
      BY <3>1, KeyKept
    <3>3. y \in ToSet(state.server) /\ y.addr = x.addr
      BY <3>2 DEF KeyOf
    <3>4. y = x
      BY <2>1, <3>3 DEF Calm
    <3> QED
      BY <3>3, <3>4
  <2> QED
    BY <2>1, <2>2
<1>5. ToSet(toStable.bind) = UNION {binds(s) : s \in Refs}
  <2>1. \A b : b \in ToSet(toStable.bind) <=> \E s \in Refs : \E x \in ToSet(services[s].servers) : b = bind(s, x)
    BY DoneBinds
  <2> HIDE DEF bind
  <2> QED
    BY <1>2, <2>1
<1>6. ToSet(state.api) = TargetAPIs /\ ToSet(state.routing) = TargetRoutings
  BY DoneAPIs, DoneRoutings DEF Calm
<1>7. Unordered(toStable) =
        [api |-> ToSet(state.api), routing |-> ToSet(state.routing), cluster |-> {cut(c) : c \in ToSet(state.cluster)},
         server |-> ToSet(state.server), bind |-> ToSet(toStable.bind)]
  <2> DEFINE a == ToSet(state.api)
             r == ToSet(state.routing)
             k == {cut(c) : c \in ToSet(state.cluster)}
             v == ToSet(state.server)
             t == toStable
             b == toStable.bind
  <2>1. t = [api |-> a, routing |-> r, cluster |-> k, server |-> v, bind |-> b]
    BY DEF toStable
  <2>2. Unordered(t) = [t EXCEPT !.bind = ToSet(@)]
    BY DEF Unordered
  <2> HIDE DEF a, r, k, v, t, b
  <2>3. Unordered(t) = [api |-> a, routing |-> r, cluster |-> k, server |-> v, bind |-> ToSet(b)]
    BY <2>1, <2>2
  <2> QED
    BY <2>3 DEF a, r, k, v, t, b
<1>8. Target = [api |-> TargetAPIs, routing |-> TargetRoutings, cluster |-> {TargetCluster(s) : s \in Refs},
                server |-> UNION {ToSet(ServersFor(s)) : s \in Refs}, bind |-> UNION {binds(s) : s \in Refs}]
  BY DEF Target
<1> HIDE DEF cut, binds, bind
<1> QED
  BY <1>3, <1>4, <1>5, <1>6, <1>7, <1>8

(* What the Build before made is the configuration of the store too. *)
LEMMA PrevInvariance == Spec => []PrevInv
<1>1. Init => PrevInv
  BY DEF Init, PrevInv
<1>2. IInv /\ WholeInv /\ FullInv /\ FirstInv /\ PrevInv /\ [Next]_vars => PrevInv'
  <2> SUFFICES ASSUME IInv, WholeInv, FullInv, FirstInv, PrevInv, [Next]_vars
               PROVE  PrevInv'
    OBVIOUS
  <2>1. store' = store /\ (prev' = prev \/ Again)
    BY DEF Next, List, ParseRule, NextIngress, Parsed, Fill, Collect, Filled, Collected, Again, Done, vars
  <2>2. Target' = Target /\ (Calm' <=> Calm) /\ (DistinctTimes' <=> DistinctTimes)
    BY <2>1, SameTarget
  <2>3. Unordered(prev)' = Unordered(prev')
    BY DEF Unordered
  <2>4. CASE prev' = prev
    BY <2>2, <2>3, <2>4 DEF PrevInv
  <2>5. CASE Again
    <3>1. pc = "done" /\ prev' = toStable
      BY <2>5 DEF Again
    <3>2. DistinctTimes /\ Calm => Unordered(toStable) = Target
      BY <3>1, DoneConfig
    <3> QED
      BY <2>2, <2>3, <3>1, <3>2 DEF PrevInv
  <2> QED
    BY <2>1, <2>4, <2>5
<1> QED
  BY <1>1, <1>2, Invariance, WholeInvariance, FullInvariance, FirstInvariance, PTL DEF Spec

(***************************************************************************)
(* Build goes through its maps in an order that differs from one time to   *)
(* the next, and keeps of two objects with one name the one it meets       *)
(* first.  Still two Builds of one store make the same APIs, with the same *)
(* nodes and validations, the same routings, clusters and servers, and the *)
(* same binds but for their order, in a store of any size: unless two      *)
(* ingresses are as old as each other, a match has more than six           *)
(* parameters, a server is disputed or a service is refused.               *)
(***************************************************************************)
THEOREM BuildsAgree == Spec => []SameStoreSameConfig
<1>1. IInv /\ WholeInv /\ FullInv /\ FirstInv /\ PrevInv => SameStoreSameConfig
  <2> SUFFICES ASSUME IInv, WholeInv, FullInv, FirstInv, PrevInv, pc = "done", prev # NoConfig, DistinctTimes,
                      ShortMatches, ~Disputed, \A s \in DOMAIN services : \A svc \in store.services : ~Refuses(svc, s.port)
               PROVE  [toStable EXCEPT !.bind = ToSet(@)] = [prev EXCEPT !.bind = ToSet(@)]
    BY DEF SameStoreSameConfig
  <2>1. DOMAIN services = Refs
    BY DoneServices
  <2>2. \A s \in Refs : ToSet(services[s].servers) = ToSet(ServersFor(s))
    BY <2>1, DoneServers
  <2>3. Calm
    BY <2>1, <2>2 DEF Calm, Disputed
  <2>4. Unordered(toStable) = Unordered(prev)
    BY <2>3, DoneConfig DEF PrevInv
  <2> QED
    BY <2>4 DEF Unordered
<1> QED
  BY <1>1, Invariance, WholeInvariance, FullInvariance, FirstInvariance, PrevInvariance, PTL
=============================================================================
