------------------------------- MODULE Parser -------------------------------
(***************************************************************************)
(* Parser.Build and toStable: from the ingresses, clusters, services and   *)
(* endpoints of the store to the lists of APIs, routings, clusters,        *)
(* servers and binds that OnUpdate hashes and applies.                     *)
(*                                                                         *)
(* Build goes through maps, in an order that differs from one Build to the *)
(* next, and through APIs that several services share by pointer.  The     *)
(* store stands still here; that it may change meanwhile is the subject of *)
(* SyncLoop.                                                               *)
(*                                                                         *)
(* There is one namespace.  A service is named by the cluster reference it *)
(* is made for, an address is a pair of host and port, and what a rule or  *)
(* a route configures beyond its clusters is one value, conf.  A port that *)
(* is not set is "", as are names.  Certificates are looked up and dropped *)
(* by the code, and left out.                                              *)
(***************************************************************************)
EXTENDS Admission, Validations, FiniteSets

CONSTANTS
  Stores,        \* the stores that Build may find
  ClusterOrder,  \* cluster references in the order of their names
  AddrOrder,     \* addresses in the order of their texts
  Numbers,       \* the ports that are numbers
  NoPolicy,      \* the traffic policy of what has none
  MaxBuilds      \* bound on the Builds of one store

ASSUME BuildsAssumption == MaxBuilds \in Nat \ {0}

(* Caches are finite, with one ingress under a name, and slices are         *)
(* sequences.                                                               *)
ASSUME StoresAssumption ==
  \A st \in Stores :
    /\ IsFiniteSet(st.ingresses) /\ IsFiniteSet(st.services)
    /\ \A a, b \in st.ingresses : a.name = b.name => a = b
    /\ \A ing \in st.ingresses :
         /\ ing.ts \in Nat /\ IsList(ing.http)
         /\ \A rule \in ToSet(ing.http) :
              /\ IsList(rule.match) /\ IsList(rule.route) /\ IsList(rule.mirror) /\ IsList(rule.split)
              /\ \A m \in ToSet(rule.match) : m.rules \in Nat
              /\ \A route \in ToSet(rule.route) : IsMatch(route.match)
    /\ \A name \in DOMAIN st.clusters : IsList(st.clusters[name].subsets)
    /\ \A name \in DOMAIN st.endpoints :
         /\ IsList(st.endpoints[name])
         /\ \A ss \in ToSet(st.endpoints[name]) : IsList(ss.addrs) /\ IsList(ss.ports)

VARIABLES
  pc,         \* the step of Build
  store,      \* what the caches hold
  ings,       \* the sorted list of ingresses
  at,         \* the ingress and the rule to be parsed next
  apis,       \* the APIs of this ingress so far, as pointers
  heap,       \* what the pointers lead to
  services,   \* serviceNameToServices
  left,       \* the services that the current loop has still to visit
  keysMap,    \* the names already collected
  state,      \* the ManbaState under construction
  builds,     \* Builds begun
  prev        \* history: what toStable made of the Build before

vars == <<pc, store, ings, at, apis, heap, services, left, keysMap, state, builds, prev>>

Nothing == [n \in {} |-> {}]

NoState == [api |-> <<>>, routing |-> <<>>, cluster |-> <<>>, server |-> <<>>]

NoConfig == [none |-> TRUE]

Init ==
  /\ store \in Stores
  /\ pc = "list" /\ ings = <<>> /\ at = <<1, 1>> /\ apis = <<>> /\ heap = Nothing
  /\ services = Nothing /\ left = {} /\ keysMap = {} /\ state = NoState
  /\ builds = 1 /\ prev = NoConfig

-----------------------------------------------------------------------------
(***************************************************************************)
(* Names.                                                                  *)
(***************************************************************************)
(* %d: the decimal digits of n, of which Leading gives those before the last. *)
Leading[n \in Nat] == IF n = 0 THEN <<>> ELSE Append(Leading[n \div 10], n % 10)

Digits(n) == IF n < 10 THEN <<n>> ELSE Append(Leading[n \div 10], n % 10)

\* Mutant: the rule is not part of the name.
APINameNoRule(ing, p) == <<ing.name, Digits(p[1] - 1) \o Digits(p[3] - 1) \o Digits(p[4] - 1)>>

(* The four positions follow each other without a separator. *)
APIName(ing, p) == <<ing.name, Digits(p[1] - 1) \o Digits(p[2] - 1) \o Digits(p[3] - 1) \o Digits(p[4] - 1)>>

RoutingName(api, strategy, n) == <<api, strategy, n>>

-----------------------------------------------------------------------------
(***************************************************************************)
(* parseIngressRules.                                                      *)
(***************************************************************************)
\* Mutant: the ingresses stay in the order of the cache.
ListUnsorted ==
  /\ pc = "list"
  /\ ings' \in SetToSeqs(store.ingresses)
  /\ pc' = "parse" /\ at' = <<1, 1>>
  /\ UNCHANGED <<store, apis, heap, services, left, keysMap, state, builds, prev>>

(* The cache lists ingresses in any order; they are sorted by the second in  *)
(* which they were created.                                                  *)
List ==
  /\ pc = "list"
  /\ ings' \in {s \in SetToSeqs(store.ingresses) : \A a, b \in 1..Len(s) : a < b => s[a].ts <= s[b].ts}
  /\ pc' = "parse" /\ at' = <<1, 1>>
  /\ UNCHANGED <<store, apis, heap, services, left, keysMap, state, builds, prev>>

getClusterSubset(subsets, name) ==
  LET n == SelectInSeq(subsets, LAMBDA s : s.name = name) IN IF n = 0 THEN {} ELSE {subsets[n]}

GetManbaCluster(name) ==
  IF name \in DOMAIN store.clusters THEN {store.clusters[name]} ELSE {}

(* The subset that a reference leads to, with the policy that holds for it: *)
(* a set of at most one.                                                    *)
Resolve(ref) ==
  UNION {{[labels |-> s.labels, policy |-> IF s.policy # NoPolicy THEN s.policy ELSE c.policy] :
            s \in getClusterSubset(c.subsets, ref.subset)} : c \in GetManbaCluster(ref.name)}

(* The APIs of a rule: one for each rule of each match. *)
PointersOf(i, j, rule) ==
  FlattenSeq([k \in 1..Len(rule.match) |-> [g \in 1..rule.match[k].rules |-> <<i, j, k, g>>]])

\* Mutant: a service that is there already does not get the APIs.
AddRouteOnce(svcs, ref, ptrs) ==
  IF ref \in DOMAIN svcs \/ Resolve(ref) = {} THEN svcs
  ELSE [r \in DOMAIN svcs \cup {ref} |->
          IF r # ref THEN svcs[r]
          ELSE [apis |-> ptrs, subset |-> CHOOSE s \in Resolve(ref) : TRUE, servers |-> <<>>]]

(* A route gives its service the APIs of the ingress so far; a route whose   *)
(* cluster or subset is not there is passed over.                            *)
AddRoute(svcs, ref, ptrs) ==
  IF ref \in DOMAIN svcs THEN [svcs EXCEPT ![ref].apis = @ \o ptrs]
  ELSE IF Resolve(ref) = {} THEN svcs
  ELSE [r \in DOMAIN svcs \cup {ref} |->
          IF r # ref THEN svcs[r]
          ELSE [apis |-> ptrs, subset |-> CHOOSE s \in Resolve(ref) : TRUE, servers |-> <<>>]]

AddRoutes(svcs, routes, ptrs) ==
  LET add(acc, route) == AddRoute(acc, route.cluster, ptrs) IN FoldLeft(add, svcs, routes)

fromManbaHTTPRule(ing, rule, p) ==
  [name |-> APIName(ing, p), host |-> rule.match[p[3]].host, conf |-> rule.conf,
   rule |-> rule, proxies |-> Nothing, routings |-> <<>>]

ParseRule ==
  /\ pc = "parse" /\ at[1] <= Len(ings) /\ at[2] <= Len(ings[at[1]].http)
  /\ LET ing  == ings[at[1]]
         rule == ing.http[at[2]]
         new  == PointersOf(at[1], at[2], rule)
         all  == apis \o new
     IN  /\ apis' = all
         /\ heap' = [p \in DOMAIN heap \cup ToSet(new) |->
                       IF p \in DOMAIN heap THEN heap[p] ELSE fromManbaHTTPRule(ing, rule, p)]
         /\ services' = AddRoutes(services, rule.route, all)
  /\ at' = <<at[1], at[2] + 1>>
  /\ UNCHANGED <<pc, store, ings, left, keysMap, state, builds, prev>>

NextIngress ==
  /\ pc = "parse" /\ at[1] <= Len(ings) /\ at[2] > Len(ings[at[1]].http)
  /\ at' = <<at[1] + 1, 1>> /\ apis' = <<>>
  /\ UNCHANGED <<pc, store, ings, heap, services, left, keysMap, state, builds, prev>>

Parsed ==
  /\ pc = "parse" /\ at[1] > Len(ings)
  /\ pc' = "fill" /\ left' = DOMAIN services
  /\ UNCHANGED <<store, ings, at, apis, heap, services, keysMap, state, builds, prev>>

-----------------------------------------------------------------------------
(***************************************************************************)
(* fillOverride.                                                           *)
(***************************************************************************)
ListServices(labels) == {svc \in store.services : labels \subseteq svc.labels}

(* The first port of the service that the reference can mean; one without a  *)
(* name and target when there is none.                                       *)
ServicePort(svc, port) ==
  LET n == SelectInSeq(svc.ports, LAMBDA x : port \in {x.port, x.target, x.name})
  IN  IF n # 0 THEN svc.ports[n]
      ELSE [name |-> "", target |-> IF svc.ports = <<>> /\ svc.external THEN port ELSE ""]

(* The subsets of a service's endpoints; none is an error that is logged. *)
GetEndpointsForService(name) ==
  IF name \in DOMAIN store.endpoints THEN store.endpoints[name] ELSE <<>>

(* The endpoints of a service under one of its ports, as they are listed. *)
Listed(svc, port) ==
  LET found(ss) ==
        FlattenSeq([m \in 1..Len(ss.ports) |->
          IF ss.ports[m].tcp /\ port.name \in {"", ss.ports[m].name}
          THEN [a \in 1..Len(ss.addrs) |-> <<ss.addrs[a], ss.ports[m].port>>] ELSE <<>>])
      subsets == GetEndpointsForService(svc.name)
  IN  FlattenSeq([n \in 1..Len(subsets) |-> found(subsets[n])])

(* An external service is a name of a host. *)
External(svc, port) == IF port.target \in Numbers THEN << <<svc.host, port.target>> >> ELSE <<>>

\* Mutant: an address that two ports or subsets share is not left out.
getEndpointsRepeated(svc, port) ==
  IF svc.external THEN External(svc, port) ELSE Listed(svc, port)

getEndpoints(svc, port) ==
  LET once(acc, x) == IF x \in ToSet(acc) THEN acc ELSE Append(acc, x)
  IN  IF svc.external THEN External(svc, port) ELSE FoldLeft(once, <<>>, Listed(svc, port))

(* An external service that the reference cannot mean ends the search. *)
Refuses(svc, port) == svc.external /\ svc.ports = <<>> /\ port \notin Numbers

(* The endpoints that have this port. *)
WithPort(list, port) ==
  LET keep(acc, x) == IF x[2] = port THEN Append(acc, x) ELSE acc IN FoldLeft(keep, <<>>, list)

(* The servers behind a reference, the services having been listed in this  *)
(* order; only endpoints whose port is the one of the reference count.      *)
getServiceEndpoints(list, port) ==
  LET stop == SelectInSeq(list, LAMBDA svc : Refuses(svc, port))
      upTo == IF stop = 0 THEN Len(list) ELSE stop - 1
  IN  FlattenSeq([n \in 1..upTo |-> WithPort(getEndpoints(list[n], ServicePort(list[n], port)), port)])

\* Mutant: every server gets the whole rate.
ServerUndivided(addr, policy, n) ==
  IF policy = NoPolicy THEN [addr |-> addr, qps |-> 0, policy |-> NoPolicy]
  ELSE [addr |-> addr, qps |-> policy.qps, policy |-> policy]

(* What the policy gives a server: a share of the rate, and the rest of it. *)
Server(addr, policy, n) ==
  IF policy = NoPolicy THEN [addr |-> addr, qps |-> 0, policy |-> NoPolicy]
  ELSE [addr |-> addr, qps |-> policy.qps \div n, policy |-> policy]

parseRouting(api, routings, strategy) ==
  [n \in 1..Len(routings) |->
     [name |-> RoutingName(api.name, strategy, n), api |-> api.name,
      cluster |-> routings[n].cluster, rate |-> routings[n].rate]]

(* What the rule, and then its first route, may give the node of an API: one *)
(* node, unless the list of validations depends on the order of maps.        *)
DispatchNode(api) ==
  LET route == Head(api.rule.route)
  IN  {[rule |-> api.conf, route |-> route.conf, validations |-> v] : v \in ToManbaValidations(route.match)}

(* The node for service s gets what the first route of the rule says. *)
fillAPI(api, s) ==
  LET routed == [api EXCEPT !.routings = @ \o parseRouting(api, api.rule.mirror, "mirror")
                                           \o parseRouting(api, api.rule.split, "split")]
  IN  IF api.rule.route = <<>> \/ s \in DOMAIN api.proxies THEN {routed}
      ELSE {[routed EXCEPT !.proxies = [r \in DOMAIN @ \cup {s} |-> IF r = s THEN node ELSE @[r]]] :
              node \in DispatchNode(api)}

(* What filling these APIs in turn may make of the heap. *)
fillAPIs(h0, ptrs, s) ==
  LET fill(heaps, p) == UNION {{[h EXCEPT ![p] = api] : api \in fillAPI(h[p], s)} : h \in heaps}
  IN  FoldLeft(fill, {h0}, ptrs)

(* The loop over the map: any service that is left. *)
Fill(s) ==
  /\ pc = "fill" /\ s \in left /\ left' = left \ {s}
  /\ \E list \in SetToSeqs(ListServices(services[s].subset.labels)) :
       LET found == getServiceEndpoints(list, s.port)
       IN  services' = [services EXCEPT ![s].servers =
             [n \in 1..Len(found) |-> Server(found[n], services[s].subset.policy, Len(found))]]
  /\ heap' \in fillAPIs(heap, services[s].apis, s)
  /\ UNCHANGED <<pc, store, ings, at, apis, keysMap, state, builds, prev>>

Filled ==
  /\ pc = "fill" /\ left = {}
  /\ pc' = "collect" /\ left' = DOMAIN services
  /\ UNCHANGED <<store, ings, at, apis, heap, services, keysMap, state, builds, prev>>

-----------------------------------------------------------------------------
(***************************************************************************)
(* The end of Build, and toStable.                                         *)
(***************************************************************************)
\* Mutant: what is kept is not remembered.
checkForgets(acc, kind, name, x) ==
  IF <<kind, name>> \in acc.keys THEN acc ELSE [acc EXCEPT !.state[kind] = Append(@, x)]

(* What has a name that is not taken is kept.  Names of two kinds are never  *)
(* the same.                                                                 *)
check(acc, kind, name, x) ==
  IF <<kind, name>> \in acc.keys THEN acc
  ELSE [acc EXCEPT !.keys = @ \cup {<<kind, name>>}, !.state[kind] = Append(@, x)]

(* An API as it is sent: its nodes, but not the rule they come from. *)
Sent(api) == [name |-> api.name, host |-> api.host, conf |-> api.conf, proxies |-> api.proxies]

Cluster(s) ==
  LET svc == services[s]
  IN  [name |-> s,
       lb |-> IF svc.servers # <<>> /\ svc.subset.policy # NoPolicy THEN svc.subset.policy.lb ELSE "default",
       servers |-> [n \in 1..Len(svc.servers) |-> svc.servers[n].addr]]

checkRoutings(acc0, list) ==
  LET routing(acc, r) == check(acc, "routing", r.name, r) IN FoldLeft(routing, acc0, list)

checkAPIs(acc0, ptrs) ==
  LET api(acc, p) == checkRoutings(check(acc, "api", heap[p].name, Sent(heap[p])), heap[p].routings)
  IN  FoldLeft(api, acc0, ptrs)

checkServers(acc0, list) ==
  LET server(acc, x) == check(acc, "server", x.addr, x) IN FoldLeft(server, acc0, list)

\* Mutant: a cluster without servers is not collected.
CollectIfServed(s) ==
  /\ pc = "collect" /\ s \in left /\ left' = left \ {s}
  /\ LET withAPIs == checkAPIs([keys |-> keysMap, state |-> state], services[s].apis)
         withCluster == IF services[s].servers = <<>> THEN withAPIs ELSE check(withAPIs, "cluster", s, Cluster(s))
         all == checkServers(withCluster, services[s].servers)
     IN  keysMap' = all.keys /\ state' = all.state
  /\ UNCHANGED <<pc, store, ings, at, apis, heap, services, builds, prev>>

Collect(s) ==
  /\ pc = "collect" /\ s \in left /\ left' = left \ {s}
  /\ LET withAPIs == checkAPIs([keys |-> keysMap, state |-> state], services[s].apis)
         withCluster == check(withAPIs, "cluster", s, Cluster(s))
         all == checkServers(withCluster, services[s].servers)
     IN  keysMap' = all.keys /\ state' = all.state
  /\ UNCHANGED <<pc, store, ings, at, apis, heap, services, builds, prev>>

Collected ==
  /\ pc = "collect" /\ left = {}
  /\ pc' = "done"
  /\ UNCHANGED <<store, ings, at, apis, heap, services, left, keysMap, state, builds, prev>>

Place(order, x) == SelectInSeq(order, LAMBDA y : y = x)

BindLess(b, c) ==
  /\ Place(ClusterOrder, b.cluster) < Place(ClusterOrder, c.cluster)
  /\ Place(AddrOrder, b.server) < Place(AddrOrder, c.server)

(* sort.SliceStable on up to twenty elements: they are inserted one by one,  *)
(* each moving to the left as long as it is less than its neighbour.  Of     *)
(* more, blocks of twenty are merged into some other order; no property      *)
(* looks at the order of the binds.                                          *)
SortBinds(binds) ==
  LET insert(sorted, b) ==
        LET stays == {n \in 1..Len(sorted) : ~BindLess(b, sorted[n])}
            after == IF stays = {} THEN 0 ELSE CHOOSE n \in stays : \A m \in stays : m <= n
        IN  SubSeq(sorted, 1, after) \o <<b>> \o SubSeq(sorted, after + 1, Len(sorted))
  IN  FoldLeft(insert, <<>>, binds)

(* The lists that have been sorted by a name that is unique are given as    *)
(* sets; that of the binds is what the sort makes of it.                    *)
toStable ==
  [api |-> ToSet(state.api), routing |-> ToSet(state.routing),
   cluster |-> {[name |-> c.name, lb |-> c.lb] : c \in ToSet(state.cluster)},
   server |-> ToSet(state.server),
   bind |-> SortBinds(FlattenSeq([n \in 1..Len(state.cluster) |->
              [m \in 1..Len(state.cluster[n].servers) |->
                 [cluster |-> state.cluster[n].name, server |-> state.cluster[n].servers[m]]]]))]

(* The next Build, of a store that has not changed. *)
Again ==
  /\ pc = "done" /\ builds < MaxBuilds /\ builds' = builds + 1
  /\ prev' = toStable
  /\ pc' = "list" /\ ings' = <<>> /\ at' = <<1, 1>> /\ apis' = <<>> /\ heap' = Nothing
  /\ services' = Nothing /\ left' = {} /\ keysMap' = {} /\ state' = NoState
  /\ UNCHANGED store

Done == pc = "done" /\ builds = MaxBuilds /\ UNCHANGED vars

Next ==
  \/ List \/ ParseRule \/ NextIngress \/ Parsed
  \/ \E s \in left : Fill(s) \/ Collect(s)
  \/ Filled \/ Collected \/ Again \/ Done

Spec == Init /\ [][Next]_vars

-----------------------------------------------------------------------------
(***************************************************************************)
(* The shape of the state.  Every pointer of a service leads somewhere.    *)
(***************************************************************************)
TypeOK ==
  /\ pc \in {"list", "parse", "fill", "collect", "done"}
  /\ ToSet(ings) \subseteq store.ingresses
  /\ builds \in 1..MaxBuilds
  /\ ToSet(apis) \subseteq DOMAIN heap
  /\ \A s \in DOMAIN services : ToSet(services[s].apis) \subseteq DOMAIN heap
  /\ left \subseteq DOMAIN services
  /\ \A p \in DOMAIN heap : DOMAIN heap[p].proxies \subseteq DOMAIN services
  /\ \A kind \in {"api", "routing", "cluster", "server"} :
       \A m, n \in 1..Len(state[kind]) : m # n =>
         IF kind = "server" THEN state[kind][m].addr # state[kind][n].addr
         ELSE state[kind][m].name # state[kind][n].name

(* The references of a rule that lead to a cluster. *)
Found(rule) == {ref \in {r.cluster : r \in ToSet(rule.route)} : Resolve(ref) # {}}

(* The configuration sends the API under pointer p to ref, and has a cluster *)
(* for it with every server that it is bound to.                             *)
Serves(p, ref) ==
  /\ \E a \in ToSet(state.api) : a.name = heap[p].name /\ ref \in DOMAIN a.proxies
  /\ \E c \in ToSet(state.cluster) :
       /\ c.name = ref
       /\ ToSet(c.servers) \subseteq {x.addr : x \in ToSet(state.server)}

(* Two APIs with one name. *)
SameNames == \E p, q \in DOMAIN heap : p # q /\ heap[p].name = heap[q].name

(* What the routes of an API's rule lead to, and those of the rules after it *)
(* in the ingress: the list of APIs is not begun anew for a rule.            *)
Reached(p) ==
  IF heap[p].rule.route = <<>> THEN {}
  ELSE UNION {Found(ings[p[1]].http[j]) : j \in p[2]..Len(ings[p[1]].http)}

(***************************************************************************)
(* However Build goes through its maps, and however many services share an *)
(* API, a cluster or a server: an API is sent to the clusters that its own *)
(* rule and the later rules of its ingress lead to, each with all its      *)
(* servers, and to no other; never to one of an earlier rule, or of        *)
(* another ingress.                                                        *)
(***************************************************************************)
RoutesReached ==
  (pc = "done" /\ ~SameNames) =>
    \A p \in DOMAIN heap :
      /\ \A ref \in Reached(p) : Serves(p, ref)
      /\ \A a \in ToSet(state.api) : a.name = heap[p].name => DOMAIN a.proxies = Reached(p)

(***************************************************************************)
(* What the admission webhook lets through, given the clusters that Build  *)
(* sees, is served in full: no route of it is passed over.                 *)
(***************************************************************************)
AdmittedIsServed ==
  (pc = "done" /\ ~SameNames) =>
    \A n \in 1..Len(ings) :
      Handle(store.clusters, [resource |-> "manbaingresses", decodes |-> TRUE, object |-> ings[n]]) = "Allowed"
        => \A p \in DOMAIN heap : p[1] = n =>
             \A route \in ToSet(heap[p].rule.route) : Serves(p, route.cluster)

DistinctTimes == \A a, b \in store.ingresses : a # b => a.ts # b.ts

(* Two clusters have a server in common and want it configured differently. *)
Disputed ==
  \E s, t \in DOMAIN services : \E x \in ToSet(services[s].servers), y \in ToSet(services[t].servers) :
    x.addr = y.addr /\ x # y

(* No route's match has more parameters than sort.Slice inserts one by one. *)
ShortMatches ==
  \A ing \in store.ingresses : \A rule \in ToSet(ing.http) : \A route \in ToSet(rule.route) :
    Cardinality(route.match) <= 6

(***************************************************************************)
(* Two Builds of one store make the same configuration, though not the     *)
(* same list of binds, whose order in toStable is none: unless two         *)
(* ingresses are as old as each other, a match has more than six           *)
(* parameters, a server is disputed, or a service was refused half-way     *)
(* through a list.  In particular, up to six parameters come out in one    *)
(* order, although Less is no order to sort by.                            *)
(***************************************************************************)
SameStoreSameConfig ==
  (pc = "done" /\ prev # NoConfig /\ DistinctTimes /\ ShortMatches /\ ~Disputed
     /\ \A s \in DOMAIN services : \A svc \in store.services : ~Refuses(svc, s.port))
    => [toStable EXCEPT !.bind = ToSet(@)] = [prev EXCEPT !.bind = ToSet(@)]

(* The service has an endpoint with this host. *)
HasHost(svc, host) ==
  IF svc.external THEN host = svc.host
  ELSE /\ svc.name \in DOMAIN store.endpoints
       /\ \E ss \in ToSet(store.endpoints[svc.name]) : host \in ToSet(ss.addrs)

(***************************************************************************)
(* A cluster has a server twice, which makes OnUpdate fail from then on,   *)
(* only if two Services of its subset have an endpoint in common.          *)
(***************************************************************************)
RepeatedBlamesServices ==
  pc = "done" => \A c \in ToSet(state.cluster) : \A m, n \in 1..Len(c.servers) :
    (m # n /\ c.servers[m] = c.servers[n]) =>
      \E x, y \in ListServices(services[c.name].subset.labels) :
        x # y /\ HasHost(x, c.servers[m][1]) /\ HasHost(y, c.servers[m][1])

(***************************************************************************)
(* A routing goes with an API of the configuration, and to a cluster of    *)
(* it, unless no route leads to the cluster that the mirror or split uses: *)
(* parseRouting makes no service for it.                                   *)
(***************************************************************************)
Routed(ref) ==
  \E ing \in store.ingresses : \E rule \in ToSet(ing.http) : ref \in Found(rule)

RoutingsAnchored ==
  pc = "done" => \A r \in ToSet(state.routing) :
    /\ \E a \in ToSet(state.api) : a.name = r.api
    /\ Routed(r.cluster) => \E c \in ToSet(state.cluster) : c.name = r.cluster

(***************************************************************************)
(* The rate of a cluster is divided among the servers it has, as           *)
(* ManbaClusterSubSet's comment says, unless another cluster has a server  *)
(* in common with it and wants it configured differently.                  *)
(***************************************************************************)
QPSDivided ==
  (pc = "done" /\ ~Disputed) => \A c \in ToSet(state.cluster), x \in ToSet(state.server) :
    LET policy == services[c.name].subset.policy
    IN  (policy # NoPolicy /\ x.addr \in ToSet(c.servers)) => x.qps = policy.qps \div Len(c.servers)

(***************************************************************************)
(* Two APIs have one name, so that one of them is left out, only where a   *)
(* position in the ingress has two digits.                                 *)
(***************************************************************************)
NameClashNeedsTwoDigits ==
  \A p, q \in DOMAIN heap :
    p # q /\ heap[p].name = heap[q].name => \E n \in 1..4 : p[n] > 10 \/ q[n] > 10

(***************************************************************************)
(* A node checks every parameter of its rule's first route once, and under *)
(* the parameter's own source.                                             *)
(***************************************************************************)
EveryParameterOnce ==
  \A p \in DOMAIN heap : \A ref \in DOMAIN heap[p].proxies :
    LET list  == heap[p].proxies[ref].validations
        match == Head(heap[p].rule.route).match
    IN  ToSet(list) = match /\ Len(list) = Cardinality(match)
=============================================================================
