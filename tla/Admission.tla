----------------------------- MODULE Admission ------------------------------
(***************************************************************************)
(* The admission webhook: what it answers to a request, given the          *)
(* ManbaClusters of the informer's cache.  It keeps no state.              *)
(*                                                                         *)
(* A cluster reference names a ManbaCluster, one of its subsets and a      *)
(* port.  Of the expressions of a route's match it is given whether they   *)
(* are malformed.                                                          *)
(***************************************************************************)
EXTENDS Naturals, SequencesExt

isManbaHTTPRouteMatchValid(route) == \A p \in route.match : p.expr # "malformed"

\* Mutant: any subset will do.
isClusterExistAnySubset(clusters, ref) == ref.name \in DOMAIN clusters

isClusterExist(clusters, ref) ==
  /\ ref.name \in DOMAIN clusters
  /\ \E s \in ToSet(clusters[ref.name].subsets) : s.name = ref.subset

(* Every cluster that an ingress refers to must be there. *)
ValidateManbaIngress(clusters, ing) ==
  \A rule \in ToSet(ing.http) :
    /\ \A route \in ToSet(rule.route) :
         /\ isManbaHTTPRouteMatchValid(route)
         /\ isClusterExist(clusters, route.cluster)
    /\ \A r \in ToSet(rule.mirror) \cup ToSet(rule.split) : isClusterExist(clusters, r.cluster)

(* The answer to a request; only ManbaIngresses are looked at. *)
Handle(clusters, req) ==
  IF req.resource # "manbaingresses" THEN "Allowed"
  ELSE IF ~req.decodes THEN "Errored"
  ELSE IF ValidateManbaIngress(clusters, req.object) THEN "Allowed" ELSE "Denied"
=============================================================================
