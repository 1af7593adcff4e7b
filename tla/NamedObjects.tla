---------------------------- MODULE NamedObjects ----------------------------
(***************************************************************************)
(* What the diff takes the in-memory state for: a set of objects, no two   *)
(* of one kind with the same id or the same name, in which every change    *)
(* that Manba has made can be repeated, and touches nothing but the object *)
(* it is about.  Once Manba has listed two objects of one kind and name    *)
(* nothing is promised.                                                    *)
(***************************************************************************)
CONSTANTS NoName

VARIABLES
  objs,   \* pairs of a kind and an object
  call,   \* the last change: kind, operation, object, and what it returned
  twins   \* a name was repeated

vars == <<objs, call, twins>>

Init == objs = {} /\ call.err = "nil" /\ twins = FALSE

(* o can be told from every other object of the kind. *)
Distinct(k, o) ==
  /\ <<k, o>> \notin objs
  /\ k # "bind" => \A p \in objs : p[1] = k =>
       p[2].id # o.id /\ (o.name # NoName => p[2].name # o.name)

Create(k, o) ==
  /\ Distinct(k, o)
  /\ objs' = objs \cup {<<k, o>>}

Update(k, o) ==
  \E p \in objs :
    /\ p[1] = k /\ p[2].id = o.id
    /\ objs' = (objs \ {p}) \cup {<<k, o>>}

Delete(k, o) ==
  /\ <<k, o>> \in objs
  /\ objs' = objs \ {<<k, o>>}

Change(k, op, o) ==
  \/ op = "Create" /\ Create(k, o)
  \/ op = "Update" /\ Update(k, o)
  \/ op = "Delete" /\ Delete(k, o)

Next ==
  \/ twins'
  \/ ~twins' /\ call'.err = "nil" /\ Change(call'.kind, call'.op, call'.obj)

Spec == Init /\ [][Next]_vars
=============================================================================
