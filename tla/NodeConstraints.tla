--------------------------- MODULE NodeConstraints ---------------------------
(***************************************************************************)
(* How the allocator evaluates a pod's nodeSelector and required node      *)
(* affinity (internal/webhook/allocator.go, "Node-level constraint         *)
(* helpers"), and how the scheduler evaluates them.                        *)
(*                                                                         *)
(* Labels are a function on the label keys a node has; the label values    *)
(* are naturals, because Gt and Lt compare them as such.  The terms of a   *)
(* pod are a set, empty if it has no required affinity; a term has         *)
(* expressions on labels and fields on the node's name.                    *)
(***************************************************************************)
EXTENDS Naturals

matchesNodeSelector(selector, labels) ==
  \A key \in DOMAIN selector :
    key \in DOMAIN labels /\ labels[key] = selector[key]

\* Faulty: the switch forgets Exists, which then matches every node.
requirementForgetsExists(req, labels) ==
  CASE req.op = "In" -> req.key \in DOMAIN labels /\ labels[req.key] \in req.values
    [] req.op = "NotIn" -> req.key \in DOMAIN labels => labels[req.key] \notin req.values
    [] req.op = "DoesNotExist" -> req.key \notin DOMAIN labels
    [] OTHER -> TRUE

\* Operators the switch does not name match every node.
matchesNodeSelectorRequirement(req, labels) ==
  CASE req.op = "In" -> req.key \in DOMAIN labels /\ labels[req.key] \in req.values
    [] req.op = "NotIn" -> req.key \in DOMAIN labels => labels[req.key] \notin req.values
    [] req.op = "Exists" -> req.key \in DOMAIN labels
    [] req.op = "DoesNotExist" -> req.key \notin DOMAIN labels
    [] OTHER -> TRUE

\* So do fields other than the node's name.
matchesFieldRequirement(req, name) ==
  req.key = "metadata.name" =>
    /\ req.op = "In" => name \in req.values
    /\ req.op = "NotIn" => name \notin req.values

matchesNodeSelectorTerm(term, name, labels) ==
  /\ \A req \in term.expressions : matchesNodeSelectorRequirement(req, labels)
  /\ \A req \in term.fields : matchesFieldRequirement(req, name)

matchesNodeAffinity(terms, name, labels) ==
  terms = {} \/ \E term \in terms : matchesNodeSelectorTerm(term, name, labels)

\* The nodes among which the allocator looks for devices.
Matches(constraints, name, labels) ==
  /\ matchesNodeSelector(constraints.selector, labels)
  /\ matchesNodeAffinity(constraints.terms, name, labels)
-----------------------------------------------------------------------------
(***************************************************************************)
(* The scheduler: the four operators above in the same way, Gt and Lt by   *)
(* comparing numbers, and a term that says nothing matches no node.        *)
(***************************************************************************)
RequirementHolds(req, labels) ==
  \/ req.op = "In" /\ \E v \in req.values : req.key \in DOMAIN labels /\ v = labels[req.key]
  \/ req.op = "NotIn" /\ \A v \in req.values : req.key \in DOMAIN labels => v # labels[req.key]
  \/ req.op = "Exists" /\ req.key \in DOMAIN labels
  \/ req.op = "DoesNotExist" /\ req.key \notin DOMAIN labels
  \/ req.op = "Gt" /\ req.key \in DOMAIN labels /\ \A v \in req.values : labels[req.key] > v
  \/ req.op = "Lt" /\ req.key \in DOMAIN labels /\ \A v \in req.values : labels[req.key] < v

FieldHolds(req, name) ==
  /\ req.key = "metadata.name"
  /\ \/ req.op = "In" /\ name \in req.values
     \/ req.op = "NotIn" /\ name \notin req.values

TermHolds(term, name, labels) ==
  /\ term.expressions \union term.fields # {}
  /\ \A req \in term.expressions : RequirementHolds(req, labels)
  /\ \A req \in term.fields : FieldHolds(req, name)

SchedulerAccepts(constraints, name, labels) ==
  /\ \A key \in DOMAIN constraints.selector :
       key \in DOMAIN labels /\ labels[key] = constraints.selector[key]
  /\ constraints.terms = {} \/ \E term \in constraints.terms : TermHolds(term, name, labels)

\* The constraints on which the two agree; the API server accepts no other fields.
CommonTerm(term) ==
  /\ term.expressions \union term.fields # {}
  /\ \A req \in term.expressions : req.op \in {"In", "NotIn", "Exists", "DoesNotExist"}
  /\ \A req \in term.fields : req.key = "metadata.name" /\ req.op \in {"In", "NotIn"}
=============================================================================
