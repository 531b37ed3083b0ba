------------------------ MODULE NodeConstraintsProofs ------------------------
(***************************************************************************)
(* The allocator and the scheduler agree about every pod and every node,   *)
(* as long as every term of the pod is a CommonTerm.                       *)
(***************************************************************************)
EXTENDS NodeConstraints, TLAPS

LEMMA RequirementsAgree ==
  ASSUME NEW req, NEW labels, req.op \in {"In", "NotIn", "Exists", "DoesNotExist"}
  PROVE  matchesNodeSelectorRequirement(req, labels) <=> RequirementHolds(req, labels)
<1>1. CASE req.op = "In"
  BY <1>1 DEF matchesNodeSelectorRequirement, RequirementHolds
<1>2. CASE req.op = "NotIn"
  BY <1>2 DEF matchesNodeSelectorRequirement, RequirementHolds
<1>3. CASE req.op = "Exists"
  BY <1>3 DEF matchesNodeSelectorRequirement, RequirementHolds
<1>4. CASE req.op = "DoesNotExist"
  BY <1>4 DEF matchesNodeSelectorRequirement, RequirementHolds
<1> QED BY <1>1, <1>2, <1>3, <1>4

LEMMA FieldsAgree ==
  ASSUME NEW req, NEW name, req.key = "metadata.name", req.op \in {"In", "NotIn"}
  PROVE  matchesFieldRequirement(req, name) <=> FieldHolds(req, name)
BY DEF matchesFieldRequirement, FieldHolds

LEMMA TermsAgree ==
  ASSUME NEW term, NEW name, NEW labels, CommonTerm(term)
  PROVE  matchesNodeSelectorTerm(term, name, labels) <=> TermHolds(term, name, labels)
<1>1. \A req \in term.expressions :
        matchesNodeSelectorRequirement(req, labels) <=> RequirementHolds(req, labels)
  BY RequirementsAgree DEF CommonTerm
<1>2. \A req \in term.fields :
        matchesFieldRequirement(req, name) <=> FieldHolds(req, name)
  BY FieldsAgree DEF CommonTerm
<1> QED BY <1>1, <1>2 DEF CommonTerm, matchesNodeSelectorTerm, TermHolds

(***************************************************************************)
(* A node passes matchesNodeSelector and matchesNodeAffinity exactly if    *)
(* the scheduler would accept it for the pod.                              *)
(***************************************************************************)
THEOREM MatchesAgree ==
  ASSUME NEW constraints, NEW name, NEW labels,
         \A term \in constraints.terms : CommonTerm(term)
  PROVE  Matches(constraints, name, labels) <=> SchedulerAccepts(constraints, name, labels)
<1>1. \A term \in constraints.terms :
        matchesNodeSelectorTerm(term, name, labels) <=> TermHolds(term, name, labels)
  BY TermsAgree
<1> QED BY <1>1 DEF Matches, matchesNodeSelector, matchesNodeAffinity, SchedulerAccepts
=============================================================================
