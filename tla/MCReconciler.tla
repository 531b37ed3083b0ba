---------------------------- MODULE MCReconciler ----------------------------
(***************************************************************************)
(* The pod pa uses the template t1 in namespace a, pb uses t2 in b.  The   *)
(* claim c1 belongs to pa; c2 was not made from a template.                *)
(***************************************************************************)
EXTENDS Reconciler

CONSTANTS t1, t2, pa, pb, c1, c2, a, b

MCHome == [x \in Template \union Pod |-> IF x \in {t2, pb} THEN b ELSE a]
MCUses == [p \in Pod |-> {IF p = pa THEN t1 ELSE t2} \intersect Template]
MCOwner == [c \in Claim |-> IF c = c1 THEN pa ELSE NoPod]
AllButPods == FaultKinds \ {"pods"}
Harmless == {"annotate", "save"}
=============================================================================
