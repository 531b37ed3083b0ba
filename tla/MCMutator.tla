------------------------------ MODULE MCMutator ------------------------------
(***************************************************************************)
(* Pods with three containers, of which the last is free for another       *)
(* webhook's use, in all combinations of what two of them ask for, limits  *)
(* with and without the resource, node affinity, and claims of their own   *)
(* (none with the name of a pair's claim).                                 *)
(***************************************************************************)
EXTENDS Mutator

CONSTANTS gpu, fpga, n1, n2

Nothing == [x \in {} |-> 0]
Asks(c, r, k) == [x \in {<<c, r>>} |-> k]
And(f, g) == [x \in DOMAIN f \union DOMAIN g |-> IF x \in DOMAIN f THEN f[x] ELSE g[x]]

RequestsOf ==
  {Nothing,
   And(Asks(1, gpu, 1), Asks(2, gpu, 2)),
   And(And(Asks(1, gpu, 2), Asks(1, fpga, 1)), Asks(2, gpu, 1)),
   And(Asks(1, gpu, 0), Asks(2, fpga, 1)),
   And(Asks(1, Pair, 2), Asks(2, Pair, 1)),
   And(Asks(1, Pair, 1), Asks(2, Pair, 0)),
   And(Asks(1, Pair, 1), Asks(2, gpu, 1))}

T(exprs, fields) == [exprs |-> exprs, fields |-> fields, hasFields |-> TRUE]
Bare(exprs) == [exprs |-> exprs, fields |-> Node, hasFields |-> FALSE]
WithFields == {<<>>, <<T(Node, {n1})>>, <<T({n1}, Node), T({n2}, {n2})>>}
Without == {<<Bare({n1})>>, <<T({n1}, {n1}), Bare({n2})>>}

ClaimsOf == {<<>>, << <<gpu, 1, 0>> >>, << <<gpu, 1, 1>>, <<gpu, 1, 0>> >>}

PodsWith(terms) ==
  {[labeled |-> l, requests |-> rq, limits |-> IF b THEN DOMAIN rq ELSE {},
    terms |-> t, claims |-> cl,
    refs |-> [c \in Container |-> IF c = 1 THEN cl ELSE <<>>], mutated |-> m] :
     l \in BOOLEAN, rq \in RequestsOf, b \in BOOLEAN, t \in terms,
     cl \in ClaimsOf, m \in BOOLEAN}

MCShapes == PodsWith(WithFields \union Without)
Plain == {p \in PodsWith(Without) : p.claims = <<>> /\ ~p.mutated}
=============================================================================
