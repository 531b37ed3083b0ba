------------------------------- MODULE Mutator -------------------------------
(***************************************************************************)
(* The patches of the mutator (internal/webhook/mutator.go) on a pod that  *)
(* passes both endpoints of the webhook, and on what other webhooks add to *)
(* it between two calls (deploy/base/webhook-config.yaml: /mutate in       *)
(* labeled namespaces, then /mutate-ext; both are called again if the pod  *)
(* has changed since).  Where devices come from is the subject of          *)
(* Allocator: here it names any node the pod may run on, or denies.        *)
(* A round of the mutator's loop over the resources is a step, on a draft  *)
(* of the patched pod; the API server waits for the answer meanwhile.      *)
(*                                                                         *)
(* A claim is named by what it is for, its number, and how often "-x" was  *)
(* appended: <<"nvidia.com/gpu", 2, 1>> is "ext-nvidia-com-gpu-1-x".  A    *)
(* reference to a claim stands for one to each of its requests.  Nil and   *)
(* empty lists are the same, as they are in the pod the API server sends.  *)
(***************************************************************************)
EXTENDS Naturals, Sequences, FiniteSetsExt, SequencesExt, Functions

CONSTANTS
  Containers,      \* the number of containers of a pod
  Resource,        \* the intercepted extended resources
  Pair,            \* the resource name of gpu-nic-pairs
  Node,
  Shapes,          \* the pods that are created
  NotPatched

Container == 1 .. Containers
Endpoints == {"mutate", "mutate-ext"}

Term == [exprs : SUBSET Node, fields : SUBSET Node, hasFields : BOOLEAN]
Name == (Resource \union {Pair}) \X Nat \X Nat

\* Whether its namespace has the webhook-enabled label, requests and limits of the
\* containers, required node affinity terms (none: the pod has no required node
\* affinity), claims, the containers' references, and the mutated annotation.
PodSpec(p) ==
  /\ p = [labeled |-> p.labeled, requests |-> p.requests, limits |-> p.limits,
          terms |-> p.terms, claims |-> p.claims, refs |-> p.refs, mutated |-> p.mutated]
  /\ p.labeled \in BOOLEAN
  /\ p.requests \in [DOMAIN p.requests -> Nat]
  /\ DOMAIN p.requests \subseteq Container \X (Resource \union {Pair})
  /\ p.limits \subseteq DOMAIN p.requests
  /\ p.terms \in Seq(Term)
  /\ p.claims \in Seq(Name)
  /\ p.refs \in [Container -> Seq(Name)]
  /\ p.mutated \in BOOLEAN

ASSUME MutatorAssumption ==
  /\ Containers \in Nat
  /\ IsFiniteSet(Resource) /\ Pair \notin Resource
  /\ \A p \in Shapes : PodSpec(p)

VARIABLES
  pod,       \* the pod under admission
  calls,     \* how often each endpoint has been called for it
  stale,     \* endpoints called before the pod changed
  phase,     \* "admission", "patching", "stored", "denied", or "failed": a patch
             \* does not apply
  draft,     \* the call that is patching: its endpoint, node and resources to do,
             \* the pod as its patch leaves it, firstPodClaim, containerClaimRefAdded
  patched,   \* history: who patched the pod, for which node, and what it was
  late       \* history: requests added after that

vars == <<pod, calls, stale, phase, draft, patched, late>>

\* The endpoints that are called.
Active == IF pod.labeled THEN Endpoints ELSE {"mutate-ext"}

Init ==
  /\ pod \in Shapes
  /\ calls = [e \in Endpoints |-> 0]
  /\ stale = {}
  /\ phase = "admission"
  /\ draft = NotPatched
  /\ patched = NotPatched
  /\ late = {}

-----------------------------------------------------------------------------
(***************************************************************************)
(* What a pod asks for.                                                    *)
(***************************************************************************)
Count(p, c, r) == IF <<c, r>> \in DOMAIN p.requests THEN p.requests[<<c, r>>] ELSE 0

\* The sum of f over S: each x in S has f[x] units.
SumOver(f, S) == Cardinality(UNION {{x} \X (1 .. f[x]) : x \in S})

Total(p, r, C) == SumOver([c \in Container |-> Count(p, c, r)], C)

extractGPUNICPairCount(p) == Total(p, Pair, Container)

extractInterceptedResources(p) == {r \in Resource : \E c \in Container : Count(p, c, r) > 0}

\* Faulty variant of countInterceptedGPUs: only the first container is looked at.
countFirstContainer(p) == SumOver([r \in Resource |-> Total(p, r, {1})], Resource)

countInterceptedGPUs(p) == SumOver([r \in Resource |-> Total(p, r, Container)], Resource)

\* The priority the handler of the endpoint enqueues with; 0 calls the mutator.
Priority(e, p) ==
  IF e = "mutate" /\ extractGPUNICPairCount(p) > 0
  THEN extractGPUNICPairCount(p) ELSE countInterceptedGPUs(p)

\* What the endpoint converts.
Converts(e, p) ==
  extractInterceptedResources(p)
    \union {r \in {Pair} : e = "mutate" /\ extractGPUNICPairCount(p) > 0}

\* The containers whose request for r is replaced: with pairs, those that name
\* the resource at all.
Askers(p, r) ==
  {c \in Container : <<c, r>> \in DOMAIN p.requests /\ (r # Pair => Count(p, c, r) > 0)}

\* The nodes a pod may run on: those one of its terms allows, by the expressions
\* and by the fields, which are all nodes if the term has none.
TermNodes(t) == t.exprs \intersect t.fields

matchesNodeAffinity(p) ==
  IF p.terms = <<>> THEN Node ELSE UNION {TermNodes(t) : t \in Range(p.terms)}

-----------------------------------------------------------------------------
(***************************************************************************)
(* The patch.  The builders look at p, the pod the webhook was sent; d is  *)
(* what the operations so far have made of it.                             *)
(***************************************************************************)

\* Names of extended-resource claims avoid those of the pod's own claims.
claimNames(p, r) ==
  [i \in 1 .. Total(p, r, Container) |->
     <<r, i, IF r = Pair THEN 0
             ELSE Min({x \in 0 .. Len(p.claims) : <<r, i, x>> \notin Range(p.claims)})>>]

\* Faulty variant of claimRefs: claimOffset is not advanced.
claimRefsFromStart(p, c, r) ==
  IF r = Pair THEN claimNames(p, r) ELSE SubSeq(claimNames(p, r), 1, Count(p, c, r))

\* Each container refers to the extended devices it asked for; pairs are shared.
claimRefs(p, c, r) ==
  LET offset == Total(p, r, 1 .. c - 1)
  IN  IF r = Pair THEN claimNames(p, r)
      ELSE SubSeq(claimNames(p, r), offset + 1, offset + Count(p, c, r))

\* Faulty variant of buildResourceRemovalPatches: the limits stay.
removeRequestsOnly(d, C, r) ==
  [d EXCEPT !.requests = Restrict(@, DOMAIN @ \ (C \X {r}))]

buildResourceRemovalPatches(d, C, r) ==
  [d EXCEPT !.requests = Restrict(@, DOMAIN @ \ (C \X {r})),
            !.limits = @ \ (C \X {r})]

buildPodClaimPatches(p, d, names, first) ==
  [d EXCEPT !.claims = IF p.claims = <<>> /\ first THEN names ELSE @ \o names]

\* Faulty variant of buildContainerClaimRefPatches: the list is always made anew.
makeClaimRefs(p, d, c, refs, first) == refs

buildContainerClaimRefPatches(p, d, c, refs, first) ==
  IF p.refs[c] = <<>> /\ first THEN refs ELSE d.refs[c] \o refs

PinTerm(n) == [exprs |-> Node, fields |-> {n}, hasFields |-> TRUE]

\* Faulty variant of buildNodeAffinityPatch: the node becomes one more term.
addNodeTerm(p, n) == Append(p.terms, PinTerm(n))

\* The node is added to the fields of every term, or makes the only one.
buildNodeAffinityPatch(p, n) ==
  IF p.terms = <<>> THEN <<PinTerm(n)>>
  ELSE [i \in DOMAIN p.terms |-> [p.terms[i] EXCEPT !.fields = @ \intersect {n}]]

\* An operation that appends to matchFields needs the list to be there.
Applies(p) == \A t \in Range(p.terms) : t.hasFields

\* Faulty variant of buildMutatedAnnotationPatch: no annotation.
noAnnotation(d) == d

buildMutatedAnnotationPatch(d) == [d EXCEPT !.mutated = TRUE]

-----------------------------------------------------------------------------
(***************************************************************************)
(* The calls the API server makes: the endpoints in order, then again      *)
(* those that have seen an older pod, once.                                *)
(***************************************************************************)
Due(e) ==
  /\ phase = "admission" /\ e \in Active
  /\ \/ calls[e] = 0 /\ (e = "mutate-ext" /\ pod.labeled => calls["mutate"] = 1)
     \/ calls[e] = 1 /\ e \in stale /\ \A f \in Active : calls[f] > 0

Called(e) ==
  /\ Due(e)
  /\ calls' = [calls EXCEPT ![e] = @ + 1]

\* The pod is mutated already, or asks for nothing.
Skip(e) ==
  /\ Called(e)
  /\ pod.mutated \/ Converts(e, pod) = {}
  /\ stale' = stale \ {e}
  /\ UNCHANGED <<pod, phase, draft, patched, late>>

\* Pairs and intercepted resources exclude each other; the allocator finds no
\* place, or a claim template cannot be made.
Deny(e) ==
  /\ Called(e)
  /\ ~pod.mutated /\ Converts(e, pod) # {}
  /\ phase' = "denied"
  /\ UNCHANGED <<pod, stale, draft, patched, late>>

\* Mutate or MutateExtOnly: the allocator names a node, ...
Mutate(e) ==
  /\ Called(e)
  /\ ~pod.mutated /\ Converts(e, pod) # {}
  /\ Pair \in Converts(e, pod) => Converts(e, pod) = {Pair}
  /\ \E n \in matchesNodeAffinity(pod) :
       draft' = [by |-> e, node |-> n, todo |-> Converts(e, pod), pod |-> pod,
                 firstPodClaim |-> TRUE, refAdded |-> {}]
  /\ phase' = "patching"
  /\ UNCHANGED <<pod, stale, patched, late>>

\* ... the resources are replaced in any order, that of a map (phases 1 and 2), ...
Replace(r) ==
  /\ phase = "patching" /\ r \in draft.todo
  /\ LET C == Askers(pod, r)
         removed == buildResourceRemovalPatches(draft.pod, C, r)
         claimed == buildPodClaimPatches(pod, removed, claimNames(pod, r), draft.firstPodClaim)
         refs(c) == buildContainerClaimRefPatches(pod, claimed, c, claimRefs(pod, c, r),
                                                  c \notin draft.refAdded)
     IN  draft' = [draft EXCEPT
           !.todo = @ \ {r},
           !.pod = [claimed EXCEPT !.refs =
                      [c \in Container |-> IF c \in C THEN refs(c) ELSE @[c]]],
           !.firstPodClaim = FALSE,
           !.refAdded = @ \union C]
  /\ UNCHANGED <<pod, calls, stale, phase, patched, late>>

\* ... and the patch is returned (phase 3); it may not apply to the pod.
Answer ==
  /\ phase = "patching" /\ draft.todo = {}
  /\ \/ /\ Applies(pod)
        /\ pod' = buildMutatedAnnotationPatch(
             [draft.pod EXCEPT !.terms = buildNodeAffinityPatch(pod, draft.node)])
        /\ patched' = [by |-> draft.by, node |-> draft.node, before |-> pod]
        /\ stale' = {f \in Active \ {draft.by} : calls[f] > 0}
        /\ phase' = "admission"
     \/ ~Applies(pod) /\ phase' = "failed" /\ UNCHANGED <<pod, stale, patched>>
  /\ draft' = NotPatched
  /\ UNCHANGED <<calls, late>>

\* No answer in time: failurePolicy is Fail for /mutate, Ignore for /mutate-ext.
Unanswered(e) ==
  /\ Called(e)
  /\ phase' = IF e = "mutate" THEN "denied" ELSE phase
  /\ stale' = stale \ {e}
  /\ UNCHANGED <<pod, draft, patched, late>>

\* Another webhook has a container ask for an extended resource.
Inject(c, r) ==
  /\ phase = "admission" /\ \E e \in Active : Due(e)
  /\ \A s \in Resource \union {Pair} : <<c, s>> \notin DOMAIN pod.requests
  /\ <<c, r>> \notin late
  /\ pod.refs[c] = <<>>
  /\ pod' = [pod EXCEPT
       !.requests = [x \in DOMAIN @ \union {<<c, r>>} |-> IF x = <<c, r>> THEN 1 ELSE @[x]],
       !.limits = @ \union {<<c, r>>}]
  /\ stale' = {f \in Active : calls[f] > 0}
  /\ late' = IF pod.mutated THEN late \union {<<c, r>>} ELSE late
  /\ UNCHANGED <<calls, phase, draft, patched>>

\* Nobody is left to call.
Store ==
  /\ phase = "admission" /\ \A e \in Active : ~Due(e)
  /\ phase' = "stored"
  /\ UNCHANGED <<pod, calls, stale, draft, patched, late>>

Next ==
  \/ \E e \in Endpoints : Skip(e) \/ Deny(e) \/ Mutate(e) \/ Unanswered(e)
  \/ \E r \in Resource \union {Pair} : Replace(r)
  \/ \E c \in Container, r \in Resource : Inject(c, r)
  \/ Answer \/ Store

Spec == Init /\ [][Next]_vars

-----------------------------------------------------------------------------

\* Types; and only a pod that asked for something is patched.
TypeOK ==
  /\ PodSpec(pod)
  /\ calls \in [Endpoints -> 0 .. 2]
  /\ stale \subseteq Active
  /\ phase \in {"admission", "patching", "stored", "denied", "failed"}
  /\ late \subseteq Container \X Resource
  /\ patched # NotPatched =>
       /\ patched.by \in Active /\ patched.node \in Node /\ PodSpec(patched.before)
       /\ pod.mutated /\ Converts(patched.by, patched.before) # {}

(***************************************************************************)
(* user-guide.md, "the resource is stripped": what an endpoint converts is *)
(* neither requested nor limited any more by a container that had asked    *)
(* for it, and all other requests are as they were                         *)
(* (buildResourceRemovalPatches, escapeJSONPointer).                       *)
(***************************************************************************)
Stripped ==
  patched # NotPatched =>
    LET before == patched.before
        gone == UNION {Askers(before, r) \X {r} : r \in Converts(patched.by, before)}
    IN  /\ gone \intersect (DOMAIN pod.requests \union pod.limits) = {}
        /\ (DOMAIN pod.requests) \ late = (DOMAIN before.requests) \ gone
        /\ pod.limits \ late = before.limits \ gone

(***************************************************************************)
(* user-guide.md, "each container gets only the claim references for the   *)
(* GPUs it requested": claim names differ, every new reference names a     *)
(* claim of the pod, a container refers to as many devices of a resource   *)
(* as it asked for, and no two containers to the same one (the loops over  *)
(* PerContainer of Mutate and MutateExtOnly).                              *)
(***************************************************************************)
PerContainerBinding ==
  patched # NotPatched =>
    LET before == patched.before
        added(c) == Range(pod.refs[c]) \ Range(before.refs[c])
    IN  /\ IsInjective(pod.claims)
        /\ \A c \in Container : added(c) \subseteq Range(pod.claims)
        /\ \A r \in Converts(patched.by, before) \ {Pair}, c \in Container :
             Cardinality({x \in added(c) : x[1] = r}) = Count(before, c, r)
        /\ \A c, d \in Container : c # d =>
             \A x \in added(c) \intersect added(d) : x[1] = Pair

\* The devices of each resource asked for, by all and for one container's use.
Asked(p) == [r \in Resource \union {Pair} |-> Total(p, r, Container)]
AskedBy(p, c) ==
  [r \in Resource \union {Pair} |->
     IF c \notin Askers(p, r) THEN 0 ELSE IF r = Pair THEN Asked(p)[r] ELSE Count(p, c, r)]

(***************************************************************************)
(* The patch keeps what the pod had: its own claims and its containers'    *)
(* own references come first, in their order, and as many claims follow as *)
(* devices were asked for (buildPodClaimPatches and                        *)
(* buildContainerClaimRefPatches, which create a list only where the pod   *)
(* has none and no earlier operation of the patch has made one).           *)
(***************************************************************************)
OwnClaimsKept ==
  patched # NotPatched =>
    LET before == patched.before
        converted == Converts(patched.by, before)
    IN  /\ IsPrefix(before.claims, pod.claims)
        /\ Len(pod.claims) = Len(before.claims) + SumOver(Asked(before), converted)
        /\ \A c \in Container :
             /\ IsPrefix(before.refs[c], pod.refs[c])
             /\ Len(pod.refs[c]) =
                  Len(before.refs[c]) + SumOver(AskedBy(before, c), converted)

(***************************************************************************)
(* mutator.go:611, "adding a MatchField to each narrows every branch": the *)
(* node the allocator has chosen is the only one a patched pod may run on, *)
(* and one its own terms allow (buildNodeAffinityPatch,                    *)
(* matchesNodeAffinity).                                                   *)
(***************************************************************************)
PinnedToNode ==
  patched # NotPatched =>
    /\ matchesNodeAffinity(pod) = {patched.node}
    /\ patched.node \in matchesNodeAffinity(patched.before)

(***************************************************************************)
(* A pod the handlers do not enqueue is not patched: only queued mutations *)
(* reserve devices, so these stay serial (handleAdmission and its          *)
(* countInterceptedGPUs against extractInterceptedResources).              *)
(***************************************************************************)
OnlyQueuedPodsPatched ==
  [][patched' # patched => Priority(draft.by, pod) > 0]_vars

(***************************************************************************)
(* mutator.go:611-613, "When the pod already has required node affinity    *)
(* terms, the node pin MatchField is added to each existing term": a patch *)
(* the webhook returns applies to the pod it was asked about.              *)
(***************************************************************************)
PatchApplies == phase # "failed"
=============================================================================
