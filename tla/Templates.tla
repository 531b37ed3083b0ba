------------------------------ MODULE Templates ------------------------------
(***************************************************************************)
(* The claim templates of one namespace, which the webhook shares with     *)
(* everybody: Mutate makes sure of them call by call (ensureClaimTemplate, *)
(* internal/webhook/mutator.go), in processes that have read different     *)
(* ConfigMaps, resolved different transports or are of different releases; *)
(* the resource claim controller makes claims from them by name; and the   *)
(* reconciler deletes those it has found unused.                           *)
(*                                                                         *)
(* A later release may build another spec under the same name, so a        *)
(* template's spec is a claim spec and the release that built it.          *)
(***************************************************************************)
EXTENDS Naturals, Sequences, FiniteSets, ClaimBuilder

CONSTANTS
  Pod,
  Asks,           \* what a pod may ask for: gpu-nic-pairs and units of Resource
  Resource,       \* an extended resource
  Replica,        \* webhook processes
  ConfigMap,      \* the contents the ConfigMap may have
  DefaultConfig,
  Encapsulations, \* what the NICs of the cluster report
  MaxChanges,     \* bound on the number of edits and upgrades
  MaxDoomed,      \* bound on the deletions under way
  NoReplica

ASSUME TemplatesAssumption ==
  /\ Asks \subseteq [pairs : Nat, ext : Nat]
  /\ NoReplica \notin Replica
  /\ MaxChanges \in Nat

VARIABLES
  configMap,  \* the configuration in the cluster
  release,    \* the deployed release
  changes,    \* how often one of the two has changed
  process,    \* the configuration and release of each running process
  templates,  \* a function on the names of the templates that exist
  doomed,     \* names the reconciler has found unused and is about to delete
  pc, by,     \* how far the pod is, and the process that mutates it
  wanted,     \* name and spec of each template the mutation asks for
  ensured,    \* how many of them it has made sure of
  claims,     \* the specs of the claims made so far, by position
  bereft      \* history: positions whose template was deleted under the pod

podVars == <<pc, by, wanted, ensured, claims, bereft>>
vars == <<configMap, release, changes, process, templates, doomed, podVars>>

\* "create" and "get" are the calls under way.  A pod that is denied or deleted
\* may come again, so it is "new".
PCs == {"new", "create", "get", "answered", "stored"}

-----------------------------------------------------------------------------
(***************************************************************************)
(* The configuration of a process: the defaults if the ConfigMap is not    *)
(* valid, which stands for one that cannot be read as well; and with       *)
(* transportMode "auto" resolved.                                          *)
(***************************************************************************)
Loaded(c, listed) ==
  LET valid == ValidatePairingConfig(c) /\ ValidateInterceptConfig(c)
      parsed == IF valid THEN c ELSE DefaultConfig
  IN  IF parsed.transport = "auto"
      THEN [parsed EXCEPT !.infiniband = ResolveTransportMode(Encapsulations, listed)]
      ELSE parsed

AllPairs(cfg) ==
  UNION {{cfg.nodePools[i].pairs[k] : k \in DOMAIN cfg.nodePools[i].pairs} :
           i \in DOMAIN cfg.nodePools}

Want(name, claim, r) == [name |-> name, claim |-> claim, release |-> r]

\* What the pair at a position may come out as, whatever the allocator chooses.
PairWants(nicIndex, cfg, r) ==
  IF cfg.explicit
  THEN {Want(ExplicitPairTemplateName(nicIndex, pair, cfg),
             BuildExplicitPairClaimSpec(nicIndex, pair, cfg), r) : pair \in AllPairs(cfg)}
  ELSE {Want(SinglePairTemplateName(nicIndex, rail, cfg),
             BuildSinglePairClaimSpec(nicIndex, rail, cfg), r) :
          rail \in IF cfg.infiniband THEN DOMAIN cfg.ibRails ELSE DOMAIN cfg.rails}

ExtWants(count, cfg, r) ==
  IF Resource \notin DOMAIN InterceptedResourceMap(cfg) THEN <<>>
  ELSE LET class == InterceptedResourceMap(cfg)[Resource]
       IN  [i \in 1 .. count |->
              Want(ExtendedResourceTemplateName(i - 1, class, cfg),
                   BuildExtendedResourceClaimSpec(class), r)]

\* The pairs come first, then the intercepted devices.
Wants(ask, cfg, r) ==
  LET pairs == 1 .. ask.pairs
      any == UNION {PairWants(i - 1, cfg, r) : i \in pairs}
  IN  {f \o ExtWants(ask.ext, cfg, r) :
         f \in {g \in [pairs -> any] : \A i \in pairs : g[i] \in PairWants(i - 1, cfg, r)}}

Init ==
  /\ configMap \in ConfigMap
  /\ release = 0 /\ changes = 0
  /\ process = [w \in Replica |-> [cfg |-> Loaded(configMap, TRUE), release |-> 0]]
  /\ templates = <<>>
  /\ doomed = {}
  /\ pc = [p \in Pod |-> "new"]
  /\ by = [p \in Pod |-> NoReplica]
  /\ wanted = [p \in Pod |-> <<>>]
  /\ ensured = [p \in Pod |-> 0]
  /\ claims = [p \in Pod |-> <<>>]
  /\ bereft = [p \in Pod |-> {}]

-----------------------------------------------------------------------------
(***************************************************************************)
(* Processes.                                                              *)
(***************************************************************************)
Change ==
  /\ changes < MaxChanges
  /\ changes' = changes + 1
  /\ UNCHANGED <<process, templates, doomed, podVars>>

Edit == Change /\ configMap' \in ConfigMap \ {configMap} /\ UNCHANGED release

Upgrade == Change /\ release' = release + 1 /\ UNCHANGED configMap

\* The pods Q are denied or deleted, and their claims with them.
Forget(Q) ==
  /\ pc' = [p \in Pod |-> IF p \in Q THEN "new" ELSE pc[p]]
  /\ by' = [p \in Pod |-> IF p \in Q THEN NoReplica ELSE by[p]]
  /\ wanted' = [p \in Pod |-> IF p \in Q THEN <<>> ELSE wanted[p]]
  /\ ensured' = [p \in Pod |-> IF p \in Q THEN 0 ELSE ensured[p]]
  /\ claims' = [p \in Pod |-> IF p \in Q THEN <<>> ELSE claims[p]]
  /\ bereft' = [p \in Pod |-> IF p \in Q THEN {} ELSE bereft[p]]

\* The configuration is read once, when a process starts; its calls are lost.
Restart(w) ==
  /\ \E listed \in BOOLEAN :
       process' = [process EXCEPT ![w] =
                     [cfg |-> Loaded(configMap, listed), release |-> release]]
  /\ Forget({p \in Pod : by[p] = w})
  /\ UNCHANGED <<configMap, release, changes, templates, doomed>>

-----------------------------------------------------------------------------
(***************************************************************************)
(* Mutate, after the allocation.                                           *)
(***************************************************************************)
Mutate(w, p) ==
  /\ pc[p] = "new"
  /\ \A q \in Pod : by[q] # w
  /\ \E ask \in Asks : \E f \in Wants(ask, process[w].cfg, process[w].release) :
       f # <<>> /\ wanted' = [wanted EXCEPT ![p] = f]
  /\ pc' = [pc EXCEPT ![p] = "create"]
  /\ by' = [by EXCEPT ![p] = w]
  /\ UNCHANGED <<configMap, release, changes, process, templates, doomed, ensured, claims, bereft>>

Next1(p) == wanted[p][ensured[p] + 1]

\* Faulty variant of Proceed: the mutation goes on after its last template.
ProceedForEver(p) ==
  /\ ensured' = [ensured EXCEPT ![p] = @ + 1]
  /\ pc' = [pc EXCEPT ![p] = "create"]
  /\ UNCHANGED by

\* The template at hand is as it should be: on to the next one, or to the answer.
Proceed(p) ==
  LET last == ensured[p] + 1 = Len(wanted[p])
  IN  /\ ensured' = [ensured EXCEPT ![p] = @ + 1]
      /\ pc' = [pc EXCEPT ![p] = IF last THEN "answered" ELSE "create"]
      /\ by' = [by EXCEPT ![p] = IF last THEN NoReplica ELSE @]

CreateTemplate(p) ==
  /\ pc[p] = "create"
  /\ LET t == Next1(p)
     IN  IF t.name \in DOMAIN templates
         THEN pc' = [pc EXCEPT ![p] = "get"] /\ UNCHANGED <<templates, by, ensured>>
         ELSE /\ templates' = [n \in DOMAIN templates \union {t.name} |->
                   IF n = t.name THEN [claim |-> t.claim, release |-> t.release]
                   ELSE templates[n]]
              /\ Proceed(p)
  /\ UNCHANGED <<configMap, release, changes, process, doomed, wanted, claims, bereft>>

\* Faulty variants: what exists is taken as it is; what does not, as if it did.
Matching(p) == TRUE
GoneOrMatching(p) ==
  LET t == Next1(p)
  IN  t.name \in DOMAIN templates =>
        templates[t.name] = [claim |-> t.claim, release |-> t.release]

SameSpec(p) ==
  LET t == Next1(p)
  IN  /\ t.name \in DOMAIN templates
      /\ templates[t.name] = [claim |-> t.claim, release |-> t.release]

\* The request is denied unless the template is there and has this very spec.
GetTemplate(p) ==
  /\ pc[p] = "get"
  /\ IF SameSpec(p) THEN Proceed(p) /\ UNCHANGED <<wanted, claims, bereft>> ELSE Forget({p})
  /\ UNCHANGED <<configMap, release, changes, process, templates, doomed>>

-----------------------------------------------------------------------------
(***************************************************************************)
(* The cluster.                                                            *)
(***************************************************************************)
Store(p) ==
  /\ pc[p] = "answered"
  /\ pc' = [pc EXCEPT ![p] = "stored"]
  /\ UNCHANGED <<configMap, release, changes, process, templates, doomed, by, wanted, ensured, claims, bereft>>

\* The resource claim controller makes the pod's claims one after the other.
MakeClaim(p) ==
  /\ pc[p] = "stored" /\ Len(claims[p]) < Len(wanted[p])
  /\ LET name == wanted[p][Len(claims[p]) + 1].name
     IN  /\ name \in DOMAIN templates
         /\ claims' = [claims EXCEPT ![p] = Append(@, templates[name])]
  /\ UNCHANGED <<configMap, release, changes, process, templates, doomed, pc, by, wanted, ensured, bereft>>

\* A call fails, the API server rejects the mutated pod, or the pod is deleted.
Lose(p) ==
  /\ pc[p] # "new"
  /\ Forget({p})
  /\ UNCHANGED <<configMap, release, changes, process, templates, doomed>>

References(p) == {wanted[p][i].name : i \in DOMAIN wanted[p]}

\* The reconciler lists templates and pods; what no listed pod references ...
Condemn(n) ==
  /\ n \in DOMAIN templates \ doomed /\ Cardinality(doomed) < MaxDoomed
  /\ \A p \in Pod : pc[p] = "stored" => n \notin References(p)
  /\ doomed' = doomed \union {n}
  /\ UNCHANGED <<configMap, release, changes, process, templates, podVars>>

\* ... it deletes later, by name.
Reap(n) ==
  /\ n \in doomed
  /\ doomed' = doomed \ {n}
  /\ templates' = [m \in DOMAIN templates \ {n} |-> templates[m]]
  /\ bereft' = [p \in Pod |-> bereft[p] \union
       {i \in DOMAIN wanted[p] :
          wanted[p][i].name = n /\ Len(claims[p]) < i /\ i <= ensured[p]}]
  /\ UNCHANGED <<configMap, release, changes, process, pc, by, wanted, ensured, claims>>

Next ==
  \/ Edit \/ Upgrade
  \/ \E w \in Replica : Restart(w) \/ \E p \in Pod : Mutate(w, p)
  \/ \E p \in Pod : CreateTemplate(p) \/ GetTemplate(p) \/ Store(p)
                    \/ MakeClaim(p) \/ Lose(p)
  \/ \E n \in DOMAIN templates \union doomed : Condemn(n) \/ Reap(n)

Spec == Init /\ [][Next]_vars
-----------------------------------------------------------------------------

\* Types; and a mutation under way has a template to make sure of.
TypeOK ==
  /\ configMap \in ConfigMap
  /\ release \in 0 .. changes /\ changes \in 0 .. MaxChanges
  /\ DOMAIN process = Replica
  /\ pc \in [Pod -> PCs]
  /\ by \in [Pod -> Replica \union {NoReplica}]
  /\ ensured \in [Pod -> Nat]
  /\ \A p \in Pod :
       /\ pc[p] \in {"create", "get"} => ensured[p] < Len(wanted[p])
       /\ pc[p] \in {"answered", "stored"} => ensured[p] = Len(wanted[p])
       /\ Len(claims[p]) <= ensured[p]

(***************************************************************************)
(* The claims of a pod are those its own mutation built: not another       *)
(* pair's, rail's or configuration's that shares the name, whatever was    *)
(* edited, restarted or reaped in between; and built by its own release,   *)
(* unless the template was reaped under the pod and made again             *)
(* (ensureClaimTemplate, SinglePairTemplateName, ExplicitPairTemplateName).*)
(***************************************************************************)
IntendedClaims ==
  \A p \in Pod : \A i \in DOMAIN claims[p] :
    /\ claims[p][i].claim = wanted[p][i].claim
    /\ claims[p][i].release = wanted[p][i].release \/ i \in bereft[p]

(***************************************************************************)
(* "exists with divergent spec" is said of templates of another release    *)
(* only: a mere edit of the ConfigMap, a different transport or other      *)
(* devices never get a pod denied.                                         *)
(***************************************************************************)
DivergesByRelease ==
  \A p \in Pod : \A n \in DOMAIN templates : \A i \in DOMAIN wanted[p] :
    n = wanted[p][i].name => templates[n].claim = wanted[p][i].claim

(***************************************************************************)
(* A stored pod's templates are there until its claims are made, unless    *)
(* one was deleted after the webhook had made sure of it: the webhook does *)
(* not take for existing what is gone between its Create and its Get.      *)
(***************************************************************************)
TemplatesThere ==
  \A p \in Pod : pc[p] = "stored" =>
    \A i \in DOMAIN wanted[p] :
      \/ i <= Len(claims[p]) \/ i \in bereft[p]
      \/ wanted[p][i].name \in DOMAIN templates

(***************************************************************************)
(* The strengthening under which these are inductive.                      *)
(***************************************************************************)
Configs == UNION {{Loaded(c, TRUE), Loaded(c, FALSE)} : c \in ConfigMap}
NICPositions == UNION {0 .. ask.pairs - 1 : ask \in Asks}
ExtWantsOf(ask, cfg, r) ==
  LET wants == ExtWants(ask.ext, cfg, r) IN {wants[i] : i \in DOMAIN wants}

\* The templates a process of release r may ask for, whatever it has loaded.
Buildable(r) ==
  (UNION {UNION {PairWants(i, cfg, r) : i \in NICPositions} : cfg \in Configs})
    \union (UNION {UNION {ExtWantsOf(ask, cfg, r) : ask \in Asks} : cfg \in Configs})

Built == UNION {Buildable(r) : r \in 0 .. release}
Spec1(x) == [claim |-> x.claim, release |-> x.release]
Specs == {Spec1(x) : x \in Built}

\* Whatever is asked for, stored or claimed was built by some process.
OnlyBuilt ==
  /\ \A w \in Replica : process[w].cfg \in Configs /\ process[w].release \in 0 .. release
  /\ \A n \in DOMAIN templates : \E x \in Built : x.name = n /\ templates[n] = Spec1(x)
  /\ wanted \in [Pod -> Seq(Built)]
  /\ claims \in [Pod -> Seq(Specs)]
  /\ bereft \in [Pod -> SUBSET Nat]

\* A pod that is new has nothing.
NewHasNothing ==
  \A p \in Pod : pc[p] = "new" =>
    /\ by[p] = NoReplica
    /\ wanted[p] = <<>> /\ ensured[p] = 0 /\ claims[p] = <<>> /\ bereft[p] = {}

\* A template made sure of is there as wanted until it is claimed or reaped.
Secured ==
  \A p \in Pod : \A i \in 1 .. ensured[p] :
    \/ i <= Len(claims[p]) \/ i \in bereft[p]
    \/ /\ wanted[p][i].name \in DOMAIN templates
       /\ templates[wanted[p][i].name] = Spec1(wanted[p][i])

IInv == TypeOK /\ OnlyBuilt /\ NewHasNothing /\ Secured /\ IntendedClaims
=============================================================================
