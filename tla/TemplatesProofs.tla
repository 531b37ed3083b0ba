--------------------------- MODULE TemplatesProofs ---------------------------
(***************************************************************************)
(* The claims of every pod are its own, for any number of processes, pods, *)
(* configurations, edits, upgrades and deletions.                          *)
(***************************************************************************)
EXTENDS Templates, SequenceTheorems, TLAPS

-----------------------------------------------------------------------------
(***************************************************************************)
(* Names determine claims.                                                 *)
(***************************************************************************)

\* The three ways to make a name have tuples of different shapes.
LEMMA NamesApart ==
  /\ \A a, b, c, d, e, f, g : <<a, b, c, d>> # <<e, f, g>>
  /\ \A a, b, c : <<a>> # <<b, c>>
<1>1. \A a, b, c, d, e, f, g : Len(<<a, b, c, d>>) # Len(<<e, f, g>>)
  OBVIOUS
<1>2. \A a, b, c : Len(<<a>>) # Len(<<b, c>>)
  OBVIOUS
<1>. QED
  BY <1>1, <1>2, Zenon

\* The claim of an explicit pair depends on the parts of the pair in its name.
LEMMA ExplicitNamed ==
  ASSUME NEW i, NEW pair, NEW cfg, NEW j, NEW other, NEW dfg,
         ExplicitPairTemplateName(i, pair, cfg) = ExplicitPairTemplateName(j, other, dfg)
  PROVE  BuildExplicitPairClaimSpec(i, pair, cfg) = BuildExplicitPairClaimSpec(j, other, dfg)
<1>1. i = j /\ pair.rail = other.rail /\ cfg = dfg /\ pair.devices = other.devices
  BY DEF ExplicitPairTemplateName
<1>. QED
  BY <1>1, Zenon DEF BuildExplicitPairClaimSpec

LEMMA SingleNamed ==
  ASSUME NEW i, NEW rail, NEW cfg, NEW j, NEW other, NEW dfg,
         SinglePairTemplateName(i, rail, cfg) = SinglePairTemplateName(j, other, dfg)
  PROVE  BuildSinglePairClaimSpec(i, rail, cfg) = BuildSinglePairClaimSpec(j, other, dfg)
<1>1. i = j /\ rail = other /\ cfg = dfg
  BY DEF SinglePairTemplateName
<1>. QED
  BY <1>1

LEMMA ExtendedNamed ==
  ASSUME NEW i, NEW class, NEW cfg, NEW j, NEW other, NEW dfg,
         ExtendedResourceTemplateName(i, class, cfg) = ExtendedResourceTemplateName(j, other, dfg)
  PROVE  BuildExtendedResourceClaimSpec(class) = BuildExtendedResourceClaimSpec(other)
<1>1. class = other
  BY DEF ExtendedResourceTemplateName
<1>. QED
  BY <1>1

LEMMA Unmixed ==
  ASSUME NEW i, NEW pair, NEW cfg, NEW j, NEW rail, NEW dfg, NEW k, NEW class, NEW efg
  PROVE  /\ ExplicitPairTemplateName(i, pair, cfg) # SinglePairTemplateName(j, rail, dfg)
         /\ ExplicitPairTemplateName(i, pair, cfg) # ExtendedResourceTemplateName(k, class, efg)
         /\ SinglePairTemplateName(j, rail, dfg) # ExtendedResourceTemplateName(k, class, efg)
<1>1. <<cfg, pair.devices>> # <<dfg>>
  BY NamesApart
<1>2. ExplicitPairTemplateName(i, pair, cfg) # SinglePairTemplateName(j, rail, dfg)
  BY <1>1 DEF ExplicitPairTemplateName, SinglePairTemplateName
<1>. QED
  BY <1>2, NamesApart DEF ExplicitPairTemplateName, SinglePairTemplateName,
                          ExtendedResourceTemplateName

\* What can be wanted is one of three kinds.
OfExplicitPair(x) == \E i, pair, cfg : /\ x.name = ExplicitPairTemplateName(i, pair, cfg)
                                       /\ x.claim = BuildExplicitPairClaimSpec(i, pair, cfg)
OfSinglePair(x) == \E i, rail, cfg : /\ x.name = SinglePairTemplateName(i, rail, cfg)
                                     /\ x.claim = BuildSinglePairClaimSpec(i, rail, cfg)
OfExtended(x) == \E i, class, cfg : /\ x.name = ExtendedResourceTemplateName(i, class, cfg)
                                    /\ x.claim = BuildExtendedResourceClaimSpec(class)

LEMMA Kinds ==
  ASSUME NEW r, NEW x \in Buildable(r)
  PROVE  /\ x = [name |-> x.name, claim |-> x.claim, release |-> r]
         /\ OfExplicitPair(x) \/ OfSinglePair(x) \/ OfExtended(x)
<1>1. CASE \E i \in NICPositions, cfg \in Configs : x \in PairWants(i, cfg, r)
  <2>1. PICK i \in NICPositions, cfg \in Configs : x \in PairWants(i, cfg, r)
    BY <1>1
  <2>2. CASE cfg.explicit
    <3>1. PICK pair \in AllPairs(cfg) :
            x = Want(ExplicitPairTemplateName(i, pair, cfg),
                     BuildExplicitPairClaimSpec(i, pair, cfg), r)
      BY <2>1, <2>2 DEF PairWants
    <3>. QED
      BY <3>1 DEF Want, OfExplicitPair
  <2>3. CASE ~cfg.explicit
    <3>1. PICK rail : x = Want(SinglePairTemplateName(i, rail, cfg),
                               BuildSinglePairClaimSpec(i, rail, cfg), r)
      BY <2>1, <2>3 DEF PairWants
    <3>. QED
      BY <3>1 DEF Want, OfSinglePair
  <2>. QED
    BY <2>2, <2>3
<1>2. CASE \E ask \in Asks, cfg \in Configs : x \in ExtWantsOf(ask, cfg, r)
  <2>1. PICK ask \in Asks, cfg \in Configs : x \in ExtWantsOf(ask, cfg, r)
    BY <1>2
  <2>2. PICK i \in DOMAIN ExtWants(ask.ext, cfg, r) : x = ExtWants(ask.ext, cfg, r)[i]
    BY <2>1 DEF ExtWantsOf
  <2>3. Resource \in DOMAIN InterceptedResourceMap(cfg)
    BY <2>2 DEF ExtWants
  <2>4. x = Want(ExtendedResourceTemplateName(i - 1, InterceptedResourceMap(cfg)[Resource], cfg),
                 BuildExtendedResourceClaimSpec(InterceptedResourceMap(cfg)[Resource]), r)
    BY <2>2, <2>3 DEF ExtWants
  <2>. QED
    BY <2>4 DEF Want, OfExtended
<1>3. ASSUME x \in UNION {UNION {PairWants(i, cfg, r) : i \in NICPositions} : cfg \in Configs}
      PROVE  \E i \in NICPositions, cfg \in Configs : x \in PairWants(i, cfg, r)
  <2>1. PICK cfg \in Configs : x \in UNION {PairWants(i, cfg, r) : i \in NICPositions}
    BY <1>3
  <2>. QED
    BY <2>1
<1>4. ASSUME x \in UNION {UNION {ExtWantsOf(ask, cfg, r) : ask \in Asks} : cfg \in Configs}
      PROVE  \E ask \in Asks, cfg \in Configs : x \in ExtWantsOf(ask, cfg, r)
  <2>1. PICK cfg \in Configs : x \in UNION {ExtWantsOf(ask, cfg, r) : ask \in Asks}
    BY <1>4
  <2>. QED
    BY <2>1
<1>. QED
  BY <1>1, <1>2, <1>3, <1>4 DEF Buildable

\* Whoever builds them, two templates of one name hold the same claim.
LEMMA NamesDetermineClaims ==
  ASSUME NEW r, NEW s, NEW x \in Buildable(r), NEW y \in Buildable(s), x.name = y.name
  PROVE  x.claim = y.claim
<1>1. CASE OfExplicitPair(x)
  <2>1. ~OfSinglePair(y) /\ ~OfExtended(y)
    BY <1>1, Unmixed DEF OfExplicitPair, OfSinglePair, OfExtended
  <2>2. OfExplicitPair(y)
    BY <2>1, Kinds
  <2>3. PICK i, pair, cfg : x.name = ExplicitPairTemplateName(i, pair, cfg) /\ x.claim = BuildExplicitPairClaimSpec(i, pair, cfg)
    BY <1>1 DEF OfExplicitPair
  <2>4. PICK j, other, dfg : y.name = ExplicitPairTemplateName(j, other, dfg) /\ y.claim = BuildExplicitPairClaimSpec(j, other, dfg)
    BY <2>2 DEF OfExplicitPair
  <2>5. ExplicitPairTemplateName(i, pair, cfg) = ExplicitPairTemplateName(j, other, dfg)
    BY <2>3, <2>4
  <2>6. BuildExplicitPairClaimSpec(i, pair, cfg) = BuildExplicitPairClaimSpec(j, other, dfg)
    BY <2>5, ExplicitNamed
  <2>. QED
    BY <2>3, <2>4, <2>6
<1>2. CASE OfSinglePair(x)
  <2>1. ~OfExplicitPair(y) /\ ~OfExtended(y)
    BY <1>2, Unmixed DEF OfExplicitPair, OfSinglePair, OfExtended
  <2>2. OfSinglePair(y)
    BY <2>1, Kinds
  <2>3. PICK i, rail, cfg : x.name = SinglePairTemplateName(i, rail, cfg) /\ x.claim = BuildSinglePairClaimSpec(i, rail, cfg)
    BY <1>2 DEF OfSinglePair
  <2>4. PICK j, other, dfg : y.name = SinglePairTemplateName(j, other, dfg) /\ y.claim = BuildSinglePairClaimSpec(j, other, dfg)
    BY <2>2 DEF OfSinglePair
  <2>5. SinglePairTemplateName(i, rail, cfg) = SinglePairTemplateName(j, other, dfg)
    BY <2>3, <2>4
  <2>6. BuildSinglePairClaimSpec(i, rail, cfg) = BuildSinglePairClaimSpec(j, other, dfg)
    BY <2>5, SingleNamed
  <2>. QED
    BY <2>3, <2>4, <2>6
<1>3. CASE OfExtended(x)
  <2>1. ~OfExplicitPair(y) /\ ~OfSinglePair(y)
    BY <1>3, Unmixed DEF OfExplicitPair, OfSinglePair, OfExtended
  <2>2. OfExtended(y)
    BY <2>1, Kinds
  <2>3. PICK i, class, cfg : x.name = ExtendedResourceTemplateName(i, class, cfg) /\ x.claim = BuildExtendedResourceClaimSpec(class)
    BY <1>3 DEF OfExtended
  <2>4. PICK j, other, dfg : y.name = ExtendedResourceTemplateName(j, other, dfg) /\ y.claim = BuildExtendedResourceClaimSpec(other)
    BY <2>2 DEF OfExtended
  <2>5. ExtendedResourceTemplateName(i, class, cfg) = ExtendedResourceTemplateName(j, other, dfg)
    BY <2>3, <2>4
  <2>6. BuildExtendedResourceClaimSpec(class) = BuildExtendedResourceClaimSpec(other)
    BY <2>5, ExtendedNamed
  <2>. QED
    BY <2>3, <2>4, <2>6
<1>. QED
  BY <1>1, <1>2, <1>3, Kinds
-----------------------------------------------------------------------------
(***************************************************************************)
(* What is wanted has been built.                                          *)
(***************************************************************************)

LEMMA FunctionIsSeq ==
  ASSUME NEW S, NEW n \in Nat, NEW f \in [1 .. n -> S]
  PROVE  f \in Seq(S) /\ Len(f) = n
  BY SeqDef

LEMMA WantsBuilt ==
  ASSUME NEW ask \in Asks, NEW cfg \in Configs, NEW r, NEW f \in Wants(ask, cfg, r)
  PROVE  f \in Seq(Buildable(r))
<1>. DEFINE pairs == 1 .. ask.pairs
            any == UNION {PairWants(i - 1, cfg, r) : i \in pairs}
            ext == ExtWants(ask.ext, cfg, r)
<1>0. ask.pairs \in Nat /\ ask.ext \in Nat
  BY TemplatesAssumption
<1>1. PICK g \in [pairs -> any] :
        f = g \o ext /\ \A i \in pairs : g[i] \in PairWants(i - 1, cfg, r)
  BY DEF Wants
<1>2. \A i \in pairs : g[i] \in Buildable(r)
  <2>. SUFFICES ASSUME NEW i \in pairs PROVE g[i] \in Buildable(r)
    OBVIOUS
  <2>1. i - 1 \in 0 .. ask.pairs - 1
    BY <1>0
  <2>2. i - 1 \in NICPositions
    BY <2>1 DEF NICPositions
  <2>3. g[i] \in UNION {PairWants(k, cfg, r) : k \in NICPositions}
    BY <1>1, <2>2
  <2>. QED
    BY <2>3 DEF Buildable
<1>3. g \in Seq(Buildable(r))
  <2>1. g \in [1 .. ask.pairs -> Buildable(r)]
    BY <1>1, <1>2
  <2>. QED
    BY <1>0, <2>1, FunctionIsSeq
<1>4. ext \in Seq(Buildable(r))
  <2>1. \A i \in DOMAIN ext : ext[i] \in Buildable(r)
    <3>. SUFFICES ASSUME NEW i \in DOMAIN ext PROVE ext[i] \in Buildable(r)
      OBVIOUS
    <3>1. ext[i] \in UNION {ExtWantsOf(a, cfg, r) : a \in Asks}
      BY DEF ExtWantsOf
    <3>. QED
      BY <3>1 DEF Buildable
  <2>2. CASE Resource \notin DOMAIN InterceptedResourceMap(cfg)
    BY <2>2, EmptySeq DEF ExtWants
  <2>3. CASE Resource \in DOMAIN InterceptedResourceMap(cfg)
    <3>1. ext = [i \in 1 .. ask.ext |-> ext[i]] /\ DOMAIN ext = 1 .. ask.ext
      BY <2>3 DEF ExtWants
    <3>2. ext \in [1 .. ask.ext -> Buildable(r)]
      BY <2>1, <3>1
    <3>. QED
      BY <1>0, <3>2, FunctionIsSeq
  <2>. QED
    BY <2>2, <2>3
<1>. QED
  BY <1>1, <1>3, <1>4, ConcatProperties

LEMMA BuiltIncluded ==
  ASSUME NEW r \in 0 .. release
  PROVE  Buildable(r) \subseteq Built
  BY DEF Built

LEMMA BuiltOrigin ==
  ASSUME NEW x \in Built
  PROVE  \E r \in 0 .. release : x \in Buildable(r)
  BY DEF Built

\* In one state, what has been built under one name has one claim.
LEMMA OneClaimPerName ==
  ASSUME NEW x \in Built, NEW y \in Built, x.name = y.name
  PROVE  x.claim = y.claim
<1>1. PICK r \in 0 .. release : x \in Buildable(r)
  BY BuiltOrigin
<1>2. PICK t \in 0 .. release : y \in Buildable(t)
  BY BuiltOrigin
<1>. QED
  BY <1>1, <1>2, NamesDetermineClaims

LEMMA BuiltGrows ==
  ASSUME release \in Nat, release' \in Nat, release <= release'
  PROVE  Built \subseteq Built' /\ Specs \subseteq Specs'
<1>1. 0 .. release \subseteq 0 .. release'
  OBVIOUS
<1>2. Built \subseteq Built'
  BY <1>1 DEF Built
<1>. QED
  BY <1>2 DEF Specs

-----------------------------------------------------------------------------
(***************************************************************************)
(* The invariant.                                                          *)
(***************************************************************************)

LEMMA InitIInv == Init => IInv
<1>. SUFFICES ASSUME Init PROVE IInv
  OBVIOUS
<1>1. \A S : <<>> \in Seq(S) /\ Len(<<>>) = 0
  BY EmptySeq
<1>2. TypeOK
  BY <1>1, TemplatesAssumption DEF Init, TypeOK, PCs
<1>3. OnlyBuilt
  <2>1. \A w \in Replica : process[w].cfg \in Configs /\ process[w].release \in 0 .. release
    <3>1. configMap \in ConfigMap
      BY DEF Init
    <3>2. Loaded(configMap, TRUE) \in Configs
      BY <3>1 DEF Configs
    <3>3. \A w \in Replica : process[w].cfg = Loaded(configMap, TRUE) /\ process[w].release = 0
      BY DEF Init
    <3>4. 0 \in 0 .. release
      BY DEF Init
    <3>. QED
      BY <3>2, <3>3, <3>4
  <2>2. wanted \in [Pod -> Seq(Built)] /\ claims \in [Pod -> Seq(Specs)]
    BY <1>1 DEF Init
  <2>3. bereft \in [Pod -> SUBSET Nat] /\ DOMAIN templates = {}
    BY DEF Init
  <2>. QED
    BY <2>1, <2>2, <2>3, Zenon DEF OnlyBuilt
<1>4. NewHasNothing /\ Secured /\ IntendedClaims
  BY DEF Init, NewHasNothing, Secured, IntendedClaims
<1>. QED
  BY <1>2, <1>3, <1>4 DEF IInv

\* Pods that are denied, deleted or lost leave everybody else's claims alone.
LEMMA ForgetIInv ==
  ASSUME IInv, NEW Q, Forget(Q), UNCHANGED <<configMap, release, changes, templates>>,
         DOMAIN process' = Replica,
         \A w \in Replica : process'[w].cfg \in Configs /\ process'[w].release \in 0 .. release
  PROVE  IInv'
<1>0. TypeOK /\ OnlyBuilt /\ NewHasNothing /\ Secured /\ IntendedClaims
  BY DEF IInv
<1>1. \A S : <<>> \in Seq(S) /\ Len(<<>>) = 0
  BY EmptySeq
<1>2. Built' = Built /\ Specs' = Specs
  BY DEF Built, Specs
<1>3. \A p \in Pod \ Q :
        /\ pc'[p] = pc[p] /\ by'[p] = by[p] /\ wanted'[p] = wanted[p]
        /\ ensured'[p] = ensured[p] /\ claims'[p] = claims[p] /\ bereft'[p] = bereft[p]
  BY DEF Forget
<1>4. \A p \in Pod : p \in Q =>
        /\ pc'[p] = "new" /\ by'[p] = NoReplica /\ wanted'[p] = <<>>
        /\ ensured'[p] = 0 /\ claims'[p] = <<>> /\ bereft'[p] = {}
  BY DEF Forget
<1>5. TypeOK'
  <2>1. /\ pc' \in [Pod -> PCs] /\ by' \in [Pod -> Replica \union {NoReplica}]
        /\ ensured' \in [Pod -> Nat]
    BY <1>0 DEF Forget, TypeOK, PCs
  <2>2. \A p \in Pod :
       /\ pc'[p] \in {"create", "get"} => ensured'[p] < Len(wanted'[p])
       /\ pc'[p] \in {"answered", "stored"} => ensured'[p] = Len(wanted'[p])
       /\ Len(claims'[p]) <= ensured'[p]
    BY <1>0, <1>1, <1>3, <1>4 DEF TypeOK
  <2>. QED
    BY <1>0, <2>1, <2>2 DEF TypeOK
<1>6. OnlyBuilt'
  <2>1. /\ wanted' \in [Pod -> Seq(Built)] /\ claims' \in [Pod -> Seq(Specs)]
        /\ bereft' \in [Pod -> SUBSET Nat]
    <3>1. /\ wanted' = [p \in Pod |-> wanted'[p]] /\ claims' = [p \in Pod |-> claims'[p]]
          /\ bereft' = [p \in Pod |-> bereft'[p]]
      BY DEF Forget
    <3>2. \A p \in Pod : /\ wanted'[p] \in Seq(Built) /\ claims'[p] \in Seq(Specs)
                         /\ bereft'[p] \in SUBSET Nat
      <4>. SUFFICES ASSUME NEW p \in Pod
                   PROVE  /\ wanted'[p] \in Seq(Built) /\ claims'[p] \in Seq(Specs)
                          /\ bereft'[p] \in SUBSET Nat
        OBVIOUS
      <4>1. CASE p \in Q
        BY <1>1, <1>4, <4>1
      <4>2. CASE p \notin Q
        <5>1. /\ wanted[p] \in Seq(Built) /\ claims[p] \in Seq(Specs)
              /\ bereft[p] \in SUBSET Nat
          BY <1>0 DEF OnlyBuilt
        <5>. QED
          BY <1>3, <4>2, <5>1
      <4>. QED
        BY <4>1, <4>2
    <3>. QED
      BY <3>1, <3>2, Zenon
  <2>2. \A n \in DOMAIN templates' : \E x \in Built : x.name = n /\ templates'[n] = Spec1(x)
    BY <1>0 DEF OnlyBuilt
  <2>. QED
    BY <1>0, <1>2, <2>1, <2>2, Zenon DEF OnlyBuilt, Spec1
<1>7. NewHasNothing'
  BY <1>0, <1>3, <1>4 DEF NewHasNothing
<1>8. Secured'
  <2>. SUFFICES ASSUME NEW p \in Pod, NEW i \in 1 .. ensured'[p]
               PROVE  \/ i <= Len(claims'[p]) \/ i \in bereft'[p]
                      \/ /\ wanted'[p][i].name \in DOMAIN templates'
                         /\ templates'[wanted'[p][i].name] = Spec1(wanted'[p][i])
    BY DEF Secured, Spec1
  <2>1. p \notin Q
    BY <1>4
  <2>. QED
    BY <1>0, <1>3, <2>1 DEF Secured
<1>9. IntendedClaims'
  BY <1>0, <1>3, <1>4 DEF IntendedClaims
<1>. QED
  BY <1>5, <1>6, <1>7, <1>8, <1>9 DEF IInv

\* An edit or an upgrade changes nothing that was built before it.
LEMMA ChangeIInv ==
  ASSUME IInv, Edit \/ Upgrade
  PROVE  IInv'
<1>0. TypeOK /\ OnlyBuilt /\ NewHasNothing /\ Secured /\ IntendedClaims
  BY DEF IInv
<1>1. /\ release' \in Nat /\ release <= release' /\ configMap' \in ConfigMap
      /\ UNCHANGED <<process, templates, doomed, pc, by, wanted, ensured, claims, bereft>>
      /\ changes' = changes + 1 /\ changes' <= MaxChanges /\ changes \in Int /\ release' <= release + 1
  BY <1>0, TemplatesAssumption DEF Edit, Upgrade, Change, podVars, TypeOK
<1>2. Built \subseteq Built' /\ Specs \subseteq Specs'
  BY <1>0, <1>1, BuiltGrows DEF TypeOK
<1>3. TypeOK'
  BY <1>0, <1>1, TemplatesAssumption DEF TypeOK, OnlyBuilt
<1>4. OnlyBuilt'
  <2>1. wanted' \in [Pod -> Seq(Built')] /\ claims' \in [Pod -> Seq(Specs')]
    <3>1. Seq(Built) \subseteq Seq(Built') /\ Seq(Specs) \subseteq Seq(Specs')
      BY <1>2
    <3>. QED
      BY <1>0, <1>1, <3>1 DEF OnlyBuilt
  <2>2. \A w \in Replica : process'[w].cfg \in Configs /\ process'[w].release \in 0 .. release'
    BY <1>0, <1>1 DEF OnlyBuilt, TypeOK
  <2>3. \A n \in DOMAIN templates' : \E x \in Built' : x.name = n /\ templates'[n] = Spec1(x)
    BY <1>0, <1>1, <1>2 DEF OnlyBuilt
  <2>4. bereft' \in [Pod -> SUBSET Nat]
    BY <1>0, <1>1 DEF OnlyBuilt
  <2>. QED
    BY <1>1, <2>1, <2>2, <2>3, <2>4, Zenon DEF OnlyBuilt, Spec1
<1>5. NewHasNothing' /\ Secured' /\ IntendedClaims'
  BY <1>0, <1>1 DEF NewHasNothing, Secured, IntendedClaims, Spec1
<1>. QED
  BY <1>3, <1>4, <1>5 DEF IInv

\* The template at hand is as wanted: the pod may count it.
LEMMA ProceedKeeps ==
  ASSUME IInv, NEW p \in Pod, pc[p] \in {"create", "get"}, Proceed(p)
  PROVE  /\ pc' \in [Pod -> PCs] /\ by' \in [Pod -> Replica \union {NoReplica}]
         /\ ensured' = [ensured EXCEPT ![p] = ensured[p] + 1] /\ ensured' \in [Pod -> Nat]
         /\ \A q \in Pod \ {p} : pc'[q] = pc[q] /\ by'[q] = by[q]
         /\ pc'[p] # "new"
         /\ pc'[p] \in {"create", "get"} => ensured[p] + 1 < Len(wanted[p])
         /\ pc'[p] \in {"answered", "stored"} => ensured[p] + 1 = Len(wanted[p])
<1>0. TypeOK /\ OnlyBuilt
  BY DEF IInv
<1>1. ensured[p] \in Nat /\ ensured[p] < Len(wanted[p]) /\ Len(wanted[p]) \in Nat
  <2>1. wanted[p] \in Seq(Built)
    BY <1>0 DEF OnlyBuilt
  <2>. QED
    BY <1>0, <2>1, LenProperties DEF TypeOK
<1>. QED
  BY <1>0, <1>1 DEF TypeOK, Proceed, PCs

LEMMA MutateIInv ==
  ASSUME IInv, NEW w \in Replica, NEW p \in Pod, Mutate(w, p)
  PROVE  IInv'
<1>0. TypeOK /\ OnlyBuilt /\ NewHasNothing /\ Secured /\ IntendedClaims
  BY DEF IInv
<1>a. PICK ask \in Asks : \E f \in Wants(ask, process[w].cfg, process[w].release) :
        f # <<>> /\ wanted' = [wanted EXCEPT ![p] = f]
  BY DEF Mutate
<1>1. PICK f \in Wants(ask, process[w].cfg, process[w].release) :
        f # <<>> /\ wanted' = [wanted EXCEPT ![p] = f]
  BY <1>a
<1>2. f \in Seq(Built) /\ Len(f) \in Nat /\ 0 < Len(f)
  <2>1. process[w].cfg \in Configs /\ process[w].release \in 0 .. release
    BY <1>0 DEF OnlyBuilt
  <2>2. f \in Seq(Buildable(process[w].release))
    BY <2>1, WantsBuilt
  <2>3. Buildable(process[w].release) \subseteq Built
    BY <2>1, BuiltIncluded
  <2>4. f \in Seq(Built)
    BY <2>2, <2>3
  <2>. QED
    BY <1>1, <2>4, EmptySeq, LenProperties
<1>3. /\ pc[p] = "new" /\ pc'[p] = "create" /\ wanted'[p] = f /\ wanted' \in [Pod -> Seq(Built)]
      /\ ensured[p] = 0 /\ claims[p] = <<>> /\ bereft[p] = {}
      /\ pc' \in [Pod -> PCs] /\ by' \in [Pod -> Replica \union {NoReplica}]
  BY <1>0, <1>1, <1>2 DEF Mutate, TypeOK, OnlyBuilt, NewHasNothing, PCs
<1>4. /\ \A q \in Pod \ {p} : pc'[q] = pc[q] /\ by'[q] = by[q] /\ wanted'[q] = wanted[q]
      /\ UNCHANGED <<configMap, release, changes, process, templates, doomed, ensured, claims, bereft>>
  BY <1>0, <1>1 DEF Mutate, TypeOK, OnlyBuilt
<1>5. Built' = Built /\ Specs' = Specs
  BY <1>4 DEF Built, Specs
<1>6. TypeOK'
  <2>1. Len(<<>>) = 0
    OBVIOUS
  <2>. QED
    BY <1>0, <1>2, <1>3, <1>4, <2>1 DEF TypeOK
<1>7. OnlyBuilt'
  BY <1>0, <1>3, <1>4, <1>5 DEF OnlyBuilt, Spec1
<1>8. NewHasNothing'
  BY <1>0, <1>3, <1>4 DEF NewHasNothing
<1>9. Secured'
  BY <1>0, <1>3, <1>4 DEF Secured, Spec1
<1>10. IntendedClaims'
  BY <1>0, <1>3, <1>4 DEF IntendedClaims
<1>. QED
  BY <1>6, <1>7, <1>8, <1>9, <1>10 DEF IInv

\* The step by which a template comes to be secured.
LEMMA ProceedIInv ==
  ASSUME IInv, NEW p \in Pod, pc[p] \in {"create", "get"}, Proceed(p),
         UNCHANGED <<configMap, release, changes, process, wanted, claims, bereft>>,
         \A n \in DOMAIN templates : n \in DOMAIN templates' /\ templates'[n] = templates[n],
         \A n \in DOMAIN templates' \ DOMAIN templates :
           n = Next1(p).name /\ templates'[n] = Spec1(Next1(p)),
         Next1(p).name \in DOMAIN templates', templates'[Next1(p).name] = Spec1(Next1(p))
  PROVE  IInv'
<1>0. TypeOK /\ OnlyBuilt /\ NewHasNothing /\ Secured /\ IntendedClaims
  BY DEF IInv
<1>1. /\ pc' \in [Pod -> PCs] /\ by' \in [Pod -> Replica \union {NoReplica}]
      /\ ensured' = [ensured EXCEPT ![p] = ensured[p] + 1] /\ ensured' \in [Pod -> Nat]
      /\ \A q \in Pod \ {p} : pc'[q] = pc[q] /\ by'[q] = by[q]
      /\ pc'[p] # "new"
      /\ pc'[p] \in {"create", "get"} => ensured[p] + 1 < Len(wanted[p])
      /\ pc'[p] \in {"answered", "stored"} => ensured[p] + 1 = Len(wanted[p])
  BY ProceedKeeps
<1>2. /\ wanted[p] \in Seq(Built) /\ ensured[p] \in Nat /\ ensured[p] < Len(wanted[p])
      /\ ensured \in [Pod -> Nat]
  BY <1>0 DEF TypeOK, OnlyBuilt
<1>3. Next1(p) \in Built
  <2>1. ensured[p] + 1 \in 1 .. Len(wanted[p])
    BY <1>2, LenProperties
  <2>. QED
    BY <1>2, <2>1, ElementOfSeq DEF Next1
<1>4. Built' = Built /\ Specs' = Specs
  BY DEF Built, Specs
<1>5. ensured'[p] = ensured[p] + 1 /\ \A q \in Pod \ {p} : ensured'[q] = ensured[q]
  BY <1>1, <1>2
<1>6. TypeOK'
  <2>1. Len(claims[p]) \in Nat
    <3>1. claims[p] \in Seq(Specs)
      BY <1>0 DEF OnlyBuilt
    <3>. QED
      BY <3>1, LenProperties
  <2>. QED
    BY <1>0, <1>1, <1>2, <1>5, <2>1 DEF TypeOK
<1>7. OnlyBuilt'
  <2>1. \A n \in DOMAIN templates' : \E x \in Built : x.name = n /\ templates'[n] = Spec1(x)
    <3>. SUFFICES ASSUME NEW n \in DOMAIN templates'
                 PROVE  \E x \in Built : x.name = n /\ templates'[n] = Spec1(x)
      OBVIOUS
    <3>1. CASE n \in DOMAIN templates
      <4>1. templates'[n] = templates[n]
        BY <3>1
      <4>. QED
        BY <1>0, <3>1, <4>1 DEF OnlyBuilt
    <3>2. CASE n \notin DOMAIN templates
      <4>1. n = Next1(p).name /\ templates'[n] = Spec1(Next1(p))
        BY <3>2
      <4>. QED
        BY <1>3, <4>1
    <3>. QED
      BY <3>1, <3>2
  <2>. QED
    BY <1>0, <1>4, <2>1, Zenon DEF OnlyBuilt, Spec1
<1>8. NewHasNothing'
  BY <1>0, <1>1, <1>5 DEF NewHasNothing
<1>9. Secured'
  <2>. SUFFICES ASSUME NEW q \in Pod, NEW i \in 1 .. ensured'[q]
               PROVE  \/ i <= Len(claims[q]) \/ i \in bereft[q]
                      \/ /\ wanted[q][i].name \in DOMAIN templates'
                         /\ templates'[wanted[q][i].name] = Spec1(wanted[q][i])
    BY DEF Secured, Spec1
  <2>1. CASE i \in 1 .. ensured[q]
    BY <1>0, <2>1 DEF Secured
  <2>2. CASE i \notin 1 .. ensured[q]
    <3>1. q = p /\ i = ensured[p] + 1
      BY <1>2, <1>5, <2>2
    <3>. QED
      BY <3>1 DEF Next1
  <2>. QED
    BY <2>1, <2>2
<1>10. IntendedClaims'
  BY <1>0 DEF IntendedClaims
<1>. QED
  BY <1>6, <1>7, <1>8, <1>9, <1>10 DEF IInv

LEMMA CreateTemplateIInv ==
  ASSUME IInv, NEW p \in Pod, CreateTemplate(p)
  PROVE  IInv'
<1>0. TypeOK /\ OnlyBuilt /\ NewHasNothing /\ Secured /\ IntendedClaims
  BY DEF IInv
<1>1. CASE Next1(p).name \in DOMAIN templates
  <2>1. /\ pc[p] = "create" /\ pc' = [pc EXCEPT ![p] = "get"]
        /\ UNCHANGED <<configMap, release, changes, process, templates, by, wanted,
                       ensured, claims, bereft>>
    BY <1>1 DEF CreateTemplate
  <2>2. Built' = Built /\ Specs' = Specs
    BY <2>1 DEF Built, Specs
  <2>3. TypeOK'
    BY <1>0, <2>1 DEF TypeOK, PCs
  <2>4. OnlyBuilt'
    BY <1>0, <2>1, <2>2, Zenon DEF OnlyBuilt, Spec1
  <2>5. NewHasNothing' /\ Secured' /\ IntendedClaims'
    <3>1. NewHasNothing'
      BY <1>0, <2>1 DEF NewHasNothing, TypeOK
    <3>. QED
      BY <1>0, <2>1, <3>1 DEF Secured, IntendedClaims, Spec1
  <2>. QED
    BY <2>3, <2>4, <2>5 DEF IInv
<1>2. CASE Next1(p).name \notin DOMAIN templates
  <2>1. /\ pc[p] = "create" /\ Proceed(p)
        /\ UNCHANGED <<configMap, release, changes, process, wanted, claims, bereft>>
        /\ templates' = [n \in DOMAIN templates \union {Next1(p).name} |->
                           IF n = Next1(p).name
                           THEN [claim |-> Next1(p).claim, release |-> Next1(p).release]
                           ELSE templates[n]]
    BY <1>2 DEF CreateTemplate
  <2>2. /\ DOMAIN templates' = DOMAIN templates \union {Next1(p).name}
        /\ templates'[Next1(p).name] = Spec1(Next1(p))
        /\ \A n \in DOMAIN templates : templates'[n] = templates[n]
    BY <1>2, <2>1 DEF Spec1
  <2>. QED
    BY <2>1, <2>2, ProceedIInv
<1>. QED
  BY <1>1, <1>2

LEMMA GetTemplateIInv ==
  ASSUME IInv, NEW p \in Pod, GetTemplate(p)
  PROVE  IInv'
<1>1. CASE SameSpec(p)
  <2>1. /\ pc[p] = "get" /\ Proceed(p)
        /\ UNCHANGED <<configMap, release, changes, process, templates, wanted, claims, bereft>>
        /\ Next1(p).name \in DOMAIN templates /\ templates[Next1(p).name] = Spec1(Next1(p))
    BY <1>1 DEF GetTemplate, SameSpec, Spec1
  <2>. QED
    BY <2>1, ProceedIInv
<1>2. CASE ~SameSpec(p)
  <2>1. Forget({p}) /\ UNCHANGED <<configMap, release, changes, process, templates>>
    BY <1>2 DEF GetTemplate
  <2>. QED
    BY <2>1, ForgetIInv DEF IInv, TypeOK, OnlyBuilt
<1>. QED
  BY <1>1, <1>2

LEMMA RestartIInv ==
  ASSUME IInv, NEW w \in Replica, Restart(w)
  PROVE  IInv'
<1>0. TypeOK /\ OnlyBuilt
  BY DEF IInv
<1>1. PICK listed \in BOOLEAN :
        process' = [process EXCEPT ![w] = [cfg |-> Loaded(configMap, listed), release |-> release]]
  BY DEF Restart
<1>2. Loaded(configMap, listed) \in Configs
  <2>1. configMap \in ConfigMap /\ (listed = TRUE \/ listed = FALSE)
    BY <1>0 DEF TypeOK
  <2>2. Loaded(configMap, TRUE) \in Configs /\ Loaded(configMap, FALSE) \in Configs
    BY <2>1 DEF Configs
  <2>3. CASE listed = TRUE
    BY <2>2, <2>3, Zenon
  <2>4. CASE listed = FALSE
    BY <2>2, <2>4, Zenon
  <2>. QED
    BY <2>1, <2>3, <2>4
<1>3. release \in 0 .. release
  BY <1>0 DEF TypeOK
<1>4. \A v \in Replica : process'[v].cfg \in Configs /\ process'[v].release \in 0 .. release
  <2>. SUFFICES ASSUME NEW v \in Replica
               PROVE  process'[v].cfg \in Configs /\ process'[v].release \in 0 .. release
    OBVIOUS
  <2>1. CASE v = w
    <3>1. process'[v] = [cfg |-> Loaded(configMap, listed), release |-> release]
      BY <1>0, <1>1, <2>1 DEF TypeOK
    <3>. QED
      BY <1>2, <1>3, <3>1
  <2>2. CASE v # w
    <3>1. process'[v] = process[v]
      BY <1>0, <1>1, <2>2 DEF TypeOK
    <3>. QED
      BY <1>0, <3>1 DEF OnlyBuilt
  <2>. QED
    BY <2>1, <2>2
<1>5. DOMAIN process' = Replica
  BY <1>0, <1>1 DEF TypeOK
<1>6. Forget({p \in Pod : by[p] = w}) /\ UNCHANGED <<configMap, release, changes, templates>>
  BY DEF Restart
<1>. QED
  BY <1>4, <1>5, <1>6, ForgetIInv

\* The controller takes what the name stands for, which Secured says is the pod's own.
LEMMA MakeClaimIInv ==
  ASSUME IInv, NEW p \in Pod, MakeClaim(p)
  PROVE  IInv'
<1>. DEFINE i == Len(claims[p]) + 1
            name == wanted[p][i].name
<1>0. TypeOK /\ OnlyBuilt /\ NewHasNothing /\ Secured /\ IntendedClaims
  BY DEF IInv
<1>1. /\ pc[p] = "stored" /\ Len(claims[p]) < Len(wanted[p]) /\ name \in DOMAIN templates
      /\ claims' = [claims EXCEPT ![p] = Append(claims[p], templates[name])]
      /\ UNCHANGED <<configMap, release, changes, process, templates, doomed, pc, by, wanted,
                     ensured, bereft>>
  BY DEF MakeClaim
<1>2. /\ wanted[p] \in Seq(Built) /\ claims[p] \in Seq(Specs)
      /\ Len(wanted[p]) \in Nat /\ Len(claims[p]) \in Nat
  BY <1>0, LenProperties DEF OnlyBuilt
<1>3. /\ i \in 1 .. Len(wanted[p]) /\ ensured[p] = Len(wanted[p]) /\ wanted[p][i] \in Built
  <2>1. i \in 1 .. Len(wanted[p])
    BY <1>1, <1>2
  <2>. QED
    BY <1>0, <1>1, <1>2, <2>1, ElementOfSeq DEF TypeOK
<1>4. PICK x \in Built : x.name = name /\ templates[name] = Spec1(x)
  BY <1>0, <1>1 DEF OnlyBuilt
<1>5. templates[name].claim = wanted[p][i].claim
  <2>1. x.claim = wanted[p][i].claim
    BY <1>3, <1>4, OneClaimPerName
  <2>. QED
    BY <1>4, <2>1 DEF Spec1
<1>6. templates[name].release = wanted[p][i].release \/ i \in bereft[p]
  <2>1. i \in 1 .. ensured[p] /\ ~(i <= Len(claims[p]))
    BY <1>2, <1>3
  <2>2. i \in bereft[p] \/ templates[name] = Spec1(wanted[p][i])
    BY <1>0, <2>1 DEF Secured
  <2>. QED
    BY <2>2 DEF Spec1
<1>7. templates[name] \in Specs
  BY <1>4 DEF Specs
<1>8. /\ Append(claims[p], templates[name]) \in Seq(Specs)
      /\ Len(Append(claims[p], templates[name])) = i
      /\ \A k \in 1 .. Len(claims[p]) : Append(claims[p], templates[name])[k] = claims[p][k]
      /\ Append(claims[p], templates[name])[i] = templates[name]
  BY <1>2, <1>7, AppendProperties
<1>9. /\ claims'[p] \in Seq(Specs) /\ Len(claims'[p]) = i
      /\ DOMAIN claims'[p] = 1 .. i
      /\ \A k \in 1 .. Len(claims[p]) : claims'[p][k] = claims[p][k]
      /\ claims'[p][i] = templates[name]
      /\ \A q \in Pod \ {p} : claims'[q] = claims[q]
      /\ claims' \in [Pod -> Seq(Specs)]
  <2>1. claims'[p] = Append(claims[p], templates[name]) /\ \A q \in Pod \ {p} : claims'[q] = claims[q]
    BY <1>0, <1>1 DEF OnlyBuilt
  <2>2. claims' \in [Pod -> Seq(Specs)]
    BY <1>0, <1>1, <1>8 DEF OnlyBuilt
  <2>3. DOMAIN Append(claims[p], templates[name]) = 1 .. i
    BY <1>8, LenProperties
  <2>. QED
    BY <1>8, <2>1, <2>2, <2>3
<1>10. Built' = Built /\ Specs' = Specs
  BY <1>1 DEF Built, Specs
<1>11. TypeOK'
  <2>1. \A q \in Pod : Len(claims'[q]) <= ensured'[q]
    BY <1>0, <1>1, <1>2, <1>3, <1>9 DEF TypeOK
  <2>. QED
    BY <1>0, <1>1, <2>1 DEF TypeOK
<1>12. OnlyBuilt'
  BY <1>0, <1>1, <1>9, <1>10, Zenon DEF OnlyBuilt, Spec1
<1>13. NewHasNothing'
  BY <1>0, <1>1, <1>9 DEF NewHasNothing
<1>14. Secured'
  <2>. SUFFICES ASSUME NEW q \in Pod, NEW k \in 1 .. ensured[q]
               PROVE  \/ k <= Len(claims'[q]) \/ k \in bereft[q]
                      \/ /\ wanted[q][k].name \in DOMAIN templates
                         /\ templates[wanted[q][k].name] = Spec1(wanted[q][k])
    BY <1>1 DEF Secured, Spec1
  <2>1. ensured[q] \in Nat
    BY <1>0 DEF TypeOK
  <2>. QED
    BY <1>0, <1>2, <1>9, <2>1 DEF Secured
<1>15. IntendedClaims'
  <2>. SUFFICES ASSUME NEW q \in Pod, NEW k \in DOMAIN claims'[q]
               PROVE  /\ claims'[q][k].claim = wanted[q][k].claim
                      /\ claims'[q][k].release = wanted[q][k].release \/ k \in bereft[q]
    BY <1>1 DEF IntendedClaims
  <2>1. CASE q # p
    BY <1>0, <1>9, <2>1 DEF IntendedClaims
  <2>2. CASE q = p /\ k # i
    <3>1. k \in 1 .. Len(claims[p])
      BY <1>2, <1>9, <2>2
    <3>2. k \in DOMAIN claims[p]
      BY <1>2, <3>1, LenProperties
    <3>. QED
      BY <1>0, <1>9, <2>2, <3>1, <3>2 DEF IntendedClaims
  <2>3. CASE q = p /\ k = i
    BY <1>5, <1>6, <1>9, <2>3
  <2>. QED
    BY <2>1, <2>2, <2>3
<1>. QED
  BY <1>11, <1>12, <1>13, <1>14, <1>15 DEF IInv

\* What is reaped under a pod is bereft; the rest of what it relies on stays.
LEMMA ReapIInv ==
  ASSUME IInv, NEW n, Reap(n)
  PROVE  IInv'
<1>0. TypeOK /\ OnlyBuilt /\ NewHasNothing /\ Secured /\ IntendedClaims
  BY DEF IInv
<1>1. /\ DOMAIN templates' = DOMAIN templates \ {n}
      /\ \A m \in DOMAIN templates \ {n} : templates'[m] = templates[m]
      /\ UNCHANGED <<configMap, release, changes, process, pc, by, wanted, ensured, claims>>
  BY DEF Reap
<1>2. \A p \in Pod : bereft'[p] = bereft[p] \union
        {i \in DOMAIN wanted[p] :
           wanted[p][i].name = n /\ Len(claims[p]) < i /\ i <= ensured[p]}
  BY DEF Reap
<1>3. /\ \A p \in Pod : wanted[p] \in Seq(Built) /\ DOMAIN wanted[p] = 1 .. Len(wanted[p])
                        /\ Len(wanted[p]) \in Nat /\ Len(claims[p]) \in Nat
                        /\ ensured[p] \in Nat /\ ensured[p] <= Len(wanted[p])
  <2>. SUFFICES ASSUME NEW p \in Pod
               PROVE  wanted[p] \in Seq(Built) /\ DOMAIN wanted[p] = 1 .. Len(wanted[p])
                        /\ Len(wanted[p]) \in Nat /\ Len(claims[p]) \in Nat
                        /\ ensured[p] \in Nat /\ ensured[p] <= Len(wanted[p])
    OBVIOUS
  <2>1. wanted[p] \in Seq(Built) /\ claims[p] \in Seq(Specs) /\ ensured[p] \in Nat /\ pc[p] \in PCs
    BY <1>0 DEF OnlyBuilt, TypeOK
  <2>2. /\ DOMAIN wanted[p] = 1 .. Len(wanted[p])
        /\ Len(wanted[p]) \in Nat /\ Len(claims[p]) \in Nat
    BY <2>1, LenProperties
  <2>3. ensured[p] <= Len(wanted[p])
    BY <1>0, <2>1, <2>2 DEF TypeOK, NewHasNothing, PCs
  <2>. QED
    BY <2>1, <2>2, <2>3
<1>4. Built' = Built /\ Specs' = Specs
  BY <1>1 DEF Built, Specs
<1>5. TypeOK'
  BY <1>0, <1>1 DEF TypeOK
<1>6. OnlyBuilt'
  <2>1. bereft' \in [Pod -> SUBSET Nat]
    <3>1. bereft' = [p \in Pod |-> bereft'[p]]
      BY DEF Reap
    <3>2. \A p \in Pod : bereft'[p] \in SUBSET Nat
      <4>. SUFFICES ASSUME NEW p \in Pod PROVE bereft'[p] \in SUBSET Nat
        OBVIOUS
      <4>1. bereft[p] \in SUBSET Nat /\ DOMAIN wanted[p] \subseteq Nat
        BY <1>0, <1>3 DEF OnlyBuilt
      <4>. QED
        BY <1>2, <4>1
    <3>. QED
      BY <3>1, <3>2, Zenon
  <2>2. \A m \in DOMAIN templates' : \E x \in Built : x.name = m /\ templates'[m] = Spec1(x)
    BY <1>0, <1>1 DEF OnlyBuilt
  <2>. QED
    BY <1>0, <1>1, <1>4, <2>1, <2>2, Zenon DEF OnlyBuilt, Spec1
<1>7. NewHasNothing'
  BY <1>0, <1>1, <1>2 DEF NewHasNothing
<1>8. Secured'
  <2>. SUFFICES ASSUME NEW p \in Pod, NEW i \in 1 .. ensured[p],
                      ~(i <= Len(claims[p])), i \notin bereft'[p]
               PROVE  /\ wanted[p][i].name \in DOMAIN templates'
                      /\ templates'[wanted[p][i].name] = Spec1(wanted[p][i])
    BY <1>1 DEF Secured, Spec1
  <2>1. /\ wanted[p][i].name \in DOMAIN templates
        /\ templates[wanted[p][i].name] = Spec1(wanted[p][i])
    BY <1>0, <1>2 DEF Secured
  <2>2. i \in DOMAIN wanted[p] /\ Len(claims[p]) < i /\ i <= ensured[p]
    BY <1>3
  <2>3. wanted[p][i].name # n
    BY <1>2, <2>2
  <2>. QED
    BY <1>1, <2>1, <2>3
<1>9. IntendedClaims'
  BY <1>0, <1>1, <1>2 DEF IntendedClaims
<1>. QED
  BY <1>5, <1>6, <1>7, <1>8, <1>9 DEF IInv

LEMMA UnchangedIInv ==
  ASSUME IInv,
         UNCHANGED <<configMap, release, changes, process, templates, pc, by, wanted, ensured,
                     claims, bereft>>
  PROVE  IInv'
<1>1. TypeOK'
  BY DEF IInv, TypeOK
<1>2. OnlyBuilt'
  <2>1. Built' = Built /\ Specs' = Specs
    BY DEF Built, Specs
  <2>. QED
    BY <2>1 DEF IInv, OnlyBuilt, Spec1
<1>3. NewHasNothing' /\ Secured' /\ IntendedClaims'
  BY DEF IInv, NewHasNothing, Secured, IntendedClaims, Spec1
<1>. QED
  BY <1>1, <1>2, <1>3 DEF IInv

LEMMA NextIInv == IInv /\ [Next]_vars => IInv'
<1>. SUFFICES ASSUME IInv, [Next]_vars PROVE IInv'
  OBVIOUS
<1>0. TypeOK /\ OnlyBuilt
  BY DEF IInv
<1>1. CASE Edit \/ Upgrade
  BY <1>1, ChangeIInv
<1>2. ASSUME NEW w \in Replica, Restart(w) PROVE IInv'
  BY <1>2, RestartIInv
<1>3. ASSUME NEW w \in Replica, NEW p \in Pod, Mutate(w, p) PROVE IInv'
  BY <1>3, MutateIInv
<1>4. ASSUME NEW p \in Pod, CreateTemplate(p) PROVE IInv'
  BY <1>4, CreateTemplateIInv
<1>5. ASSUME NEW p \in Pod, GetTemplate(p) PROVE IInv'
  BY <1>5, GetTemplateIInv
<1>6. ASSUME NEW p \in Pod, Store(p) PROVE IInv'
  <2>1. /\ pc[p] = "answered" /\ pc' = [pc EXCEPT ![p] = "stored"]
        /\ UNCHANGED <<configMap, release, changes, process, templates, doomed, by, wanted,
                       ensured, claims, bereft>>
    BY <1>6 DEF Store
  <2>2. TypeOK'
    BY <1>0, <2>1 DEF TypeOK, PCs
  <2>3. OnlyBuilt'
    BY <1>0, <2>1 DEF OnlyBuilt, Built, Specs, Spec1
  <2>4. NewHasNothing'
    BY <1>0, <2>1 DEF IInv, NewHasNothing, TypeOK
  <2>5. Secured' /\ IntendedClaims'
    BY <2>1 DEF IInv, Secured, IntendedClaims, Spec1
  <2>. QED
    BY <2>2, <2>3, <2>4, <2>5 DEF IInv
<1>7. ASSUME NEW p \in Pod, MakeClaim(p) PROVE IInv'
  BY <1>7, MakeClaimIInv
<1>8. ASSUME NEW p \in Pod, Lose(p) PROVE IInv'
  <2>1. Forget({p}) /\ UNCHANGED <<configMap, release, changes, process, templates>>
    BY <1>8 DEF Lose
  <2>. QED
    BY <1>0, <2>1, ForgetIInv DEF TypeOK, OnlyBuilt
<1>9. ASSUME NEW n, Condemn(n) PROVE IInv'
  <2>1. UNCHANGED <<configMap, release, changes, process, templates, pc, by, wanted, ensured,
                    claims, bereft>>
    BY <1>9 DEF Condemn, podVars
  <2>. QED
    BY <2>1, UnchangedIInv
<1>10. ASSUME NEW n, Reap(n) PROVE IInv'
  BY <1>10, ReapIInv
<1>11. CASE UNCHANGED vars
  <2>1. UNCHANGED <<configMap, release, changes, process, templates, pc, by, wanted, ensured,
                    claims, bereft>>
    BY <1>11 DEF vars, podVars
  <2>. QED
    BY <2>1, UnchangedIInv
<1>. QED
  BY <1>1, <1>2, <1>3, <1>4, <1>5, <1>6, <1>7, <1>8, <1>9, <1>10, <1>11 DEF Next

-----------------------------------------------------------------------------
(***************************************************************************)
(* Types hold; and a mutation under way has a template to make sure of     *)
(* (ensureClaimTemplate, internal/webhook/mutator.go).                     *)
(***************************************************************************)
THEOREM TemplatesTypeOK == Spec => []TypeOK
<1>1. IInv => TypeOK
  BY DEF IInv
<1>. QED
  BY <1>1, InitIInv, NextIInv, PTL DEF Spec

(***************************************************************************)
(* A pod's claims are those its own mutation built, whatever is edited,    *)
(* upgraded, restarted or reaped meanwhile.                                *)
(***************************************************************************)
THEOREM TemplatesIntendedClaims == Spec => []IntendedClaims
<1>1. IInv => IntendedClaims
  BY DEF IInv
<1>. QED
  BY <1>1, InitIInv, NextIInv, PTL DEF Spec

(***************************************************************************)
(* Two templates of one name differ in their release at most, so nothing   *)
(* else gets a pod denied.                                                 *)
(***************************************************************************)
THEOREM TemplatesDivergesByRelease == Spec => []DivergesByRelease
<1>1. IInv => DivergesByRelease
  <2>. SUFFICES ASSUME IInv, NEW p \in Pod, NEW n \in DOMAIN templates,
                      NEW i \in DOMAIN wanted[p], n = wanted[p][i].name
               PROVE  templates[n].claim = wanted[p][i].claim
    BY DEF DivergesByRelease
  <2>1. wanted[p] \in Seq(Built)
    BY DEF IInv, OnlyBuilt
  <2>2. wanted[p][i] \in Built
    BY <2>1, LenProperties, ElementOfSeq
  <2>3. PICK x \in Built : x.name = n /\ templates[n] = Spec1(x)
    BY DEF IInv, OnlyBuilt
  <2>4. x.claim = wanted[p][i].claim
    BY <2>2, <2>3, OneClaimPerName
  <2>. QED
    BY <2>3, <2>4 DEF Spec1
<1>. QED
  BY <1>1, InitIInv, NextIInv, PTL DEF Spec

(***************************************************************************)
(* A stored pod finds its templates, unless one was deleted after the      *)
(* webhook had made sure of it.                                            *)
(***************************************************************************)
THEOREM TemplatesTemplatesThere == Spec => []TemplatesThere
<1>1. IInv => TemplatesThere
  <2>. SUFFICES ASSUME IInv, NEW p \in Pod, pc[p] = "stored", NEW i \in DOMAIN wanted[p]
               PROVE  \/ i <= Len(claims[p]) \/ i \in bereft[p]
                      \/ wanted[p][i].name \in DOMAIN templates
    BY DEF TemplatesThere
  <2>1. wanted[p] \in Seq(Built) /\ ensured[p] = Len(wanted[p])
    BY DEF IInv, OnlyBuilt, TypeOK
  <2>2. i \in 1 .. ensured[p]
    BY <2>1, LenProperties
  <2>. QED
    BY <2>2 DEF IInv, Secured
<1>. QED
  BY <1>1, InitIInv, NextIInv, PTL DEF Spec
=============================================================================
