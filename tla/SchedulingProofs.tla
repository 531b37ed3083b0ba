--------------------------- MODULE SchedulingProofs ---------------------------
(***************************************************************************)
(* What a placement becomes, for all clusters and configurations that      *)
(* agree with each other.                                                  *)
(***************************************************************************)
EXTENDS Preflight, AllocatorProofs, NodeConstraintsProofs, WellFoundedInduction

\* The allocator and the environment take the steps they take in Allocator.
LEMMA SchedNextIsStep == [SchedNext]_schedVars => Step
<1>. SUFFICES ASSUME [SchedNext]_schedVars PROVE Step
  OBVIOUS
<1>1. ASSUME NEW w \in Replica, NEW p \in Pod, AllocatePairs(w, p) PROVE Step
  BY <1>1 DEF AllocatePairs, Step, Next
<1>2. ASSUME NEW p \in Pod, Schedule(p) PROVE Step
  BY <1>2 DEF Schedule, Step
<1>3. ASSUME NEW p \in Pod, Release(p) PROVE Step
  BY <1>3 DEF Release, Step, Next
<1>4. ASSUME Tick \/ \E p \in Pod : Create(p) \/ Recreate(p) PROVE Step
  BY <1>4 DEF Step, Next
<1>5. CASE UNCHANGED schedVars
  BY <1>5 DEF schedVars, Step
<1>. QED
  BY <1>1, <1>2, <1>3, <1>4, <1>5 DEF SchedNext

\* What the proofs about Allocator give in every environment.
Placements0 == IInv /\ FitsSoFar /\ PlacementFits

LEMMA InitPlacements0 == SchedInit => Placements0
  BY InitIInv DEF SchedInit, Placements0, Init, FitsSoFar, PlacementFits, Unsettled, Placed

LEMMA NextPlacements0 == Placements0 /\ [SchedNext]_schedVars => Placements0'
  BY SchedNextIsStep, NextIInv, NextPlacementFits DEF Placements0

LEMMA SchedPlacements0 == SchedSpec => []Placements0
  BY InitPlacements0, NextPlacements0, PTL DEF SchedSpec

-----------------------------------------------------------------------------
(***************************************************************************)
(* Booking.                                                                *)
(***************************************************************************)

\* Booking counts as Allocator does.
LEMMA SameCardinality ==
  ASSUME NEW S
  PROVE  Promise!Cardinality(S) = Cardinality(S)
  BY DEF Promise!Cardinality, Cardinality

\* What one process that keeps running gives beside, with prompt pods and working lists.
Booked == Placements0 /\ Tracked /\ NoDoubleBooking

LEMMA InitBooked == SchedInit => Booked
  BY InitPlacements0
  DEF SchedInit, Init, Booked, Tracked, NoDoubleBooking, Unsettled, Placed

LEMMA NextBooked ==
  ASSUME NEW w0, Replica = {w0}, Prompt, ~ListsFail, ~Restarts,
         Booked, [SchedNext]_schedVars
  PROVE  Booked'
<1>1. Step /\ Placements0'
  BY SchedNextIsStep, NextPlacements0 DEF Booked
<1>2. TypeOK /\ IInv /\ Tracked /\ NoDoubleBooking
  BY DEF Booked, Placements0, IInv
<1>3. Tracked'
  BY <1>1, <1>2, NextTracked
<1>4. NoDoubleBooking'
  BY <1>1, <1>2, NextNoDoubleBooking
<1>. QED
  BY <1>1, <1>3, <1>4 DEF Booked

\* Spec => Promise!Spec, with one process, prompt pods and lists that succeed: every
\* step of the allocator books all of a pod's NICs, or gives all back, or does neither.
THEOREM SchedulingImplementsBooking ==
  ASSUME NEW w0, Replica = {w0}, Prompt, ~ListsFail, ~Restarts
  PROVE  SchedSpec => ImplementsBooking
<1>1. SchedInit => Booked /\ Promise!Init
  BY InitBooked DEF SchedInit, Init, Promise!Init
<1>2. Booked /\ [SchedNext]_schedVars => Booked'
  BY NextBooked
<1>3. Booked /\ Booked' /\ [SchedNext]_schedVars => [Promise!Next]_slots
  <2>. SUFFICES ASSUME Booked, Booked', [SchedNext]_schedVars
               PROVE  (\E p \in Pod : Promise!Book(p) \/ Promise!GiveBack(p)) \/ slots' = slots
    BY DEF Promise!Next
  <2>1. TypeOK /\ OthersHaveNoSlots /\ TypeOK' /\ OthersHaveNoSlots'
    BY DEF Booked, Placements0, IInv
  <2>2. ASSUME NEW w \in Replica, NEW p \in Pod, AllocatePairs(w, p)
        PROVE  Promise!Book(p)
    <3>1. Allocate(w, p) /\ status[p] = "new" /\ status' = [status EXCEPT ![p] = "mutated"]
      BY <2>2 DEF AllocatePairs, Allocate
    <3>2. PICK n \in Node, listed \in ListResults : \E S \in SUBSET FreeSlots(w, listed) :
            slots' = [slots EXCEPT ![p] = S]
      BY <2>1, <3>1, AllocatePlaces
    <3>3. PICK S : slots' = [slots EXCEPT ![p] = S]
      BY <3>2
    <3>4. /\ slots'[p] = S /\ Placed(p)' /\ slots[p] = {}
          /\ \A q \in Pod : q # p => slots'[q] = slots[q] /\ status'[q] = status[q]
      BY <2>1, <3>1, <3>3 DEF TypeOK, Placed, OthersHaveNoSlots
    <3>5. S \subseteq NIC /\ Cardinality(S) = Pairs[p] /\ \A s, t \in S : s[1] = t[1]
      BY <2>1, <3>4 DEF Booked, Placements0, PlacementFits, On
    <3>6. ASSUME NEW q \in Pod PROVE S \intersect slots[q] = {}
      <4>1. CASE q = p
        BY <3>4, <4>1
      <4>2. CASE q # p /\ Placed(q)'
        BY <3>4, <4>2 DEF Booked, NoDoubleBooking
      <4>3. CASE q # p /\ ~Placed(q)'
        <5>1. status[q] \in Statuses /\ status'[q] = status[q]
          BY <2>1, <3>4, <4>3 DEF TypeOK
        <5>2. status[q] \in {"new", "mutating", "gone"}
          BY <4>3, <5>1 DEF Placed, Statuses
        <5>. QED
          BY <2>1, <5>2 DEF OthersHaveNoSlots
      <4>. QED
        BY <4>1, <4>2, <4>3
    <3>7. S \in SUBSET (NIC \ UNION {slots[q] : q \in Pod})
      BY <3>5, <3>6
    <3>8. \E T \in SUBSET (NIC \ UNION {slots[q] : q \in Pod}) :
            /\ Cardinality(T) = Pairs[p]
            /\ \A s, t \in T : s[1] = t[1]
            /\ slots' = [slots EXCEPT ![p] = T]
      BY <3>3, <3>5, <3>7, Zenon
    <3>. QED
      BY <3>4, <3>8, SameCardinality, Zenon DEF Promise!Book
  <2>3. ASSUME NEW p \in Pod, Release(p) PROVE Promise!GiveBack(p)
    BY <2>3 DEF Release, Reject, Delete, Forget, Promise!GiveBack
  <2>4. ASSUME NEW p \in Pod, Schedule(p) PROVE slots' = slots
    BY <2>4 DEF Schedule, Settle
  <2>5. ASSUME Tick \/ \E p \in Pod : Create(p) \/ Recreate(p) PROVE slots' = slots
    BY <2>5 DEF Tick, Create, Recreate
  <2>6. CASE UNCHANGED schedVars
    BY <2>6 DEF schedVars, vars, podVars
  <2>. QED
    BY <2>2, <2>3, <2>4, <2>5, <2>6 DEF SchedNext
<1>. QED
  BY <1>1, <1>2, <1>3, PTL DEF SchedSpec, ImplementsBooking, Promise!Spec

-----------------------------------------------------------------------------
(***************************************************************************)
(* From slots to devices.                                                  *)
(***************************************************************************)

\* A pod that is placed has its slots in some order, and a pod that is bound, and no
\* other, holds devices of its node that satisfy the claims of these slots.
ChosenOrdered ==
  /\ DOMAIN chosen = Pod
  /\ \A p \in Pod : Placed(p) => chosen[p] \in Orders(mode, slots[p])

HoldsClaims(p) ==
  /\ DOMAIN held[p] = DOMAIN chosen[p]
  /\ \A i \in DOMAIN chosen[p] :
       held[p][i] \in Satisfying(mode, ClaimSpec(mode, chosen[p][i], i - 1), On(Device, node[p]))

HeldSatisfies ==
  /\ DOMAIN held = Pod
  /\ \A p \in Pod : IF status[p] = "bound" THEN HoldsClaims(p) ELSE held[p] = <<>>

SInv == Placements0 /\ ChosenOrdered /\ HeldSatisfies

LEMMA SatisfyingMonotone ==
  ASSUME NEW m, NEW spec, NEW D, NEW E, D \subseteq E
  PROVE  Satisfying(m, spec, D) \subseteq Satisfying(m, spec, E)
  BY DEF Satisfying

LEMMA AllocationsSatisfy ==
  ASSUME NEW p, NEW f \in Allocations(p)
  PROVE  /\ DOMAIN f = DOMAIN chosen[p]
         /\ \A i \in DOMAIN chosen[p] :
              f[i] \in Satisfying(mode, ClaimSpec(mode, chosen[p][i], i - 1), On(Device, node[p]))
<1>. DEFINE D == {d \in Device \ HeldBy(Pod) : d[1] = node[p]}
            ways == [i \in DOMAIN Claims(p) |-> Satisfying(mode, Claims(p)[i], D)]
<1>1. /\ f \in [DOMAIN ways -> UNION {ways[i] : i \in DOMAIN ways}]
      /\ \A i \in DOMAIN ways : f[i] \in ways[i]
  BY DEF Allocations
<1>2. /\ DOMAIN ways = DOMAIN chosen[p]
      /\ \A i \in DOMAIN chosen[p] :
           ways[i] = Satisfying(mode, ClaimSpec(mode, chosen[p][i], i - 1), D)
  BY DEF Claims
<1>3. D \subseteq On(Device, node[p])
  BY DEF On
<1>. HIDE DEF D, ways
<1>. QED
  BY <1>1, <1>2, <1>3, SatisfyingMonotone

LEMMA InitSInv == SchedInit => SInv
<1>. SUFFICES ASSUME SchedInit PROVE ChosenOrdered /\ HeldSatisfies
  BY InitPlacements0 DEF SInv
<1>1. /\ chosen = [p \in Pod |-> <<>>] /\ held = [p \in Pod |-> <<>>]
      /\ status = [p \in Pod |-> "new"]
  BY DEF SchedInit, Init
<1>. QED
  BY <1>1 DEF ChosenOrdered, HeldSatisfies, Placed

\* What the claims of pods look like depends on the mode, the slots and their order.
LEMMA OthersKeep ==
  ASSUME SInv, UNCHANGED mode, DOMAIN chosen' = Pod, DOMAIN held' = Pod, NEW q \in Pod,
         Placed(q)' => Placed(q), status'[q] = "bound" => status[q] = "bound",
         status'[q] # "bound" => held'[q] = held[q] /\ status[q] # "bound",
         slots'[q] = slots[q], chosen'[q] = chosen[q], held'[q] = held[q], node'[q] = node[q]
  PROVE  /\ Placed(q)' => chosen'[q] \in Orders(mode, slots[q])'
         /\ IF status'[q] = "bound" THEN HoldsClaims(q)' ELSE held'[q] = <<>>
<1>1. Placed(q)' => chosen'[q] \in Orders(mode, slots[q])'
  BY DEF SInv, ChosenOrdered
<1>2. IF status'[q] = "bound" THEN HoldsClaims(q)' ELSE held'[q] = <<>>
  BY DEF SInv, HeldSatisfies, HoldsClaims
<1>. QED
  BY <1>1, <1>2

LEMMA NextSInv == SInv /\ [SchedNext]_schedVars => SInv'
<1>. SUFFICES ASSUME SInv, [SchedNext]_schedVars PROVE ChosenOrdered' /\ HeldSatisfies'
  BY NextPlacements0 DEF SInv
<1>0. TypeOK /\ DOMAIN chosen = Pod /\ DOMAIN held = Pod
  BY DEF SInv, Placements0, IInv, ChosenOrdered, HeldSatisfies
<1>1. ASSUME NEW w \in Replica, NEW p \in Pod, AllocatePairs(w, p)
      PROVE  ChosenOrdered' /\ HeldSatisfies'
  <2>1. /\ Allocate(w, p) /\ status[p] = "new" /\ status' = [status EXCEPT ![p] = "mutated"]
        /\ UNCHANGED <<mode, held>>
    BY <1>1 DEF AllocatePairs, Allocate
  <2>2. PICK f \in Orders(mode, slots'[p]) : chosen' = [chosen EXCEPT ![p] = f]
    BY <1>1 DEF AllocatePairs
  <2>3. PICK n \in Node, listed \in ListResults : \E S \in SUBSET FreeSlots(w, listed) :
          /\ node' = [node EXCEPT ![p] = n]
          /\ slots' = [slots EXCEPT ![p] = S]
          /\ pending' = [pending EXCEPT ![w] =
                           [s \in NIC |-> IF s \in S THEN 0 ELSE pending[w][s]]]
    BY <1>0, <2>1, AllocatePlaces
  <2>4. /\ DOMAIN chosen' = Pod /\ chosen'[p] = f /\ status'[p] = "mutated"
        /\ DOMAIN held' = Pod
        /\ \A q \in Pod : q # p =>
             /\ chosen'[q] = chosen[q] /\ status'[q] = status[q] /\ slots'[q] = slots[q]
             /\ node'[q] = node[q] /\ held'[q] = held[q] /\ Placed(q)' = Placed(q)
    BY <1>0, <2>1, <2>2, <2>3 DEF TypeOK, Placed
  <2>5. f \in Orders(mode, slots[p])'
    BY <2>1, <2>2
  <2>6. held'[p] = <<>>
    BY <2>1 DEF SInv, HeldSatisfies
  <2>7. \A q \in Pod : q # p =>
          /\ Placed(q)' => chosen'[q] \in Orders(mode, slots[q])'
          /\ IF status'[q] = "bound" THEN HoldsClaims(q)' ELSE held'[q] = <<>>
    BY <2>1, <2>4, OthersKeep
  <2>. QED
    BY <2>4, <2>5, <2>6, <2>7 DEF ChosenOrdered, HeldSatisfies
<1>2. ASSUME NEW p \in Pod, Schedule(p) PROVE ChosenOrdered' /\ HeldSatisfies'
  <2>1. /\ status[p] = "created" /\ status' = [status EXCEPT ![p] = "bound"]
        /\ UNCHANGED <<mode, slots, node, chosen>>
    BY <1>2 DEF Schedule, Settle
  <2>2. PICK f \in Allocations(p) : held' = [held EXCEPT ![p] = f]
    BY <1>2 DEF Schedule
  <2>3. /\ DOMAIN held' = Pod /\ held'[p] = f /\ status'[p] = "bound"
        /\ \A q \in Pod : q # p =>
             /\ held'[q] = held[q] /\ status'[q] = status[q] /\ Placed(q)' = Placed(q)
    BY <1>0, <2>1, <2>2 DEF TypeOK, Placed
  <2>4. HoldsClaims(p)'
    <3>1. /\ DOMAIN f = DOMAIN chosen[p]
          /\ \A i \in DOMAIN chosen[p] :
               f[i] \in Satisfying(mode, ClaimSpec(mode, chosen[p][i], i - 1), On(Device, node[p]))
      BY AllocationsSatisfy
    <3>. QED
      BY <2>1, <2>3, <3>1 DEF HoldsClaims
  <2>5. chosen'[p] \in Orders(mode, slots[p])'
    BY <2>1 DEF SInv, ChosenOrdered, Placed
  <2>6. \A q \in Pod : q # p =>
          /\ Placed(q)' => chosen'[q] \in Orders(mode, slots[q])'
          /\ IF status'[q] = "bound" THEN HoldsClaims(q)' ELSE held'[q] = <<>>
    BY <1>0, <2>1, <2>3, OthersKeep
  <2>. QED
    BY <1>0, <2>1, <2>3, <2>4, <2>5, <2>6 DEF ChosenOrdered, HeldSatisfies
<1>3. ASSUME NEW p \in Pod, Release(p) PROVE ChosenOrdered' /\ HeldSatisfies'
  <2>1. /\ status' = [status EXCEPT ![p] = "gone"] /\ UNCHANGED mode
        /\ slots' = [slots EXCEPT ![p] = {}] /\ node' = [node EXCEPT ![p] = NoNode]
        /\ chosen' = [chosen EXCEPT ![p] = <<>>] /\ held' = [held EXCEPT ![p] = <<>>]
    BY <1>3 DEF Release, Reject, Delete, Forget
  <2>2. /\ DOMAIN chosen' = Pod /\ DOMAIN held' = Pod
        /\ status'[p] = "gone" /\ held'[p] = <<>>
        /\ \A q \in Pod : q # p =>
             /\ chosen'[q] = chosen[q] /\ status'[q] = status[q] /\ slots'[q] = slots[q]
             /\ node'[q] = node[q] /\ held'[q] = held[q] /\ Placed(q)' = Placed(q)
    BY <1>0, <2>1 DEF TypeOK, Placed
  <2>3. ~Placed(p)'
    BY <2>2 DEF Placed
  <2>4. \A q \in Pod : q # p =>
          /\ Placed(q)' => chosen'[q] \in Orders(mode, slots[q])'
          /\ IF status'[q] = "bound" THEN HoldsClaims(q)' ELSE held'[q] = <<>>
    BY <2>1, <2>2, OthersKeep
  <2>. QED
    BY <2>2, <2>3, <2>4 DEF ChosenOrdered, HeldSatisfies
<1>4. ASSUME UNCHANGED <<mode, slots, node, chosen, held>>,
             \A q \in Pod : /\ Placed(q)' => Placed(q)
                            /\ status'[q] = "bound" <=> status[q] = "bound"
      PROVE  ChosenOrdered' /\ HeldSatisfies'
  <2>1. \A q \in Pod :
          /\ Placed(q)' => chosen'[q] \in Orders(mode, slots[q])'
          /\ IF status'[q] = "bound" THEN HoldsClaims(q)' ELSE held'[q] = <<>>
    BY <1>0, <1>4, OthersKeep
  <2>. QED
    BY <1>0, <1>4, <2>1 DEF ChosenOrdered, HeldSatisfies
<1>5. ASSUME Tick \/ \E p \in Pod : Create(p) \/ Recreate(p), UNCHANGED <<chosen, held>>
      PROVE  ChosenOrdered' /\ HeldSatisfies'
  BY <1>0, <1>4, <1>5 DEF Tick, Create, Recreate, TypeOK, Placed
<1>6. CASE UNCHANGED schedVars
  BY <1>4, <1>6 DEF schedVars, vars, podVars, Placed
<1>. QED
  BY <1>1, <1>2, <1>3, <1>5, <1>6 DEF SchedNext

LEMMA SchedSInv == SchedSpec => []SInv
  BY InitSInv, NextSInv, PTL DEF SchedSpec

\* What the scheduler may allocate to the claim of a slot.
LEMMA SatisfyingRole ==
  ASSUME NEW m, NEW spec, NEW n, NEW a \in Satisfying(m, spec, On(Device, n)),
         NEW role \in DOMAIN spec.requests
  PROVE  /\ a[role] \in Device /\ a[role][1] = n
         /\ DeviceClass[a[role]] = spec.requests[role].class
         /\ spec.requests[role].selectors \subseteq Attributes[m][a[role]]
  BY DEF Satisfying, On

LEMMA EthernetClaim ==
  ASSUME NEW s \in NIC, NEW k,
         NEW a \in Satisfying("ethernet", ClaimSpec("ethernet", s, k), On(Device, s[1]))
  PROVE  a["nic"] = s /\ PCIeRoot[a["gpu"]] = PCIeRoot[a["nic"]]
<1>. DEFINE cfg == Config["ethernet"]
            spec == BuildSinglePairClaimSpec(k, s[2], cfg)
<1>1. spec = ClaimSpec("ethernet", s, k)
  BY DEF ClaimSpec
<1>2. /\ ~cfg.infiniband /\ s[2] \in DOMAIN cfg.rails
      /\ \A d \in Device :
           /\ d[1] = s[1] /\ DeviceClass[d] = cfg.nicClass
           /\ <<"ipv4Prefix", cfg.rails[s[2]].ipv4Prefix>> \in Attributes["ethernet"][d]
           /\ cfg.rdmaRequired => <<"rdma", "true">> \in Attributes["ethernet"][d]
           => d = s
  BY ClusterAssumption DEF EthernetRails
<1>3. /\ DOMAIN spec.requests = {"gpu", "nic"} /\ spec.matchRoot
      /\ spec.requests["nic"].class = cfg.nicClass
      /\ spec.requests["nic"].selectors = buildNICSelectors(s[2], cfg)
  BY <1>2 DEF BuildSinglePairClaimSpec, Request
<1>4. /\ <<"ipv4Prefix", cfg.rails[s[2]].ipv4Prefix>> \in buildNICSelectors(s[2], cfg)
      /\ cfg.rdmaRequired => <<"rdma", "true">> \in buildNICSelectors(s[2], cfg)
  BY <1>2 DEF buildNICSelectors
<1>5. /\ a["nic"] \in Device /\ a["nic"][1] = s[1]
      /\ DeviceClass[a["nic"]] = cfg.nicClass
      /\ buildNICSelectors(s[2], cfg) \subseteq Attributes["ethernet"][a["nic"]]
  <2>. HIDE DEF spec, cfg
  <2>. QED
    BY <1>1, <1>3, SatisfyingRole
<1>6. a["nic"] = s
  <2>. HIDE DEF cfg
  <2>. QED
    BY <1>2, <1>4, <1>5
<1>7. PCIeRoot[a["gpu"]] = PCIeRoot[a["nic"]]
  <2>. HIDE DEF spec, cfg
  <2>. QED
    BY <1>1, <1>3 DEF Satisfying
<1>. QED
  BY <1>6, <1>7

LEMMA InfiniBandClaim ==
  ASSUME NEW s \in NIC, NEW k,
         NEW a \in Satisfying("infiniband", ClaimSpec("infiniband", s, k), On(Device, s[1]))
  PROVE  a["nic"] = s /\ PCIeRoot[a["gpu"]] = PCIeRoot[a["nic"]]
<1>. DEFINE cfg == Config["infiniband"]
            spec == BuildSinglePairClaimSpec(k, s[2], cfg)
<1>1. spec = ClaimSpec("infiniband", s, k)
  BY DEF ClaimSpec
<1>2. /\ cfg.infiniband /\ s[2] \in DOMAIN cfg.ibRails
      /\ \A d \in Device : d[1] = s[1] =>
           /\ /\ DeviceClass[d] = cfg.nicClass
              /\ <<"rdma", "true">> \in Attributes["infiniband"][d]
              /\ <<"pciAddress", cfg.ibRails[s[2]].nic>> \in Attributes["infiniband"][d]
              => d = s
           /\ /\ DeviceClass[d] = cfg.gpuClass
              /\ <<"pciBusID", cfg.ibRails[s[2]].gpu>> \in Attributes["infiniband"][d]
              => PCIeRoot[d] = PCIeRoot[s]
  BY ClusterAssumption DEF InfiniBandRails
<1>3. /\ DOMAIN spec.requests = {"gpu", "nic"}
      /\ spec.requests["nic"].class = cfg.nicClass
      /\ spec.requests["nic"].selectors = buildNICSelectors(s[2], cfg)
      /\ spec.requests["gpu"].class = cfg.gpuClass
      /\ spec.requests["gpu"].selectors = buildIBGPUSelectors(s[2], cfg)
  BY <1>2 DEF BuildSinglePairClaimSpec, Request
<1>4. /\ <<"rdma", "true">> \in buildNICSelectors(s[2], cfg)
      /\ <<"pciAddress", cfg.ibRails[s[2]].nic>> \in buildNICSelectors(s[2], cfg)
      /\ <<"pciBusID", cfg.ibRails[s[2]].gpu>> \in buildIBGPUSelectors(s[2], cfg)
  BY <1>2 DEF buildNICSelectors, buildIBNICSelectors, buildIBGPUSelectors
<1>5. /\ a["nic"] \in Device /\ a["nic"][1] = s[1]
      /\ DeviceClass[a["nic"]] = cfg.nicClass
      /\ buildNICSelectors(s[2], cfg) \subseteq Attributes["infiniband"][a["nic"]]
      /\ a["gpu"] \in Device /\ a["gpu"][1] = s[1]
      /\ DeviceClass[a["gpu"]] = cfg.gpuClass
      /\ buildIBGPUSelectors(s[2], cfg) \subseteq Attributes["infiniband"][a["gpu"]]
  <2>. HIDE DEF spec, cfg
  <2>. QED
    BY <1>1, <1>3, SatisfyingRole
<1>. HIDE DEF cfg
<1>. QED
  BY <1>2, <1>4, <1>5

LEMMA ExplicitClaim ==
  ASSUME NEW s \in NIC, NEW k,
         NEW a \in Satisfying("explicit", ClaimSpec("explicit", s, k), On(Device, s[1]))
  PROVE  /\ a["nic"] = NICOf("explicit", s)
         /\ PCIeRoot[a["gpu"]] = PCIeRoot[a["nic"]]
<1>. DEFINE cfg == Config["explicit"]
            pin(role) == buildDevicePinSelector(cfg.deviceSelectors[role], PairOf(s).devices[role])
            pinned(role) == {d \in Device : d[1] = s[1] /\ pin(role) \in Attributes["explicit"][d]}
            spec == BuildExplicitPairClaimSpec(k, PairOf(s), cfg)
<1>1. spec = ClaimSpec("explicit", s, k)
  BY DEF ClaimSpec
<1>2. /\ {"gpu", "nic"} \subseteq DOMAIN cfg.deviceSelectors
      /\ \E d \in NIC : /\ pinned("nic") = {d}
                        /\ \A g \in pinned("gpu") : PCIeRoot[g] = PCIeRoot[d]
  BY ClusterAssumption DEF ExplicitPools
<1>3. PICK d \in NIC : /\ pinned("nic") = {d}
                       /\ \A g \in pinned("gpu") : PCIeRoot[g] = PCIeRoot[d]
  BY <1>2
<1>4. /\ DOMAIN spec.requests = DOMAIN cfg.deviceSelectors
      /\ \A role \in DOMAIN cfg.deviceSelectors : pin(role) \in spec.requests[role].selectors
  BY DEF BuildExplicitPairClaimSpec, Request
<1>5. \A role \in {"gpu", "nic"} : a[role] \in pinned(role)
  <2>. SUFFICES ASSUME NEW role \in {"gpu", "nic"} PROVE a[role] \in pinned(role)
    OBVIOUS
  <2>1. role \in DOMAIN spec.requests /\ pin(role) \in spec.requests[role].selectors
    BY <1>2, <1>4
  <2>2. /\ a[role] \in Device /\ a[role][1] = s[1]
        /\ spec.requests[role].selectors \subseteq Attributes["explicit"][a[role]]
    <3>. HIDE DEF spec
    <3>. QED
      BY <1>1, <2>1, SatisfyingRole
  <2>. HIDE DEF spec, pin
  <2>. QED
    BY <2>1, <2>2
<1>6. NICOf("explicit", s) = d
  <2>1. \A e \in NIC : e \in Device
    BY DEF Device
  <2>2. NICOf("explicit", s) = CHOOSE e \in NIC : e \in pinned("nic")
    BY <2>1 DEF NICOf
  <2>. HIDE DEF pinned
  <2>. QED
    BY <1>3, <2>2
<1>. HIDE DEF pinned
<1>. QED
  BY <1>3, <1>5, <1>6

LEMMA ClaimGetsNIC ==
  ASSUME NEW m \in Modes, NEW s \in NIC, NEW k,
         NEW a \in Satisfying(m, ClaimSpec(m, s, k), On(Device, s[1]))
  PROVE  a["nic"] = NICOf(m, s) /\ PCIeRoot[a["gpu"]] = PCIeRoot[a["nic"]]
<1>1. CASE m = "ethernet"
  BY <1>1, EthernetClaim DEF NICOf
<1>2. CASE m = "infiniband"
  BY <1>2, InfiniBandClaim DEF NICOf
<1>3. CASE m = "explicit"
  BY <1>3, ExplicitClaim
<1>. QED
  BY <1>1, <1>2, <1>3 DEF Modes

\* An order of slots names each of them once.
LEMMA OrdersAreOrders ==
  ASSUME NEW m, NEW S, IsFiniteSet(S), NEW f \in Orders(m, S)
  PROVE  /\ DOMAIN f = 1 .. Cardinality(S)
         /\ {f[i] : i \in DOMAIN f} = S
         /\ \A i, j \in DOMAIN f : i # j => f[i] # f[j]
<1>. DEFINE n == Cardinality(S)
<1>1. n \in Nat
  BY FS_CardinalityType
<1>2. /\ f \in [1 .. n -> S]
      /\ \A i, j \in 1 .. n : i < j => f[i] # f[j]
  BY DEF Orders
<1>3. \A i, j \in 1 .. n : i # j => f[i] # f[j]
  BY <1>1, <1>2
<1>4. f \in Injection(1 .. n, S)
  BY <1>2, <1>3, Fun_IsInj
<1>5. IsFiniteSet(1 .. n) /\ Cardinality(1 .. n) = n
  BY <1>1, FS_Interval
<1>6. f \in Surjection(1 .. n, S)
  <2>. HIDE DEF n
  <2>1. Cardinality(1 .. n) = Cardinality(S)
    BY <1>5 DEF n
  <2>. QED
    BY <1>4, <2>1, FS_Injection
<1>7. \A t \in S : \E i \in 1 .. n : f[i] = t
  BY <1>6 DEF Surjection
<1>. QED
  BY <1>2, <1>3, <1>7

\* What is held is what was reserved, in every state of the invariant.
LEMMA BoundHoldsNICs ==
  ASSUME SInv, NEW p \in Pod, status[p] = "bound"
  PROVE  /\ DOMAIN held[p] = DOMAIN chosen[p] /\ DOMAIN chosen[p] = 1 .. Cardinality(slots[p])
         /\ {chosen[p][i] : i \in DOMAIN chosen[p]} = slots[p]
         /\ \A i, j \in DOMAIN chosen[p] : i # j => chosen[p][i] # chosen[p][j]
         /\ \A i \in DOMAIN chosen[p] :
              /\ chosen[p][i] \in NIC /\ chosen[p][i][1] = node[p]
              /\ held[p][i]["nic"] = NICOf(mode, chosen[p][i])
              /\ PCIeRoot[held[p][i]["gpu"]] = PCIeRoot[held[p][i]["nic"]]
<1>1. TypeOK /\ Placed(p) /\ HoldsClaims(p)
  BY DEF SInv, Placements0, IInv, HeldSatisfies, Placed
<1>2. slots[p] \subseteq On(NIC, node[p]) /\ slots[p] \subseteq NIC
  BY <1>1 DEF SInv, Placements0, PlacementFits, On
<1>3. IsFiniteSet(slots[p])
  BY <1>2, AllocatorAssumption, FS_Subset
<1>4. chosen[p] \in Orders(mode, slots[p])
  BY <1>1 DEF SInv, ChosenOrdered
<1>5. /\ DOMAIN chosen[p] = 1 .. Cardinality(slots[p])
      /\ {chosen[p][i] : i \in DOMAIN chosen[p]} = slots[p]
      /\ \A i, j \in DOMAIN chosen[p] : i # j => chosen[p][i] # chosen[p][j]
  BY <1>3, <1>4, OrdersAreOrders
<1>6. ASSUME NEW i \in DOMAIN chosen[p]
      PROVE  /\ chosen[p][i] \in NIC /\ chosen[p][i][1] = node[p]
             /\ held[p][i]["nic"] = NICOf(mode, chosen[p][i])
             /\ PCIeRoot[held[p][i]["gpu"]] = PCIeRoot[held[p][i]["nic"]]
  <2>1. chosen[p][i] \in NIC /\ chosen[p][i][1] = node[p]
    BY <1>2, <1>5 DEF On
  <2>2. held[p][i] \in Satisfying(mode, ClaimSpec(mode, chosen[p][i], i - 1),
                                  On(Device, chosen[p][i][1]))
    BY <1>1, <2>1 DEF HoldsClaims
  <2>3. mode \in Modes
    BY <1>1 DEF TypeOK
  <2>. QED
    BY <2>1, <2>2, <2>3, ClaimGetsNIC
<1>7. DOMAIN held[p] = DOMAIN chosen[p]
  BY <1>1 DEF HoldsClaims
<1>. QED
  BY <1>5, <1>6, <1>7

\* Spec => []HeldAsReserved: if addresses name one NIC of a node and go with the GPUs of
\* its root, the scheduler allocates the very NICs that were reserved, with their GPUs.
THEOREM SchedulingHeldAsReserved == SchedSpec => []HeldAsReserved
<1>1. SInv => HeldAsReserved
  BY BoundHoldsNICs DEF HeldAsReserved
<1>. QED
  BY <1>1, SchedSInv, PTL

-----------------------------------------------------------------------------
(***************************************************************************)
(* Interfaces and routing tables.                                          *)
(***************************************************************************)

RailOf(m, s) == IF m = "explicit" THEN PairOf(s).rail ELSE s[2]

\* The parameters speak of the subnets of the rail and of its table, or the main table.
LEMMA ParametersOfRail ==
  ASSUME NEW k, NEW rail, NEW cfg, NEW given, given = buildNICParameters(k, rail, cfg)
  PROVE  /\ given.interface = <<cfg.interfacePrefix, k>>
         /\ cfg.infiniband => given.rules = {} /\ given.routes = {}
         /\ \A r \in given.rules :
              /\ r.table = tableOf(k, rail, cfg)
              /\ r.source \in (IF rail \in DOMAIN cfg.rails
                               THEN {cfg.rails[rail].subnet} ELSE cfg.sourceSubnet)
         /\ \A q \in given.routes : q.table \in {tableOf(k, rail, cfg), MainTable}
  BY DEF buildNICParameters

\* Every claim of a pair has the parameters of its NIC.
LEMMA ParametersOfClaim ==
  ASSUME NEW m \in Modes, NEW s \in NIC, NEW k
  PROVE  (CHOOSE x \in ClaimSpec(m, s, k).params : TRUE)
           = buildNICParameters(k, RailOf(m, s), Config[m])
<1>. SUFFICES ClaimSpec(m, s, k).params = {buildNICParameters(k, RailOf(m, s), Config[m])}
  OBVIOUS
<1>1. CASE m = "explicit"
  <2>1. "nic" \in DOMAIN Config["explicit"].deviceSelectors
    BY ClusterAssumption DEF ExplicitPools
  <2>. QED
    BY <1>1, <2>1 DEF ClaimSpec, BuildExplicitPairClaimSpec, RailOf
<1>2. CASE m # "explicit"
  BY <1>2 DEF ClaimSpec, BuildSinglePairClaimSpec, RailOf
<1>. QED
  BY <1>1, <1>2

\* No two NICs of a pod share a routing table: their rails differ, or their positions.
LEMMA TablesDiffer ==
  ASSUME NEW m \in Modes, ~Config[m].infiniband, NEW s \in NIC, NEW t \in NIC,
         s # t, s[1] = t[1], NEW k \in Nat, NEW l \in Nat, k # l
  PROVE  tableOf(k, RailOf(m, s), Config[m]) # tableOf(l, RailOf(m, t), Config[m])
<1>. DEFINE cfg == Config[m]
            railed(x) == RailOf(m, x) \in DOMAIN cfg.rails
<1>1. /\ cfg.startingTableID \in Nat
      /\ railed(s) => RailOf(m, s) \in Nat
      /\ railed(t) => RailOf(m, t) \in Nat
      /\ railed(s) <=> railed(t)
      /\ railed(s) => RailOf(m, s) # RailOf(m, t)
  BY ClusterAssumption, Zenon DEF SubnetRails, RailOf
<1>. QED
  BY <1>1 DEF tableOf

\* A rule speaks of a subnet the NIC of the slot is on.
LEMMA SourceOfNIC ==
  ASSUME NEW m \in Modes, ~Config[m].infiniband, NEW s \in NIC,
         NEW net \in (IF RailOf(m, s) \in DOMAIN Config[m].rails
                      THEN {Config[m].rails[RailOf(m, s)].subnet} ELSE Config[m].sourceSubnet)
  PROVE  <<"subnet", net>> \in Attributes[m][NICOf(m, s)]
  BY ClusterAssumption, Zenon DEF SubnetRails, RailOf

LEMMA SInvNICsConfigured == SInv => NICsConfigured
<1>. SUFFICES ASSUME SInv, NEW p \in Pod, status[p] = "bound"
             PROVE  LET claims == Claims(p)
                        given(i) == CHOOSE x \in claims[i].params : TRUE
                        tables(i) == {r.table : r \in given(i).rules} \union
                                     {r.table : r \in {q \in given(i).routes : q.table # MainTable}}
                    IN  /\ \A i, j \in DOMAIN claims : i # j =>
                             /\ given(i).interface # given(j).interface
                             /\ tables(i) \intersect tables(j) = {}
                        /\ \A i \in DOMAIN claims : \A r \in given(i).rules :
                             <<"subnet", r.source>> \in Attributes[mode][held[p][i]["nic"]]
  BY Zenon DEF NICsConfigured
<1>. DEFINE claims == Claims(p)
            given(i) == CHOOSE x \in claims[i].params : TRUE
            tables(i) == {r.table : r \in given(i).rules} \union
                         {r.table : r \in {q \in given(i).routes : q.table # MainTable}}
            cfg == Config[mode]
            rail(i) == RailOf(mode, chosen[p][i])
            table(i) == tableOf(i - 1, rail(i), cfg)
<1>1. mode \in Modes
  BY DEF SInv, Placements0, IInv, TypeOK
<1>2. /\ DOMAIN chosen[p] = 1 .. Cardinality(slots[p])
      /\ \A i, j \in DOMAIN chosen[p] : i # j => chosen[p][i] # chosen[p][j]
      /\ \A i \in DOMAIN chosen[p] :
           /\ chosen[p][i] \in NIC /\ chosen[p][i][1] = node[p]
           /\ held[p][i]["nic"] = NICOf(mode, chosen[p][i])
  BY BoundHoldsNICs
<1>3. DOMAIN claims = DOMAIN chosen[p]
  BY DEF Claims
<1>4. ASSUME NEW i \in DOMAIN chosen[p]
      PROVE  /\ i - 1 \in Nat /\ i \in Nat
             /\ given(i) = buildNICParameters(i - 1, rail(i), cfg)
  <2>1. claims[i] = ClaimSpec(mode, chosen[p][i], i - 1) /\ i - 1 \in Nat /\ i \in Nat
    <3>1. Cardinality(slots[p]) \in Nat
      BY AllocatorAssumption, FS_Subset, FS_CardinalityType
      DEF SInv, Placements0, IInv, TypeOK
    <3>. QED
      BY <1>2, <3>1 DEF Claims
  <2>. HIDE DEF claims
  <2>. QED
    BY <1>1, <1>2, <2>1, ParametersOfClaim
<1>. HIDE DEF claims, given
<1>5. ASSUME NEW i \in DOMAIN chosen[p]
      PROVE  /\ given(i).interface = <<cfg.interfacePrefix, i - 1>>
             /\ cfg.infiniband => given(i).rules = {} /\ given(i).routes = {}
             /\ \A r \in given(i).rules :
                  /\ r.table = table(i)
                  /\ r.source \in (IF rail(i) \in DOMAIN cfg.rails
                                   THEN {cfg.rails[rail(i)].subnet} ELSE cfg.sourceSubnet)
             /\ \A q \in given(i).routes : q.table \in {table(i), MainTable}
  <2>1. given(i) = buildNICParameters(i - 1, rail(i), cfg)
    BY <1>4
  <2>. HIDE DEF rail, cfg
  <2>. QED
    BY <2>1, ParametersOfRail
<1>6. ASSUME NEW i \in DOMAIN chosen[p]
      PROVE  tables(i) \subseteq {table(i)} /\ (cfg.infiniband => tables(i) = {})
  <2>. HIDE DEF table, cfg, rail
  <2>. QED
    BY <1>5
<1>7. ASSUME NEW i \in DOMAIN chosen[p], NEW j \in DOMAIN chosen[p], i # j
      PROVE  given(i).interface # given(j).interface /\ tables(i) \intersect tables(j) = {}
  <2>1. i - 1 # j - 1
    BY <1>4, <1>7
  <2>2. given(i).interface # given(j).interface
    <3>1. /\ given(i).interface = <<cfg.interfacePrefix, i - 1>>
          /\ given(j).interface = <<cfg.interfacePrefix, j - 1>>
      BY <1>5
    <3>. HIDE DEF cfg
    <3>. QED
      BY <2>1, <3>1
  <2>3. ~cfg.infiniband => table(i) # table(j)
    BY <1>1, <1>2, <1>4, <1>7, <2>1, TablesDiffer
  <2>. HIDE DEF table, tables
  <2>. QED
    BY <1>6, <2>2, <2>3
<1>8. ASSUME NEW i \in DOMAIN chosen[p], NEW r \in given(i).rules
      PROVE  <<"subnet", r.source>> \in Attributes[mode][held[p][i]["nic"]]
  <2>1. ~cfg.infiniband
    BY <1>5, <1>8
  <2>2. r.source \in (IF rail(i) \in DOMAIN cfg.rails
                      THEN {cfg.rails[rail(i)].subnet} ELSE cfg.sourceSubnet)
    BY <1>5
  <2>3. <<"subnet", r.source>> \in Attributes[mode][NICOf(mode, chosen[p][i])]
    BY <1>1, <1>2, <2>1, <2>2, SourceOfNIC
  <2>. QED
    BY <1>2, <2>3
<1>. QED
  BY <1>3, <1>7, <1>8 DEF given, claims

\* Spec => []NICsConfigured: with subnets and rails that agree with the cluster, the NICs
\* of a running pod have interfaces and tables of their own, on the subnets of their rules.
THEOREM SchedulingNICsConfigured == SchedSpec => []NICsConfigured
  BY SchedSInv, SInvNICsConfigured, PTL

-----------------------------------------------------------------------------
(***************************************************************************)
(* The claims of an admitted pod can be allocated at once.                 *)
(***************************************************************************)

\* The requests for a slot do not depend on the position of the NIC.
LEMMA RequestsOfSlot ==
  ASSUME NEW m, NEW s, NEW k
  PROVE  /\ ClaimSpec(m, s, k).requests = Requests(m, s)
         /\ ClaimSpec(m, s, k).matchRoot = ClaimSpec(m, s, 0).matchRoot
  BY DEF Requests, ClaimSpec, BuildSinglePairClaimSpec, BuildExplicitPairClaimSpec

\* What is allocated is a candidate for a slot of a pod that is bound.
LEMMA HeldAreCandidates ==
  ASSUME SInv, NEW d \in HeldBy(Pod)
  PROVE  \E q \in Pod : /\ status[q] = "bound"
                        /\ \E i \in DOMAIN chosen[q] : \E role \in DOMAIN Requests(mode, chosen[q][i]) :
                             /\ d = held[q][i][role]
                             /\ d \in Candidates(mode, chosen[q][i], role)
<1>1. PICK q \in Pod : \E i \in DOMAIN held[q] : \E role \in DOMAIN held[q][i] : d = held[q][i][role]
  BY DEF HeldBy, DevicesOf
<1>2. PICK i \in DOMAIN held[q] : \E role \in DOMAIN held[q][i] : d = held[q][i][role]
  BY <1>1
<1>3. status[q] = "bound"
  <2>1. DOMAIN <<>> = {}
    OBVIOUS
  <2>. QED
    BY <1>2, <2>1 DEF SInv, HeldSatisfies
<1>4. i \in DOMAIN chosen[q] /\ chosen[q][i][1] = node[q]
  BY <1>2, <1>3, BoundHoldsNICs
<1>5. held[q][i] \in Satisfying(mode, ClaimSpec(mode, chosen[q][i], i - 1), On(Device, node[q]))
  BY <1>3, <1>4 DEF SInv, HeldSatisfies, HoldsClaims
<1>. DEFINE spec == ClaimSpec(mode, chosen[q][i], i - 1)
<1>6. spec.requests = Requests(mode, chosen[q][i])
  BY RequestsOfSlot
<1>7. DOMAIN held[q][i] = DOMAIN spec.requests
  BY <1>5 DEF Satisfying
<1>8. PICK role \in DOMAIN spec.requests : d = held[q][i][role]
  BY <1>2, <1>7
<1>9. /\ d \in Device /\ d[1] = node[q]
      /\ DeviceClass[d] = spec.requests[role].class
      /\ spec.requests[role].selectors \subseteq Attributes[mode][d]
  <2>. HIDE DEF spec
  <2>1. held[q][i] \in Satisfying(mode, spec, On(Device, node[q]))
    BY <1>5 DEF spec
  <2>. QED
    BY <1>8, <2>1, SatisfyingRole
<1>10. d \in Candidates(mode, chosen[q][i], role)
  BY <1>4, <1>6, <1>9 DEF Candidates
<1>. QED
  BY <1>3, <1>4, <1>6, <1>8, <1>10

\* A free candidate for each request of each slot, all different, is an allocation.
LEMMA Assignment ==
  ASSUME SInv, NEW p \in Pod, status[p] = "created", NEW c,
         \A s \in slots[p] : \A r \in DOMAIN Requests(mode, s) :
           /\ c[s][r] \in Candidates(mode, s, r) \ HeldBy(Pod)
           /\ \A t \in slots[p] : \A u \in DOMAIN Requests(mode, t) :
                c[s][r] = c[t][u] => s = t /\ r = u
           /\ ClaimSpec(mode, s, 0).matchRoot =>
                \A u \in DOMAIN Requests(mode, s) : PCIeRoot[c[s][r]] = PCIeRoot[c[s][u]]
  PROVE  Allocations(p) # {}
<1>. DEFINE D == {d \in Device \ HeldBy(Pod) : d[1] = node[p]}
            ways == [i \in DOMAIN Claims(p) |-> Satisfying(mode, Claims(p)[i], D)]
            slot(i) == chosen[p][i]
            f == [i \in DOMAIN chosen[p] |-> [r \in DOMAIN Requests(mode, slot(i)) |-> c[slot(i)][r]]]
<1>1. /\ {slot(i) : i \in DOMAIN chosen[p]} = slots[p]
      /\ \A i, j \in DOMAIN chosen[p] : i # j => slot(i) # slot(j)
      /\ \A s \in slots[p] : s[1] = node[p]
  <2>1. Placed(p) /\ TypeOK
    BY DEF Placed, SInv, Placements0, IInv
  <2>2. slots[p] \subseteq On(NIC, node[p]) /\ slots[p] \subseteq NIC
    BY <2>1 DEF SInv, Placements0, PlacementFits, On
  <2>3. IsFiniteSet(slots[p])
    BY <2>2, AllocatorAssumption, FS_Subset
  <2>4. chosen[p] \in Orders(mode, slots[p])
    BY <2>1 DEF SInv, ChosenOrdered
  <2>. QED
    BY <2>2, <2>3, <2>4, OrdersAreOrders DEF On
<1>2. /\ DOMAIN ways = DOMAIN chosen[p]
      /\ \A i \in DOMAIN chosen[p] : ways[i] = Satisfying(mode, ClaimSpec(mode, slot(i), i - 1), D)
  BY DEF Claims
<1>3. ASSUME NEW i \in DOMAIN chosen[p] PROVE f[i] \in ways[i]
  <2>. DEFINE spec == ClaimSpec(mode, slot(i), i - 1)
              a == f[i]
  <2>1. spec.requests = Requests(mode, slot(i)) /\ spec.matchRoot = ClaimSpec(mode, slot(i), 0).matchRoot
    BY RequestsOfSlot
  <2>2. slot(i) \in slots[p] /\ slot(i)[1] = node[p]
    BY <1>1
  <2>3. /\ a \in [DOMAIN Requests(mode, slot(i)) -> D]
        /\ \A r \in DOMAIN Requests(mode, slot(i)) :
             /\ DeviceClass[a[r]] = Requests(mode, slot(i))[r].class
             /\ Requests(mode, slot(i))[r].selectors \subseteq Attributes[mode][a[r]]
        /\ \A r, u \in DOMAIN Requests(mode, slot(i)) : r # u =>
             a[r] # a[u] /\ (ClaimSpec(mode, slot(i), 0).matchRoot => PCIeRoot[a[r]] = PCIeRoot[a[u]])
    <3>1. \A r \in DOMAIN Requests(mode, slot(i)) : a[r] = c[slot(i)][r]
      OBVIOUS
    <3>2. a = [r \in DOMAIN Requests(mode, slot(i)) |-> a[r]]
      OBVIOUS
    <3>3. \A r \in DOMAIN Requests(mode, slot(i)) :
            /\ a[r] \in Candidates(mode, slot(i), r) /\ a[r] \notin HeldBy(Pod)
            /\ \A u \in DOMAIN Requests(mode, slot(i)) :
                 /\ a[r] = a[u] => r = u
                 /\ ClaimSpec(mode, slot(i), 0).matchRoot => PCIeRoot[a[r]] = PCIeRoot[a[u]]
      BY <2>2, <3>1
    <3>. HIDE DEF a
    <3>. QED
      BY <2>2, <3>2, <3>3 DEF Candidates
  <2>4. a \in Satisfying(mode, spec, D)
    <3>. HIDE DEF a, spec, D
    <3>. QED
      BY <2>1, <2>3 DEF Satisfying
  <2>. QED
    BY <1>2, <2>4
<1>4. ASSUME NEW i \in DOMAIN chosen[p], NEW j \in DOMAIN chosen[p], i # j
      PROVE  DevicesOf(f[i]) \intersect DevicesOf(f[j]) = {}
  <2>1. slot(i) \in slots[p] /\ slot(j) \in slots[p] /\ slot(i) # slot(j)
    BY <1>1, <1>4
  <2>2. ASSUME NEW r \in DOMAIN Requests(mode, slot(i)), NEW u \in DOMAIN Requests(mode, slot(j))
        PROVE  c[slot(i)][r] # c[slot(j)][u]
    BY <2>1
  <2>3. /\ DOMAIN f[i] = DOMAIN Requests(mode, slot(i)) /\ DOMAIN f[j] = DOMAIN Requests(mode, slot(j))
        /\ \A r \in DOMAIN f[i], u \in DOMAIN f[j] : f[i][r] # f[j][u]
    BY <2>2
  <2>. HIDE DEF f
  <2>. QED
    BY <2>3 DEF DevicesOf
<1>5. DOMAIN f = DOMAIN chosen[p] /\ f = [i \in DOMAIN f |-> f[i]]
  OBVIOUS
<1>6. f \in Allocations(p)
  <2>1. Allocations(p) = {g \in [DOMAIN ways -> UNION {ways[i] : i \in DOMAIN ways}] :
                            /\ \A i \in DOMAIN ways : g[i] \in ways[i]
                            /\ \A i, j \in DOMAIN ways : i # j => DevicesOf(g[i]) \intersect DevicesOf(g[j]) = {}}
    BY Zenon DEF Allocations
  <2>2. f \in [DOMAIN ways -> UNION {ways[i] : i \in DOMAIN ways}]
    <3>. HIDE DEF f, ways
    <3>. QED
      BY <1>2, <1>3, <1>5
  <2>. HIDE DEF f, ways
  <2>3. \A i \in DOMAIN ways : f[i] \in ways[i]
    BY <1>2, <1>3
  <2>4. \A i, j \in DOMAIN ways : i # j => DevicesOf(f[i]) \intersect DevicesOf(f[j]) = {}
    BY <1>2, <1>4
  <2>. QED
    BY <2>1, <2>2, <2>3, <2>4, Zenon
<1>. QED
  BY <1>6

\* A slot is in use as soon as one of its devices is held, where these are pinned.
LEMMA PinnedHeldInUse ==
  ASSUME SInv, mode \in {"infiniband", "explicit"}, NEW s \in NIC,
         NEW r \in DOMAIN Requests(mode, s), NEW d \in Candidates(mode, s, r), d \in HeldBy(Pod)
  PROVE  s \in InUse
<1>1. PICK q \in Pod : /\ status[q] = "bound"
                       /\ \E i \in DOMAIN chosen[q] : \E u \in DOMAIN Requests(mode, chosen[q][i]) :
                            d = held[q][i][u] /\ d \in Candidates(mode, chosen[q][i], u)
  BY HeldAreCandidates
<1>2. PICK i \in DOMAIN chosen[q] : \E u \in DOMAIN Requests(mode, chosen[q][i]) :
                                      d \in Candidates(mode, chosen[q][i], u)
  BY <1>1
<1>. DEFINE t == chosen[q][i]
<1>3. t \in NIC /\ t \in slots[q]
  BY <1>1, BoundHoldsNICs
<1>. HIDE DEF t
<1>4. PICK u \in DOMAIN Requests(mode, t) : d \in Candidates(mode, t, u)
  BY <1>2 DEF t
<1>5. s[1] = t[1]
  BY <1>4 DEF Candidates
<1>6. s = t
  BY <1>3, <1>4, <1>5, SupplyAssumption DEF DevicesApart
<1>. QED
  BY <1>1, <1>3, <1>6 DEF InUse

LEMMA WaitingNotInUse ==
  ASSUME Booked, NEW p \in Pod, status[p] = "created"
  PROVE  slots[p] \intersect InUse = {}
  BY DEF Booked, NoDoubleBooking, InUse, Placed

\* Where devices are pinned by address, nobody else asks for those of a slot.
LEMMA PinnedCanRun ==
  ASSUME Booked, SInv, NEW p \in Pod, status[p] = "created", mode \in {"infiniband", "explicit"}
  PROVE  Allocations(p) # {}
<1>. DEFINE any(s, r) == CHOOSE d \in Candidates(mode, s, r) : TRUE
            c == [s \in slots[p] |-> [r \in DOMAIN Requests(mode, s) |-> any(s, r)]]
<1>1. /\ TypeOK /\ mode \in Modes /\ slots[p] \subseteq NIC
      /\ \A s \in slots[p] : s[1] = node[p]
  BY DEF SInv, Placements0, IInv, TypeOK, PlacementFits, Placed, On
<1>2. ASSUME NEW s \in slots[p], NEW r \in DOMAIN Requests(mode, s)
      PROVE  c[s][r] \in Candidates(mode, s, r)
  <2>1. Candidates(mode, s, r) # {}
    BY <1>1, SupplyAssumption DEF DevicesThere
  <2>. QED
    BY <2>1
<1>. HIDE DEF c
<1>3. ASSUME NEW s \in NIC, NEW r \in DOMAIN Requests(mode, s),
             NEW t \in NIC, NEW u \in DOMAIN Requests(mode, t),
             NEW d \in Candidates(mode, s, r), d \in Candidates(mode, t, u)
      PROVE  s = t /\ r = u
  <2>1. s[1] = t[1]
    BY <1>3 DEF Candidates
  <2>. QED
    BY <1>3, <2>1, SupplyAssumption DEF DevicesApart
<1>4. ASSUME NEW s \in slots[p], NEW r \in DOMAIN Requests(mode, s)
      PROVE  c[s][r] \notin HeldBy(Pod)
  BY <1>1, <1>2, PinnedHeldInUse, WaitingNotInUse
<1>5. ASSUME NEW s \in slots[p] PROVE ~ClaimSpec(mode, s, 0).matchRoot
  BY ClusterAssumption DEF ClaimSpec, BuildSinglePairClaimSpec, BuildExplicitPairClaimSpec, InfiniBandRails
<1>6. \A s \in slots[p] : \A r \in DOMAIN Requests(mode, s) :
        /\ c[s][r] \in Candidates(mode, s, r) \ HeldBy(Pod)
        /\ \A t \in slots[p] : \A u \in DOMAIN Requests(mode, t) :
             c[s][r] = c[t][u] => s = t /\ r = u
        /\ ClaimSpec(mode, s, 0).matchRoot =>
             \A u \in DOMAIN Requests(mode, s) : PCIeRoot[c[s][r]] = PCIeRoot[c[s][u]]
  <2>. SUFFICES ASSUME NEW s \in slots[p], NEW r \in DOMAIN Requests(mode, s),
                       NEW t \in slots[p], NEW u \in DOMAIN Requests(mode, t), c[s][r] = c[t][u]
               PROVE  s = t /\ r = u
    BY <1>2, <1>4, <1>5
  <2>. QED
    BY <1>1, <1>2, <1>3
<1>. QED
  BY <1>6, Assignment

-----------------------------------------------------------------------------
(***************************************************************************)
(* On Ethernet any GPU of a NIC's root will do.  As many are in use as     *)
(* NICs of the root are, so there is one left for each slot.               *)
(***************************************************************************)
LEMMA InjectionOfSmaller ==
  ASSUME NEW A, IsFiniteSet(A), NEW B, IsFiniteSet(B), Cardinality(A) <= Cardinality(B)
  PROVE  Injection(A, B) # {}
<1>. DEFINE a == Cardinality(A)
            b == Cardinality(B)
<1>1. a \in Nat /\ b \in Nat /\ ExistsBijection(1 .. a, A) /\ ExistsBijection(1 .. b, B)
  BY FS_CardinalityType
<1>2. a <= b
  OBVIOUS
<1>. HIDE DEF a, b
<1>3. ExistsInjection(A, 1 .. a) /\ ExistsInjection(1 .. b, B)
  BY <1>1, Fun_ExistsBijEquiv
<1>4. ExistsInjection(1 .. a, 1 .. b)
  BY <1>1, <1>2, Fun_NatInjLeq
<1>5. ExistsInjection(A, 1 .. b)
  BY <1>3, <1>4, Fun_ExistsInjTransitive
<1>6. ExistsInjection(A, B)
  BY <1>3, <1>5, Fun_ExistsInjTransitive
<1>. QED
  BY <1>6, Fun_ExistsInj

\* The requests for a rail on Ethernet.
LEMMA EthernetRequests ==
  ASSUME NEW s \in NIC
  PROVE  /\ DOMAIN Requests("ethernet", s) = {"gpu", "nic"}
         /\ Requests("ethernet", s)["gpu"].class = Config["ethernet"].gpuClass
         /\ Requests("ethernet", s)["gpu"].selectors = {}
         /\ Requests("ethernet", s)["nic"].class = Config["ethernet"].nicClass
         /\ Candidates("ethernet", s, "nic") = {s}
<1>. DEFINE cfg == Config["ethernet"]
            spec == BuildSinglePairClaimSpec(0, s[2], cfg)
<1>1. Requests("ethernet", s) = spec.requests
  BY DEF Requests, ClaimSpec
<1>2. /\ ~cfg.infiniband /\ s[2] \in DOMAIN cfg.rails
      /\ \A d \in Device :
           /\ d[1] = s[1] /\ DeviceClass[d] = cfg.nicClass
           /\ <<"ipv4Prefix", cfg.rails[s[2]].ipv4Prefix>> \in Attributes["ethernet"][d]
           /\ cfg.rdmaRequired => <<"rdma", "true">> \in Attributes["ethernet"][d]
           => d = s
  BY ClusterAssumption DEF EthernetRails
<1>3. /\ DOMAIN spec.requests = {"gpu", "nic"}
      /\ spec.requests["gpu"].class = cfg.gpuClass
      /\ spec.requests["gpu"].selectors = {}
      /\ spec.requests["nic"].class = cfg.nicClass
      /\ spec.requests["nic"].selectors = buildNICSelectors(s[2], cfg)
  BY <1>2 DEF BuildSinglePairClaimSpec, Request
<1>4. /\ <<"ipv4Prefix", cfg.rails[s[2]].ipv4Prefix>> \in buildNICSelectors(s[2], cfg)
      /\ cfg.rdmaRequired => <<"rdma", "true">> \in buildNICSelectors(s[2], cfg)
  BY <1>2 DEF buildNICSelectors
<1>. HIDE DEF cfg, spec
<1>5. \A d \in Candidates("ethernet", s, "nic") : d = s
  BY <1>1, <1>2, <1>3, <1>4 DEF Candidates
<1>6. Candidates("ethernet", s, "nic") # {}
  BY <1>1, <1>3, SupplyAssumption DEF DevicesThere, Modes
<1>. QED
  BY <1>1, <1>3, <1>5, <1>6 DEF cfg

\* A slot is in use as soon as its NIC is held.
LEMMA EthernetHeldInUse ==
  ASSUME SInv, mode = "ethernet", NEW s \in NIC, s \in HeldBy(Pod)
  PROVE  s \in InUse
<1>1. PICK q \in Pod : /\ status[q] = "bound"
                       /\ \E i \in DOMAIN chosen[q] : \E u \in DOMAIN Requests(mode, chosen[q][i]) :
                            s = held[q][i][u] /\ s \in Candidates(mode, chosen[q][i], u)
  BY HeldAreCandidates
<1>2. PICK i \in DOMAIN chosen[q] : \E u \in DOMAIN Requests("ethernet", chosen[q][i]) :
                                      s \in Candidates("ethernet", chosen[q][i], u)
  BY <1>1
<1>. DEFINE t == chosen[q][i]
<1>3. t \in NIC /\ t \in slots[q]
  BY <1>1, BoundHoldsNICs
<1>. HIDE DEF t
<1>4. PICK u \in DOMAIN Requests("ethernet", t) : s \in Candidates("ethernet", t, u)
  BY <1>2 DEF t
<1>5. u # "gpu"
  <2>1. s \in Candidates("ethernet", s, "nic")
    BY EthernetRequests
  <2>2. DeviceClass[s] = Config["ethernet"].nicClass
    BY <2>1, EthernetRequests DEF Candidates
  <2>3. u = "gpu" => DeviceClass[s] = Config["ethernet"].gpuClass
    BY <1>3, <1>4, EthernetRequests DEF Candidates
  <2>. QED
    BY <2>2, <2>3, SupplyAssumption DEF GPUsSuffice
<1>6. s = t
  BY <1>3, <1>4, <1>5, EthernetRequests
<1>. QED
  BY <1>1, <1>3, <1>6 DEF InUse

\* The GPUs of a node, and those a slot may get.
GPUsOf(n) == {d \in Device : d[1] = n /\ DeviceClass[d] = Config["ethernet"].gpuClass}

LEMMA GPUsOfSlot ==
  ASSUME NEW s \in NIC
  PROVE  Candidates("ethernet", s, "gpu") = GPUsOf(s[1])
  BY EthernetRequests DEF Candidates, GPUsOf

\* A GPU that is held goes with a slot that is in use.
GoesWith(g, t) ==
  \E q \in Pod : status[q] = "bound" /\ \E i \in DOMAIN chosen[q] :
    chosen[q][i] = t /\ held[q][i]["gpu"] = g

LEMMA HeldGPUGoesWith ==
  ASSUME SInv, mode = "ethernet", NEW n, NEW R, NEW g \in AtRoot(GPUsOf(n), R) \intersect HeldBy(Pod)
  PROVE  \E t \in AtRoot(On(NIC, n), R) \intersect InUse : GoesWith(g, t)
<1>1. PICK q \in Pod : /\ status[q] = "bound"
                       /\ \E i \in DOMAIN chosen[q] : \E role \in DOMAIN Requests(mode, chosen[q][i]) :
                            /\ g = held[q][i][role]
                            /\ g \in Candidates(mode, chosen[q][i], role)
  BY HeldAreCandidates
<1>2. PICK i \in DOMAIN chosen[q] : \E role \in DOMAIN Requests(mode, chosen[q][i]) :
                                      /\ g = held[q][i][role]
                                      /\ g \in Candidates(mode, chosen[q][i], role)
  BY <1>1
<1>. DEFINE t == chosen[q][i]
<1>3. PICK role \in DOMAIN Requests("ethernet", t) :
        g = held[q][i][role] /\ g \in Candidates("ethernet", t, role)
  BY <1>2
<1>4. /\ t \in NIC /\ t \in slots[q]
      /\ held[q][i]["nic"] = t /\ PCIeRoot[held[q][i]["gpu"]] = PCIeRoot[t]
  BY <1>1, BoundHoldsNICs DEF NICOf
<1>. HIDE DEF t
<1>5. role = "gpu"
  <2>1. role \in {"gpu", "nic"} /\ Requests("ethernet", t)["nic"].class = Config["ethernet"].nicClass
    BY <1>3, <1>4, EthernetRequests
  <2>2. DeviceClass[g] = Requests("ethernet", t)[role].class
    BY <1>3 DEF Candidates
  <2>3. DeviceClass[g] = Config["ethernet"].gpuClass
    BY DEF AtRoot, GPUsOf
  <2>. QED
    BY <2>1, <2>2, <2>3, SupplyAssumption DEF GPUsSuffice
<1>6. g[1] = n /\ PCIeRoot[g] = R /\ g[1] = t[1]
  BY <1>3 DEF AtRoot, GPUsOf, Candidates
<1>7. t \in AtRoot(On(NIC, n), R)
  BY <1>3, <1>4, <1>5, <1>6 DEF AtRoot, On
<1>8. t \in InUse
  BY <1>1, <1>4 DEF InUse
<1>9. GoesWith(g, t)
  BY <1>1, <1>3, <1>5 DEF GoesWith, t
<1>. QED
  BY <1>7, <1>8, <1>9

LEMMA SlotGoesWithOne ==
  ASSUME Booked, SInv, NEW t, NEW g, NEW h, GoesWith(g, t), GoesWith(h, t)
  PROVE  g = h
<1>1. PICK q \in Pod : status[q] = "bound" /\ \E i \in DOMAIN chosen[q] :
        chosen[q][i] = t /\ held[q][i]["gpu"] = g
  BY DEF GoesWith
<1>2. PICK r \in Pod : status[r] = "bound" /\ \E j \in DOMAIN chosen[r] :
        chosen[r][j] = t /\ held[r][j]["gpu"] = h
  BY DEF GoesWith
<1>3. t \in slots[q] /\ t \in slots[r]
  BY <1>1, <1>2, BoundHoldsNICs
<1>4. q = r
  BY <1>1, <1>2, <1>3 DEF Booked, NoDoubleBooking, Placed
<1>5. \A i, j \in DOMAIN chosen[q] : i # j => chosen[q][i] # chosen[q][j]
  BY <1>1, BoundHoldsNICs
<1>. QED
  BY <1>1, <1>2, <1>4, <1>5

LEMMA HeldGPUsCount ==
  ASSUME Booked, SInv, mode = "ethernet", NEW n, NEW R
  PROVE  Cardinality(AtRoot(GPUsOf(n), R) \intersect HeldBy(Pod))
           <= Cardinality(AtRoot(On(NIC, n), R) \intersect InUse)
<1>. DEFINE G == AtRoot(GPUsOf(n), R) \intersect HeldBy(Pod)
            T == AtRoot(On(NIC, n), R) \intersect InUse
            f == [g \in G |-> CHOOSE t \in T : GoesWith(g, t)]
<1>1. \A g \in G : \E t \in T : GoesWith(g, t)
  BY HeldGPUGoesWith
<1>2. IsFiniteSet(T)
  BY AllocatorAssumption, FS_Subset DEF AtRoot, On
<1>. HIDE DEF G, T
<1>3. \A g \in G : f[g] \in T /\ GoesWith(g, f[g])
  BY <1>1
<1>4. f \in [G -> T]
  BY <1>3
<1>. HIDE DEF f
<1>5. \A g, h \in G : f[g] = f[h] => g = h
  BY <1>3, SlotGoesWithOne
<1>6. f \in Injection(G, T)
  BY <1>4, <1>5, Fun_IsInj
<1>7. Cardinality(G) <= Cardinality(T)
  BY <1>2, <1>6, FS_Injection
<1>. QED
  BY <1>7 DEF G, T

\* There is a GPU to be had at each root for every slot of a waiting pod there.
LEMMA GPUsLeft ==
  ASSUME Booked, SInv, mode = "ethernet", NEW p \in Pod, status[p] = "created",
         NEW s \in slots[p]
  PROVE  Injection(AtRoot(slots[p], PCIeRoot[s]),
                   AtRoot(GPUsOf(node[p]), PCIeRoot[s]) \ HeldBy(Pod)) # {}
<1>. DEFINE n == node[p]
            R == PCIeRoot[s]
            nics == AtRoot(On(NIC, n), R)
            gpus == AtRoot(GPUsOf(n), R)
            H == HeldBy(Pod)
            mine == AtRoot(slots[p], R)
<1>1. slots[p] \subseteq On(NIC, n) /\ s \in NIC /\ s[1] = n
  BY DEF SInv, Placements0, PlacementFits, Placed, On
<1>2. slots[p] \intersect InUse = {}
  BY WaitingNotInUse
<1>3. mine \subseteq nics \ InUse
  BY <1>1, <1>2 DEF AtRoot
<1>4. IsFiniteSet(nics) /\ IsFiniteSet(gpus)
  <2>1. nics \in SUBSET NIC /\ gpus \in SUBSET Device
    BY DEF AtRoot, On, GPUsOf
  <2>2. IsFiniteSet(NIC) /\ IsFiniteSet(Device)
    BY AllocatorAssumption, SupplyAssumption
  <2>. HIDE DEF nics, gpus
  <2>. QED
    BY <2>1, <2>2, FS_Subset
<1>5. Cardinality(nics) <= Cardinality(gpus)
  BY <1>1, GPUsOfSlot, SupplyAssumption DEF GPUsSuffice
<1>6. Cardinality(gpus \intersect H) <= Cardinality(nics \intersect InUse)
  BY HeldGPUsCount
<1>. HIDE DEF nics, gpus, mine, H, n, R
<1>7. /\ IsFiniteSet(nics \ InUse)
      /\ Cardinality(nics \ InUse) = Cardinality(nics) - Cardinality(nics \intersect InUse)
      /\ IsFiniteSet(gpus \ H)
      /\ Cardinality(gpus \ H) = Cardinality(gpus) - Cardinality(gpus \intersect H)
  BY <1>4, FS_Difference
<1>8. IsFiniteSet(mine) /\ Cardinality(mine) <= Cardinality(nics \ InUse)
  BY <1>3, <1>7, FS_Subset
<1>9. /\ Cardinality(nics) \in Nat /\ Cardinality(gpus) \in Nat
      /\ Cardinality(nics \intersect InUse) \in Nat /\ Cardinality(gpus \intersect H) \in Nat
      /\ Cardinality(mine) \in Nat
  <2>1. IsFiniteSet(nics \intersect InUse) /\ IsFiniteSet(gpus \intersect H)
    BY <1>4, FS_Intersection
  <2>. QED
    BY <1>4, <1>8, <2>1, FS_CardinalityType
<1>10. Cardinality(mine) <= Cardinality(gpus \ H)
  BY <1>5, <1>6, <1>7, <1>8, <1>9
<1>11. Injection(mine, gpus \ H) # {}
  BY <1>7, <1>8, <1>10, InjectionOfSmaller
<1>. QED
  BY <1>11 DEF mine, gpus, H, n, R

LEMMA EthernetCanRun ==
  ASSUME Booked, SInv, NEW p \in Pod, status[p] = "created", mode = "ethernet"
  PROVE  Allocations(p) # {}
<1>. DEFINE left0(R) == AtRoot(GPUsOf(node[p]), R) \ HeldBy(Pod)
            inj(R) == CHOOSE f \in Injection(AtRoot(slots[p], R), left0(R)) : TRUE
            g(s) == inj(PCIeRoot[s])[s]
            c == [s \in slots[p] |-> [r \in {"gpu", "nic"} |-> IF r = "gpu" THEN g(s) ELSE s]]
<1>1. /\ slots[p] \subseteq NIC /\ \A s \in slots[p] : s[1] = node[p]
  BY DEF SInv, Placements0, PlacementFits, Placed, On
<1>2. ASSUME NEW s \in slots[p]
      PROVE  /\ inj(PCIeRoot[s]) \in Injection(AtRoot(slots[p], PCIeRoot[s]), left0(PCIeRoot[s]))
             /\ s \in AtRoot(slots[p], PCIeRoot[s])
             /\ g(s) \in left0(PCIeRoot[s])
  <2>1. Injection(AtRoot(slots[p], PCIeRoot[s]), left0(PCIeRoot[s])) # {}
    BY GPUsLeft
  <2>2. s \in AtRoot(slots[p], PCIeRoot[s])
    BY DEF AtRoot
  <2>. HIDE DEF left0
  <2>3. inj(PCIeRoot[s]) \in Injection(AtRoot(slots[p], PCIeRoot[s]), left0(PCIeRoot[s]))
    BY <2>1
  <2>. HIDE DEF inj
  <2>4. inj(PCIeRoot[s]) \in [AtRoot(slots[p], PCIeRoot[s]) -> left0(PCIeRoot[s])]
    BY <2>3, Fun_InjectionProperties
  <2>. QED
    BY <2>2, <2>3, <2>4
<1>3. ASSUME NEW s \in slots[p]
      PROVE  g(s) \in GPUsOf(node[p]) /\ PCIeRoot[g(s)] = PCIeRoot[s] /\ g(s) \notin HeldBy(Pod)
  <2>1. g(s) \in left0(PCIeRoot[s])
    BY <1>2
  <2>. HIDE DEF g
  <2>. QED
    BY <2>1 DEF AtRoot
<1>4. ASSUME NEW s \in slots[p], NEW t \in slots[p], g(s) = g(t)
      PROVE  s = t
  <2>1. PCIeRoot[s] = PCIeRoot[t]
    <3>1. PCIeRoot[g(s)] = PCIeRoot[s] /\ PCIeRoot[g(t)] = PCIeRoot[t]
      BY <1>3
    <3>. HIDE DEF g
    <3>. QED
      BY <1>4, <3>1
  <2>. DEFINE f == inj(PCIeRoot[s])
              A == AtRoot(slots[p], PCIeRoot[s])
  <2>2. f \in Injection(A, left0(PCIeRoot[s])) /\ s \in A /\ t \in A
    BY <1>2, <2>1
  <2>3. f[s] = f[t]
    BY <1>4, <2>1
  <2>. HIDE DEF f, A, left0
  <2>. QED
    BY <2>2, <2>3, Fun_InjectionProperties
<1>5. ASSUME NEW s \in slots[p]
      PROVE  s \in Candidates(mode, s, "nic") /\ s \notin HeldBy(Pod)
  BY <1>1, EthernetRequests, EthernetHeldInUse, WaitingNotInUse
<1>6. ASSUME NEW s \in slots[p]
      PROVE  /\ DOMAIN Requests(mode, s) = {"gpu", "nic"}
             /\ c[s]["gpu"] = g(s) /\ c[s]["nic"] = s
             /\ g(s) \in Candidates(mode, s, "gpu") /\ g(s) \notin HeldBy(Pod)
             /\ PCIeRoot[g(s)] = PCIeRoot[s]
  <2>1. DOMAIN Requests(mode, s) = {"gpu", "nic"}
    BY <1>1, EthernetRequests
  <2>2. Candidates(mode, s, "gpu") = GPUsOf(node[p])
    BY <1>1, GPUsOfSlot
  <2>3. g(s) \in GPUsOf(node[p]) /\ PCIeRoot[g(s)] = PCIeRoot[s] /\ g(s) \notin HeldBy(Pod)
    BY <1>3
  <2>. HIDE DEF g
  <2>. QED
    BY <2>1, <2>2, <2>3
<1>7. ASSUME NEW s \in slots[p], NEW t \in slots[p] PROVE g(s) # t
  <2>1. DeviceClass[g(s)] = Config["ethernet"].gpuClass
    <3>1. g(s) \in GPUsOf(node[p])
      BY <1>3
    <3>. HIDE DEF g
    <3>. QED
      BY <3>1 DEF GPUsOf
  <2>2. DeviceClass[t] = Config["ethernet"].nicClass
    BY <1>1, <1>5, EthernetRequests DEF Candidates
  <2>. HIDE DEF g
  <2>. QED
    BY <2>1, <2>2, SupplyAssumption DEF GPUsSuffice
<1>. HIDE DEF c, g
<1>8. \A s \in slots[p] : \A r \in DOMAIN Requests(mode, s) :
        /\ c[s][r] \in Candidates(mode, s, r) \ HeldBy(Pod)
        /\ \A t \in slots[p] : \A u \in DOMAIN Requests(mode, t) :
             c[s][r] = c[t][u] => s = t /\ r = u
        /\ ClaimSpec(mode, s, 0).matchRoot =>
             \A u \in DOMAIN Requests(mode, s) : PCIeRoot[c[s][r]] = PCIeRoot[c[s][u]]
  <2>. SUFFICES ASSUME NEW s \in slots[p], NEW r \in DOMAIN Requests(mode, s)
               PROVE  /\ c[s][r] \in Candidates(mode, s, r) \ HeldBy(Pod)
                      /\ \A t \in slots[p] : \A u \in DOMAIN Requests(mode, t) :
                           c[s][r] = c[t][u] => s = t /\ r = u
                      /\ \A u \in DOMAIN Requests(mode, s) : PCIeRoot[c[s][r]] = PCIeRoot[c[s][u]]
    OBVIOUS
  <2>1. r \in {"gpu", "nic"}
    BY <1>6
  <2>2. c[s][r] \in Candidates(mode, s, r) \ HeldBy(Pod)
    BY <1>5, <1>6, <2>1
  <2>3. \A t \in slots[p] : \A u \in DOMAIN Requests(mode, t) : c[s][r] = c[t][u] => s = t /\ r = u
    BY <1>4, <1>6, <1>7, <2>1
  <2>4. \A u \in DOMAIN Requests(mode, s) : PCIeRoot[c[s][r]] = PCIeRoot[c[s][u]]
    BY <1>6, <2>1
  <2>. QED
    BY <2>2, <2>3, <2>4
<1>. QED
  BY <1>8, Assignment

\* Spec => []AdmittedCanRun: on a cluster with the devices its slots stand for, an
\* admitted pod never waits for devices, and its node is one its constraints allow.
THEOREM SchedulingAdmittedCanRun ==
  ASSUME NEW w0, Replica = {w0}, Prompt, ~ListsFail, ~Restarts,
         \A p \in Pod : \A term \in Constraints[p].terms : CommonTerm(term)
  PROVE  SchedSpec => []AdmittedCanRun
<1>1. Booked /\ [SchedNext]_schedVars => Booked'
  BY NextBooked
<1>2. Booked /\ SInv => AdmittedCanRun
  <2>. SUFFICES ASSUME Booked, SInv, NEW p \in Pod, status[p] = "created"
               PROVE  /\ SchedulerAccepts(Constraints[p], node[p], Label[node[p]])
                      /\ Allocations(p) # {}
    BY DEF AdmittedCanRun
  <2>1. node[p] \in Fits[p]
    BY DEF SInv, Placements0, PlacementFits, Placed
  <2>2. Matches(Constraints[p], node[p], Label[node[p]])
    BY <2>1, FitsAssumption
  <2>3. mode \in Modes
    BY DEF SInv, Placements0, IInv, TypeOK
  <2>4. Allocations(p) # {}
    BY <2>3, PinnedCanRun, EthernetCanRun DEF Modes
  <2>. QED
    BY <2>2, <2>4, MatchesAgree
<1>. QED
  BY <1>1, <1>2, InitBooked, SchedSInv, PTL DEF SchedSpec

-----------------------------------------------------------------------------
(***************************************************************************)
(* Preflight: what can be chosen from more slots.                          *)
(***************************************************************************)
LEMMA LeastOf ==
  ASSUME NEW Z, Z # {}, NEW f, \A z \in Z : f[z] \in Nat
  PROVE  \E z \in Z : \A y \in Z : f[z] <= f[y]
<1>. DEFINE T == {f[z] : z \in Z}
            R == OpToRel(<, Nat)
<1>1. T \subseteq Nat /\ T # {}
  OBVIOUS
<1>2. PICK x \in T : \A y \in T : <<y, x>> \notin R
  <2>. HIDE DEF T, R
  <2>1. IsWellFoundedOn(R, Nat)
    BY NatLessThanWellFounded DEF R
  <2>. QED
    BY <1>1, <2>1, WFMin
<1>3. \A y \in T : ~(y < x)
  BY <1>1, <1>2 DEF OpToRel
<1>4. \A y \in T : x <= y
  <2>. HIDE DEF T, R
  <2>. QED
    BY <1>1, <1>2, <1>3
<1>5. PICK z \in Z : f[z] = x
  BY <1>2
<1>6. \A y \in Z : f[y] \in T
  OBVIOUS
<1>. HIDE DEF T
<1>. QED
  BY <1>4, <1>5, <1>6

LEMMA GreatestOf ==
  ASSUME NEW Z, Z # {}, NEW n \in Nat, NEW f, \A z \in Z : f[z] \in 0 .. n
  PROVE  \E z \in Z : \A y \in Z : f[z] >= f[y]
<1>. DEFINE g == [z \in Z |-> n - f[z]]
<1>1. \A z \in Z : g[z] \in Nat /\ g[z] = n - f[z] /\ f[z] \in Nat
  OBVIOUS
<1>. HIDE DEF g
<1>2. PICK z \in Z : \A y \in Z : g[z] <= g[y]
  BY <1>1, LeastOf
<1>3. ASSUME NEW y \in Z PROVE f[z] >= f[y]
  <2>1. /\ g[z] <= g[y] /\ g[z] = n - f[z] /\ g[y] = n - f[y]
        /\ f[z] \in Nat /\ f[y] \in Nat
    BY <1>1, <1>2, <1>3
  <2>. QED
    BY <2>1
<1>. QED
  BY <1>3

\* The library's fact about intervals, for the set that counts to n.
LEMMA CountsTo ==
  ASSUME NEW n \in Nat
  PROVE  IsFiniteSet(1 .. n) /\ Cardinality(1 .. n) = n
<1>1. /\ IsFiniteSet(1 .. n)
      /\ Cardinality(1 .. n) = IF 1 > n THEN 0 ELSE n - 1 + 1
  BY FS_Interval
<1>. QED
  BY <1>1

LEMMA SubsetOfSize ==
  ASSUME NEW A, IsFiniteSet(A), NEW k \in Nat, k <= Cardinality(A)
  PROVE  kSubset(k, A) # {}
<1>1. IsFiniteSet(1 .. k) /\ Cardinality(1 .. k) = k
  BY CountsTo
<1>2. PICK f \in Injection(1 .. k, A) : TRUE
  BY <1>1, InjectionOfSmaller
<1>3. f \in Bijection(1 .. k, Range(f)) /\ f \in [1 .. k -> A]
  BY <1>2, Fun_InjMeansBijImage, Fun_InjectionProperties
<1>4. Range(f) \subseteq A
  BY <1>3, Fun_RangeProperties
<1>5. ExistsBijection(1 .. k, Range(f))
  BY <1>3, Fun_ExistsBij
<1>6. Cardinality(Range(f)) = k
  BY <1>1, <1>5, FS_Bijection
<1>. QED
  BY <1>4, <1>6 DEF kSubset

\* selectSlots finds slots whenever there are as many that would do.
LEMMA SelectsIfPossible ==
  ASSUME NEW S, IsFiniteSet(S), NEW count \in Nat, NEW aware, NEW T \in SUBSET S,
         Cardinality(T) = count, T # {}, aware => \A s, t \in T : Numa[s] = Numa[t]
  PROVE  selectSlots(S, count, aware) # {}
<1>1. CASE ~aware
  BY <1>1 DEF selectSlots, kSubset
<1>2. CASE aware
  <2>. DEFINE free == [z \in {Numa[s] : s \in S} |-> Cardinality(Zone(S, z))]
              zones == {z \in {Numa[s] : s \in S} : Cardinality(Zone(S, z)) >= count}
              best == {z \in zones : \A y \in zones :
                         IF count < MaxPairsPerNUMA
                         THEN Cardinality(Zone(S, z)) <= Cardinality(Zone(S, y))
                         ELSE Cardinality(Zone(S, z)) >= Cardinality(Zone(S, y))}
              n == Cardinality(S)
  <2>1. \A z : /\ IsFiniteSet(Zone(S, z)) /\ Cardinality(Zone(S, z)) \in Nat
               /\ Cardinality(Zone(S, z)) <= Cardinality(S)
    <3>. SUFFICES ASSUME NEW z PROVE /\ IsFiniteSet(Zone(S, z)) /\ Cardinality(Zone(S, z)) \in Nat
                                     /\ Cardinality(Zone(S, z)) <= Cardinality(S)
      OBVIOUS
    <3>1. Zone(S, z) \in SUBSET S
      BY DEF Zone
    <3>2. IsFiniteSet(Zone(S, z)) /\ Cardinality(Zone(S, z)) <= Cardinality(S)
      BY <3>1, FS_Subset
    <3>. QED
      BY <3>2, FS_CardinalityType
  <2>2. n \in Nat /\ \A z \in zones : free[z] \in 0 .. n /\ free[z] = Cardinality(Zone(S, z))
    BY <2>1, FS_CardinalityType
  <2>3. zones # {}
    <3>1. PICK s \in T : TRUE
      OBVIOUS
    <3>2. T \in SUBSET Zone(S, Numa[s])
      BY <1>2, <3>1 DEF Zone
    <3>3. count <= Cardinality(Zone(S, Numa[s]))
      BY <2>1, <3>2, FS_Subset
    <3>. QED
      BY <2>1, <3>1, <3>3
  <2>4. \A z \in zones : free[z] \in Nat
    BY <2>2
  <2>5. best # {}
    <3>. HIDE DEF free, zones, n
    <3>1. CASE count < MaxPairsPerNUMA
      <4>1. PICK z \in zones : \A y \in zones : free[z] <= free[y]
        BY <2>3, <2>4, LeastOf
      <4>. QED
        BY <2>2, <3>1, <4>1
    <3>2. CASE ~(count < MaxPairsPerNUMA)
      <4>1. PICK z \in zones : \A y \in zones : free[z] >= free[y]
        BY <2>2, <2>3, GreatestOf
      <4>. QED
        BY <2>2, <3>2, <4>1
    <3>. QED
      BY <3>1, <3>2
  <2>6. PICK z \in best : TRUE
    BY <2>5
  <2>7. kSubset(count, Zone(S, z)) # {}
    <3>1. count <= Cardinality(Zone(S, z))
      BY <2>1, <2>6
    <3>. QED
      BY <2>1, <3>1, SubsetOfSize
  <2>8. selectSlots(S, count, aware) = UNION {kSubset(count, Zone(S, y)) : y \in best}
    BY <1>2, Zenon DEF selectSlots
  <2>. HIDE DEF best
  <2>. QED
    BY <2>6, <2>7, <2>8
<1>. QED
  BY <1>1, <1>2

\* What the allocator would place: free slots of a node that fits, of a zone if constrained.
FitTogether(p, n, S) ==
  /\ n \in Node /\ n \in Fits[p] /\ S \subseteq On(NIC, n)
  /\ Cardinality(S) = Pairs[p]
  /\ numaConstrained(p) /\ ~DisableNUMAPacking => \A s, t \in S : Numa[s] = Numa[t]

Fitting(p, n, S) == FitTogether(p, n, S) /\ S \subseteq On(NIC \ InUse, n)

LEMMA PlacementsFitTogether ==
  ASSUME mode \in Modes, NEW w, NEW p, NEW claimsListed, NEW podsListed,
         NEW place \in Placements(w, p, Node, claimsListed, podsListed)
  PROVE  FitTogether(p, place[1], place[2])
<1>1. place[1] \in Node
  BY PlacementsAreFree
<1>2. /\ place[1] \in Fits[p]
      /\ place[2] \subseteq On(NIC, place[1])
      /\ Cardinality(place[2]) = Pairs[p]
      /\ numaConstrained(p) /\ ~DisableNUMAPacking =>
           \A s, t \in place[2] : Numa[s] = Numa[t]
  BY PlacementsFit
<1>. QED
  BY <1>1, <1>2 DEF FitTogether

LEMMA PlacementsFitting ==
  ASSUME mode \in Modes, NEW w, NEW p,
         NEW place \in Placements(w, p, Node, TRUE, TRUE)
  PROVE  Fitting(p, place[1], place[2])
<1>1. FitTogether(p, place[1], place[2])
  BY PlacementsFitTogether
<1>2. place[2] \subseteq FreeSlots(w, TRUE) /\ FreeSlots(w, TRUE) \intersect InUse = {}
  BY PlacementsAreFree, FreeSlotsAreNICs
<1>. QED
  BY <1>1, <1>2 DEF Fitting, FitTogether, On

-----------------------------------------------------------------------------
(***************************************************************************)
(* Preflight: no refusal of what the allocator would place.                *)
(***************************************************************************)

\* A device for each role of a pair that is not in use.
LEMMA ExplicitRole ==
  ASSUME SInv, mode = "explicit", NEW s \in NIC, s \notin InUse,
         NEW role \in DOMAIN PairOf(s).devices
  PROVE  \E d \in On(Device, s[1]) :
           /\ DeviceClass[d] = config.deviceSelectors[role].class
           /\ buildDevicePinSelector(config.deviceSelectors[role], PairOf(s).devices[role])
                \in Attributes[mode][d]
           /\ role = "nic" => isNICAvailable(d)
<1>. DEFINE cfg == Config["explicit"]
            pin == buildDevicePinSelector(cfg.deviceSelectors[role], PairOf(s).devices[role])
            spec == BuildExplicitPairClaimSpec(0, PairOf(s), cfg)
<1>1. config = cfg
  BY DEF config
<1>2. spec.requests = Requests("explicit", s)
  BY DEF Requests, ClaimSpec
<1>3. role \in DOMAIN cfg.deviceSelectors
  BY PreflightAssumption DEF PoolsListSlots
<1>4. /\ role \in DOMAIN spec.requests
      /\ spec.requests[role].class = cfg.deviceSelectors[role].class
      /\ pin \in spec.requests[role].selectors
      /\ role = "nic" /\ cfg.rdmaRequired => <<"rdma", "true">> \in spec.requests[role].selectors
  BY <1>3 DEF BuildExplicitPairClaimSpec, Request, buildNICSelectors, buildIBNICSelectors
<1>. HIDE DEF spec
<1>5. PICK d \in Candidates("explicit", s, role) : TRUE
  BY <1>2, <1>4, SupplyAssumption DEF DevicesThere, Modes
<1>6. /\ d \in Device /\ d[1] = s[1] /\ DeviceClass[d] = cfg.deviceSelectors[role].class
      /\ pin \in Attributes["explicit"][d]
      /\ role = "nic" /\ cfg.rdmaRequired => <<"rdma", "true">> \in Attributes["explicit"][d]
  BY <1>2, <1>4, <1>5 DEF Candidates
<1>7. d \notin HeldBy(Pod)
  BY <1>2, <1>4, <1>5, PinnedHeldInUse
<1>8. role = "nic" => d \in NIC
  <2>. HIDE DEF cfg
  <2>1. ASSUME role = "nic"
        PROVE  \E e \in NIC : {x \in Device : x[1] = s[1] /\ pin \in Attributes["explicit"][x]} = {e}
    BY <2>1, ClusterAssumption DEF ExplicitPools, cfg
  <2>. QED
    BY <1>6, <2>1
<1>9. role = "nic" => isNICAvailable(d)
  BY <1>1, <1>6, <1>7, <1>8 DEF isNICAvailable, Shown
<1>10. d \in On(Device, s[1])
  BY <1>6 DEF On
<1>. HIDE DEF pin, cfg
<1>. QED
  BY <1>1, <1>6, <1>9, <1>10 DEF pin, cfg

\* What a slot's NIC says of itself on Ethernet.
LEMMA EthernetAddress ==
  ASSUME NEW s \in NIC
  PROVE  LET cfg == Config["ethernet"]
         IN  /\ s[2] \in DOMAIN cfg.rails
             /\ <<"ipv4Prefix", cfg.rails[s[2]].ipv4Prefix>> \in Attributes["ethernet"][s]
             /\ cfg.rdmaRequired => <<"rdma", "true">> \in Attributes["ethernet"][s]
<1>. DEFINE cfg == Config["ethernet"]
            spec == BuildSinglePairClaimSpec(0, s[2], cfg)
<1>1. spec.requests = Requests("ethernet", s)
  BY DEF Requests, ClaimSpec
<1>2. ~cfg.infiniband /\ s[2] \in DOMAIN cfg.rails
  BY ClusterAssumption DEF EthernetRails
<1>3. spec.requests["nic"].selectors = buildNICSelectors(s[2], cfg)
  BY DEF BuildSinglePairClaimSpec, Request
<1>4. /\ <<"ipv4Prefix", cfg.rails[s[2]].ipv4Prefix>> \in buildNICSelectors(s[2], cfg)
      /\ cfg.rdmaRequired => <<"rdma", "true">> \in buildNICSelectors(s[2], cfg)
  BY <1>2 DEF buildNICSelectors
<1>. HIDE DEF cfg, spec
<1>5. s \in Candidates("ethernet", s, "nic")
  BY EthernetRequests
<1>6. buildNICSelectors(s[2], cfg) \subseteq Attributes["ethernet"][s]
  BY <1>1, <1>3, <1>5 DEF Candidates
<1>. QED
  BY <1>2, <1>4, <1>6 DEF cfg

LEMMA EthernetNICAvailable ==
  ASSUME SInv, mode = "ethernet", NEW s \in NIC, s \notin InUse
  PROVE  isNICAvailable(s)
<1>1. s \notin HeldBy(Pod)
  BY EthernetHeldInUse
<1>2. config = Config["ethernet"] /\ Attributes[mode] = Attributes["ethernet"]
  BY DEF config
<1>. QED
  BY <1>1, <1>2, EthernetAddress DEF isNICAvailable, Shown

\* A slot that is not in use counts: it has a GPU on its root.
LEMMA EthernetAvailable ==
  ASSUME SInv, mode = "ethernet", NEW s \in NIC, s \notin InUse
  PROVE  s \in getEthernetClusterAvailability(s[1])
<1>. DEFINE R == PCIeRoot[s]
            nics == AtRoot(On(NIC, s[1]), R)
            gpus == AtRoot(GPUsOf(s[1]), R)
<1>1. s \in nics /\ nics \in SUBSET NIC /\ gpus \in SUBSET Device
  BY DEF AtRoot, On, GPUsOf
<1>2. Cardinality(nics) <= Cardinality(gpus)
  BY GPUsOfSlot, SupplyAssumption DEF GPUsSuffice
<1>. HIDE DEF nics, gpus
<1>3. IsFiniteSet(nics) /\ IsFiniteSet(gpus)
  BY <1>1, AllocatorAssumption, SupplyAssumption, FS_Subset
<1>4. Cardinality(nics) \in Nat /\ Cardinality(nics) # 0
  BY <1>1, <1>3, FS_CardinalityType, FS_EmptySet
<1>5. gpus # {}
  <2>1. Cardinality({}) = 0
    BY FS_EmptySet
  <2>. QED
    BY <1>2, <1>4, <2>1
<1>6. PICK g \in gpus : TRUE
  BY <1>5
<1>7. g \in Device /\ g[1] = s[1] /\ PCIeRoot[g] = R /\ DeviceClass[g] = Config["ethernet"].gpuClass
  BY <1>6 DEF gpus, AtRoot, GPUsOf
<1>8. g \notin NIC \union OtherNIC
  BY <1>7, PreflightAssumption DEF Modes
<1>9. g \in On(GPU, s[1])
  BY <1>7, <1>8 DEF On, Device
<1>10. isNICAvailable(s) /\ s \in On(NIC \union OtherNIC, s[1])
  BY EthernetNICAvailable DEF On
<1>. QED
  BY <1>7, <1>9, <1>10 DEF getEthernetClusterAvailability

\* On InfiniBand a slot's NIC is the only candidate for its request, and is a rail.
LEMMA InfiniBandRequests ==
  ASSUME NEW s \in NIC
  PROVE  /\ DOMAIN Requests("infiniband", s) = {"gpu", "nic"}
         /\ Requests("infiniband", s)["gpu"].class = Config["infiniband"].gpuClass
         /\ Candidates("infiniband", s, "nic") = {s}
         /\ s[2] \in DOMAIN Config["infiniband"].ibRails
         /\ <<"pciAddress", Config["infiniband"].ibRails[s[2]].nic>> \in Attributes["infiniband"][s]
<1>. DEFINE cfg == Config["infiniband"]
            spec == BuildSinglePairClaimSpec(0, s[2], cfg)
<1>1. Requests("infiniband", s) = spec.requests
  BY DEF Requests, ClaimSpec
<1>2. /\ cfg.infiniband /\ s[2] \in DOMAIN cfg.ibRails
      /\ \A d \in Device :
           /\ d[1] = s[1] /\ DeviceClass[d] = cfg.nicClass
           /\ <<"rdma", "true">> \in Attributes["infiniband"][d]
           /\ <<"pciAddress", cfg.ibRails[s[2]].nic>> \in Attributes["infiniband"][d]
           => d = s
  BY ClusterAssumption DEF InfiniBandRails
<1>3. /\ DOMAIN spec.requests = {"gpu", "nic"}
      /\ spec.requests["gpu"].class = cfg.gpuClass
      /\ spec.requests["nic"].class = cfg.nicClass
      /\ spec.requests["nic"].selectors = buildNICSelectors(s[2], cfg)
  BY <1>2 DEF BuildSinglePairClaimSpec, Request
<1>4. /\ <<"rdma", "true">> \in buildNICSelectors(s[2], cfg)
      /\ <<"pciAddress", cfg.ibRails[s[2]].nic>> \in buildNICSelectors(s[2], cfg)
  BY <1>2 DEF buildNICSelectors, buildIBNICSelectors
<1>. HIDE DEF cfg, spec
<1>5. \A d \in Candidates("infiniband", s, "nic") : d = s
  BY <1>1, <1>2, <1>3, <1>4 DEF Candidates
<1>6. Candidates("infiniband", s, "nic") # {}
  BY <1>1, <1>3, SupplyAssumption DEF DevicesThere, Modes
<1>7. s \in Candidates("infiniband", s, "nic")
  BY <1>5, <1>6
<1>8. buildNICSelectors(s[2], cfg) \subseteq Attributes["infiniband"][s]
  BY <1>1, <1>3, <1>7 DEF Candidates
<1>. QED
  BY <1>1, <1>2, <1>3, <1>4, <1>5, <1>7, <1>8 DEF cfg

\* The NICs that claims hold on InfiniBand are those of slots in use.
LEMMA InfiniBandConsumed ==
  ASSUME SInv, mode = "infiniband", NEW n
  PROVE  On((NIC \union OtherNIC) \intersect HeldBy(Pod), n) \subseteq On(InUse, n)
<1>. SUFFICES ASSUME NEW d \in NIC \union OtherNIC, d \in HeldBy(Pod) PROVE d \in InUse
  BY DEF On
<1>1. PICK q \in Pod : /\ status[q] = "bound"
                       /\ \E i \in DOMAIN chosen[q] : \E u \in DOMAIN Requests(mode, chosen[q][i]) :
                            d = held[q][i][u] /\ d \in Candidates(mode, chosen[q][i], u)
  BY HeldAreCandidates
<1>2. PICK i \in DOMAIN chosen[q] : \E u \in DOMAIN Requests("infiniband", chosen[q][i]) :
                                      d \in Candidates("infiniband", chosen[q][i], u)
  BY <1>1
<1>. DEFINE t == chosen[q][i]
<1>3. t \in NIC /\ t \in slots[q]
  BY <1>1, BoundHoldsNICs
<1>. HIDE DEF t
<1>4. PICK u \in DOMAIN Requests("infiniband", t) : d \in Candidates("infiniband", t, u)
  BY <1>2 DEF t
<1>5. u # "gpu"
  <2>1. u = "gpu" => DeviceClass[d] = Config["infiniband"].gpuClass
    BY <1>3, <1>4, InfiniBandRequests DEF Candidates
  <2>. QED
    BY <2>1, PreflightAssumption DEF Modes
<1>6. d = t
  BY <1>3, <1>4, <1>5, InfiniBandRequests
<1>. QED
  BY <1>1, <1>3, <1>6 DEF InUse

\* As many pairs are counted as there are slots that are not in use, or more.
LEMMA InfiniBandTotal ==
  ASSUME SInv, mode = "infiniband", NEW n, NEW S \in SUBSET On(NIC \ InUse, n)
  PROVE  TotalPairs(n) \in Nat /\ Cardinality(S) \in Nat /\ Cardinality(S) <= TotalPairs(n)
<1>. DEFINE all == On(NIC, n)
            used == On(InUse, n)
            free == On(NIC \ InUse, n)
            consumed == On((NIC \union OtherNIC) \intersect HeldBy(Pod), n)
<1>1. InUse \subseteq NIC
  BY DEF SInv, Placements0, IInv, TypeOK, InUse
<1>2. IBRailsOf(n) = all
  <2>1. config = Config["infiniband"] /\ Attributes[mode] = Attributes["infiniband"]
    BY DEF config
  <2>2. \A d \in all : d \in NIC
    BY DEF On
  <2>. QED
    BY <2>1, <2>2, InfiniBandRequests DEF IBRailsOf
<1>3. /\ all \in SUBSET NIC /\ used \in SUBSET all /\ free = all \ used
      /\ consumed \in SUBSET used /\ all \intersect used = used
  BY <1>1, InfiniBandConsumed DEF On
<1>4. consumedOn(n) = Cardinality(consumed)
  BY DEF consumedOn
<1>. HIDE DEF all, used, free, consumed
<1>5. IsFiniteSet(all)
  BY <1>3, AllocatorAssumption, FS_Subset
<1>6. IsFiniteSet(used)
  BY <1>3, <1>5, FS_Subset
<1>7. IsFiniteSet(consumed) /\ Cardinality(consumed) <= Cardinality(used)
  BY <1>3, <1>6, FS_Subset
<1>8. IsFiniteSet(free) /\ Cardinality(free) = Cardinality(all) - Cardinality(used)
  <2>1. /\ IsFiniteSet(all \ used)
        /\ Cardinality(all \ used) = Cardinality(all) - Cardinality(all \intersect used)
    BY <1>5, FS_Difference
  <2>. QED
    BY <1>3, <2>1
<1>9. IsFiniteSet(S) /\ Cardinality(S) <= Cardinality(free)
  <2>1. S \in SUBSET free
    BY DEF free
  <2>. QED
    BY <1>8, <2>1, FS_Subset
<1>10. /\ Cardinality(all) \in Nat /\ Cardinality(used) \in Nat /\ Cardinality(consumed) \in Nat
       /\ Cardinality(S) \in Nat /\ Cardinality(free) \in Nat
  BY <1>5, <1>6, <1>7, <1>8, <1>9, FS_CardinalityType
<1>11. TotalPairs(n) = IF Cardinality(all) > Cardinality(consumed)
                       THEN Cardinality(all) - Cardinality(consumed) ELSE 0
  BY <1>2, <1>4 DEF TotalPairs
<1>. DEFINE a == Cardinality(all)
            u == Cardinality(used)
            c == Cardinality(consumed)
            k == Cardinality(S)
<1>12. a \in Nat /\ u \in Nat /\ c \in Nat /\ k \in Nat /\ c <= u /\ k <= a - u
  BY <1>7, <1>8, <1>9, <1>10
<1>13. TotalPairs(n) = IF a > c THEN a - c ELSE 0
  BY <1>11
<1>. HIDE DEF a, u, c, k
<1>14. TotalPairs(n) \in Nat /\ k \in Nat /\ k <= TotalPairs(n)
  BY <1>12, <1>13
<1>. QED
  BY <1>14 DEF k

\* The preflight check of Ethernet and, for pods that may cross zones, of InfiniBand.
LEMMA AvailabilityChecked ==
  ASSUME SInv, ~DisableNUMAPacking, NEW p, NEW n, NEW S, Fitting(p, n, S), S # {},
         mode = "ethernet" \/ (mode = "infiniband" /\ ~numaConstrained(p))
  PROVE  CheckAvailability(Pairs[p], numaConstrained(p), TRUE)
<1>1. n \in Node /\ S \in SUBSET On(NIC \ InUse, n) /\ Cardinality(S) = Pairs[p]
  BY DEF Fitting, FitTogether
<1>2. CASE mode = "infiniband"
  <2>1. TotalPairs(n) \in Nat /\ Cardinality(S) \in Nat /\ Cardinality(S) <= TotalPairs(n)
    BY <1>1, <1>2, InfiniBandTotal
  <2>2. TotalPairs(n) >= Pairs[p]
    BY <1>1, <2>1
  <2>. QED
    BY <1>1, <1>2, <2>2 DEF CheckAvailability
<1>3. CASE mode = "ethernet"
  <2>. DEFINE A == getEthernetClusterAvailability(n)
  <2>1. S \in SUBSET A
    BY <1>1, <1>3, EthernetAvailable DEF On
  <2>2. A \in SUBSET Device /\ mode # "infiniband"
    BY <1>3 DEF getEthernetClusterAvailability, On, Device
  <2>. HIDE DEF A
  <2>3. IsFiniteSet(A)
    BY <2>2, SupplyAssumption, FS_Subset
  <2>4. CASE ~numaConstrained(p)
    <3>1. Cardinality(S) <= Cardinality(A) /\ Cardinality(S) \in Nat /\ Cardinality(A) \in Nat
      BY <2>1, <2>3, FS_Subset, FS_CardinalityType
    <3>2. TotalPairs(n) = Cardinality(A)
      BY <1>3 DEF TotalPairs, A
    <3>. QED
      BY <1>1, <2>4, <3>1, <3>2 DEF CheckAvailability
  <2>5. CASE numaConstrained(p)
    <3>1. PICK s \in S : TRUE
      OBVIOUS
    <3>. DEFINE z == Numa[s]
    <3>2. S \in SUBSET Zone(A, z) /\ Zone(A, z) \in SUBSET A
      BY <2>1, <2>5, <3>1 DEF Zone, Fitting, FitTogether
    <3>3. IsFiniteSet(Zone(A, z)) /\ Cardinality(S) <= Cardinality(Zone(A, z))
      BY <2>3, <3>2, FS_Subset
    <3>4. Cardinality(S) \in Nat /\ Cardinality(Zone(A, z)) \in Nat
      BY <3>2, <3>3, FS_Subset, FS_CardinalityType
    <3>5. PairsPerNUMA(n, z) = Cardinality(Zone(A, z))
      BY <2>2 DEF PairsPerNUMA, A
    <3>6. s \in On(NIC, n)
      BY <1>1, <3>1 DEF On
    <3>7. \E y \in {Numa[t] : t \in On(NIC, n)} : PairsPerNUMA(n, y) >= Pairs[p]
      BY <1>1, <3>3, <3>4, <3>5, <3>6
    <3>. QED
      BY <1>1, <2>5, <3>7 DEF CheckAvailability
  <2>. QED
    BY <2>4, <2>5
<1>. QED
  BY <1>2, <1>3

\* The slots of a node are told apart by their rails.
LEMMA RailsOfSlots ==
  ASSUME NEW n, NEW S \in SUBSET On(NIC, n)
  PROVE  /\ \A s \in S : s = <<n, s[2]>>
         /\ \A s, t \in S : s[2] = t[2] => s = t
  BY AllocatorAssumption DEF On

LEMMA ExplicitChecked ==
  ASSUME SInv, mode = "explicit", NEW p, NEW n, NEW S, Fitting(p, n, S), S # {}
  PROVE  CheckExplicitAvailability(Pairs[p], TRUE)
<1>. DEFINE has(pair, role) == \E d \in On(Device, n) :
              /\ DeviceClass[d] = config.deviceSelectors[role].class
              /\ buildDevicePinSelector(config.deviceSelectors[role], pair.devices[role])
                   \in Attributes[mode][d]
              /\ role = "nic" => isNICAvailable(d)
            f == [s \in S |-> s[2]]
<1>1. /\ n \in Node /\ S \in SUBSET On(NIC \ InUse, n) /\ S \in SUBSET On(NIC, n)
      /\ Cardinality(S) = Pairs[p]
  BY DEF Fitting, FitTogether
<1>2. \A s \in S : s \in NIC /\ s \notin InUse /\ s[1] = n
  BY <1>1 DEF On
<1>3. PICK i \in DOMAIN config.nodePools : PoolOf(n) = config.nodePools[i]
  <2>1. PICK s \in S : TRUE
    OBVIOUS
  <2>2. GetNodePoolMapping(Label[n], Config["explicit"]) # {}
    BY <1>2, <2>1, PreflightAssumption DEF PoolsListSlots
  <2>3. PoolOf(n) \in GetNodePoolMapping(Label[n], Config["explicit"])
    BY <2>2 DEF PoolOf
  <2>. QED
    BY <2>3 DEF GetNodePoolMapping, config
<1>. DEFINE pairs == config.nodePools[i].pairs
            K == {k \in DOMAIN pairs : \A role \in DOMAIN pairs[k].devices : has(pairs[k], role)}
<1>4. ASSUME NEW s \in S PROVE s[2] \in K
  <2>1. s[2] \in DOMAIN pairs /\ pairs[s[2]] = PairOf(s)
    BY <1>2, <1>3, PreflightAssumption DEF PoolsListSlots, PairOf
  <2>2. ASSUME NEW role \in DOMAIN PairOf(s).devices PROVE has(PairOf(s), role)
    BY <1>2, ExplicitRole
  <2>. HIDE DEF has, pairs
  <2>. QED
    BY <2>1, <2>2
<1>5. IsFiniteSet(K)
  <2>1. PICK s \in S : TRUE
    OBVIOUS
  <2>2. IsFiniteSet(DOMAIN pairs)
    BY <1>2, <1>3, <2>1, PreflightAssumption DEF PoolsListSlots
  <2>3. K \in SUBSET (DOMAIN pairs)
    OBVIOUS
  <2>. HIDE DEF K, pairs
  <2>. QED
    BY <2>2, <2>3, FS_Subset
<1>6. f \in [S -> K] /\ \A s, t \in S : f[s] = f[t] => s = t
  <2>. HIDE DEF K
  <2>. QED
    BY <1>1, <1>4, RailsOfSlots
<1>. HIDE DEF f
<1>7. f \in Injection(S, K)
  BY <1>6, Fun_IsInj
<1>8. IsFiniteSet(S) /\ Cardinality(S) <= Cardinality(K)
  <2>. HIDE DEF K
  <2>. QED
    BY <1>5, <1>7, FS_Injection
<1>9. Cardinality(K) >= Pairs[p]
  <2>. HIDE DEF K
  <2>. QED
    BY <1>1, <1>5, <1>8, FS_CardinalityType
<1>. QED
  BY <1>1, <1>3, <1>9, Zenon DEF CheckExplicitAvailability

\* The dry run finds slots on the node where the allocator would.
LEMMA SimulateFinds ==
  ASSUME mode \in Modes, ~DisableNUMAPacking, NEW p \in Pod, NEW n, NEW S, Fitting(p, n, S),
         S # {}, ValidateRequest(Pairs[p], p \in CrossNUMA), Follows[p] = {}
  PROVE  Simulate(p) # {}
<1>. DEFINE captured == NIC \ (IF mode = "infiniband" THEN {} ELSE InUse)
            found == selectSlots(On(captured, n), Pairs[p], numaAware(p))
<1>1. /\ n \in Fits[p] /\ S \in SUBSET On(NIC \ InUse, n) /\ Cardinality(S) = Pairs[p]
      /\ numaAware(p) => \A s, t \in S : Numa[s] = Numa[t]
  BY DEF Fitting, FitTogether, numaAware
<1>2. S \in SUBSET On(captured, n) /\ On(captured, n) \in SUBSET NIC
  BY <1>1 DEF On
<1>. HIDE DEF captured
<1>3. IsFiniteSet(On(captured, n)) /\ Pairs[p] \in Nat
  BY <1>2, AllocatorAssumption, FS_Subset
<1>4. found # {}
  BY <1>1, <1>2, <1>3, SelectsIfPossible
<1>5. (IF mode = "explicit"
       THEN selectExplicitPairs(On(captured, n), Pairs[p], numaAware(p))
       ELSE selectSlots(On(captured, n), Pairs[p], numaAware(p))) = found
  BY DEF selectExplicitPairs
<1>. QED
  BY <1>1, <1>4, <1>5 DEF Simulate, captured

\* Spec => []NoFalseRefusal, where NUMA packing is not disabled, which the preflight
\* check does not look at: neither it nor the dry run refuses what could be placed.
THEOREM PreflightNoFalseRefusal ==
  ASSUME ~DisableNUMAPacking
  PROVE  SchedSpec => []NoFalseRefusal
<1>1. SInv => NoFalseRefusal
  <2>. SUFFICES ASSUME SInv, NEW w \in Replica, NEW p \in Pod,
                       ValidateRequest(Pairs[p], p \in CrossNUMA),
                       Placements(w, p, Node, TRUE, TRUE) # {}
               PROVE  /\ mode = "explicit" => CheckExplicitAvailability(Pairs[p], TRUE)
                      /\ mode = "ethernet" \/ (mode = "infiniband" /\ ~numaConstrained(p)) =>
                           CheckAvailability(Pairs[p], numaConstrained(p), TRUE)
                      /\ Follows[p] = {} => Simulate(p) # {}
    BY DEF NoFalseRefusal
  <2>1. mode \in Modes
    BY DEF SInv, Placements0, IInv, TypeOK
  <2>2. PICK place \in Placements(w, p, Node, TRUE, TRUE) : TRUE
    OBVIOUS
  <2>. DEFINE n == place[1]
              S == place[2]
  <2>3. Fitting(p, n, S)
    BY <2>1, <2>2, PlacementsFitting
  <2>4. S # {}
    <3>1. Pairs[p] # 0
      BY AllocatorAssumption DEF ValidateRequest
    <3>2. Cardinality(S) = Pairs[p] /\ Cardinality({}) = 0
      BY <2>3, FS_EmptySet DEF Fitting, FitTogether
    <3>. QED
      BY <3>1, <3>2
  <2>. HIDE DEF n, S
  <2>. QED
    BY <2>1, <2>3, <2>4, ExplicitChecked, AvailabilityChecked, SimulateFinds
<1>. QED
  BY <1>1, SchedSInv, PTL

-----------------------------------------------------------------------------
(***************************************************************************)
(* Preflight: rails that are free.                                         *)
(***************************************************************************)

\* A rail of a node is free if it shows an address there.
LEMMA RailsAreFree ==
  ASSUME SInv, mode = "ethernet", NEW n \in Node, NEW r \in railsOf(n)
  PROVE  <<n, r>> \in NIC \ HeldBy(Pod)
<1>. DEFINE cfg == Config["ethernet"]
<1>1. PICK d \in On(NIC \union OtherNIC, n) :
        /\ r \in DOMAIN cfg.rails /\ isNICAvailable(d)
        /\ <<"ipv4Prefix", cfg.rails[r].ipv4Prefix>> \in Attributes["ethernet"][d]
  BY DEF railsOf, config
<1>2. /\ d \in NIC \union OtherNIC /\ d[1] = n /\ d \notin HeldBy(Pod)
      /\ cfg.rdmaRequired => <<"rdma", "true">> \in Attributes["ethernet"][d]
  BY <1>1 DEF On, isNICAvailable, Shown, config
<1>3. d \in NIC /\ d[2] = r
  BY <1>1, <1>2, PreflightAssumption DEF OnlySlotsOnRails
<1>4. d = <<n, r>>
  BY <1>2, <1>3, AllocatorAssumption
<1>. QED
  BY <1>2, <1>3, <1>4

\* The rails of slots that are not in use are found.
LEMMA RailsFound ==
  ASSUME SInv, mode = "ethernet", NEW s \in NIC, s \notin InUse
  PROVE  s[2] \in railsOf(s[1])
<1>1. isNICAvailable(s) /\ s \in On(NIC \union OtherNIC, s[1])
  BY EthernetNICAvailable DEF On
<1>. QED
  BY <1>1, EthernetAddress DEF railsOf, config

\* The rails of a node, or of a zone of it, among which rails are looked for.
Group(n, constrained, G) ==
  /\ G \subseteq railsOf(n)
  /\ constrained => \A r, t \in G : Numa[<<n, r>>] = Numa[<<n, t>>]

RailsInZone(n, z) == {r \in railsOf(n) : Numa[<<n, r>>] = z}

Groups(constrained) ==
  UNION {IF constrained
         THEN {RailsInZone(n, z) : z \in {Numa[<<n, r>>] : r \in railsOf(n)}}
         ELSE {railsOf(n)} : n \in Node}

LEMMA GroupsAreGroups ==
  ASSUME NEW constrained \in BOOLEAN, NEW G \in Groups(constrained)
  PROVE  \E n \in Node : Group(n, constrained, G)
<1>1. PICK n \in Node : G \in IF constrained
         THEN {RailsInZone(n, z) : z \in {Numa[<<n, r>>] : r \in railsOf(n)}}
         ELSE {railsOf(n)}
  BY DEF Groups
<1>. QED
  BY <1>1 DEF Group, RailsInZone

LEMMA FoundInGroups ==
  ASSUME NEW count, NEW constrained \in BOOLEAN, NEW claimed,
         NEW S \in findAvailableRails(count, constrained, claimed)
  PROVE  Cardinality(S) = count /\ \E n \in Node : Group(n, constrained, S)
<1>. DEFINE first == UNION {kSubset(count, G \ claimed) : G \in Groups(constrained)}
            any == UNION {kSubset(count, G) : G \in Groups(constrained)}
<1>1. findAvailableRails(count, constrained, claimed) = IF first # {} THEN first ELSE any
  BY Zenon DEF findAvailableRails, Groups, RailsInZone
<1>2. S \in first \/ S \in any
  <2>. HIDE DEF first, any
  <2>. QED
    BY <1>1
<1>3. PICK G \in Groups(constrained) : S \subseteq G /\ Cardinality(S) = count
  BY <1>2 DEF kSubset
<1>4. PICK n \in Node : Group(n, constrained, G)
  BY GroupsAreGroups
<1>5. Group(n, constrained, S)
  BY <1>3, <1>4 DEF Group
<1>. QED
  BY <1>3, <1>5

\* If the allocator could place a pod, there are such rails.
LEMMA RailsAreFound ==
  ASSUME SInv, ~DisableNUMAPacking, mode = "ethernet", NEW p, NEW n, NEW S, Fitting(p, n, S),
         S # {}, NEW claimed
  PROVE  /\ DOMAIN config.rails # {}
         /\ findAvailableRails(Pairs[p], numaConstrained(p), claimed) # {}
<1>. DEFINE R == {s[2] : s \in S}
            f == [s \in S |-> s[2]]
            c == numaConstrained(p)
            count == Pairs[p]
            first == UNION {kSubset(count, G \ claimed) : G \in Groups(c)}
            any == UNION {kSubset(count, G) : G \in Groups(c)}
<1>1. /\ n \in Node /\ S \in SUBSET On(NIC, n) /\ Cardinality(S) = count
      /\ \A s \in S : s \in NIC /\ s \notin InUse /\ s[1] = n /\ s = <<n, s[2]>>
      /\ c => \A s, t \in S : Numa[s] = Numa[t]
  <2>1. n \in Node /\ S \in SUBSET On(NIC \ InUse, n) /\ S \in SUBSET On(NIC, n)
    BY DEF Fitting, FitTogether
  <2>2. \A s \in S : s = <<n, s[2]>>
    BY <2>1, RailsOfSlots
  <2>. QED
    BY <2>1, <2>2 DEF Fitting, FitTogether, On
<1>2. PICK s0 \in S : TRUE
  OBVIOUS
<1>3. R \subseteq railsOf(n)
  BY <1>1, RailsFound
<1>4. Cardinality(R) = count
  <2>1. f \in [S -> R] /\ \A s, t \in S : f[s] = f[t] => s = t
    BY <1>1
  <2>2. \A r \in R : \E s \in S : f[s] = r
    OBVIOUS
  <2>. HIDE DEF f, R
  <2>3. f \in Bijection(S, R)
    BY <2>1, <2>2, Fun_IsBij
  <2>4. ExistsBijection(S, R)
    BY <2>3, Fun_ExistsBij
  <2>5. IsFiniteSet(S)
    <3>1. S \in SUBSET NIC
      BY <1>1
    <3>. QED
      BY <3>1, AllocatorAssumption, FS_Subset
  <2>6. Cardinality(R) = Cardinality(S)
    BY <2>4, <2>5, FS_Bijection
  <2>. QED
    BY <1>1, <2>6
<1>5. \E G \in Groups(c) : R \subseteq G
  <2>1. CASE ~c
    <3>1. railsOf(n) \in Groups(c)
      BY <1>1, <2>1 DEF Groups
    <3>. QED
      BY <1>3, <3>1
  <2>2. CASE c
    <3>. DEFINE z == Numa[<<n, s0[2]>>]
                G == RailsInZone(n, z)
    <3>1. s0[2] \in railsOf(n)
      BY <1>2, <1>3
    <3>2. G \in Groups(c)
      <4>1. z \in {Numa[<<n, r>>] : r \in railsOf(n)}
        BY <3>1
      <4>. HIDE DEF z
      <4>. QED
        BY <1>1, <2>2, <4>1 DEF Groups
    <3>3. \A s \in S : Numa[<<n, s[2]>>] = z
      BY <1>1, <1>2, <2>2
    <3>4. R \subseteq G
      BY <1>3, <3>3 DEF RailsInZone
    <3>. QED
      BY <3>2, <3>4
  <2>. QED
    BY <2>1, <2>2
<1>6. any # {}
  <2>1. PICK G \in Groups(c) : R \subseteq G
    BY <1>5
  <2>2. R \in kSubset(count, G)
    <3>. HIDE DEF R
    <3>. QED
      BY <1>4, <2>1 DEF kSubset
  <2>. HIDE DEF R
  <2>. QED
    BY <2>1, <2>2
<1>7. findAvailableRails(count, c, claimed) = IF first # {} THEN first ELSE any
  BY Zenon DEF findAvailableRails, Groups, RailsInZone
<1>8. DOMAIN config.rails # {}
  <2>1. s0[2] \in DOMAIN Config["ethernet"].rails
    BY <1>1, <1>2, EthernetAddress
  <2>. QED
    BY <2>1 DEF config
<1>. HIDE DEF first, any
<1>. QED
  BY <1>6, <1>7, <1>8

\* A selection of free rails of one node, and of one zone of it.
FreeTogether(p, S) ==
  \E n \in Node :
    /\ Cardinality(S) = Pairs[p]
    /\ {n} \X S \subseteq NIC \ HeldBy(Pod)
    /\ numaConstrained(p) => \A r, t \in S : Numa[<<n, r>>] = Numa[<<n, t>>]

\* Spec => []SelectedRailsFree, where NUMA packing is not disabled and only the slots are
\* on the prefixes of rails: the rails selected are free on one node, and in one zone.
THEOREM PreflightSelectedRailsFree ==
  ASSUME ~DisableNUMAPacking
  PROVE  SchedSpec => []SelectedRailsFree
<1>1. ASSUME SInv, mode = "ethernet", NEW w \in Replica, NEW p \in Pod,
             NEW claimed \in SUBSET Rail, Placements(w, p, Node, TRUE, TRUE) # {},
             NEW S \in SelectAvailableRails(Pairs[p], numaConstrained(p), claimed, TRUE)
      PROVE  FreeTogether(p, S)
  <2>. DEFINE found == findAvailableRails(Pairs[p], numaConstrained(p), claimed)
  <2>1. PICK place \in Placements(w, p, Node, TRUE, TRUE) : TRUE
    BY <1>1
  <2>. DEFINE n0 == place[1]
              S0 == place[2]
  <2>2. Fitting(p, n0, S0)
    BY <1>1, <2>1, PlacementsFitting DEF Modes
  <2>. HIDE DEF n0, S0, found
  <2>3. ASSUME S \in found PROVE FreeTogether(p, S)
    <3>1. numaConstrained(p) \in BOOLEAN
      BY DEF numaConstrained
    <3>2. Cardinality(S) = Pairs[p] /\ \E n \in Node : Group(n, numaConstrained(p), S)
      BY <2>3, <3>1, FoundInGroups DEF found
    <3>3. PICK n \in Node : Group(n, numaConstrained(p), S)
      BY <3>2
    <3>4. \A r \in S : <<n, r>> \in NIC \ HeldBy(Pod)
      BY <1>1, <3>3, RailsAreFree DEF Group
    <3>. QED
      BY <3>2, <3>3, <3>4 DEF Group, FreeTogether
  <2>4. CASE S0 # {}
    <3>1. DOMAIN config.rails # {} /\ found # {}
      BY <1>1, <2>2, <2>4, RailsAreFound DEF found
    <3>2. S \in found
      BY <1>1, <3>1 DEF SelectAvailableRails, found
    <3>. QED
      BY <2>3, <3>2
  <2>5. CASE S0 = {}
    <3>1. Pairs[p] = 0 /\ n0 \in Node
      BY <2>2, <2>5, FS_EmptySet DEF Fitting, FitTogether
    <3>2. sequentialRails(Pairs[p]) = {{}}
      BY <3>1 DEF sequentialRails
    <3>3. S \in found \/ S = {}
      BY <1>1, <3>2 DEF SelectAvailableRails, found
    <3>4. CASE S = {}
      BY <3>1, <3>4, FS_EmptySet DEF FreeTogether
    <3>. QED
      BY <2>3, <3>3, <3>4
  <2>. QED
    BY <2>4, <2>5
<1>2. SelectedRailsFree <=>
        (mode = "ethernet" =>
           \A w \in Replica, p \in Pod : \A claimed \in SUBSET Rail :
             status[p] = "new" /\ Placements(w, p, Node, TRUE, TRUE) # {} =>
               \A S \in SelectAvailableRails(Pairs[p], numaConstrained(p), claimed, TRUE) :
                 FreeTogether(p, S))
  BY Zenon DEF SelectedRailsFree, FreeTogether
<1>3. SInv => SelectedRailsFree
  BY <1>1, <1>2
<1>. QED
  BY <1>3, SchedSInv, PTL
=============================================================================
