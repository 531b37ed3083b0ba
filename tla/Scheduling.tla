----------------------------- MODULE Scheduling -----------------------------
(***************************************************************************)
(* What becomes of a placement: Mutate turns the slots the allocator has   *)
(* chosen into claims (ClaimBuilder), and the scheduler later allocates    *)
(* devices that satisfy them, knowing nothing of slots.  One process and   *)
(* the pods with pairs; extended resources are in Allocator only.          *)
(*                                                                         *)
(* A device is a pair or triple that begins with its node.                 *)
(***************************************************************************)
EXTENDS Allocator, Sequences, ClaimBuilder, NodeConstraints

CONSTANTS
  Config,        \* the configuration in each mode
  Label,         \* the labels of each node
  Constraints,   \* nodeSelector and required node affinity of each pod
  GPU, OtherNIC, \* the devices beside NIC
  DeviceClass,   \* the class of each device
  PCIeRoot,      \* the PCIe root of each device
  Attributes     \* the <<attribute, value>> pairs of each device, in each mode

VARIABLES
  chosen,  \* the pod's slots, by NIC position
  held     \* the devices allocated to each of the pod's claims, by role

schedVars == <<vars, chosen, held>>

Device == GPU \union NIC \union OtherNIC

\* The pair of the node's pool that an explicit slot stands for.
PoolOf(n) == CHOOSE pool \in GetNodePoolMapping(Label[n], Config["explicit"]) : TRUE
PairOf(s) == PoolOf(s[1]).pairs[s[2]]

\* The NIC a slot stands for.
NICOf(m, s) ==
  IF m = "explicit"
  THEN CHOOSE d \in NIC : d[1] = s[1]
         /\ buildDevicePinSelector(Config[m].deviceSelectors["nic"],
                                   PairOf(s).devices["nic"]) \in Attributes[m][d]
  ELSE s

\* The claim of the NIC at a position of the pod, counted from 0.
ClaimSpec(m, s, nicIndex) ==
  IF m = "explicit"
  THEN BuildExplicitPairClaimSpec(nicIndex, PairOf(s), Config[m])
  ELSE BuildSinglePairClaimSpec(nicIndex, s[2], Config[m])

(***************************************************************************)
(* What the configuration must say of the cluster in each mode for slots   *)
(* to stand for devices: an address names one NIC of a node, and goes with *)
(* the GPUs of the NIC's PCIe root.  Nothing in the code checks it.        *)
(***************************************************************************)
EthernetRails ==
  LET cfg == Config["ethernet"]
      has(d, a) == a \in Attributes["ethernet"][d]
  IN  /\ ~cfg.infiniband
      /\ \A s \in NIC :
           /\ s[2] \in DOMAIN cfg.rails
           /\ \A d \in Device :
                /\ d[1] = s[1] /\ DeviceClass[d] = cfg.nicClass
                /\ has(d, <<"ipv4Prefix", cfg.rails[s[2]].ipv4Prefix>>)
                /\ cfg.rdmaRequired => has(d, <<"rdma", "true">>)
                => d = s

InfiniBandRails ==
  LET cfg == Config["infiniband"]
      has(d, a) == a \in Attributes["infiniband"][d]
  IN  /\ cfg.infiniband
      /\ \A s \in NIC :
           /\ s[2] \in DOMAIN cfg.ibRails
           /\ \A d \in Device : d[1] = s[1] =>
                /\ /\ DeviceClass[d] = cfg.nicClass
                   /\ has(d, <<"rdma", "true">>)
                   /\ has(d, <<"pciAddress", cfg.ibRails[s[2]].nic>>)
                   => d = s
                /\ /\ DeviceClass[d] = cfg.gpuClass
                   /\ has(d, <<"pciBusID", cfg.ibRails[s[2]].gpu>>)
                   => PCIeRoot[d] = PCIeRoot[s]

ExplicitPools ==
  LET cfg == Config["explicit"]
      pin(s, role) == buildDevicePinSelector(cfg.deviceSelectors[role], PairOf(s).devices[role])
      pinned(s, role) == {d \in Device : d[1] = s[1] /\ pin(s, role) \in Attributes["explicit"][d]}
  IN  /\ {"gpu", "nic"} \subseteq DOMAIN cfg.deviceSelectors
      /\ \A s \in NIC : \E d \in NIC :
           /\ pinned(s, "nic") = {d}
           /\ \A g \in pinned(s, "gpu") : PCIeRoot[g] = PCIeRoot[d]

(***************************************************************************)
(* What it must say to route them: each NIC is on the subnets its rules    *)
(* will speak of, and no two slots of a node share a rail, or none has one.*)
(***************************************************************************)
SubnetRails ==
  \A m \in {n \in Modes : ~Config[n].infiniband} :
    LET cfg == Config[m]
        rail(s) == IF m = "explicit" THEN PairOf(s).rail ELSE s[2]
        railed(s) == rail(s) \in DOMAIN cfg.rails
        subnets(s) == IF railed(s) THEN {cfg.rails[rail(s)].subnet} ELSE cfg.sourceSubnet
    IN  /\ cfg.startingTableID \in Nat
        /\ \A s \in NIC :
             /\ railed(s) => rail(s) \in Nat
             /\ \A net \in subnets(s) : <<"subnet", net>> \in Attributes[m][NICOf(m, s)]
        /\ \A s, t \in NIC : s # t /\ s[1] = t[1] =>
             (railed(s) <=> railed(t)) /\ (railed(s) => rail(s) # rail(t))

ASSUME ClusterAssumption ==
  EthernetRails /\ InfiniBandRails /\ ExplicitPools /\ SubnetRails

(***************************************************************************)
(* What the cluster must have for every slot: devices the scheduler may    *)
(* allocate to its claim, and none of them for two slots of a node; on     *)
(* Ethernet, where any GPU of the root will do, as many GPUs as NICs.      *)
(***************************************************************************)
Requests(m, s) == ClaimSpec(m, s, 0).requests

Candidates(m, s, role) ==
  {d \in Device :
     /\ d[1] = s[1]
     /\ DeviceClass[d] = Requests(m, s)[role].class
     /\ Requests(m, s)[role].selectors \subseteq Attributes[m][d]}

DevicesThere ==
  \A m \in Modes, s \in NIC : \A role \in DOMAIN Requests(m, s) : Candidates(m, s, role) # {}

DevicesApart ==
  \A m \in {"infiniband", "explicit"}, s, t \in NIC : s[1] = t[1] =>
    \A r \in DOMAIN Requests(m, s), u \in DOMAIN Requests(m, t) :
      Candidates(m, s, r) \intersect Candidates(m, t, u) # {} => s = t /\ r = u

AtRoot(S, root) == {d \in S : PCIeRoot[d] = root}

GPUsSuffice ==
  /\ Config["ethernet"].gpuClass # Config["ethernet"].nicClass
  /\ \A s \in NIC :
       Cardinality(AtRoot(On(NIC, s[1]), PCIeRoot[s])) <=
       Cardinality(AtRoot(Candidates("ethernet", s, "gpu"), PCIeRoot[s]))

ASSUME SupplyAssumption ==
  IsFiniteSet(Device) /\ DevicesThere /\ DevicesApart /\ GPUsSuffice

\* The allocator places a pod on nodes that match its own constraints.
ASSUME FitsAssumption ==
  \A p \in Pod : Fits[p] = {n \in Node : Matches(Constraints[p], n, Label[n])}

Claims(p) == [i \in DOMAIN chosen[p] |-> ClaimSpec(mode, chosen[p][i], i - 1)]

\* Slots come in the order of the slices, explicit pairs in that of the pool.
Orders(m, S) ==
  LET n == Cardinality(S)
  IN  {f \in [1 .. n -> S] :
         \A i, j \in 1 .. n : i < j =>
           f[i] # f[j] /\ (m = "explicit" => f[i][2] < f[j][2])}

-----------------------------------------------------------------------------
(***************************************************************************)
(* The scheduler and the drivers.                                          *)
(***************************************************************************)

\* The devices allocated to a claim, or to the claims of the pods Q.
DevicesOf(a) == {a[role] : role \in DOMAIN a}

HeldBy(Q) == UNION {UNION {DevicesOf(held[p][i]) : i \in DOMAIN held[p]} : p \in Q}

\* Devices of one node that satisfy a claim, of which the set D are to be had.
Satisfying(m, spec, D) ==
  {a \in [DOMAIN spec.requests -> D] :
     /\ \A role \in DOMAIN a :
          /\ DeviceClass[a[role]] = spec.requests[role].class
          /\ spec.requests[role].selectors \subseteq Attributes[m][a[role]]
     /\ \A r, t \in DOMAIN a : r # t =>
          a[r] # a[t] /\ (spec.matchRoot => PCIeRoot[a[r]] = PCIeRoot[a[t]])}

\* Ways to allocate all claims of a pod on the node it is pinned to.
Allocations(p) ==
  LET D == {d \in Device \ HeldBy(Pod) : d[1] = node[p]}
      ways == [i \in DOMAIN Claims(p) |-> Satisfying(mode, Claims(p)[i], D)]
  IN  {f \in [DOMAIN ways -> UNION {ways[i] : i \in DOMAIN ways}] :
         /\ \A i \in DOMAIN ways : f[i] \in ways[i]
         /\ \A i, j \in DOMAIN ways : i # j => DevicesOf(f[i]) \intersect DevicesOf(f[j]) = {}}

SchedInit ==
  /\ Init
  /\ chosen = [p \in Pod |-> <<>>]
  /\ held = [p \in Pod |-> <<>>]

AllocatePairs(w, p) ==
  /\ Allocate(w, p)
  /\ \E f \in Orders(mode, slots'[p]) : chosen' = [chosen EXCEPT ![p] = f]
  /\ UNCHANGED held

Schedule(p) ==
  /\ Settle(p)
  /\ SchedulerAccepts(Constraints[p], node[p], Label[node[p]])
  /\ \E f \in Allocations(p) : held' = [held EXCEPT ![p] = f]
  /\ UNCHANGED chosen

\* The pod is rejected or deleted, and its claims with it.
Release(p) ==
  /\ Reject(p) \/ Delete(p)
  /\ chosen' = [chosen EXCEPT ![p] = <<>>]
  /\ held' = [held EXCEPT ![p] = <<>>]

SchedNext ==
  \/ \E w \in Replica, p \in Pod : AllocatePairs(w, p)
  \/ \E p \in Pod : Schedule(p) \/ Release(p)
  \/ (Tick \/ \E p \in Pod : Create(p) \/ Recreate(p)) /\ UNCHANGED <<chosen, held>>

SchedSpec == SchedInit /\ [][SchedNext]_schedVars
-----------------------------------------------------------------------------

(***************************************************************************)
(* Slots are only a way to speak of devices: what the scheduler allocates  *)
(* to a claim, knowing selectors and constraints alone, is the very NIC    *)
(* that was reserved, with a GPU on its PCIe root.  Else the reservations  *)
(* of the allocator would protect other NICs than those in use             *)
(* (BuildSinglePairClaimSpec, BuildExplicitPairClaimSpec).                 *)
(***************************************************************************)
HeldAsReserved ==
  \A p \in Pod : status[p] = "bound" =>
    /\ DOMAIN held[p] = DOMAIN chosen[p]
    /\ {chosen[p][i] : i \in DOMAIN chosen[p]} = slots[p]
    /\ \A i \in DOMAIN chosen[p] :
         /\ held[p][i]["nic"] = NICOf(mode, chosen[p][i])
         /\ PCIeRoot[held[p][i]["gpu"]] = PCIeRoot[held[p][i]["nic"]]

(***************************************************************************)
(* An admitted pod never waits for devices: from the moment it is stored   *)
(* its node satisfies its own constraints, and all its claims could be     *)
(* allocated there at once, whatever has been placed since.                *)
(***************************************************************************)
AdmittedCanRun ==
  \A p \in Pod : status[p] = "created" =>
    /\ SchedulerAccepts(Constraints[p], node[p], Label[node[p]])
    /\ Allocations(p) # {}

(***************************************************************************)
(* The NICs of a running pod can be told apart and routed: interfaces and  *)
(* routing tables differ, and each rule speaks of the subnet its NIC is on *)
(* (buildNICParameters; the parameters are bound to claims by position,    *)
(* the NICs by selectors).                                                 *)
(***************************************************************************)
NICsConfigured ==
  \A p \in Pod : status[p] = "bound" =>
    LET claims == Claims(p)
        given(i) == CHOOSE x \in claims[i].params : TRUE
        tables(i) == {r.table : r \in given(i).rules} \union
                     {r.table : r \in {q \in given(i).routes : q.table # MainTable}}
    IN  /\ \A i, j \in DOMAIN claims : i # j =>
             /\ given(i).interface # given(j).interface
             /\ tables(i) \intersect tables(j) = {}
        /\ \A i \in DOMAIN claims : \A r \in given(i).rules :
             <<"subnet", r.source>> \in Attributes[mode][held[p][i]["nic"]]

(***************************************************************************)
(* The promise of Booking: NICs are booked for a pod as a whole, never     *)
(* twice, and given back as a whole.                                       *)
(***************************************************************************)
Promise == INSTANCE Booking WITH booked <- slots

ImplementsBooking == Promise!Spec
=============================================================================
