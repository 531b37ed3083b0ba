------------------------------ MODULE Preflight ------------------------------
(***************************************************************************)
(* Two other judges of whether a request can be placed, beside the         *)
(* allocator: the preflight checker (internal/webhook/preflight.go, called *)
(* by tests only) and the dry run on captured objects                      *)
(* (internal/dryrun/simulate.go).  They read the same slices in their own  *)
(* ways and know nothing of reservations.                                  *)
(***************************************************************************)
EXTENDS Scheduling

(***************************************************************************)
(* They also take for granted that NICs are no GPUs, that the slots of a   *)
(* node in explicit mode are pairs of its pool, with devices for roles     *)
(* that are configured, and that on a rail's prefix there is no NIC (with  *)
(* RDMA, where required) but the rail's slot.                              *)
(***************************************************************************)
PoolsListSlots ==
  \A s \in NIC :
    /\ GetNodePoolMapping(Label[s[1]], Config["explicit"]) # {}
    /\ s[2] \in DOMAIN PoolOf(s[1]).pairs
    /\ IsFiniteSet(DOMAIN PoolOf(s[1]).pairs)
    /\ DOMAIN PairOf(s).devices \subseteq DOMAIN Config["explicit"].deviceSelectors

OnlySlotsOnRails ==
  LET cfg == Config["ethernet"]
      has(d, a) == a \in Attributes["ethernet"][d]
  IN  \A r \in DOMAIN cfg.rails, d \in NIC \union OtherNIC :
        /\ has(d, <<"ipv4Prefix", cfg.rails[r].ipv4Prefix>>)
        /\ cfg.rdmaRequired => has(d, <<"rdma", "true">>)
        => d \in NIC /\ d[2] = r

ASSUME PreflightAssumption ==
  /\ \A m \in Modes, d \in NIC \union OtherNIC : DeviceClass[d] # Config[m].gpuClass
  /\ PoolsListSlots
  /\ OnlySlotsOnRails

config == Config[mode]

(***************************************************************************)
(* The NICs a slice shows as free: with an interface name, which the       *)
(* driver strips from allocated NICs unless they are InfiniBand's.         *)
(***************************************************************************)
Shown == (NIC \union OtherNIC) \ (IF mode = "infiniband" THEN {} ELSE HeldBy(Pod))

isNICAvailable(d) ==
  d \in Shown /\ (config.rdmaRequired => <<"rdma", "true">> \in Attributes[mode][d])

\* NICs that have a GPU, in use or not, on their PCIe root; any, if no GPU is known.
getEthernetClusterAvailability(n) ==
  {d \in On(NIC \union OtherNIC, n) :
     /\ isNICAvailable(d)
     /\ On(GPU, n) # {} => \E g \in On(GPU, n) : PCIeRoot[g] = PCIeRoot[d]}

\* The NICs of a node that are rails, and how many NICs of it claims hold.
IBRailsOf(n) ==
  {d \in On(NIC, n) : \E r \in DOMAIN config.ibRails :
     <<"pciAddress", config.ibRails[r].nic>> \in Attributes[mode][d]}
consumedOn(n) == Cardinality(On((NIC \union OtherNIC) \intersect HeldBy(Pod), n))

(***************************************************************************)
(* The pairs of a node, and in each of its zones.  On InfiniBand the       *)
(* consumed NICs are counted, and spread over the zones in proportion.     *)
(***************************************************************************)
TotalPairs(n) ==
  IF mode = "infiniband"
  THEN IF Cardinality(IBRailsOf(n)) > consumedOn(n)
       THEN Cardinality(IBRailsOf(n)) - consumedOn(n) ELSE 0
  ELSE Cardinality(getEthernetClusterAvailability(n))

PairsPerNUMA(n, z) ==
  LET total == Cardinality(Zone(IBRailsOf(n), z))
  IN  IF mode # "infiniband"
      THEN Cardinality(Zone(getEthernetClusterAvailability(n), z))
      ELSE IF TotalPairs(n) = 0 THEN 0
      ELSE total - (consumedOn(n) * total) \div Cardinality(IBRailsOf(n))

\* Faulty variant of CheckAvailability: a node must have one pair to spare.
CheckAvailabilityToSpare(count, constrained, listed) ==
  listed => \E n \in Node : TotalPairs(n) > count

\* A failed list of the slices lets every request pass.  (One of the claims, which
\* passes for an empty one, is left out.)
CheckAvailability(count, constrained, listed) ==
  listed => \E n \in Node :
    IF constrained
    THEN \E z \in {Numa[s] : s \in On(NIC, n)} : PairsPerNUMA(n, z) >= count
    ELSE TotalPairs(n) >= count

\* Any pool counts for any node, whatever the label of the node.
CheckExplicitAvailability(count, listed) ==
  listed => \E i \in DOMAIN config.nodePools, n \in Node :
    LET pairs == config.nodePools[i].pairs
        has(pair, role) == \E d \in On(Device, n) :
          /\ DeviceClass[d] = config.deviceSelectors[role].class
          /\ buildDevicePinSelector(config.deviceSelectors[role], pair.devices[role])
               \in Attributes[mode][d]
          /\ role = "nic" => isNICAvailable(d)
    IN  Cardinality({k \in DOMAIN pairs :
          \A role \in DOMAIN pairs[k].devices : has(pairs[k], role)}) >= count

(***************************************************************************)
(* Rail selection.  On InfiniBand, allocated NICs still show their address *)
(* and are not left out; without rails it is never reached there.          *)
(***************************************************************************)
\* Faulty: NICs in use are not left out.
railsOfAll(n) ==
  {r \in DOMAIN config.rails : \E d \in On(NIC, n) :
     <<"ipv4Prefix", config.rails[r].ipv4Prefix>> \in Attributes[mode][d]}

railsOf(n) ==
  {r \in DOMAIN config.rails : \E d \in On(NIC \union OtherNIC, n) :
     /\ isNICAvailable(d)
     /\ <<"ipv4Prefix", config.rails[r].ipv4Prefix>> \in Attributes[mode][d]}

sequentialRails(count) == {0 .. count - 1}

\* Any node and zone may be the first to have enough; unclaimed rails are preferred.
findAvailableRails(count, constrained, claimed) ==
  LET groups == UNION {IF constrained
                       THEN {{r \in railsOf(n) : Numa[<<n, r>>] = z} :
                               z \in {Numa[<<n, r>>] : r \in railsOf(n)}}
                       ELSE {railsOf(n)} : n \in Node}
      first == UNION {kSubset(count, G \ claimed) : G \in groups}
  IN  IF first # {} THEN first ELSE UNION {kSubset(count, G) : G \in groups}

SelectAvailableRails(count, constrained, claimed, listed) ==
  IF DOMAIN config.rails = {} \/ ~listed \/ findAvailableRails(count, constrained, claimed) = {}
  THEN sequentialRails(count)
  ELSE findAvailableRails(count, constrained, claimed)

(***************************************************************************)
(* The dry run: Mutate with a fresh allocator on the slices and nodes; no  *)
(* claims and no pods are captured.  These are the nodes it may report.    *)
(***************************************************************************)
Simulate(p) ==
  LET captured == NIC \ (IF mode = "infiniband" THEN {} ELSE InUse)
      choices(n) == IF mode = "explicit"
                    THEN selectExplicitPairs(On(captured, n), Pairs[p], numaAware(p))
                    ELSE selectSlots(On(captured, n), Pairs[p], numaAware(p))
  IN  {n \in Fits[p] :
         /\ ValidateRequest(Pairs[p], p \in CrossNUMA)
         /\ Follows[p] = {}
         /\ choices(n) # {}}
-----------------------------------------------------------------------------

(***************************************************************************)
(* "avoids pods stuck in Pending" must not mean that pods are refused that *)
(* could run: what the allocator would place, the preflight check and the  *)
(* dry run let pass - except the check on InfiniBand under the NUMA        *)
(* constraint, where the spreading over zones is a guess, and the dry run  *)
(* of pods with an affinity term, which finds no pods                      *)
(* (CheckAvailability, CheckExplicitAvailability, Simulate).               *)
(***************************************************************************)
NoFalseRefusal ==
  \A w \in Replica, p \in Pod :
    /\ status[p] = "new"
    /\ ValidateRequest(Pairs[p], p \in CrossNUMA)
    /\ Placements(w, p, Node, TRUE, TRUE) # {}
    => /\ mode = "explicit" => CheckExplicitAvailability(Pairs[p], TRUE)
       /\ mode = "ethernet" \/ (mode = "infiniband" /\ ~numaConstrained(p)) =>
            CheckAvailability(Pairs[p], numaConstrained(p), TRUE)
       /\ Follows[p] = {} => Simulate(p) # {}

(***************************************************************************)
(* "find rails with free NICs": if the allocator can place the pod, every  *)
(* selection of rails has free NICs on one node, in one zone if the pod is *)
(* constrained, and avoids the claimed rails where that is possible        *)
(* (SelectAvailableRails; on InfiniBand it takes rails in use as well).    *)
(***************************************************************************)
SelectedRailsFree ==
  mode = "ethernet" =>
    \A w \in Replica, p \in Pod : \A claimed \in SUBSET Rail :
      status[p] = "new" /\ Placements(w, p, Node, TRUE, TRUE) # {} =>
        \A S \in SelectAvailableRails(Pairs[p], numaConstrained(p), claimed, TRUE) :
          \E n \in Node :
            /\ Cardinality(S) = Pairs[p]
            /\ {n} \X S \subseteq NIC \ HeldBy(Pod)
            /\ numaConstrained(p) => \A r, t \in S : Numa[<<n, r>>] = Numa[<<n, t>>]
=============================================================================
