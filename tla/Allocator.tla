------------------------------ MODULE Allocator ------------------------------
(***************************************************************************)
(* The cluster-level allocator (internal/webhook/allocator.go) with the    *)
(* calls Mutate makes of it (internal/webhook/mutator.go), in the          *)
(* environment it works in: pods that are persisted, rejected, scheduled   *)
(* and deleted some time after the webhook has answered, webhook replicas  *)
(* with a reservation map each, and list calls that fail.                  *)
(*                                                                         *)
(* A slot is an RDMA NIC, named by its node and its rail (or, in explicit  *)
(* mode, by its node and the index of the configured pair).  Time is kept  *)
(* as ages: a reservation's age grows with every tick, and an age above    *)
(* TTL stands for no entry, because expirePending deletes it before the    *)
(* entry is looked at.  The keys of pair reservations ("node:rail") and of *)
(* extended-resource reservations ("ext:class:node:index") never meet in   *)
(* the code, so a.pending is two functions here.                           *)
(***************************************************************************)
EXTENDS Naturals, FiniteSets, FiniteSetsExt

CONSTANTS
  Node, Rail,
  NIC,               \* the RDMA NICs: pairs <<node, rail>>
  Numa,              \* the NUMA zone of each NIC
  Topology,          \* the value of the affinity topology key of each node
  Class,             \* the device classes of intercepted extended resources
  GPUClass,          \* the class whose devices gpu-nic-pairs use too
  Capacity,          \* devices of a class on a node: [Class -> [Node -> Nat]]
  Pod,
  Pairs,             \* gpu-nic-pairs each pod asks for
  Ext,               \* devices of each class each pod asks for
  CrossNUMA,         \* the pods annotated allow-cross-numa
  Fits,              \* the nodes each pod's nodeSelector and nodeAffinity allow
  Avoids, Follows,   \* the pods matched by each pod's anti-affinity and affinity
  MaxPairsPerNode, MaxPairsPerNUMA, DisableNUMAPacking,
  TTL,               \* pendingTTL, in ticks
  Replica,           \* webhook processes
  NoNode, NoReplica,
  Prompt,            \* pods are scheduled, rejected or deleted within TTL
  ListsFail,         \* list calls whose failure is tolerated may fail
  Restarts           \* webhook processes may restart

ASSUME AllocatorAssumption ==
  /\ NIC \subseteq Node \X Rail
  /\ TTL \in Nat
  /\ NoNode \notin Node
  /\ NoReplica \notin Replica
  /\ IsFiniteSet(NIC) /\ IsFiniteSet(Pod) /\ IsFiniteSet(Class)
  /\ Pairs \in [Pod -> Nat]
  /\ Ext \in [Pod -> [Class -> Nat]]
  /\ Capacity \in [Class -> [Node -> Nat]]
  /\ {Prompt, ListsFail, Restarts, DisableNUMAPacking} \subseteq BOOLEAN

VARIABLES
  mode,        \* the configured pairing mode and transport
  pending,     \* age of the reservation of each NIC, per replica
  extPending,  \* age of the reservation of each "ext:class:node:index" key
  status,      \* where each pod is between admission and deletion
  node,        \* the node the webhook has pinned the pod to
  slots,       \* the NICs chosen for the pod
  left,        \* the classes Mutate has not allocated for the pod yet
  age,         \* ticks since the pod's slots were reserved
  owner        \* history: the process that remembers placing the pod

podVars == <<status, node, slots, left, age, owner>>
vars == <<mode, pending, extPending, podVars>>

Modes == {"ethernet", "infiniband", "explicit"}

\* "mutating": some intercepted classes are allocated, others are not;
\* "mutated": the patch is returned; "created": the API server has stored the
\* pod; "bound": the scheduler has allocated its claims; "gone": denied,
\* rejected, finished or deleted.
Statuses == {"new", "mutating", "mutated", "created", "bound", "gone"}

Placed(p) == status[p] \in {"mutated", "created", "bound"}
Listed(p) == status[p] \in {"created", "bound"}
Unsettled(p) == status[p] \in {"mutating", "mutated", "created"}

\* The indices 0, 1, ... that some request marks, and the keys made of them.
ExtIndex == UNION {UNION {0 .. Ext[p][c] - 1 : c \in Class} : p \in Pod}
ExtKey == Class \X Node \X ExtIndex

Classes(p) == {c \in Class : Ext[p][c] > 0}

Init ==
  /\ mode \in Modes
  /\ pending = [w \in Replica |-> [s \in NIC |-> TTL + 1]]
  /\ extPending = [w \in Replica |-> [k \in ExtKey |-> TTL + 1]]
  /\ status = [p \in Pod |-> "new"]
  /\ node = [p \in Pod |-> NoNode]
  /\ slots = [p \in Pod |-> {}]
  /\ left = [p \in Pod |-> {}]
  /\ age = [p \in Pod |-> 0]
  /\ owner = [p \in Pod |-> NoReplica]

-----------------------------------------------------------------------------
(***************************************************************************)
(* What a call sees of the cluster.  listed is FALSE when the claim list   *)
(* (or the pod list) fails: the code logs it and goes on without.          *)
(***************************************************************************)

\* The NICs held by pods whose claims are allocated.
InUse == UNION {slots[p] : p \in {q \in Pod : status[q] = "bound"}}

\* NICs whose ipv4 address the dranet driver has stripped are skipped.
scanEthernetSlots == NIC \ InUse

\* NICs found in allocated claims are skipped: none, if the claim list fails.
scanIBSlots(listed) == NIC \ (IF listed THEN InUse ELSE {})

\* Configured pairs whose interface name the driver has stripped are skipped.
scanExplicitAvailability == NIC \ InUse

scanAvailableSlots(listed) ==
  CASE mode = "ethernet" -> scanEthernetSlots
    [] mode = "infiniband" -> scanIBSlots(listed)
    [] mode = "explicit" -> scanExplicitAvailability

\* Faulty variants of Fresh: the comparison excludes the limit; nothing expires.
FreshBelowTTL(a) == a < TTL
FreshForEver(a) == a <= TTL + 1

\* An entry of age TTL is kept: expirePending deletes what is older.
Fresh(a) == a <= TTL

FreeSlots(w, listed) ==
  {s \in scanAvailableSlots(listed) : ~Fresh(pending[w][s])}

On(S, n) == {s \in S : s[1] = n}
Zone(S, z) == {s \in S : Numa[s] = z}

(***************************************************************************)
(* filterNodesByConstraints: what nodeSelector and nodeAffinity allow,     *)
(* without the topology domains of listed pods that the anti-affinity term *)
(* matches, within those the affinity term matches.  A pod that is mutated *)
(* but not stored yet is on no list.                                       *)
(***************************************************************************)
Domains(Q) == {Topology[node[q]] : q \in {r \in Q : Listed(r)}}

filterNodesByConstraints(p, N, listed) ==
  {n \in N \intersect Fits[p] :
     /\ listed => Topology[n] \notin Domains(Avoids[p])
     /\ Follows[p] # {} => listed /\ Topology[n] \in Domains(Follows[p])}

ValidateRequest(count, cross) ==
  /\ count \in 1 .. MaxPairsPerNode
  /\ mode = "ethernet" => count <= Cardinality(Rail)
  /\ count = MaxPairsPerNode \/ count <= MaxPairsPerNUMA \/ cross

(***************************************************************************)
(* The sets of slots selectSlots may return.  Which slots of a zone are    *)
(* taken depends on the order of the resource slices.  A small request     *)
(* takes the eligible zone with the fewest free slots, a large one the     *)
(* zone with most.                                                         *)
(***************************************************************************)
selectSlots(S, count, numaAware) ==
  LET zones == {z \in {Numa[s] : s \in S} : Cardinality(Zone(S, z)) >= count}
      free(z) == Cardinality(Zone(S, z))
      best == {z \in zones : \A y \in zones :
                 IF count < MaxPairsPerNUMA THEN free(z) <= free(y)
                                            ELSE free(z) >= free(y)}
  IN  IF numaAware THEN UNION {kSubset(count, Zone(S, z)) : z \in best}
                   ELSE kSubset(count, S)

\* The same, on the indices of the configured pairs and their declared zones.
selectExplicitPairs(S, count, numaGrouped) == selectSlots(S, count, numaGrouped)

numaConstrained(p) == p \notin CrossNUMA /\ Pairs[p] < MaxPairsPerNode

\* Faulty variant of numaAware: the NUMA constraint is not passed on.
numaIgnored(p) == FALSE

\* DisableNUMAPacking is looked at by Allocate only.
numaAware(p) ==
  numaConstrained(p) /\ (mode = "explicit" \/ ~DisableNUMAPacking)

(***************************************************************************)
(* The placements Allocate and AllocateExplicit may return on the nodes N: *)
(* candidates are tried with the fewest free slots first.                  *)
(***************************************************************************)
Placements(w, p, N, claimsListed, podsListed) ==
  LET free == FreeSlots(w, claimsListed)
      choices(n) == IF mode = "explicit"
                    THEN selectExplicitPairs(On(free, n), Pairs[p], numaAware(p))
                    ELSE selectSlots(On(free, n), Pairs[p], numaAware(p))
      able == {n \in filterNodesByConstraints(p, N, podsListed) : choices(n) # {}}
      first == {n \in able : \A m \in able :
                  Cardinality(On(free, n)) <= Cardinality(On(free, m))}
  IN  UNION {{n} \X choices(n) : n \in first}

ListResults == IF ListsFail THEN BOOLEAN ELSE {TRUE}

\* AllocateExplicit lists the slices anew for every node, and leaves out the
\* nodes for which that fails; Allocate lists them once, or denies the request.
ScanResults == IF ListsFail /\ mode = "explicit" THEN SUBSET Node ELSE {Node}

-----------------------------------------------------------------------------
\* The mutation queue runs one Mutate at a time in each process.
Idle(w) == \A p \in Pod : status[p] = "mutating" => owner[p] # w

\* The pod is pinned to node n by the affinity patch Mutate returns.
PinNowhere(p, n) == node   \* faulty: no affinity patch
Pin(p, n) == [node EXCEPT ![p] = n]

\* The slots S are marked as pending in process w.
ReserveNothing(w, S) == pending   \* faulty: Allocate forgets to mark them
Reserve(w, S) ==
  [pending EXCEPT ![w] = [s \in NIC |-> IF s \in S THEN 0 ELSE @[s]]]

(***************************************************************************)
(* Phase 1 of Mutate: the pairs.  A request that cannot be placed is       *)
(* denied, which changes nothing the allocator keeps.                      *)
(***************************************************************************)
Allocate(w, p) ==
  /\ status[p] = "new" /\ Idle(w)
  /\ Pairs[p] > 0 /\ Classes(p) = {}
  /\ ValidateRequest(Pairs[p], p \in CrossNUMA)
  /\ \E claimsListed, podsListed \in ListResults, N \in ScanResults :
     \E place \in Placements(w, p, N, claimsListed, podsListed) :
       /\ node' = Pin(p, place[1])
       /\ slots' = [slots EXCEPT ![p] = place[2]]
       /\ pending' = Reserve(w, place[2])
  /\ status' = [status EXCEPT ![p] = "mutated"]
  /\ age' = [age EXCEPT ![p] = 0]
  /\ owner' = [owner EXCEPT ![p] = w]
  /\ UNCHANGED <<mode, extPending, left>>

(***************************************************************************)
(* Phase 2 of Mutate, and all of MutateExtOnly: one call of                *)
(* AllocateExtendedResource per intercepted class, in the order of a map   *)
(* iteration.  The first call chooses the node, the others are constrained *)
(* to it.                                                                  *)
(***************************************************************************)
Uses(p, c) == Ext[p][c] + (IF c = GPUClass THEN Pairs[p] ELSE 0)

\* How many devices of a class the pods of a set use.
UsedBy(Q, c) == Cardinality(UNION {{p} \X (1 .. Uses(p, c)) : p \in Q})

Consumed(c, n) == UsedBy({p \in Pod : status[p] = "bound" /\ node[p] = n}, c)

Reserved(w, c, n) ==
  Cardinality({k \in ExtKey : k[1] = c /\ k[2] = n /\ Fresh(extPending[w][k])})

\* Faulty variant of scanAvailableDevices: reservations are not subtracted.
scanIgnoringReservations(w, c, n, listed) ==
  Capacity[c][n] - (IF listed THEN Consumed(c, n) ELSE 0)

\* Reservations are subtracted from what allocated claims leave, down to zero.
scanAvailableDevices(w, c, n, listed) ==
  LET scanned == Capacity[c][n] - (IF listed THEN Consumed(c, n) ELSE 0)
  IN  IF scanned > Reserved(w, c, n) THEN scanned - Reserved(w, c, n) ELSE 0

AllocateExtendedResource(w, p, c) ==
  /\ \/ status[p] = "new" /\ Idle(w) /\ Pairs[p] = 0 /\ c \in Classes(p)
     \/ status[p] = "mutating" /\ owner[p] = w /\ c \in left[p]
  /\ \E claimsListed, podsListed \in ListResults :
       LET avail(n) == scanAvailableDevices(w, c, n, claimsListed)
           able == {n \in Node : avail(n) >= Ext[p][c]}
           candidates == filterNodesByConstraints(p, able, podsListed)
           first == {n \in candidates : \A m \in candidates : avail(n) <= avail(m)}
       IN  \E n \in IF status[p] = "new" THEN first ELSE able \intersect {node[p]} :
             /\ node' = Pin(p, n)
             /\ extPending' = [extPending EXCEPT ![w] =
                  [k \in ExtKey |->
                     IF k[1] = c /\ k[2] = n /\ k[3] < Ext[p][c] THEN 0 ELSE @[k]]]
  /\ left' = [left EXCEPT ![p] = (IF status[p] = "new" THEN Classes(p) ELSE @) \ {c}]
  /\ status' = [status EXCEPT ![p] = IF left'[p] = {} THEN "mutated" ELSE "mutating"]
  /\ age' = [age EXCEPT ![p] = IF status[p] = "new" THEN 0 ELSE @]
  /\ owner' = [owner EXCEPT ![p] = w]
  /\ UNCHANGED <<mode, pending, slots>>

-----------------------------------------------------------------------------
(***************************************************************************)
(* The environment.                                                        *)
(***************************************************************************)

Forget(p) ==
  /\ status' = [status EXCEPT ![p] = "gone"]
  /\ node' = [node EXCEPT ![p] = NoNode]
  /\ slots' = [slots EXCEPT ![p] = {}]
  /\ left' = [left EXCEPT ![p] = {}]
  /\ age' = [age EXCEPT ![p] = 0]
  /\ owner' = [owner EXCEPT ![p] = NoReplica]
  /\ UNCHANGED <<mode, pending, extPending>>

(***************************************************************************)
(* A step of Mutate after a reservation fails - a later class does not fit *)
(* or a claim template cannot be created - or the API server does not      *)
(* store the mutated pod.  Mutate returns and leaves its reservations.     *)
(***************************************************************************)
Reject(p) == status[p] \in {"mutating", "mutated"} /\ Forget(p)

\* The API server stores the mutated pod, which is then on pod lists.
Create(p) ==
  /\ status[p] = "mutated"
  /\ status' = [status EXCEPT ![p] = "created"]
  /\ UNCHANGED <<mode, pending, extPending, node, slots, left, age, owner>>

\* The pod's claims are allocated: its slots are in use, whoever reserved them.
Settle(p) ==
  /\ status[p] = "created"
  /\ status' = [status EXCEPT ![p] = "bound"]
  /\ age' = [age EXCEPT ![p] = 0]
  /\ owner' = [owner EXCEPT ![p] = NoReplica]
  /\ UNCHANGED <<mode, pending, extPending, node, slots, left>>

(***************************************************************************)
(* The scheduler allocates the pod's claims - never a device another claim *)
(* holds - and the drivers make it visible.                                *)
(***************************************************************************)
Bind(p) ==
  /\ Settle(p)
  /\ slots[p] \intersect InUse = {}
  /\ \A c \in Class : Consumed(c, node[p]) + Uses(p, c) <= Capacity[c][node[p]]

\* The pod finishes or is deleted and its claims are released.
Delete(p) == status[p] \in {"created", "bound"} /\ Forget(p)

\* A controller makes another pod of the same shape.
Recreate(p) ==
  /\ status[p] = "gone"
  /\ status' = [status EXCEPT ![p] = "new"]
  /\ UNCHANGED <<mode, pending, extPending, node, slots, left, age, owner>>

Older(a) == IF a > TTL THEN a ELSE a + 1

\* Time passes; not beyond TTL for an unsettled pod if those are Prompt.
Tick ==
  /\ Prompt => \A p \in Pod : Unsettled(p) => age[p] < TTL
  /\ pending' = [w \in Replica |-> [s \in NIC |-> Older(pending[w][s])]]
  /\ extPending' = [w \in Replica |-> [k \in ExtKey |-> Older(extPending[w][k])]]
  /\ age' = [p \in Pod |-> IF Unsettled(p) THEN Older(age[p]) ELSE age[p]]
  /\ UNCHANGED <<mode, status, node, slots, left, owner>>

\* A webhook process restarts with an empty pending map (NewAllocator).
Restart(w) ==
  /\ Restarts
  /\ pending' = [pending EXCEPT ![w] = [s \in NIC |-> TTL + 1]]
  /\ extPending' = [extPending EXCEPT ![w] = [k \in ExtKey |-> TTL + 1]]
  /\ owner' = [p \in Pod |-> IF owner[p] = w THEN NoReplica ELSE owner[p]]
  /\ UNCHANGED <<mode, status, node, slots, left, age>>

Next ==
  \/ Tick
  \/ \E w \in Replica : Restart(w)
  \/ \E w \in Replica, p \in Pod : Allocate(w, p)
  \/ \E w \in Replica, p \in Pod, c \in Class : AllocateExtendedResource(w, p, c)
  \/ \E p \in Pod : Reject(p) \/ Create(p) \/ Bind(p) \/ Delete(p) \/ Recreate(p)

Spec == Init /\ [][Next]_vars

\* Time passes.
FairSpec == Spec /\ WF_vars(Tick)

-----------------------------------------------------------------------------

\* Types; and a pod has a node, slots or classes to go only while it is under way.
TypeOK ==
  /\ mode \in Modes
  /\ pending \in [Replica -> [NIC -> 0 .. TTL + 1]]
  /\ extPending \in [Replica -> [ExtKey -> 0 .. TTL + 1]]
  /\ status \in [Pod -> Statuses]
  /\ node \in [Pod -> Node \union {NoNode}]
  /\ slots \in [Pod -> SUBSET NIC]
  /\ left \in [Pod -> SUBSET Class]
  /\ age \in [Pod -> 0 .. TTL + 1]
  /\ owner \in [Pod -> Replica \union {NoReplica}]
  /\ \A p \in Pod : (Unsettled(p) \/ Placed(p)) <=> node[p] # NoNode

(***************************************************************************)
(* A pod that is admitted has what it asked for: exactly Pairs NICs, all   *)
(* on the node it is pinned to, a node its selectors allow, and within one *)
(* NUMA zone unless it may cross zones (Allocate, selectSlots).            *)
(***************************************************************************)
PlacementFits ==
  \A p \in Pod : Placed(p) =>
    /\ node[p] \in Fits[p]
    /\ Cardinality(slots[p]) = Pairs[p]
    /\ slots[p] \subseteq On(NIC, node[p])
    /\ numaConstrained(p) /\ ~DisableNUMAPacking =>
         \A s, t \in slots[p] : Numa[s] = Numa[t]
    /\ left[p] = {}

(***************************************************************************)
(* allocator.go:52, "tracks pending allocations to prevent double-booking":*)
(* no NIC is handed to two pods, from the moment the first is admitted to  *)
(* its deletion.                                                           *)
(***************************************************************************)
NoDoubleBooking ==
  \A p, q \in Pod :
    p # q /\ Placed(p) /\ Placed(q) => slots[p] \intersect slots[q] = {}

(***************************************************************************)
(* What the reservations give whatever fails around them: two admitted,    *)
(* unscheduled pods that one process has placed within TTL, and since its  *)
(* start, never share a NIC (Allocate, expirePending).                     *)
(***************************************************************************)
ReservedOnce ==
  \A p, q \in Pod :
    /\ p # q /\ Unsettled(p) /\ Unsettled(q)
    /\ owner[p] = owner[q] /\ owner[p] # NoReplica
    /\ Fresh(age[p]) /\ Fresh(age[q])
    => slots[p] \intersect slots[q] = {}

(***************************************************************************)
(* The strengthening under which ReservedOnce is inductive.                *)
(***************************************************************************)
\* Only a pod whose pairs have been allocated has slots.
OthersHaveNoSlots ==
  \A p \in Pod : status[p] \in {"new", "mutating", "gone"} => slots[p] = {}

\* The process that placed a pod holds reservations no older than the placement.
Covered ==
  \A p \in Pod : Unsettled(p) /\ owner[p] # NoReplica =>
    \A s \in slots[p] : pending[owner[p]][s] <= age[p]

IInv == TypeOK /\ OthersHaveNoSlots /\ Covered /\ ReservedOnce

\* What makes PlacementFits inductive: the pod is pinned to a node that fits by its
\* first step, and mutations of several steps are of pods without pairs.
FitsSoFar ==
  \A p \in Pod :
    /\ Unsettled(p) => node[p] \in Fits[p]
    /\ status[p] = "mutating" => Pairs[p] = 0
    /\ status[p] \in {"new", "gone"} => left[p] = {}

\* With prompt pods and one process that keeps running, every reservation is fresh.
Tracked ==
  \A p \in Pod : Unsettled(p) => owner[p] # NoReplica /\ Fresh(age[p])

(***************************************************************************)
(* What the extended-resource reservations give: any two pods one process  *)
(* has placed on a node within TTL fit on it together.  Three need not:    *)
(* keys start at index 0 in every request (AllocateExtendedResource), so   *)
(* the second reservation is written over the first.                       *)
(***************************************************************************)
ExtFitPairwise ==
  \A p, q \in Pod : \A c \in Class \ (left[p] \union left[q]) :
    /\ p # q /\ Unsettled(p) /\ Unsettled(q) /\ node[p] = node[q]
    /\ owner[p] = owner[q] /\ owner[p] # NoReplica
    /\ Fresh(age[p]) /\ Fresh(age[q])
    => Ext[p][c] + Ext[q][c] <= Capacity[c][node[p]]

(***************************************************************************)
(* The strengthening under which ExtFitPairwise is inductive.              *)
(***************************************************************************)
\* A pod alone fits on its node, for the classes allocated so far.
ExtFitAlone ==
  \A p \in Pod : Unsettled(p) =>
    \A c \in Class \ left[p] : Ext[p][c] <= Capacity[c][node[p]]

\* The process that placed a pod holds the marks of these classes, no older than
\* the placement.
ExtCovered ==
  \A p \in Pod : Unsettled(p) /\ owner[p] # NoReplica =>
    \A c \in Class \ left[p] : \A i \in 0 .. Ext[p][c] - 1 :
      extPending[owner[p]][<<c, node[p], i>>] <= age[p]

ExtIInv == TypeOK /\ ExtFitAlone /\ ExtCovered /\ ExtFitPairwise

\* The NICs some pod under way holds.
Held == UNION {slots[p] : p \in Pod}

(***************************************************************************)
(* allocator.go:65, "allowing stale reservations (from pods that were      *)
(* rejected or deleted) to be reclaimed": a NIC no pod holds is available  *)
(* to every process again in the end, or taken by another pod.             *)
(***************************************************************************)
ReservationReclaimed ==
  \A w \in Replica, s \in NIC : s \notin Held ~> s \in FreeSlots(w, TRUE) \union Held

\* The devices of a class allocated for the pods that are sent to a node.
Asked(c, n) == UsedBy({p \in Pod : node[p] = n /\ c \notin left[p]}, c)

(***************************************************************************)
(* The same for extended resources: a device may be subtracted twice, as   *)
(* that of a claim and as that of a reservation, or for a pod that is      *)
(* gone, but never for good (scanAvailableDevices).                        *)
(***************************************************************************)
DevicesReclaimed ==
  \A w \in Replica, c \in Class, n \in Node :
    []<>(scanAvailableDevices(w, c, n, TRUE) + Asked(c, n) >= Capacity[c][n])

(***************************************************************************)
(* allocator.go:52 again, for the devices of intercepted resources and the *)
(* GPUs of the pairs: the pods sent to a node never ask for more devices   *)
(* of a class than it has.                                                 *)
(***************************************************************************)
NoOverbooking == \A c \in Class, n \in Node : Asked(c, n) <= Capacity[c][n]

(***************************************************************************)
(* cmd/webhook/main.go:111, "anti-affinity is correctly evaluated across   *)
(* the batch": no two admitted pods share a topology domain that the       *)
(* anti-affinity of one excludes for the other.                            *)
(***************************************************************************)
AntiAffinityHeld ==
  \A p \in Pod : \A q \in Avoids[p] \ {p} :
    Placed(p) /\ Placed(q) => Topology[node[p]] # Topology[node[q]]
=============================================================================
