--------------------------- MODULE AllocatorProofs ---------------------------
(***************************************************************************)
(* Safety of pair reservations for all clusters, pods, numbers of replicas *)
(* and reservation lifetimes.                                              *)
(***************************************************************************)
EXTENDS Allocator, FiniteSetTheorems, FunctionTheorems, TLAPS

\* Slots that are selected were among the slots offered.
LEMMA SelectedWereOffered ==
  ASSUME NEW S, NEW count, NEW aware
  PROVE  selectSlots(S, count, aware) \subseteq SUBSET S
<1>1. \A z : kSubset(count, Zone(S, z)) \subseteq SUBSET S
  BY DEF kSubset, Zone
<1>2. kSubset(count, S) \subseteq SUBSET S
  BY DEF kSubset
<1>. QED
  BY <1>1, <1>2 DEF selectSlots

\* A placement is a node and a set of slots no fresh reservation of w covers.
LEMMA PlacementsAreFree ==
  ASSUME NEW w, NEW p, NEW N \in SUBSET Node, NEW claimsListed, NEW podsListed,
         NEW place \in Placements(w, p, N, claimsListed, podsListed)
  PROVE  /\ place[1] \in Node
         /\ place[2] \subseteq FreeSlots(w, claimsListed)
<1>. DEFINE free == FreeSlots(w, claimsListed)
            choices(n) == IF mode = "explicit"
                          THEN selectExplicitPairs(On(free, n), Pairs[p], numaAware(p))
                          ELSE selectSlots(On(free, n), Pairs[p], numaAware(p))
<1>1. PICK n \in filterNodesByConstraints(p, N, podsListed) :
        place \in {n} \X choices(n)
  BY DEF Placements
<1>2. place[1] \in Node
  BY <1>1 DEF filterNodesByConstraints
<1>3. place[2] \in SUBSET On(free, n)
  BY <1>1, SelectedWereOffered DEF selectExplicitPairs
<1>4. On(free, n) \subseteq free
  BY DEF On
<1>. QED
  BY <1>2, <1>3, <1>4

LEMMA FreeSlotsAreNICs ==
  ASSUME mode \in Modes, NEW w, NEW listed
  PROVE  /\ FreeSlots(w, listed) \subseteq NIC
         /\ \A s \in FreeSlots(w, listed) : ~Fresh(pending[w][s])
         /\ listed => FreeSlots(w, listed) \intersect InUse = {}
  BY DEF FreeSlots, scanAvailableSlots, scanEthernetSlots, scanIBSlots,
         scanExplicitAvailability, Modes

-----------------------------------------------------------------------------
(***************************************************************************)
(* What each action does to the pods, as far as pairs are concerned.       *)
(***************************************************************************)

LEMMA AllocatePlaces ==
  ASSUME TypeOK, NEW w \in Replica, NEW p \in Pod, Allocate(w, p)
  PROVE  \E n \in Node, listed \in ListResults : \E S \in SUBSET FreeSlots(w, listed) :
           /\ node' = [node EXCEPT ![p] = n]
           /\ slots' = [slots EXCEPT ![p] = S]
           /\ pending' = [pending EXCEPT ![w] =
                            [s \in NIC |-> IF s \in S THEN 0 ELSE pending[w][s]]]
<1>1. PICK claimsListed \in ListResults, podsListed \in ListResults, N \in ScanResults :
      \E place \in Placements(w, p, N, claimsListed, podsListed) :
        /\ node' = Pin(p, place[1])
        /\ slots' = [slots EXCEPT ![p] = place[2]]
        /\ pending' = Reserve(w, place[2])
  BY DEF Allocate
<1>2. PICK place \in Placements(w, p, N, claimsListed, podsListed) :
        /\ node' = Pin(p, place[1])
        /\ slots' = [slots EXCEPT ![p] = place[2]]
        /\ pending' = Reserve(w, place[2])
  BY <1>1
<1>3. place[1] \in Node /\ place[2] \in SUBSET FreeSlots(w, claimsListed)
  <2>1. N \in SUBSET Node
    BY DEF ScanResults
  <2>. QED
    BY <2>1, PlacementsAreFree
<1>. QED
  BY <1>2, <1>3 DEF Pin, Reserve, TypeOK

LEMMA AllocateExtPins ==
  ASSUME TypeOK, NEW w \in Replica, NEW p \in Pod, NEW c \in Class,
         AllocateExtendedResource(w, p, c)
  PROVE  /\ \E n \in Node : node' = [node EXCEPT ![p] = n]
         /\ extPending' \in [Replica -> [ExtKey -> 0 .. TTL + 1]]
<1>1. PICK n \in Node :
        /\ node' = Pin(p, n)
        /\ extPending' = [extPending EXCEPT ![w] =
             [k \in ExtKey |->
                IF k[1] = c /\ k[2] = n /\ k[3] < Ext[p][c] THEN 0 ELSE extPending[w][k]]]
  BY DEF AllocateExtendedResource, filterNodesByConstraints, TypeOK
<1>2. 0 \in 0 .. TTL + 1
  BY AllocatorAssumption
<1>. QED
  BY <1>1, <1>2 DEF Pin, TypeOK

LEMMA OlderType ==
  \A a \in 0 .. TTL + 1 : Older(a) \in 0 .. TTL + 1 /\ a <= Older(a)
  BY AllocatorAssumption DEF Older

LEMMA OlderMonotone ==
  ASSUME NEW a \in 0 .. TTL + 1, NEW b \in 0 .. TTL + 1
  PROVE  /\ a <= b => Older(a) <= Older(b)
         /\ Fresh(Older(a)) => Fresh(a)
         /\ a < TTL => Fresh(Older(a))
  BY AllocatorAssumption DEF Older, Fresh

-----------------------------------------------------------------------------
(***************************************************************************)
(* Type correctness.                                                       *)
(***************************************************************************)

\* A step of the allocator's specification, or of one with another scheduler.
Step == [Next]_vars \/ \E p \in Pod : Settle(p)

LEMMA NextIsStep == [Next]_vars => Step
  BY DEF Step

LEMMA InitTypeOK == Init => TypeOK
  BY AllocatorAssumption
  DEF Init, TypeOK, Statuses, Unsettled, Placed

LEMMA NextTypeOK == TypeOK /\ Step => TypeOK'
<1>. SUFFICES ASSUME TypeOK, Step PROVE TypeOK'
  OBVIOUS
<1>0. 0 \in 0 .. TTL + 1 /\ TTL + 1 \in 0 .. TTL + 1 /\ NoNode \notin Node
  BY AllocatorAssumption
<1>1. ASSUME NEW w \in Replica, NEW p \in Pod, Allocate(w, p) PROVE TypeOK'
  <2>1. PICK n \in Node, listed \in ListResults : \E S \in SUBSET FreeSlots(w, listed) :
           /\ node' = [node EXCEPT ![p] = n]
           /\ slots' = [slots EXCEPT ![p] = S]
           /\ pending' = [pending EXCEPT ![w] =
                            [s \in NIC |-> IF s \in S THEN 0 ELSE pending[w][s]]]
    BY <1>1, AllocatePlaces
  <2>2. PICK S \in SUBSET FreeSlots(w, listed) :
           /\ node' = [node EXCEPT ![p] = n]
           /\ slots' = [slots EXCEPT ![p] = S]
           /\ pending' = [pending EXCEPT ![w] =
                            [s \in NIC |-> IF s \in S THEN 0 ELSE pending[w][s]]]
    BY <2>1
  <2>3. S \subseteq NIC
    BY FreeSlotsAreNICs DEF TypeOK
  <2>4. pending' \in [Replica -> [NIC -> 0 .. TTL + 1]]
    BY <1>0, <2>2 DEF TypeOK
  <2>5. /\ status' = [status EXCEPT ![p] = "mutated"]
        /\ age' = [age EXCEPT ![p] = 0]
        /\ owner' = [owner EXCEPT ![p] = w]
        /\ UNCHANGED <<mode, extPending, left>>
    BY <1>1 DEF Allocate
  <2>6. \A q \in Pod : (Unsettled(q)' \/ Placed(q)') <=> node'[q] # NoNode
    BY <1>0, <2>2, <2>5 DEF TypeOK, Unsettled, Placed
  <2>. QED
    BY <1>0, <2>2, <2>3, <2>4, <2>5, <2>6 DEF TypeOK, Statuses
<1>2. ASSUME NEW w \in Replica, NEW p \in Pod, NEW c \in Class,
             AllocateExtendedResource(w, p, c)
      PROVE  TypeOK'
  <2>1. PICK n \in Node : node' = [node EXCEPT ![p] = n]
    BY <1>2, AllocateExtPins
  <2>2. extPending' \in [Replica -> [ExtKey -> 0 .. TTL + 1]]
    BY <1>2, AllocateExtPins
  <2>3. /\ left' = [left EXCEPT ![p] = (IF status[p] = "new" THEN Classes(p) ELSE left[p]) \ {c}]
        /\ status' = [status EXCEPT ![p] = IF left'[p] = {} THEN "mutated" ELSE "mutating"]
        /\ age' = [age EXCEPT ![p] = IF status[p] = "new" THEN 0 ELSE age[p]]
        /\ owner' = [owner EXCEPT ![p] = w]
        /\ UNCHANGED <<mode, pending, slots>>
    BY <1>2 DEF AllocateExtendedResource
  <2>4. left' \in [Pod -> SUBSET Class]
    BY <2>3 DEF TypeOK, Classes
  <2>5. \A q \in Pod : (Unsettled(q)' \/ Placed(q)') <=> node'[q] # NoNode
    BY <1>0, <2>1, <2>3 DEF TypeOK, Unsettled, Placed
  <2>6. status' \in [Pod -> Statuses]
    BY <2>3 DEF TypeOK, Statuses
  <2>. QED
    BY <1>0, <2>1, <2>2, <2>3, <2>4, <2>5, <2>6 DEF TypeOK
<1>3. ASSUME NEW p \in Pod, Forget(p) PROVE TypeOK'
  BY <1>0, <1>3 DEF Forget, TypeOK, Statuses, Unsettled, Placed
<1>4. ASSUME NEW p \in Pod, Create(p) \/ Recreate(p) PROVE TypeOK'
  BY <1>4 DEF Create, Recreate, TypeOK, Statuses, Unsettled, Placed
<1>5. ASSUME NEW p \in Pod, Settle(p) PROVE TypeOK'
  BY <1>0, <1>5 DEF Settle, TypeOK, Statuses, Unsettled, Placed
<1>6. ASSUME Tick PROVE TypeOK'
  BY <1>6, OlderType DEF Tick, TypeOK, Unsettled, Placed
<1>7. ASSUME NEW w \in Replica, Restart(w) PROVE TypeOK'
  BY <1>0, <1>7 DEF Restart, TypeOK, Unsettled, Placed
<1>8. CASE UNCHANGED vars
  BY <1>8 DEF vars, podVars, TypeOK, Unsettled, Placed
<1>. QED
  BY <1>1, <1>2, <1>3, <1>4, <1>5, <1>6, <1>7, <1>8 DEF Step, Next, Reject, Delete, Bind

\* Spec => []TypeOK: in particular a pod has a node exactly while it is under way.
THEOREM AllocatorTypeOK == Spec => []TypeOK
  BY InitTypeOK, NextTypeOK, NextIsStep, PTL DEF Spec

-----------------------------------------------------------------------------
(***************************************************************************)
(* Reservations, whatever fails around them.                               *)
(***************************************************************************)

LEMMA InitIInv == Init => IInv
<1>1. Init => OthersHaveNoSlots /\ Covered /\ ReservedOnce
  BY DEF Init, OthersHaveNoSlots, Covered, ReservedOnce, Unsettled
<1>. QED
  BY <1>1, InitTypeOK DEF IInv

LEMMA NextIInv == IInv /\ Step => IInv'
<1>. SUFFICES ASSUME IInv, Step PROVE IInv'
  OBVIOUS
<1>0. TypeOK /\ TypeOK' /\ OthersHaveNoSlots /\ Covered /\ ReservedOnce
  BY NextTypeOK DEF IInv
<1>. SUFFICES OthersHaveNoSlots' /\ Covered' /\ ReservedOnce'
  BY <1>0 DEF IInv
<1>. DEFINE Goal == OthersHaveNoSlots' /\ Covered' /\ ReservedOnce'
<1>1. ASSUME NEW w \in Replica, NEW p \in Pod, Allocate(w, p) PROVE Goal
  <2>1. PICK n \in Node, listed \in ListResults : \E S \in SUBSET FreeSlots(w, listed) :
           /\ node' = [node EXCEPT ![p] = n]
           /\ slots' = [slots EXCEPT ![p] = S]
           /\ pending' = [pending EXCEPT ![w] =
                            [s \in NIC |-> IF s \in S THEN 0 ELSE pending[w][s]]]
    BY <1>0, <1>1, AllocatePlaces
  <2>2. PICK S \in SUBSET FreeSlots(w, listed) :
           /\ slots' = [slots EXCEPT ![p] = S]
           /\ pending' = [pending EXCEPT ![w] =
                            [s \in NIC |-> IF s \in S THEN 0 ELSE pending[w][s]]]
    BY <2>1
  <2>3. S \subseteq NIC /\ \A s \in S : ~Fresh(pending[w][s])
    BY FreeSlotsAreNICs DEF IInv, TypeOK
  <2>4. /\ status[p] = "new"
        /\ status' = [status EXCEPT ![p] = "mutated"]
        /\ age' = [age EXCEPT ![p] = 0]
        /\ owner' = [owner EXCEPT ![p] = w]
    BY <1>1 DEF Allocate
  <2>5. OthersHaveNoSlots'
    BY <1>0, <2>2, <2>4 DEF OthersHaveNoSlots, TypeOK
  <2>6. \A v \in Replica, s \in NIC :
          pending'[v][s] = IF v = w /\ s \in S THEN 0 ELSE pending[v][s]
    BY <1>0, <2>2 DEF TypeOK
  <2>7. Covered'
    <3>. SUFFICES ASSUME NEW q \in Pod, Unsettled(q)', owner'[q] # NoReplica,
                         NEW s \in slots'[q]
                  PROVE  pending'[owner'[q]][s] <= age'[q]
      BY DEF Covered
    <3>1. CASE q = p
      BY <1>0, <2>2, <2>3, <2>4, <2>6, <3>1 DEF TypeOK
    <3>2. CASE q # p
      <4>1. /\ Unsettled(q) /\ owner'[q] = owner[q] /\ age'[q] = age[q]
            /\ slots'[q] = slots[q]
        BY <1>0, <2>2, <2>4, <3>2 DEF TypeOK, Unsettled
      <4>2. owner[q] \in Replica /\ s \in NIC /\ age[q] \in 0 .. TTL + 1
        BY <1>0, <4>1 DEF TypeOK
      <4>3. pending[owner[q]][s] <= age[q]
        BY <1>0, <4>1 DEF Covered
      <4>. QED
        BY <2>6, <4>1, <4>2, <4>3
    <3>. QED
      BY <3>1, <3>2
  <2>8. \A q \in Pod :
          /\ q # p /\ Unsettled(q) /\ owner[q] = w /\ Fresh(age[q])
          => S \intersect slots[q] = {}
    <3>. SUFFICES ASSUME NEW q \in Pod, Unsettled(q), owner[q] = w, Fresh(age[q]),
                         NEW s \in S, s \in slots[q]
                  PROVE  FALSE
      OBVIOUS
    <3>1. w # NoReplica
      BY AllocatorAssumption
    <3>2. pending[w][s] <= age[q]
      BY <1>0, <3>1 DEF Covered
    <3>3. pending[w][s] \in Nat /\ age[q] \in Nat /\ TTL \in Nat
      BY <1>0, <2>3, AllocatorAssumption DEF TypeOK
    <3>. QED
      BY <2>3, <3>2, <3>3 DEF Fresh
  <2>9. ReservedOnce'
    <3>. SUFFICES ASSUME NEW q \in Pod, NEW r \in Pod, q # r,
                         Unsettled(q)', Unsettled(r)', owner'[q] = owner'[r],
                         owner'[q] # NoReplica, Fresh(age'[q]), Fresh(age'[r])
                  PROVE  slots'[q] \intersect slots'[r] = {}
      BY DEF ReservedOnce, Fresh
    <3>1. \A t \in Pod : t # p =>
            /\ slots'[t] = slots[t] /\ owner'[t] = owner[t] /\ age'[t] = age[t]
            /\ Unsettled(t)' = Unsettled(t)
      BY <1>0, <2>2, <2>4 DEF TypeOK, Unsettled
    <3>2. slots'[p] = S /\ owner'[p] = w
      BY <1>0, <2>2, <2>4 DEF TypeOK
    <3>3. CASE q = p
      BY <2>8, <3>1, <3>2, <3>3
    <3>4. CASE r = p
      BY <2>8, <3>1, <3>2, <3>4
    <3>5. CASE q # p /\ r # p
      BY <1>0, <3>1, <3>5 DEF ReservedOnce
    <3>. QED
      BY <3>3, <3>4, <3>5
  <2>. QED
    BY <2>5, <2>7, <2>9
<1>2. ASSUME NEW w \in Replica, NEW p \in Pod, NEW c \in Class,
             AllocateExtendedResource(w, p, c)
      PROVE  Goal
  <2>1. /\ status[p] \in {"new", "mutating"}
        /\ status' = [status EXCEPT ![p] = IF left'[p] = {} THEN "mutated" ELSE "mutating"]
        /\ age' = [age EXCEPT ![p] = IF status[p] = "new" THEN 0 ELSE age[p]]
        /\ owner' = [owner EXCEPT ![p] = w]
        /\ UNCHANGED <<pending, slots>>
    BY <1>2 DEF AllocateExtendedResource
  <2>2. slots[p] = {}
    BY <1>0, <2>1 DEF OthersHaveNoSlots
  <2>3. \A q \in Pod : q # p =>
          /\ status'[q] = status[q] /\ owner'[q] = owner[q] /\ age'[q] = age[q]
          /\ Unsettled(q)' = Unsettled(q)
    BY <1>0, <2>1 DEF TypeOK, Unsettled
  <2>4. OthersHaveNoSlots'
    BY <1>0, <2>1, <2>2, <2>3 DEF OthersHaveNoSlots
  <2>5. Covered'
    BY <1>0, <2>1, <2>2, <2>3 DEF Covered
  <2>6. ReservedOnce'
    BY <1>0, <2>1, <2>2, <2>3 DEF ReservedOnce, Fresh
  <2>. QED
    BY <2>4, <2>5, <2>6
<1>3. ASSUME NEW p \in Pod, Forget(p) PROVE Goal
  BY <1>0, <1>3 DEF Forget, TypeOK, OthersHaveNoSlots, Covered, ReservedOnce,
                    Unsettled, Fresh
<1>4. ASSUME NEW p \in Pod, Create(p) PROVE Goal
  BY <1>0, <1>4 DEF Create, TypeOK, OthersHaveNoSlots, Covered, ReservedOnce,
                    Unsettled, Fresh
<1>5. ASSUME NEW p \in Pod, Recreate(p) PROVE Goal
  BY <1>0, <1>5 DEF Recreate, TypeOK, OthersHaveNoSlots, Covered, ReservedOnce,
                    Unsettled, Fresh
<1>6. ASSUME NEW p \in Pod, Settle(p) PROVE Goal
  BY <1>0, <1>6 DEF Settle, TypeOK, OthersHaveNoSlots, Covered, ReservedOnce,
                    Unsettled, Fresh
<1>7. ASSUME Tick PROVE Goal
  <2>1. /\ UNCHANGED <<status, slots, owner>>
        /\ \A q \in Pod : Unsettled(q) => age'[q] = Older(age[q])
        /\ \A v \in Replica, s \in NIC : pending'[v][s] = Older(pending[v][s])
        /\ \A q \in Pod : Unsettled(q)' = Unsettled(q)
    BY <1>7 DEF Tick, Unsettled
  <2>2. OthersHaveNoSlots'
    BY <1>0, <2>1 DEF OthersHaveNoSlots
  <2>3. Covered'
    <3>. SUFFICES ASSUME NEW q \in Pod, Unsettled(q), owner[q] # NoReplica,
                         NEW s \in slots[q]
                  PROVE  pending'[owner[q]][s] <= age'[q]
      BY <2>1 DEF Covered
    <3>1. owner[q] \in Replica /\ s \in NIC
      BY <1>0 DEF TypeOK
    <3>2. pending[owner[q]][s] \in 0 .. TTL + 1 /\ age[q] \in 0 .. TTL + 1
      BY <1>0, <3>1 DEF TypeOK
    <3>3. pending[owner[q]][s] <= age[q]
      BY <1>0 DEF Covered
    <3>. QED
      BY <2>1, <3>1, <3>2, <3>3, OlderMonotone
  <2>4. \A q \in Pod : Unsettled(q) /\ Fresh(age'[q]) => Fresh(age[q])
    BY <1>0, <2>1, OlderMonotone DEF TypeOK
  <2>5. ReservedOnce'
    BY <1>0, <2>1, <2>4 DEF ReservedOnce, Fresh
  <2>. QED
    BY <2>2, <2>3, <2>5
<1>8. ASSUME NEW w \in Replica, Restart(w) PROVE Goal
  <2>1. /\ UNCHANGED <<status, slots, age>>
        /\ \A q \in Pod : owner'[q] = IF owner[q] = w THEN NoReplica ELSE owner[q]
        /\ \A v \in Replica : v # w => pending'[v] = pending[v]
        /\ \A q \in Pod : Unsettled(q)' = Unsettled(q)
    BY <1>0, <1>8 DEF Restart, Unsettled, TypeOK
  <2>. QED
    BY <1>0, <2>1 DEF OthersHaveNoSlots, Covered, ReservedOnce, Fresh, TypeOK
<1>9. CASE UNCHANGED vars
  BY <1>0, <1>9 DEF vars, podVars, OthersHaveNoSlots, Covered, ReservedOnce,
                    Unsettled, Fresh
<1>. QED
  BY <1>1, <1>2, <1>3, <1>4, <1>5, <1>6, <1>7, <1>8, <1>9 DEF Step, Next, Reject, Delete, Bind

\* IInv holds in every reachable state.
THEOREM AllocatorIInv == Spec => []IInv
  BY InitIInv, NextIInv, NextIsStep, PTL DEF Spec

\* Spec => []ReservedOnce: for any number of processes, with slow pods, failing
\* lists and restarts, one process never reserves a NIC twice within TTL.
THEOREM AllocatorReservedOnce == Spec => []ReservedOnce
<1>1. IInv => ReservedOnce
  BY DEF IInv
<1>. QED
  BY <1>1, AllocatorIInv, PTL

-----------------------------------------------------------------------------
(***************************************************************************)
(* No double-booking, in the environment where the allocator gives it.     *)
(***************************************************************************)

LEMMA NextTracked ==
  ASSUME Prompt, ~Restarts
  PROVE  TypeOK /\ Tracked /\ Step => Tracked'
<1>. SUFFICES ASSUME TypeOK, Tracked, Step PROVE Tracked'
  OBVIOUS
<1>1. ASSUME NEW w \in Replica, NEW p \in Pod, Allocate(w, p) PROVE Tracked'
  BY <1>1, AllocatorAssumption DEF Allocate, Tracked, TypeOK, Fresh, Unsettled
<1>2. ASSUME NEW w \in Replica, NEW p \in Pod, NEW c \in Class,
             AllocateExtendedResource(w, p, c)
      PROVE  Tracked'
  <2>1. /\ status[p] \in {"new", "mutating"}
        /\ status' = [status EXCEPT ![p] = IF left'[p] = {} THEN "mutated" ELSE "mutating"]
        /\ age' = [age EXCEPT ![p] = IF status[p] = "new" THEN 0 ELSE age[p]]
        /\ owner' = [owner EXCEPT ![p] = w]
    BY <1>2 DEF AllocateExtendedResource
  <2>. QED
    BY <2>1, AllocatorAssumption DEF Tracked, TypeOK, Fresh, Unsettled
<1>3. ASSUME NEW p \in Pod, Forget(p) \/ Settle(p) PROVE Tracked'
  BY <1>3 DEF Forget, Settle, Tracked, TypeOK, Fresh, Unsettled
<1>4. ASSUME NEW p \in Pod, Create(p) \/ Recreate(p) PROVE Tracked'
  BY <1>4 DEF Create, Recreate, Tracked, TypeOK, Fresh, Unsettled
<1>5. ASSUME Tick PROVE Tracked'
  <2>. SUFFICES ASSUME NEW q \in Pod, Unsettled(q)
               PROVE  owner[q] # NoReplica /\ Fresh(age'[q])
    BY <1>5 DEF Tick, Tracked, Fresh, Unsettled
  <2>1. age[q] < TTL /\ age'[q] = Older(age[q]) /\ age[q] \in 0 .. TTL + 1
    BY <1>5 DEF Tick, TypeOK
  <2>. QED
    BY <2>1, OlderMonotone DEF Tracked
<1>6. CASE UNCHANGED vars
  BY <1>6 DEF vars, podVars, Tracked, Fresh, Unsettled
<1>. QED
  BY <1>1, <1>2, <1>3, <1>4, <1>5, <1>6 DEF Step, Next, Reject, Delete, Bind, Restart

LEMMA NextNoDoubleBooking ==
  ASSUME NEW w0, Replica = {w0}, ~ListsFail
  PROVE  IInv /\ Tracked /\ NoDoubleBooking /\ Step => NoDoubleBooking'
<1>. SUFFICES ASSUME IInv, Tracked, NoDoubleBooking, Step
             PROVE  NoDoubleBooking'
  OBVIOUS
<1>0. TypeOK /\ OthersHaveNoSlots /\ Covered
  BY DEF IInv
<1>1. ASSUME NEW w \in Replica, NEW p \in Pod, Allocate(w, p) PROVE NoDoubleBooking'
  <2>1. PICK n \in Node, listed \in ListResults : \E S \in SUBSET FreeSlots(w, listed) :
           /\ node' = [node EXCEPT ![p] = n]
           /\ slots' = [slots EXCEPT ![p] = S]
           /\ pending' = [pending EXCEPT ![w] =
                            [s \in NIC |-> IF s \in S THEN 0 ELSE pending[w][s]]]
    BY <1>0, <1>1, AllocatePlaces
  <2>2. PICK S \in SUBSET FreeSlots(w, listed) : slots' = [slots EXCEPT ![p] = S]
    BY <2>1
  <2>3. listed
    BY DEF ListResults
  <2>4. S \intersect InUse = {} /\ S \subseteq NIC /\ \A s \in S : ~Fresh(pending[w][s])
    BY <2>3, FreeSlotsAreNICs DEF IInv, TypeOK
  <2>5. ASSUME NEW q \in Pod, q # p, Placed(q) PROVE S \intersect slots[q] = {}
    <3>1. CASE status[q] = "bound"
      BY <2>4, <3>1 DEF InUse
    <3>2. CASE Unsettled(q)
      <4>1. owner[q] = w /\ w # NoReplica /\ Fresh(age[q])
        BY <1>0, <3>2, AllocatorAssumption DEF Tracked, TypeOK
      <4>. SUFFICES ASSUME NEW s \in S, s \in slots[q] PROVE FALSE
        OBVIOUS
      <4>2. pending[w][s] <= age[q]
        BY <1>0, <3>2, <4>1 DEF Covered
      <4>3. pending[w][s] \in Nat /\ age[q] \in Nat /\ TTL \in Nat
        BY <1>0, <2>4, AllocatorAssumption DEF TypeOK
      <4>. QED
        BY <2>4, <4>1, <4>2, <4>3 DEF Fresh
    <3>. QED
      BY <2>5, <3>1, <3>2 DEF Placed, Unsettled
  <2>6. status' = [status EXCEPT ![p] = "mutated"]
    BY <1>1 DEF Allocate
  <2>7. /\ slots'[p] = S
        /\ \A q \in Pod : q # p => slots'[q] = slots[q] /\ Placed(q)' = Placed(q)
    BY <1>0, <2>2, <2>6 DEF TypeOK, Placed
  <2>. QED
    BY <2>5, <2>7 DEF NoDoubleBooking
<1>2. ASSUME NEW w \in Replica, NEW p \in Pod, NEW c \in Class,
             AllocateExtendedResource(w, p, c)
      PROVE  NoDoubleBooking'
  <2>1. /\ status[p] \in {"new", "mutating"}
        /\ status' = [status EXCEPT ![p] = IF left'[p] = {} THEN "mutated" ELSE "mutating"]
        /\ UNCHANGED slots
    BY <1>2 DEF AllocateExtendedResource
  <2>2. slots[p] = {}
    BY <1>0, <2>1 DEF OthersHaveNoSlots
  <2>3. \A q \in Pod : q # p => Placed(q)' = Placed(q)
    BY <1>0, <2>1 DEF TypeOK, Placed
  <2>. QED
    BY <2>1, <2>2, <2>3 DEF NoDoubleBooking
<1>3. ASSUME NEW p \in Pod, Forget(p) PROVE NoDoubleBooking'
  BY <1>0, <1>3 DEF Forget, NoDoubleBooking, Placed, TypeOK
<1>4. ASSUME NEW p \in Pod, Create(p) \/ Settle(p) \/ Recreate(p) PROVE NoDoubleBooking'
  BY <1>0, <1>4 DEF Create, Settle, Recreate, NoDoubleBooking, Placed, TypeOK
<1>5. ASSUME UNCHANGED <<status, slots>> PROVE NoDoubleBooking'
  BY <1>5 DEF NoDoubleBooking, Placed
<1>. QED
  BY <1>1, <1>2, <1>3, <1>4, <1>5
  DEF Step, Next, Reject, Delete, Bind, Tick, Restart, vars, podVars

\* Spec => []NoDoubleBooking with one webhook process that does not restart,
\* pods that settle within TTL and list calls that succeed, for any cluster.
THEOREM AllocatorNoDoubleBooking ==
  ASSUME NEW w0, Replica = {w0}, Prompt, ~ListsFail, ~Restarts
  PROVE  Spec => []NoDoubleBooking
<1>1. Init => Tracked /\ NoDoubleBooking
  BY DEF Init, Tracked, NoDoubleBooking, Unsettled, Placed
<1>2. IInv => TypeOK
  BY DEF IInv
<1>3. TypeOK /\ Tracked /\ Step => Tracked'
  BY NextTracked
<1>4. IInv /\ Tracked /\ NoDoubleBooking /\ Step => NoDoubleBooking'
  BY NextNoDoubleBooking
<1>. QED
  BY <1>1, <1>2, <1>3, <1>4, AllocatorIInv, NextIsStep, PTL DEF Spec

-----------------------------------------------------------------------------
(***************************************************************************)
(* Placements are what was asked for, in any environment.                  *)
(***************************************************************************)

\* As many slots as asked for, of one NUMA zone if that is asked for.
LEMMA SelectedFit ==
  ASSUME NEW S, NEW count, NEW aware, NEW T \in selectSlots(S, count, aware)
  PROVE  /\ T \subseteq S
         /\ Cardinality(T) = count
         /\ aware => \A s, t \in T : Numa[s] = Numa[t]
<1>1. CASE aware
  <2>1. PICK z : T \in kSubset(count, Zone(S, z))
    BY <1>1 DEF selectSlots
  <2>. QED
    BY <2>1 DEF kSubset, Zone
<1>2. CASE ~aware
  BY <1>2 DEF selectSlots, kSubset
<1>. QED
  BY <1>1, <1>2

LEMMA PlacementsFit ==
  ASSUME mode \in Modes, NEW w, NEW p, NEW N, NEW claimsListed, NEW podsListed,
         NEW place \in Placements(w, p, N, claimsListed, podsListed)
  PROVE  /\ place[1] \in Fits[p]
         /\ place[2] \subseteq On(NIC, place[1])
         /\ Cardinality(place[2]) = Pairs[p]
         /\ numaConstrained(p) /\ ~DisableNUMAPacking =>
              \A s, t \in place[2] : Numa[s] = Numa[t]
<1>. DEFINE free == FreeSlots(w, claimsListed)
            choices(n) == IF mode = "explicit"
                          THEN selectExplicitPairs(On(free, n), Pairs[p], numaAware(p))
                          ELSE selectSlots(On(free, n), Pairs[p], numaAware(p))
<1>1. PICK n \in filterNodesByConstraints(p, N, podsListed) :
        place \in {n} \X choices(n)
  BY DEF Placements
<1>2. place[1] = n /\ n \in Fits[p]
  BY <1>1 DEF filterNodesByConstraints
<1>3. place[2] \in selectSlots(On(free, n), Pairs[p], numaAware(p))
  BY <1>1 DEF selectExplicitPairs
<1>4. /\ place[2] \subseteq On(free, n)
      /\ Cardinality(place[2]) = Pairs[p]
      /\ numaAware(p) => \A s, t \in place[2] : Numa[s] = Numa[t]
  BY <1>3, SelectedFit
<1>5. On(free, n) \subseteq On(NIC, n)
  BY FreeSlotsAreNICs DEF On
<1>. QED
  BY <1>2, <1>4, <1>5 DEF numaAware

LEMMA NextPlacementFits ==
  IInv /\ FitsSoFar /\ PlacementFits /\ Step => FitsSoFar' /\ PlacementFits'
<1>. SUFFICES ASSUME IInv, FitsSoFar, PlacementFits, Step
             PROVE  FitsSoFar' /\ PlacementFits'
  OBVIOUS
<1>0. TypeOK /\ OthersHaveNoSlots
  BY DEF IInv
<1>. DEFINE Fit(q) ==
       /\ node[q] \in Fits[q]
       /\ Cardinality(slots[q]) = Pairs[q]
       /\ slots[q] \subseteq On(NIC, node[q])
       /\ numaConstrained(q) /\ ~DisableNUMAPacking =>
            \A s, t \in slots[q] : Numa[s] = Numa[t]
       /\ left[q] = {}
<1>1. ASSUME NEW w \in Replica, NEW p \in Pod, Allocate(w, p)
      PROVE  FitsSoFar' /\ PlacementFits'
  <2>1. PICK claimsListed \in ListResults, podsListed \in ListResults, N \in ScanResults :
        \E place \in Placements(w, p, N, claimsListed, podsListed) :
          node' = Pin(p, place[1]) /\ slots' = [slots EXCEPT ![p] = place[2]]
    BY <1>1 DEF Allocate
  <2>2. PICK place \in Placements(w, p, N, claimsListed, podsListed) :
          node' = Pin(p, place[1]) /\ slots' = [slots EXCEPT ![p] = place[2]]
    BY <2>1
  <2>3. /\ status[p] = "new" /\ left' = left
        /\ status' = [status EXCEPT ![p] = "mutated"]
    BY <1>1 DEF Allocate
  <2>4. node'[p] = place[1] /\ slots'[p] = place[2] /\ left'[p] = {}
    BY <1>0, <2>2, <2>3 DEF Pin, TypeOK, FitsSoFar
  <2>5. Fit(p)'
    <3>1. mode \in Modes
      BY <1>0 DEF TypeOK
    <3>2. /\ place[1] \in Fits[p]
          /\ place[2] \subseteq On(NIC, place[1])
          /\ Cardinality(place[2]) = Pairs[p]
          /\ numaConstrained(p) /\ ~DisableNUMAPacking =>
               \A s, t \in place[2] : Numa[s] = Numa[t]
      BY <3>1, PlacementsFit
    <3>. QED
      BY <2>4, <3>2 DEF numaConstrained
  <2>6. \A q \in Pod : q # p =>
          /\ node'[q] = node[q] /\ slots'[q] = slots[q] /\ left'[q] = left[q]
          /\ status'[q] = status[q]
    BY <1>0, <2>2, <2>3 DEF Pin, TypeOK
  <2>7. status'[p] = "mutated"
    BY <1>0, <2>3 DEF TypeOK
  <2>8. FitsSoFar'
    BY <2>5, <2>6, <2>7 DEF FitsSoFar, Unsettled
  <2>9. PlacementFits'
    BY <2>5, <2>6 DEF PlacementFits, Placed, numaConstrained
  <2>. QED
    BY <2>8, <2>9
<1>2. ASSUME NEW w \in Replica, NEW p \in Pod, NEW c \in Class,
             AllocateExtendedResource(w, p, c)
      PROVE  FitsSoFar' /\ PlacementFits'
  <2>1. /\ status[p] \in {"new", "mutating"}
        /\ status' = [status EXCEPT ![p] = IF left'[p] = {} THEN "mutated" ELSE "mutating"]
        /\ UNCHANGED slots
        /\ left' = [left EXCEPT ![p] = (IF status[p] = "new" THEN Classes(p) ELSE left[p]) \ {c}]
    BY <1>2 DEF AllocateExtendedResource
  <2>2. Pairs[p] = 0 /\ slots[p] = {}
    BY <1>0, <1>2 DEF AllocateExtendedResource, FitsSoFar, OthersHaveNoSlots
  <2>3. PICK n \in Node : n \in Fits[p] /\ node' = Pin(p, n)
    BY <1>0, <1>2 DEF AllocateExtendedResource, filterNodesByConstraints, FitsSoFar,
                      Unsettled, TypeOK
  <2>4. node'[p] \in Fits[p]
    BY <1>0, <2>3 DEF Pin, TypeOK
  <2>5. \A q \in Pod : q # p =>
          /\ node'[q] = node[q] /\ slots'[q] = slots[q] /\ left'[q] = left[q]
          /\ status'[q] = status[q]
    BY <1>0, <2>1, <2>3 DEF Pin, TypeOK
  <2>6. status'[p] = IF left'[p] = {} THEN "mutated" ELSE "mutating"
    BY <1>0, <2>1 DEF TypeOK
  <2>7. FitsSoFar'
    BY <2>2, <2>4, <2>5, <2>6 DEF FitsSoFar, Unsettled
  <2>8. Cardinality({}) = 0
    BY FS_EmptySet
  <2>9. PlacementFits'
    <3>1. slots'[p] = {} /\ Cardinality(slots'[p]) = Pairs[p]
      BY <2>1, <2>2, <2>8
    <3>2. Placed(p)' => left'[p] = {}
      BY <2>6 DEF Placed
    <3>3. Placed(p)' => Fit(p)'
      BY <2>4, <3>1, <3>2
    <3>4. \A q \in Pod : q # p /\ Placed(q)' => Placed(q) /\ Fit(q)
      BY <2>5 DEF PlacementFits, Placed
    <3>5. \A q \in Pod : q # p /\ Placed(q)' => Fit(q)'
      BY <2>5, <3>4 DEF numaConstrained
    <3>. QED
      BY <3>3, <3>5 DEF PlacementFits
  <2>. QED
    BY <2>7, <2>9
<1>3. ASSUME NEW p \in Pod, Forget(p) PROVE FitsSoFar' /\ PlacementFits'
  BY <1>0, <1>3 DEF Forget, FitsSoFar, PlacementFits, Placed, Unsettled, TypeOK,
                    numaConstrained
<1>4. ASSUME NEW p \in Pod, Create(p) \/ Settle(p) PROVE FitsSoFar' /\ PlacementFits'
  BY <1>0, <1>4 DEF Create, Settle, FitsSoFar, PlacementFits, Placed, Unsettled, TypeOK,
                    numaConstrained
<1>5. ASSUME NEW p \in Pod, Recreate(p) PROVE FitsSoFar' /\ PlacementFits'
  BY <1>0, <1>5 DEF Recreate, FitsSoFar, PlacementFits, Placed, Unsettled, TypeOK,
                    numaConstrained
<1>6. ASSUME UNCHANGED <<status, node, slots, left>> PROVE FitsSoFar' /\ PlacementFits'
  BY <1>6 DEF FitsSoFar, PlacementFits, Placed, Unsettled, numaConstrained
<1>. QED
  BY <1>1, <1>2, <1>3, <1>4, <1>5, <1>6
  DEF Step, Next, Reject, Delete, Bind, Tick, Restart, vars, podVars

\* Spec => []PlacementFits: whatever fails, a pod that is admitted has as many NICs
\* as it asked for, of the node it is pinned to and of one zone if it must be.
THEOREM AllocatorPlacementFits == Spec => []PlacementFits
<1>1. Init => FitsSoFar /\ PlacementFits
  BY DEF Init, FitsSoFar, PlacementFits, Unsettled, Placed
<1>2. IInv /\ FitsSoFar /\ PlacementFits /\ Step => FitsSoFar' /\ PlacementFits'
  BY NextPlacementFits
<1>. QED
  BY <1>1, <1>2, AllocatorIInv, NextIsStep, PTL DEF Spec

-----------------------------------------------------------------------------
(***************************************************************************)
(* Extended resources: any two pods one process has placed on a node fit   *)
(* on it together, whatever fails around them.                             *)
(***************************************************************************)

LEMMA UsesType ==
  ASSUME NEW p \in Pod, NEW c \in Class
  PROVE  Ext[p][c] \in Nat /\ Uses(p, c) \in Nat
  BY AllocatorAssumption DEF Uses

LEMMA Intervals ==
  ASSUME NEW n \in Nat
  PROVE  /\ IsFiniteSet(1 .. n)
         /\ IsFiniteSet(0 .. n - 1) /\ Cardinality(0 .. n - 1) = n
<1>1. n - 1 \in Int /\ 0 \in Int /\ 1 \in Int /\ n \in Int
  OBVIOUS
<1>2. /\ IsFiniteSet(1 .. n)
      /\ IsFiniteSet(0 .. n - 1)
      /\ Cardinality(0 .. n - 1) = IF 0 > n - 1 THEN 0 ELSE (n - 1) - 0 + 1
  BY <1>1, FS_Interval
<1>. QED
  BY <1>2

\* A finite union of finite sets, the sets given one by one.
LEMMA FiniteUnionOf ==
  ASSUME NEW S, IsFiniteSet(S), NEW f, f \in [S -> SUBSET UNION {f[x] : x \in S}],
         \A x \in S : IsFiniteSet(f[x])
  PROVE  IsFiniteSet(UNION {f[x] : x \in S})
<1>. DEFINE T == {f[x] : x \in S}
<1>1. f \in Surjection(S, T)
  BY Fun_IsSurj
<1>2. \A U \in T : IsFiniteSet(U)
  OBVIOUS
<1>3. IsFiniteSet(T) /\ IsFiniteSet(UNION T)
  <2>. HIDE DEF T
  <2>1. IsFiniteSet(T)
    BY <1>1, FS_Surjection
  <2>. QED
    BY <1>2, <2>1, FS_UNION
<1>. QED
  BY <1>3

LEMMA UsedByType ==
  ASSUME NEW Q \in SUBSET Pod, NEW c \in Class
  PROVE  UsedBy(Q, c) \in Nat
<1>. DEFINE f == [p \in Q |-> {p} \X (1 .. Uses(p, c))]
<1>1. IsFiniteSet(Q)
  BY AllocatorAssumption, FS_Subset
<1>2. \A p \in Q : IsFiniteSet(f[p])
  <2>. SUFFICES ASSUME NEW p \in Q PROVE IsFiniteSet({p} \X (1 .. Uses(p, c)))
    OBVIOUS
  <2>1. Uses(p, c) \in Nat
    BY UsesType
  <2>2. IsFiniteSet({p}) /\ IsFiniteSet(1 .. Uses(p, c))
    BY <2>1, FS_Singleton, Intervals
  <2>. QED
    BY <2>2, FS_Product
<1>3. f \in [Q -> SUBSET UNION {f[x] : x \in Q}]
  OBVIOUS
<1>4. UNION {f[x] : x \in Q} = UNION {{p} \X (1 .. Uses(p, c)) : p \in Q}
  OBVIOUS
<1>5. IsFiniteSet(UNION {f[x] : x \in Q})
  <2>. HIDE DEF f
  <2>. QED
    BY <1>1, <1>2, <1>3, FiniteUnionOf
<1>. QED
  BY <1>4, <1>5, FS_CardinalityType DEF UsedBy

LEMMA ExtIndexFinite == IsFiniteSet(ExtIndex)
<1>. DEFINE g(p) == UNION {0 .. Ext[p][c] - 1 : c \in Class}
            f == [p \in Pod |-> g(p)]
<1>1. ASSUME NEW p \in Pod PROVE IsFiniteSet(g(p))
  <2>. DEFINE h == [c \in Class |-> 0 .. Ext[p][c] - 1]
  <2>1. \A c \in Class : IsFiniteSet(h[c])
    <3>. SUFFICES ASSUME NEW c \in Class PROVE IsFiniteSet(0 .. Ext[p][c] - 1)
      OBVIOUS
    <3>1. Ext[p][c] \in Nat
      BY UsesType
    <3>. QED
      BY <3>1, Intervals
  <2>2. h \in [Class -> SUBSET UNION {h[x] : x \in Class}]
    OBVIOUS
  <2>3. UNION {h[x] : x \in Class} = g(p)
    OBVIOUS
  <2>4. IsFiniteSet(UNION {h[x] : x \in Class})
    <3>. HIDE DEF h
    <3>. QED
      BY <2>1, <2>2, AllocatorAssumption, FiniteUnionOf
  <2>. QED
    BY <2>3, <2>4
<1>2. \A p \in Pod : IsFiniteSet(f[p])
  <2>. HIDE DEF g
  <2>. QED
    BY <1>1
<1>3. f \in [Pod -> SUBSET UNION {f[x] : x \in Pod}]
  <2>. HIDE DEF g
  <2>. QED
    OBVIOUS
<1>4. UNION {f[x] : x \in Pod} = ExtIndex
  BY DEF ExtIndex
<1>5. IsFiniteSet(UNION {f[x] : x \in Pod})
  <2>. HIDE DEF f
  <2>. QED
    BY <1>2, <1>3, AllocatorAssumption, FiniteUnionOf
<1>. QED
  BY <1>4, <1>5

\* The indices a pod marks are among those of the keys.
LEMMA IndicesOf ==
  ASSUME NEW p \in Pod, NEW c \in Class
  PROVE  0 .. Ext[p][c] - 1 \subseteq ExtIndex
  BY DEF ExtIndex

LEMMA ExtIndexNat == ExtIndex \subseteq Nat
  BY DEF ExtIndex

ReservedKeys(w, c, n) ==
  {k \in ExtKey : k[1] = c /\ k[2] = n /\ Fresh(extPending[w][k])}

LEMMA ReservedType ==
  ASSUME NEW w, NEW c \in Class, NEW n \in Node
  PROVE  /\ IsFiniteSet(ReservedKeys(w, c, n))
         /\ Reserved(w, c, n) \in Nat
<1>. DEFINE K == {k \in ExtKey : k[1] = c /\ k[2] = n}
            R == ReservedKeys(w, c, n)
            f == [i \in ExtIndex |-> <<c, n, i>>]
<1>1. \A k \in K : \E i \in ExtIndex : k = <<c, n, i>>
  BY DEF ExtKey
<1>2. f \in Surjection(ExtIndex, K)
  <2>1. f \in [ExtIndex -> K]
    BY DEF ExtKey
  <2>. QED
    BY <1>1, <2>1, Fun_IsSurj
<1>3. IsFiniteSet(K)
  <2>. HIDE DEF K, f
  <2>. QED
    BY <1>2, ExtIndexFinite, FS_Surjection
<1>4. R \subseteq K
  BY DEF ReservedKeys
<1>5. IsFiniteSet(R)
  <2>. HIDE DEF K, R
  <2>. QED
    BY <1>3, <1>4, FS_Subset
<1>. QED
  BY <1>5, FS_CardinalityType DEF Reserved, ReservedKeys

\* What is marked for a pod is counted.
LEMMA ReservedAtLeast ==
  ASSUME NEW w, NEW c \in Class, NEW n \in Node, NEW q \in Pod,
         \A i \in 0 .. Ext[q][c] - 1 : Fresh(extPending[w][<<c, n, i>>])
  PROVE  /\ Reserved(w, c, n) \in Nat
         /\ Ext[q][c] <= Reserved(w, c, n)
<1>. DEFINE R == ReservedKeys(w, c, n)
            I == 0 .. Ext[q][c] - 1
            g == [i \in I |-> <<c, n, i>>]
            G == {<<c, n, i>> : i \in I}
<1>1. IsFiniteSet(R)
  BY ReservedType
<1>2. IsFiniteSet(I) /\ Cardinality(I) = Ext[q][c]
  <2>1. Ext[q][c] \in Nat
    BY UsesType
  <2>. QED
    BY <2>1, Intervals
<1>3. g \in Bijection(I, G)
  <2>1. g \in [I -> G]
    OBVIOUS
  <2>2. \A i, j \in I : g[i] = g[j] => i = j
    OBVIOUS
  <2>3. \A x \in G : \E i \in I : g[i] = x
    OBVIOUS
  <2>. HIDE DEF I, G, g
  <2>. QED
    BY <2>1, <2>2, <2>3, Fun_IsBij
<1>4. IsFiniteSet(G) /\ Cardinality(G) = Ext[q][c]
  <2>. HIDE DEF I, G, g
  <2>0. ExistsBijection(I, G)
    BY <1>3 DEF ExistsBijection
  <2>1. IsFiniteSet(G) /\ Cardinality(G) = Cardinality(I)
    BY <1>2, <2>0, FS_Bijection
  <2>. QED
    BY <1>2, <2>1
<1>5. G \subseteq R
  BY IndicesOf DEF ExtKey, ReservedKeys
<1>6. Cardinality(G) <= Cardinality(R) /\ Cardinality(R) \in Nat
  <2>. HIDE DEF G, R
  <2>. QED
    BY <1>1, <1>5, FS_Subset, FS_CardinalityType
<1>. QED
  BY <1>4, <1>6 DEF Reserved, ReservedKeys

(***************************************************************************)
(* What fits into the available devices fits beside what is reserved.      *)
(***************************************************************************)
LEMMA AvailableLeavesReserved ==
  ASSUME NEW w, NEW p \in Pod, NEW c \in Class, NEW n \in Node, NEW listed \in BOOLEAN,
         Ext[p][c] <= scanAvailableDevices(w, c, n, listed),
         NEW r \in Nat, r <= Reserved(w, c, n), Reserved(w, c, n) \in Nat
  PROVE  /\ Ext[p][c] <= Capacity[c][n]
         /\ Ext[p][c] = 0 \/ Ext[p][c] + r <= Capacity[c][n]
<1>. DEFINE e == Ext[p][c]
            cap == Capacity[c][n]
            used == IF listed THEN Consumed(c, n) ELSE 0
            res == Reserved(w, c, n)
<1>1. e \in Nat /\ cap \in Nat
  BY UsesType, AllocatorAssumption
<1>2. used \in Nat
  <2>1. Consumed(c, n) \in Nat
    BY UsedByType DEF Consumed
  <2>. QED
    BY <2>1
<1>3. e <= IF cap - used > res THEN (cap - used) - res ELSE 0
  BY DEF scanAvailableDevices
<1>4. res \in Nat /\ r <= res
  OBVIOUS
<1>5. e <= cap /\ (e = 0 \/ e + r <= cap)
  <2>. HIDE DEF e, cap, used, res
  <2>. QED
    BY <1>1, <1>2, <1>3, <1>4
<1>. QED
  BY <1>5

\* A call of AllocateExtendedResource for one class, as far as those are concerned.
LEMMA AllocateExtTakes ==
  ASSUME TypeOK, NEW w \in Replica, NEW p \in Pod, NEW c \in Class,
         AllocateExtendedResource(w, p, c)
  PROVE  \E n \in Node, listed \in BOOLEAN :
           /\ Ext[p][c] <= scanAvailableDevices(w, c, n, listed)
           /\ status[p] = "mutating" => n = node[p]
           /\ node' = [node EXCEPT ![p] = n]
           /\ extPending' = [extPending EXCEPT ![w] =
                [k \in ExtKey |->
                   IF k[1] = c /\ k[2] = n /\ k[3] < Ext[p][c] THEN 0 ELSE extPending[w][k]]]
<1>1. PICK claimsListed \in ListResults, podsListed \in ListResults :
       LET avail(n) == scanAvailableDevices(w, c, n, claimsListed)
           able == {n \in Node : avail(n) >= Ext[p][c]}
           candidates == filterNodesByConstraints(p, able, podsListed)
           first == {n \in candidates : \A m \in candidates : avail(n) <= avail(m)}
       IN  \E n \in IF status[p] = "new" THEN first ELSE able \intersect {node[p]} :
             /\ node' = Pin(p, n)
             /\ extPending' = [extPending EXCEPT ![w] =
                  [k \in ExtKey |->
                     IF k[1] = c /\ k[2] = n /\ k[3] < Ext[p][c] THEN 0 ELSE @[k]]]
  BY DEF AllocateExtendedResource
<1>2. PICK n \in {m \in Node : scanAvailableDevices(w, c, m, claimsListed) >= Ext[p][c]} :
        /\ status[p] # "new" => n = node[p]
        /\ node' = Pin(p, n)
        /\ extPending' = [extPending EXCEPT ![w] =
             [k \in ExtKey |->
                IF k[1] = c /\ k[2] = n /\ k[3] < Ext[p][c] THEN 0 ELSE extPending[w][k]]]
  BY <1>1 DEF filterNodesByConstraints
<1>3. claimsListed \in BOOLEAN
  BY DEF ListResults
<1>4. Ext[p][c] <= scanAvailableDevices(w, c, n, claimsListed)
  BY <1>2
<1>. QED
  BY <1>2, <1>3, <1>4 DEF Pin

LEMMA InitExtIInv == Init => ExtIInv
<1>1. Init => ExtFitAlone /\ ExtCovered /\ ExtFitPairwise
  BY DEF Init, ExtFitAlone, ExtCovered, ExtFitPairwise, Unsettled
<1>. QED
  BY <1>1, InitTypeOK DEF ExtIInv

\* The steps that change nothing for the unsettled pods but let some go.
LEMMA LetGo ==
  ASSUME ExtIInv, TypeOK', UNCHANGED extPending,
         \A q \in Pod : Unsettled(q)' =>
           /\ Unsettled(q) /\ node'[q] = node[q] /\ left'[q] = left[q]
           /\ age'[q] = age[q] /\ owner'[q] = owner[q]
  PROVE  ExtIInv'
<1>1. ExtFitAlone' /\ ExtCovered'
  BY DEF ExtIInv, ExtFitAlone, ExtCovered
<1>2. ExtFitPairwise'
  BY DEF ExtIInv, ExtFitPairwise, Fresh
<1>. QED
  BY <1>1, <1>2 DEF ExtIInv

LEMMA AllocateExtKeepsFits ==
  ASSUME ExtIInv, TypeOK', \A q \in Pod : status[q] = "new" => left[q] = {},
         NEW w \in Replica, NEW p \in Pod, NEW c \in Class,
         AllocateExtendedResource(w, p, c)
  PROVE  ExtIInv'
<1>0. TypeOK /\ ExtFitAlone /\ ExtCovered /\ ExtFitPairwise
  BY DEF ExtIInv
<1>1. PICK n \in Node, listed \in BOOLEAN :
        /\ Ext[p][c] <= scanAvailableDevices(w, c, n, listed)
        /\ status[p] = "mutating" => n = node[p]
        /\ node' = [node EXCEPT ![p] = n]
        /\ extPending' = [extPending EXCEPT ![w] =
             [k \in ExtKey |->
                IF k[1] = c /\ k[2] = n /\ k[3] < Ext[p][c] THEN 0 ELSE extPending[w][k]]]
  BY <1>0, AllocateExtTakes
<1>2. /\ status[p] \in {"new", "mutating"}
      /\ status[p] = "mutating" => owner[p] = w
      /\ left' = [left EXCEPT ![p] = (IF status[p] = "new" THEN Classes(p) ELSE left[p]) \ {c}]
      /\ status' = [status EXCEPT ![p] = IF left'[p] = {} THEN "mutated" ELSE "mutating"]
      /\ age' = [age EXCEPT ![p] = IF status[p] = "new" THEN 0 ELSE age[p]]
      /\ owner' = [owner EXCEPT ![p] = w]
  BY DEF AllocateExtendedResource
<1>3. /\ node'[p] = n /\ owner'[p] = w /\ Unsettled(p)'
      /\ left'[p] = (IF status[p] = "new" THEN Classes(p) ELSE left[p]) \ {c}
      /\ age'[p] = IF status[p] = "new" THEN 0 ELSE age[p]
  BY <1>0, <1>1, <1>2 DEF TypeOK, Unsettled
<1>4. \A q \in Pod : q # p =>
        /\ Unsettled(q)' = Unsettled(q) /\ node'[q] = node[q] /\ left'[q] = left[q]
        /\ age'[q] = age[q] /\ owner'[q] = owner[q]
  BY <1>0, <1>1, <1>2 DEF TypeOK, Unsettled
<1>5. w # NoReplica /\ TTL \in Nat
  BY AllocatorAssumption
<1>6. \A v \in Replica, k \in ExtKey :
        extPending'[v][k] = IF v = w /\ k[1] = c /\ k[2] = n /\ k[3] < Ext[p][c]
                            THEN 0 ELSE extPending[v][k]
  BY <1>0, <1>1 DEF TypeOK
<1>7. ASSUME NEW q \in Pod, NEW d \in Class, NEW m \in Node, NEW i \in 0 .. Ext[q][d] - 1
      PROVE  <<d, m, i>> \in ExtKey /\ i \in Nat
  <2>1. i \in ExtIndex
    BY IndicesOf
  <2>. QED
    BY <2>1, ExtIndexNat DEF ExtKey
<1>8. \A q \in Pod : Unsettled(q) =>
        node[q] \in Node /\ age[q] \in Nat /\ owner[q] \in Replica \union {NoReplica}
  BY <1>0 DEF TypeOK
\* The classes of the pod that are done are c, and those done before or not asked for.
<1>9. \A d \in Class \ left'[p] :
        \/ d = c
        \/ status[p] = "new" /\ Ext[p][d] = 0
        \/ status[p] = "mutating" /\ d \notin left[p] /\ Unsettled(p)
  <2>. SUFFICES ASSUME NEW d \in Class \ left'[p], d # c
               PROVE  \/ status[p] = "new" /\ Ext[p][d] = 0
                      \/ status[p] = "mutating" /\ d \notin left[p] /\ Unsettled(p)
    OBVIOUS
  <2>1. Ext[p][d] \in Nat
    BY UsesType
  <2>. QED
    BY <1>2, <1>3, <2>1 DEF Classes, Unsettled
<1>10. Ext[p][c] <= Capacity[c][n]
  <2>1. 0 <= Reserved(w, c, n) /\ Reserved(w, c, n) \in Nat
    <3>1. Reserved(w, c, n) \in Nat
      BY ReservedType
    <3>. QED
      BY <3>1
  <2>. QED
    BY <1>1, <2>1, AvailableLeavesReserved
<1>11. ExtFitAlone'
  <2>. SUFFICES ASSUME NEW q \in Pod, Unsettled(q)', NEW d \in Class \ left'[q]
               PROVE  Ext[q][d] <= Capacity[d][node'[q]]
    BY DEF ExtFitAlone
  <2>1. CASE q # p
    BY <1>0, <1>4, <2>1 DEF ExtFitAlone
  <2>2. CASE q = p
    <3>1. CASE d = c
      BY <1>3, <1>10, <2>2, <3>1
    <3>2. CASE status[p] = "new" /\ Ext[p][d] = 0
      <4>1. Capacity[d][n] \in Nat
        BY AllocatorAssumption
      <4>. QED
        BY <1>3, <2>2, <3>2, <4>1
    <3>3. CASE status[p] = "mutating" /\ d \notin left[p] /\ Unsettled(p)
      BY <1>0, <1>1, <1>3, <2>2, <3>3 DEF ExtFitAlone
    <3>. QED
      BY <1>9, <2>2, <3>1, <3>2, <3>3
  <2>. QED
    BY <2>1, <2>2
<1>12. ExtCovered'
  <2>. SUFFICES ASSUME NEW q \in Pod, Unsettled(q)', owner'[q] # NoReplica,
                       NEW d \in Class \ left'[q], NEW i \in 0 .. Ext[q][d] - 1
               PROVE  extPending'[owner'[q]][<<d, node'[q], i>>] <= age'[q]
    BY DEF ExtCovered
  <2>. DEFINE k == <<d, node'[q], i>>
  <2>1. CASE q # p
    <3>1. /\ Unsettled(q) /\ owner[q] = owner'[q] /\ node'[q] = node[q]
          /\ age'[q] = age[q] /\ d \in Class \ left[q]
      BY <1>4, <2>1
    <3>2. owner[q] \in Replica /\ k \in ExtKey /\ age[q] \in Nat
      BY <1>7, <1>8, <3>1
    <3>3. extPending[owner[q]][k] <= age[q]
      BY <1>0, <3>1 DEF ExtCovered
    <3>4. extPending'[owner[q]][k] = 0 \/ extPending'[owner[q]][k] = extPending[owner[q]][k]
      BY <1>6, <3>2
    <3>. HIDE DEF k
    <3>5. extPending'[owner[q]][k] <= age[q]
      BY <3>2, <3>3, <3>4
    <3>. QED
      BY <3>1, <3>5 DEF k
  <2>2. CASE q = p
    <3>1. node'[p] = n /\ owner'[p] = w /\ k = <<d, n, i>> /\ k \in ExtKey /\ i \in Nat
      BY <1>3, <1>7, <2>2
    <3>2. age'[p] \in Nat
      BY <1>2, <1>3, <1>8 DEF Unsettled
    <3>3. CASE d = c
      <4>1. i < Ext[p][c]
        <5>1. Ext[p][c] \in Nat
          BY UsesType
        <5>. QED
          BY <2>2, <3>3, <5>1
      <4>2. extPending'[w][k] = 0
        BY <1>6, <3>1, <3>3, <4>1
      <4>. QED
        BY <2>2, <3>1, <3>2, <4>2
    <3>4. CASE status[p] = "new" /\ Ext[p][d] = 0
      BY <2>2, <3>4
    <3>5. CASE status[p] = "mutating" /\ d \notin left[p] /\ Unsettled(p)
      <4>1. extPending[w][k] <= age[p] /\ age'[p] = age[p]
        BY <1>0, <1>1, <1>2, <1>3, <1>5, <2>2, <3>1, <3>5 DEF ExtCovered
      <4>2. extPending'[w][k] = 0 \/ extPending'[w][k] = extPending[w][k]
        BY <1>6, <3>1
      <4>3. extPending'[w][k] <= age'[p]
        <5>. HIDE DEF k
        <5>. QED
          BY <3>2, <4>1, <4>2
      <4>. QED
        BY <2>2, <3>1, <4>3
    <3>. QED
      BY <1>9, <2>2, <3>3, <3>4, <3>5
  <2>. QED
    BY <2>1, <2>2
\* Beside any other pod that w has placed on the node within TTL.
<1>13. ASSUME NEW q \in Pod, q # p, Unsettled(q), owner[q] = w, node[q] = n,
              Fresh(age[q]), Fresh(age'[p]), NEW d \in Class \ (left'[p] \union left[q])
       PROVE  Ext[p][d] + Ext[q][d] <= Capacity[d][n]
  <2>0. Ext[p][d] \in Nat /\ Ext[q][d] \in Nat /\ Capacity[d][n] \in Nat
    BY UsesType, AllocatorAssumption
  <2>1. Ext[q][d] <= Capacity[d][n]
    BY <1>0, <1>13 DEF ExtFitAlone
  <2>2. CASE d = c
    <3>1. \A i \in 0 .. Ext[q][c] - 1 : Fresh(extPending[w][<<c, n, i>>])
      <4>. SUFFICES ASSUME NEW i \in 0 .. Ext[q][c] - 1
                   PROVE  Fresh(extPending[w][<<c, n, i>>])
        OBVIOUS
      <4>. DEFINE k == <<c, n, i>>
      <4>1. extPending[w][k] <= age[q]
        BY <1>0, <1>5, <1>13, <2>2 DEF ExtCovered
      <4>2. k \in ExtKey
        BY <1>7
      <4>3. extPending[w][k] \in Nat /\ age[q] \in Nat
        BY <1>0, <1>8, <1>13, <4>2 DEF TypeOK
      <4>. HIDE DEF k
      <4>4. Fresh(extPending[w][k])
        BY <1>5, <1>13, <4>1, <4>3 DEF Fresh
      <4>. QED
        BY <4>4 DEF k
    <3>2. Reserved(w, c, n) \in Nat /\ Ext[q][c] <= Reserved(w, c, n)
      BY <3>1, ReservedAtLeast
    <3>3. Ext[q][c] \in Nat
      BY UsesType
    <3>4. Ext[p][c] = 0 \/ Ext[p][c] + Ext[q][c] <= Capacity[c][n]
      BY <1>1, <3>2, <3>3, AvailableLeavesReserved
    <3>. QED
      BY <2>0, <2>1, <2>2, <3>4
  <2>3. CASE status[p] = "new" /\ Ext[p][d] = 0
    BY <2>0, <2>1, <2>3
  <2>4. CASE status[p] = "mutating" /\ d \notin left[p] /\ Unsettled(p)
    <3>1. node[p] = n /\ owner[p] = w /\ age'[p] = age[p]
      BY <1>1, <1>2, <1>3, <2>4
    <3>2. Fresh(age[p])
      BY <1>13, <3>1
    <3>3. d \in Class \ (left[p] \union left[q])
      BY <2>4
    <3>. QED
      BY <1>0, <1>5, <1>13, <2>4, <3>1, <3>2, <3>3 DEF ExtFitPairwise
  <2>. QED
    BY <1>9, <2>2, <2>3, <2>4
<1>14. ExtFitPairwise'
  <2>. SUFFICES ASSUME NEW q \in Pod, NEW r \in Pod, q # r, Unsettled(q)', Unsettled(r)',
                       NEW d \in Class \ (left'[q] \union left'[r]),
                       node'[q] = node'[r], owner'[q] = owner'[r], owner'[q] # NoReplica,
                       Fresh(age'[q]), Fresh(age'[r])
               PROVE  Ext[q][d] + Ext[r][d] <= Capacity[d][node'[q]]
    BY DEF ExtFitPairwise, Fresh
  <2>1. CASE q = p
    BY <1>3, <1>4, <1>13, <2>1
  <2>2. CASE r = p
    <3>1. Ext[r][d] + Ext[q][d] <= Capacity[d][node'[q]]
      BY <1>3, <1>4, <1>13, <2>2
    <3>2. Ext[r][d] \in Nat /\ Ext[q][d] \in Nat
      BY UsesType
    <3>. QED
      BY <3>1, <3>2
  <2>3. CASE q # p /\ r # p
    BY <1>0, <1>4, <2>3 DEF ExtFitPairwise
  <2>. QED
    BY <2>1, <2>2, <2>3
<1>. QED
  BY <1>11, <1>12, <1>14 DEF ExtIInv

LEMMA NextExtIInv == ExtIInv /\ FitsSoFar /\ Step => ExtIInv'
<1>. SUFFICES ASSUME ExtIInv, FitsSoFar, Step PROVE ExtIInv'
  OBVIOUS
<1>0. /\ TypeOK /\ TypeOK' /\ ExtFitAlone /\ ExtCovered /\ ExtFitPairwise
      /\ \A q \in Pod : status[q] = "new" => left[q] = {}
  BY NextTypeOK DEF ExtIInv, FitsSoFar
<1>1. ASSUME NEW w \in Replica, NEW p \in Pod, Allocate(w, p) PROVE ExtIInv'
  <2>1. PICK n \in Node : node' = [node EXCEPT ![p] = n]
    BY <1>0, <1>1, AllocatePlaces
  <2>2. /\ status[p] = "new" /\ Classes(p) = {}
        /\ status' = [status EXCEPT ![p] = "mutated"]
        /\ age' = [age EXCEPT ![p] = 0]
        /\ owner' = [owner EXCEPT ![p] = w]
        /\ UNCHANGED <<extPending, left>>
    BY <1>1 DEF Allocate
  <2>3. \A q \in Pod : q # p =>
          /\ Unsettled(q)' = Unsettled(q) /\ node'[q] = node[q] /\ left'[q] = left[q]
          /\ age'[q] = age[q] /\ owner'[q] = owner[q]
    BY <1>0, <2>1, <2>2 DEF TypeOK, Unsettled
  <2>4. \A d \in Class : Ext[p][d] = 0
    <3>. SUFFICES ASSUME NEW d \in Class PROVE Ext[p][d] = 0
      OBVIOUS
    <3>1. Ext[p][d] \in Nat /\ ~(Ext[p][d] > 0)
      BY <2>2, UsesType DEF Classes
    <3>. QED
      BY <3>1
  <2>5. \A d \in Class, m \in Node : Capacity[d][m] \in Nat
    BY AllocatorAssumption
  <2>6. node'[p] = n
    BY <1>0, <2>1 DEF TypeOK
  <2>7. ExtFitAlone'
    BY <1>0, <2>3, <2>4, <2>5, <2>6 DEF ExtFitAlone
  <2>8. ExtCovered'
    <3>. SUFFICES ASSUME NEW q \in Pod, Unsettled(q)', owner'[q] # NoReplica,
                         NEW d \in Class \ left'[q], NEW i \in 0 .. Ext[q][d] - 1
                 PROVE  extPending'[owner'[q]][<<d, node'[q], i>>] <= age'[q]
      BY DEF ExtCovered
    <3>1. CASE q = p
      BY <2>4, <3>1
    <3>2. CASE q # p
      BY <1>0, <2>2, <2>3, <3>2 DEF ExtCovered
    <3>. QED
      BY <3>1, <3>2
  <2>9. ExtFitPairwise'
    <3>. SUFFICES ASSUME NEW q \in Pod, NEW r \in Pod, q # r, Unsettled(q)', Unsettled(r)',
                         NEW d \in Class \ (left'[q] \union left'[r]),
                         node'[q] = node'[r], owner'[q] = owner'[r], owner'[q] # NoReplica,
                         Fresh(age'[q]), Fresh(age'[r])
                 PROVE  Ext[q][d] + Ext[r][d] <= Capacity[d][node'[q]]
      BY DEF ExtFitPairwise, Fresh
    <3>1. Ext[q][d] \in Nat /\ Ext[r][d] \in Nat
      BY UsesType
    <3>2. Ext[q][d] <= Capacity[d][node'[q]] /\ Ext[r][d] <= Capacity[d][node'[q]]
      BY <2>7 DEF ExtFitAlone
    <3>3. CASE q = p \/ r = p
      BY <2>4, <3>1, <3>2, <3>3
    <3>4. CASE q # p /\ r # p
      BY <1>0, <2>3, <3>4 DEF ExtFitPairwise
    <3>. QED
      BY <3>3, <3>4
  <2>. QED
    BY <1>0, <2>7, <2>8, <2>9 DEF ExtIInv
<1>2. ASSUME NEW w \in Replica, NEW p \in Pod, NEW c \in Class,
             AllocateExtendedResource(w, p, c)
      PROVE  ExtIInv'
  BY <1>0, <1>2, AllocateExtKeepsFits
<1>3. ASSUME NEW p \in Pod, Forget(p) PROVE ExtIInv'
  <2>1. UNCHANGED extPending
    BY <1>3 DEF Forget
  <2>2. \A q \in Pod : Unsettled(q)' =>
           /\ Unsettled(q) /\ node'[q] = node[q] /\ left'[q] = left[q]
           /\ age'[q] = age[q] /\ owner'[q] = owner[q]
    BY <1>0, <1>3 DEF Forget, TypeOK, Unsettled
  <2>. QED
    BY <1>0, <2>1, <2>2, LetGo
<1>4. ASSUME NEW p \in Pod, Create(p) \/ Recreate(p) PROVE ExtIInv'
  <2>1. UNCHANGED extPending
    BY <1>4 DEF Create, Recreate
  <2>2. \A q \in Pod : Unsettled(q)' =>
           /\ Unsettled(q) /\ node'[q] = node[q] /\ left'[q] = left[q]
           /\ age'[q] = age[q] /\ owner'[q] = owner[q]
    BY <1>0, <1>4 DEF Create, Recreate, TypeOK, Unsettled
  <2>. QED
    BY <1>0, <2>1, <2>2, LetGo
<1>5. ASSUME NEW p \in Pod, Settle(p) PROVE ExtIInv'
  <2>1. UNCHANGED extPending
    BY <1>5 DEF Settle
  <2>2. \A q \in Pod : Unsettled(q)' =>
           /\ Unsettled(q) /\ node'[q] = node[q] /\ left'[q] = left[q]
           /\ age'[q] = age[q] /\ owner'[q] = owner[q]
    BY <1>0, <1>5 DEF Settle, TypeOK, Unsettled
  <2>. QED
    BY <1>0, <2>1, <2>2, LetGo
<1>6. ASSUME Tick PROVE ExtIInv'
  <2>1. /\ UNCHANGED <<status, node, left, owner>>
        /\ \A q \in Pod : Unsettled(q) => age'[q] = Older(age[q])
        /\ \A v \in Replica, k \in ExtKey : extPending'[v][k] = Older(extPending[v][k])
        /\ \A q \in Pod : Unsettled(q)' = Unsettled(q)
    BY <1>6 DEF Tick, Unsettled
  <2>2. ExtFitAlone'
    BY <1>0, <2>1 DEF ExtFitAlone
  <2>3. ExtCovered'
    <3>. SUFFICES ASSUME NEW q \in Pod, Unsettled(q), owner[q] # NoReplica,
                         NEW d \in Class \ left[q], NEW i \in 0 .. Ext[q][d] - 1
                 PROVE  extPending'[owner[q]][<<d, node[q], i>>] <= age'[q]
      BY <2>1 DEF ExtCovered
    <3>. DEFINE k == <<d, node[q], i>>
    <3>1. owner[q] \in Replica /\ node[q] \in Node /\ i \in ExtIndex
      BY <1>0, IndicesOf DEF TypeOK
    <3>2. k \in ExtKey
      BY <3>1 DEF ExtKey
    <3>3. extPending[owner[q]][k] <= age[q]
      BY <1>0 DEF ExtCovered
    <3>4. extPending[owner[q]][k] \in 0 .. TTL + 1 /\ age[q] \in 0 .. TTL + 1
      BY <1>0, <3>1, <3>2 DEF TypeOK
    <3>5. extPending'[owner[q]][k] <= age'[q]
      <4>. HIDE DEF k
      <4>. QED
        BY <2>1, <3>1, <3>2, <3>3, <3>4, OlderMonotone
    <3>. QED
      BY <3>5
  <2>4. \A q \in Pod : Unsettled(q) /\ Fresh(age'[q]) => Fresh(age[q])
    BY <1>0, <2>1, OlderMonotone DEF TypeOK
  <2>5. ExtFitPairwise'
    BY <1>0, <2>1, <2>4 DEF ExtFitPairwise, Fresh
  <2>. QED
    BY <1>0, <2>2, <2>3, <2>5 DEF ExtIInv
<1>7. ASSUME NEW w \in Replica, Restart(w) PROVE ExtIInv'
  <2>1. /\ UNCHANGED <<status, node, left, age>>
        /\ \A q \in Pod : owner'[q] = IF owner[q] = w THEN NoReplica ELSE owner[q]
        /\ \A v \in Replica : v # w => extPending'[v] = extPending[v]
        /\ \A q \in Pod : Unsettled(q)' = Unsettled(q)
    BY <1>0, <1>7 DEF Restart, Unsettled, TypeOK
  <2>2. ExtFitAlone'
    BY <1>0, <2>1 DEF ExtFitAlone
  <2>3. ExtCovered'
    BY <1>0, <2>1 DEF ExtCovered, TypeOK
  <2>4. ExtFitPairwise'
    BY <1>0, <2>1 DEF ExtFitPairwise, Fresh
  <2>. QED
    BY <1>0, <2>2, <2>3, <2>4 DEF ExtIInv
<1>8. CASE UNCHANGED vars
  <2>1. UNCHANGED extPending
    BY <1>8 DEF vars
  <2>2. \A q \in Pod : Unsettled(q)' =>
           /\ Unsettled(q) /\ node'[q] = node[q] /\ left'[q] = left[q]
           /\ age'[q] = age[q] /\ owner'[q] = owner[q]
    BY <1>8 DEF vars, podVars, Unsettled
  <2>. QED
    BY <1>0, <2>1, <2>2, LetGo
<1>. QED
  BY <1>1, <1>2, <1>3, <1>4, <1>5, <1>6, <1>7, <1>8 DEF Step, Next, Reject, Delete, Bind

\* Spec => []ExtFitPairwise: in every environment, two pods that one process has sent
\* to a node within TTL fit on it together.
THEOREM AllocatorExtFitPairwise == Spec => []ExtFitPairwise
<1>1. Init => FitsSoFar /\ PlacementFits
  BY DEF Init, FitsSoFar, PlacementFits, Unsettled, Placed
<1>2. IInv /\ FitsSoFar /\ PlacementFits /\ Step => FitsSoFar' /\ PlacementFits'
  BY NextPlacementFits
<1>3. ExtIInv => ExtFitPairwise
  BY DEF ExtIInv
<1>. QED
  BY <1>1, <1>2, <1>3, InitExtIInv, NextExtIInv, AllocatorIInv, NextIsStep, PTL DEF Spec
=============================================================================
