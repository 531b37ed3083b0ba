------------------------------- MODULE Booking -------------------------------
(***************************************************************************)
(* What the allocator is for: a pod books the NICs it asks for, all of one *)
(* node and none of which another pod has booked, in one step; it keeps    *)
(* them until it gives all of them back, and may come again.               *)
(***************************************************************************)
EXTENDS Naturals, FiniteSets

CONSTANTS Pod, NIC, Pairs

VARIABLE booked

Init == booked = [p \in Pod |-> {}]

Book(p) ==
  /\ booked[p] = {}
  /\ \E S \in SUBSET (NIC \ UNION {booked[q] : q \in Pod}) :
       /\ Cardinality(S) = Pairs[p]
       /\ \A s, t \in S : s[1] = t[1]
       /\ booked' = [booked EXCEPT ![p] = S]

GiveBack(p) == booked' = [booked EXCEPT ![p] = {}]

Next == \E p \in Pod : Book(p) \/ GiveBack(p)

Spec == Init /\ [][Next]_booked
=============================================================================
