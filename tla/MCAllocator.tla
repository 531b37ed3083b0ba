----------------------------- MODULE MCAllocator -----------------------------
(***************************************************************************)
(* Two nodes: one with three NICs in two NUMA zones, one with two NICs.    *)
(***************************************************************************)
EXTENDS Allocator

CONSTANTS n1, n2, gpu, fpga, w1, w2,
          two, one, solo,   \* pods with two pairs, one pair, one pair on n1
          g1, g2, g3        \* pods with one, one and two GPUs; g3 wants an FPGA too

MCNIC == ({n1} \X (0 .. 2)) \union ({n2} \X (0 .. 1))
MCNIC1 == {n1} \X {0, 1}
MCNuma == [s \in NIC |-> IF s[2] = 2 THEN 1 ELSE 0]
MCTopology == [n \in Node |-> n]
MCCapacity ==
  [c \in Class |-> [n \in Node |-> IF c = fpga THEN 1 ELSE IF n = n1 THEN 3 ELSE 2]]

MCPairs == [p \in Pod |-> CASE p = two -> 2 [] p \in {one, solo} -> 1 [] OTHER -> 0]
MCExt ==
  [p \in Pod |-> [c \in Class |->
     CASE c = gpu /\ p \in {g1, g2} -> 1
       [] c = gpu /\ p = g3 -> 2
       [] c = fpga /\ p = g3 -> 1
       [] OTHER -> 0]]
MCFits == [p \in Pod |-> IF p = solo THEN {n1} ELSE Node]

\* Without pairs the mode makes no difference.
ExtInit == Init /\ mode = "ethernet"
ExtSpec == ExtInit /\ [][Next]_vars /\ WF_vars(Tick)

NoTerms == [p \in Pod |-> {}]
Apart == [p \in Pod |-> Pod \ {p}]
=============================================================================
