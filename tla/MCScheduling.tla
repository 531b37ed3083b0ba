---------------------------- MODULE MCScheduling ----------------------------
(***************************************************************************)
(* Node n1 has three NICs: 0 and 1 share a NUMA zone and a PCIe root with  *)
(* two GPUs, 2 has a zone and a root with one GPU; n2 has two NICs with a  *)
(* root each.  Both have a NIC without RDMA on the subnet of rail 0.  The  *)
(* pools of explicit mode list the pairs of n1 from the last rail to the   *)
(* first, and there are no rails there, so that routing tables are flat.   *)
(***************************************************************************)
EXTENDS Preflight

CONSTANTS n1, n2, gpu, w1,
          two, one, solo   \* pods with two pairs, one pair, one pair on n1

MCNIC == ({n1} \X (0 .. 2)) \union ({n2} \X (0 .. 1))
MCNuma == [s \in NIC |-> IF s[2] = 2 THEN 1 ELSE 0]
MCTopology == [n \in Node |-> n]
MCCapacity == [c \in Class |-> [n \in Node |-> 0]]
MCPairs == [p \in Pod |-> IF p = two THEN 2 ELSE 1]
MCExt == [p \in Pod |-> [c \in Class |-> 0]]
NotWithOne == [p \in Pod |-> IF p = solo THEN {one} ELSE {}]
WithOthers == [p \in Pod |-> IF p = one THEN {two, solo} ELSE {}]

\* Label keys and values; only n1 is labeled with a tier.
MCLabel ==
  [n \in Node |-> IF n = n1 THEN [zone |-> 1, pool |-> 1, tier |-> 1]
                 ELSE [zone |-> 1, pool |-> 2]]

Expr(key, op, values) == [key |-> key, op |-> op, values |-> values]

\* solo: on n1 by its first term, nowhere by its second.
MCConstraints ==
  [p \in Pod |->
     [selector |-> IF p = one THEN [zone |-> 1] ELSE <<>>,
      terms |->
        CASE p = solo ->
               {[expressions |-> {Expr("tier", "NotIn", {2}), Expr("pool", "Exists", {})},
                 fields |-> {Expr("metadata.name", "NotIn", {n2})}],
                [expressions |-> {Expr("pool", "In", {2}), Expr("tier", "Exists", {})},
                 fields |-> {}]}
          [] p = one ->
               {[expressions |-> {Expr("tier", "NotIn", {2})}, fields |-> {}],
                [expressions |-> {}, fields |-> {Expr("metadata.name", "In", {n1})}]}
          [] OTHER -> {}]]

MCFits == [p \in Pod |-> {n \in Node : Matches(Constraints[p], n, Label[n])}]

MCOtherNIC == Node \X {3}
\* A GPU for each NIC, numbered as its rail.
MCGPU == {<<s[1], s[2], "gpu">> : s \in NIC}
MCDeviceClass ==
  [d \in Device |-> IF d \in GPU THEN "gpu.nvidia.com" ELSE "dranet"]
MCPCIeRoot ==
  [d \in Device |-> <<d[1], IF d[1] = n1 /\ d[2] = 1 THEN 0 ELSE d[2]>>]

\* Addresses are the same on all nodes.
Prefix(r) == <<"10.0.", "10.1.", "10.2.">>[r + 1]
Subnet(r) == <<"10.0.0.0/16", "10.1.0.0/16", "10.2.0.0/16">>[r + 1]
Gateway(r) == <<"10.0.0.1", "10.1.0.1", "10.2.0.1">>[r + 1]
Address(r) == <<"0101:00", "0102:00", "0103:00">>[r + 1]
Bus(r) == <<"0001:00", "0002:00", "0003:00">>[r + 1]
All == "10.0.0.0/8"

NICAttributes(m, rail, rdma) ==
  {<<"rdma", rdma>>, <<"pciAddress", Address(rail)>>}
    \union (IF m = "infiniband" THEN {<<"encapsulation", "infiniband">>}
            ELSE {<<"ipv4Prefix", Prefix(rail)>>, <<"subnet", Subnet(rail)>>,
                  <<"subnet", All>>})

MCAttributes ==
  [m \in Modes |-> [d \in Device |->
     CASE d \in GPU -> {<<"pciBusID", Bus(d[2])>>}
       [] d \in NIC -> NICAttributes(m, d[2], "true")
       [] OTHER -> IF m = "infiniband" THEN {<<"rdma", "false">>}
                   ELSE NICAttributes(m, 0, "false") \ {<<"pciAddress", Address(0)>>}]]

PoolPair(rail) == [rail |-> rail, devices |-> [gpu |-> Bus(rail), nic |-> Address(rail)]]

Base ==
  [infiniband |-> FALSE, explicit |-> FALSE, rdmaRequired |-> TRUE,
   gpuClass |-> "gpu.nvidia.com", nicClass |-> "dranet", maxPairsPerNode |-> 3,
   interfacePrefix |-> "net", startingTableID |-> 100,
   rails |-> <<>>, ibRails |-> <<>>,
   crossRailCIDR |-> {}, sourceSubnet |-> {}, routes |-> {},
   deviceSelectors |-> <<>>, nodePoolLabelKey |-> "pool", nodePools |-> <<>>]

MCConfig ==
  [m \in Modes |->
     CASE m = "ethernet" ->
            [Base EXCEPT !.rails = [r \in Rail |-> [subnet |-> Subnet(r),
                                      gateway |-> Gateway(r), ipv4Prefix |-> Prefix(r)]],
                         !.crossRailCIDR = {All}]
       [] m = "infiniband" ->
            [Base EXCEPT !.infiniband = TRUE,
                         !.ibRails = [r \in Rail |-> [gpu |-> Bus(r), nic |-> Address(r)]]]
       [] m = "explicit" ->
            [Base EXCEPT !.explicit = TRUE,
                         !.sourceSubnet = {All},
                         !.routes = {[destination |-> All, gateway |-> Gateway(0)]},
                         !.deviceSelectors =
                           [gpu |-> [class |-> "gpu.nvidia.com", attribute |-> "pciBusID"],
                            nic |-> [class |-> "dranet", attribute |-> "pciAddress"]],
                         !.nodePools =
                           <<[label |-> 1, pairs |-> [i \in 0 .. 2 |-> PoolPair(2 - i)]],
                             [label |-> 2, pairs |-> [i \in 0 .. 1 |-> PoolPair(i)]]>>]]
=============================================================================
