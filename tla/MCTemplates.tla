----------------------------- MODULE MCTemplates -----------------------------
(***************************************************************************)
(* Two processes and two pods, one with a pair and one with a pair or an   *)
(* intercepted device.  The ConfigMap holds explicit pairs, two of which   *)
(* share a rail, or has the transport detected, or is not valid.           *)
(***************************************************************************)
EXTENDS Templates, TLC

CONSTANTS a, b, w1, w2

PairOrDevice == {[pairs |-> 1, ext |-> 0], [pairs |-> 0, ext |-> 1]}

Base ==
  [infiniband |-> FALSE, transport |-> "auto", explicit |-> FALSE,
   rdmaRequired |-> TRUE, gpuClass |-> "gpu.nvidia.com", nicClass |-> "dranet",
   maxPairsPerNode |-> 2, interfacePrefix |-> "net", startingTableID |-> 100,
   rails |-> <<>>, ibRails |-> <<>>,
   crossRailCIDR |-> {}, sourceSubnet |-> {}, routes |-> {},
   deviceSelectors |-> <<>>, nodePoolLabelKey |-> "pool", nodePools |-> <<>>,
   intercepts |-> <<>>]

Net(prefix) == [subnet |-> prefix, gateway |-> prefix, ipv4Prefix |-> prefix]

Detected ==
  [Base EXCEPT !.rails = [r \in {0} |-> Net("10.0.")],
               !.ibRails = [r \in {0} |-> [gpu |-> "0001:00", nic |-> "0101:00"]]]

Pair(nic) == [rail |-> 0, devices |-> [nic |-> nic]]
Explicit ==
  [Base EXCEPT !.explicit = TRUE, !.transport = "ethernet",
               !.rails = [r \in {0} |-> Net("10.1.")],
               !.deviceSelectors = [nic |-> [class |-> "dranet", attribute |-> "pciAddress"]],
               !.nodePools = <<[label |-> 1, pairs |-> [i \in {0} |-> Pair("0101:00")]],
                               [label |-> 2, pairs |-> [i \in {0} |-> Pair("0102:00")]]>>]

GPUs == [resource |-> "nvidia.com/gpu", class |-> "gpu.nvidia.com"]
Intercepting == [Base EXCEPT !.transport = "ethernet", !.intercepts = <<GPUs>>]
Twice == [Explicit EXCEPT !.intercepts = <<GPUs, GPUs>>]

Symmetry == Permutations({a, b}) \union Permutations({w1, w2})

MCConfigMap == {Detected, Explicit, Intercepting, Twice}
=============================================================================
