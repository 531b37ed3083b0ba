---------------------------- MODULE ClaimBuilder ----------------------------
(***************************************************************************)
(* The specs of the resource claims a pod gets                             *)
(* (internal/webhook/claim_builder.go) and the parts of the configuration  *)
(* they are built from (internal/webhook/config.go).                       *)
(*                                                                         *)
(* A configuration is a record.  rails and ibRails are functions on        *)
(* 0 .. n-1, as the slices of the code are; an optional value is a set     *)
(* with at most one element; deviceSelectors maps a role to its device     *)
(* class and attribute, and a pair has one device for each role.  A CEL    *)
(* selector is the set of the <<attribute, value>> pairs it asks for.      *)
(***************************************************************************)
EXTENDS Naturals

\* Routing table 0 is the main table; a link-scope route has no gateway.
MainTable == 0
AnyDestination == "0.0.0.0/0"

\* On InfiniBand a rail is a PCI address, the same on every node.
buildIBNICSelectors(rail, cfg) ==
  IF rail \in DOMAIN cfg.ibRails
  THEN {<<"rdma", "true">>, <<"pciAddress", cfg.ibRails[rail].nic>>}
  ELSE IF cfg.rdmaRequired
  THEN {<<"rdma", "true">>, <<"encapsulation", "infiniband">>}
  ELSE {}

buildIBGPUSelectors(rail, cfg) ==
  IF rail \in DOMAIN cfg.ibRails
  THEN {<<"pciBusID", cfg.ibRails[rail].gpu>>} ELSE {}

buildNICSelectors(rail, cfg) ==
  IF cfg.infiniband THEN buildIBNICSelectors(rail, cfg)
  ELSE (IF rail \in DOMAIN cfg.rails
        THEN {<<"ipv4Prefix", cfg.rails[rail].ipv4Prefix>>} ELSE {})
       \union (IF cfg.rdmaRequired THEN {<<"rdma", "true">>} ELSE {})

\* Faulty variant of tableOf: tables are numbered by NIC position on every rail.
tableByPosition(nicIndex, rail, cfg) == cfg.startingTableID

\* Policy routing tables go with rails; without rails, with NIC positions.
tableOf(nicIndex, rail, cfg) ==
  cfg.startingTableID + (IF rail \in DOMAIN cfg.rails THEN rail ELSE nicIndex)

(***************************************************************************)
(* The parameters of a NIC.  With rails: its subnet is routed by a table   *)
(* of its own, the other rails through its gateway.  The fabric does all   *)
(* that on InfiniBand.                                                     *)
(***************************************************************************)
buildNICParameters(nicIndex, rail, cfg) ==
  LET table == tableOf(nicIndex, rail, cfg)
      net == cfg.rails[rail]
      route(d, g, t) == [destination |-> d, gateway |-> g, table |-> t]
      railed == rail \in DOMAIN cfg.rails
      sources == IF railed THEN {net.subnet} ELSE cfg.sourceSubnet
      railRoutes == {route(net.subnet, {}, table),
                     route(AnyDestination, {net.gateway}, table)}
        \union {route(c, {net.gateway}, MainTable) : c \in cfg.crossRailCIDR}
      flatRoutes == {route(r.destination, {r.gateway}, table) : r \in cfg.routes}
  IN  [interface |-> <<cfg.interfacePrefix, nicIndex>>,
       rules |-> IF cfg.infiniband THEN {}
                 ELSE {[source |-> s, table |-> table] : s \in sources},
       routes |-> IF cfg.infiniband THEN {}
                  ELSE IF railed THEN railRoutes ELSE flatRoutes]

Request(class, selectors) == [class |-> class, selectors |-> selectors]

\* Faulty variant of BuildSinglePairClaimSpec: no common PCIe root is asked for.
BuildUnpairedClaimSpec(nicIndex, rail, cfg) ==
  [requests |->
     [gpu |-> Request(cfg.gpuClass,
                IF cfg.infiniband THEN buildIBGPUSelectors(rail, cfg) ELSE {}),
      nic |-> Request(cfg.nicClass, buildNICSelectors(rail, cfg))],
   matchRoot |-> FALSE,
   params |-> {buildNICParameters(nicIndex, rail, cfg)}]

\* One GPU and one NIC: pinned by address on InfiniBand, by PCIe root otherwise.
BuildSinglePairClaimSpec(nicIndex, rail, cfg) ==
  [requests |->
     [gpu |-> Request(cfg.gpuClass,
                IF cfg.infiniband THEN buildIBGPUSelectors(rail, cfg) ELSE {}),
      nic |-> Request(cfg.nicClass, buildNICSelectors(rail, cfg))],
   matchRoot |-> ~cfg.infiniband,
   params |-> {buildNICParameters(nicIndex, rail, cfg)}]

buildDevicePinSelector(sel, value) == <<sel.attribute, value>>

\* Every device pinned to its configured value; a NIC is configured as above.
BuildExplicitPairClaimSpec(nicIndex, pair, cfg) ==
  LET pin(role) == buildDevicePinSelector(cfg.deviceSelectors[role], pair.devices[role])
      more(role) == IF role = "nic" THEN buildNICSelectors(pair.rail, cfg) ELSE {}
  IN  [requests |-> [role \in DOMAIN cfg.deviceSelectors |->
         Request(cfg.deviceSelectors[role].class, {pin(role)} \union more(role))],
       matchRoot |-> FALSE,
       params |-> IF "nic" \in DOMAIN cfg.deviceSelectors
                  THEN {buildNICParameters(nicIndex, pair.rail, cfg)} ELSE {}]

BuildExtendedResourceClaimSpec(class) ==
  [requests |-> [device |-> Request(class, {})], matchRoot |-> FALSE, params |-> {}]

(***************************************************************************)
(* Template names: a readable part and a hash, which stands for all that   *)
(* is hashed (32 bits of SHA-256; collisions are left out).                *)
(***************************************************************************)
SinglePairTemplateName(nicIndex, rail, cfg) ==
  <<"gpu-nic-pair", nicIndex, rail, <<cfg>>>>

\* Faulty: the devices are not hashed.
NameWithoutDevices(nicIndex, pair, cfg) ==
  <<"gpu-nic-pair", nicIndex, pair.rail, <<cfg>>>>

ExplicitPairTemplateName(nicIndex, pair, cfg) ==
  <<"gpu-nic-pair", nicIndex, pair.rail, <<cfg, pair.devices>>>>

ExtendedResourceTemplateName(index, class, cfg) ==
  <<"ext-resource", index, <<cfg, class>>>>
-----------------------------------------------------------------------------
(***************************************************************************)
(* The configuration.                                                      *)
(***************************************************************************)

\* The first pool with the node's label; if there is none, the node is passed over.
GetNodePoolMapping(labels, cfg) ==
  LET fits == {i \in DOMAIN cfg.nodePools :
                 /\ cfg.nodePoolLabelKey \in DOMAIN labels
                 /\ cfg.nodePools[i].label = labels[cfg.nodePoolLabelKey]}
  IN  {cfg.nodePools[i] : i \in {j \in fits : \A k \in fits : j <= k}}

(***************************************************************************)
(* What ParseConfig makes sure of.  It does not look at the rail of a      *)
(* pair, nor whether two pairs of a pool share a device.                   *)
(***************************************************************************)
ValidatePairingConfig(cfg) ==
  cfg.explicit =>
    /\ DOMAIN cfg.deviceSelectors # {}
    /\ DOMAIN cfg.nodePools # {}
    /\ \A n \in DOMAIN cfg.nodePools :
         LET pairs == cfg.nodePools[n].pairs
         IN  /\ DOMAIN pairs # {}
             /\ \A i \in DOMAIN pairs :
                  /\ i < cfg.maxPairsPerNode
                  /\ DOMAIN pairs[i].devices = DOMAIN cfg.deviceSelectors

\* The device classes of the extended resources that are intercepted.
InterceptedResourceMap(cfg) ==
  [r \in {cfg.intercepts[i].resource : i \in DOMAIN cfg.intercepts} |->
     cfg.intercepts[CHOOSE i \in DOMAIN cfg.intercepts : cfg.intercepts[i].resource = r].class]

ValidateInterceptConfig(cfg) ==
  \A i, j \in DOMAIN cfg.intercepts :
    /\ cfg.intercepts[i].resource # "gpu-nic-pair"
    /\ cfg.intercepts[i].resource = cfg.intercepts[j].resource => i = j

(***************************************************************************)
(* "infiniband" if any NIC of any node says so, unless the slices cannot   *)
(* be listed when the process starts.                                      *)
(***************************************************************************)
ResolveTransportMode(encapsulations, listed) ==
  listed /\ "infiniband" \in encapsulations
=============================================================================
