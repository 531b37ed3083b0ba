SPECIFICATION SchedSpec
CONSTANTS
  n1 = n1
  n2 = n2
  gpu = gpu
  w1 = w1
  two = two
  one = one
  solo = solo
  NoNode = NoNode
  NoReplica = NoReplica
  Node = {n1, n2}
  Rail = {0, 1, 2}
  NIC <- MCNIC
  Numa <- MCNuma
  Topology <- MCTopology
  Class = {}
  GPUClass = gpu
  Capacity <- MCCapacity
  Pod = {two, one, solo}
  Pairs <- MCPairs
  Ext <- MCExt
  CrossNUMA = {}
  Fits <- MCFits
  Avoids <- NotWithOne
  Follows <- WithOthers
  MaxPairsPerNode = 3
  MaxPairsPerNUMA = 2
  DisableNUMAPacking = FALSE
  TTL = 1
  Replica = {w1}
  Prompt = TRUE
  ListsFail = FALSE
  Restarts = FALSE
  Config <- MCConfig
  Label <- MCLabel
  Constraints <- MCConstraints
  GPU <- MCGPU
  OtherNIC <- MCOtherNIC
  DeviceClass <- MCDeviceClass
  PCIeRoot <- MCPCIeRoot
  Attributes <- MCAttributes
INVARIANTS
  TypeOK
  PlacementFits
  NoDoubleBooking
  HeldAsReserved
  AdmittedCanRun
  NICsConfigured
  NoFalseRefusal
  
PROPERTY
  ImplementsBooking
