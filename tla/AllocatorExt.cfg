SPECIFICATION ExtSpec
CONSTANTS
  n1 = n1
  n2 = n2
  gpu = gpu
  fpga = fpga
  w1 = w1
  w2 = w2
  two = two
  one = one
  solo = solo
  g1 = g1
  g2 = g2
  g3 = g3
  NoNode = NoNode
  NoReplica = NoReplica
  Node = {n1, n2}
  Rail = {0, 1, 2}
  NIC = {}
  Numa <- MCNuma
  Topology <- MCTopology
  Class = {gpu, fpga}
  GPUClass = gpu
  Capacity <- MCCapacity
  Pod = {g1, g2, g3}
  Pairs <- MCPairs
  Ext <- MCExt
  CrossNUMA = {}
  Fits <- MCFits
  Avoids <- NoTerms
  Follows <- NoTerms
  MaxPairsPerNode = 3
  MaxPairsPerNUMA = 2
  DisableNUMAPacking = FALSE
  TTL = 1
  Replica = {w1}
  Prompt = FALSE
  ListsFail = FALSE
  Restarts = FALSE
INVARIANTS
  ExtFitPairwise
PROPERTY
  DevicesReclaimed
