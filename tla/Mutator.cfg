SPECIFICATION Spec
CONSTANTS
  gpu = gpu
  fpga = fpga
  n1 = n1
  n2 = n2
  Pair = Pair
  NotPatched = NotPatched
  Containers = 3
  Resource = {gpu, fpga}
  Node = {n1, n2}
  Shapes <- MCShapes
INVARIANTS
  TypeOK
  Stripped
  
  OwnClaimsKept
  PinnedToNode
PROPERTY
  OnlyQueuedPodsPatched
CHECK_DEADLOCK FALSE
