SPECIFICATION Spec
CONSTANTS
  a = a
  b = b
  w1 = w1
  w2 = w2
  NoReplica = NoReplica
  Pod = {a, b}
  Asks <- PairOrDevice
  Resource = "nvidia.com/gpu"
  Replica = {w1, w2}
  ConfigMap <- MCConfigMap
  DefaultConfig <- Base
  Encapsulations = {"ether", "infiniband"}
  MaxChanges = 1
  MaxDoomed = 1
SYMMETRY Symmetry
INVARIANTS
  TypeOK
  IntendedClaims
  DivergesByRelease
  TemplatesThere
