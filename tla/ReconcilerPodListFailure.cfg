SPECIFICATION Spec
CONSTANTS
  t1 = t1  t2 = t2  pa = pa  pb = pb  c1 = c1  c2 = c2  a = a  b = b
  NoPod = NoPod
  Template = {t1}
  Claim = {}
  Pod = {pa}
  Namespace = {a}
  Home <- MCHome
  Uses <- MCUses
  Owner <- MCOwner
  FromTemplate = {}
  AutoReap = TRUE
  GracePeriod = 1
  PruneAfter = 1
  Faults = {"pods"}
  MaxFaults = 2
  Timely = FALSE
  IdleBound = 0
PROPERTY InUseSpared
