SPECIFICATION Spec
CONSTANTS
  t1 = t1  t2 = t2  pa = pa  pb = pb  c1 = c1  c2 = c2  a = a  b = b
  NoPod = NoPod
  Template = {t1, t2}
  Claim = {}
  Pod = {pa, pb}
  Namespace = {a, b}
  Home <- MCHome
  Uses <- MCUses
  Owner <- MCOwner
  FromTemplate = {}
  AutoReap = TRUE
  GracePeriod = 2
  PruneAfter = 1
  Faults <- Harmless
  MaxFaults = 1
  Timely = TRUE
  IdleBound = 6
INVARIANT ReapedInTime
PROPERTIES InUseSpared NewbornSpared
