\* One phone, unplugged and plugged in again, with no record or one that may be stale.
SPECIFICATION Spec
CONSTANTS
  d1 = d1
  Plugs = {p1, p2}
  Devices = {d1}
  DeviceOf <- OnePhone
  Claims = 2
  Records = {"none", "stale"}
SYMMETRY Replugs
CHECK_DEADLOCK FALSE
INVARIANTS
  CleanedUpOnce
  CleanupPending
