\* Network devices with heartbeats: duplicate discoveries, stale failures, and what the manager
\* and the heartbeat tasks eventually do.
SPECIFICATION FairSpec
CONSTANTS
  Udids = {u1}
  Adders = {a1}
  Listeners = {l1}
  Sessions = {}
  Handles = {}
  AddTypes = {"Network"}
  UseHeartbeat = TRUE
  FirstId = 1
  MaxDevices = 3
  MaxInbox = 2
  NoClient = NoClient
INVARIANTS
  IndInv
  ListenerAgreement
  HeartbeatBacked
PROPERTIES
  ImplementsDeviceEvents
  DeadDeviceDelisted
  RemovalTakesEffect
  AddDeviceResolved
