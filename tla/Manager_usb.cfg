\* USB entries of two devices, their mux handles and two client sessions, without heartbeats.
SPECIFICATION Spec
CONSTANTS
  Udids = {u1, u2}
  Adders = {}
  Listeners = {}
  Sessions = {s1, s2}
  Handles = {h1, h2}
  AddTypes = {"Network"}
  UseHeartbeat = FALSE
  FirstId = 1
  MaxDevices = 3
  MaxInbox = 2
  NoClient = NoClient
SYMMETRY Symmetry
INVARIANTS
  UsbTableConsistent
  NoSpuriousKill
  OpenSessionsTracked
