\* Opening a device of three configurations with budgets of up to five attempts, and the pipes
\* of each backend: packets of two bytes, submissions of four, frames of up to five.
SPECIFICATION IoFairSpec
CONSTANTS
  Configs <- ThreeConfigs
  Attempts = {0, 1, 5}
  MaxPacket = 2
  MaxOut = 4
  ReadSize = 3
  Chunk = 4
  InFlight = 2
  Sizes = {1, 2, 4, 5}
  Wants = {1, 3}
  MaxFrames = 2
  Backends = {"nusb", "apple", "libusbk"}
CHECK_DEADLOCK FALSE
INVARIANTS
  ClaimsInActiveConfig
  HalvesCoverCandidates
  FramesDelimited
  StreamIntact
PROPERTIES
  CallsReturn
  HandleReleased
