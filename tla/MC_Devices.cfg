SPECIFICATION DevicesFairSpec
CONSTANTS
  KEY_BUFFER_SIZE = 3
  KeyCodes = {1, 2}
  Positions <- MCPositions
  MaxCoord = 2
  Delta7 = 1
  Delta10 = 2
  NoKey = NoKey
  PageSize = 3
  Geometries <- MCGeometries
  MaxOpen = 2
  MaxSources = 1
  Streams = {"s1"}
  Protocols <- MCProtocols
  Groups = {"G"}
  Snaps = {"x", "y"}
  Multicasts = {"m"}
  MaxMulti = 1
  NoSnap = "none"
INVARIANTS
  DevicesTypeOK
  KeysInOrder
  InputAnnounced
  MotionConserved
  NoUpdateLost
  OneOwnerOfDisplay
  BlockIsAnswer
  DeliveredAsAsked
PROPERTIES
  InputReachesMac
  ScreenCatchesUp
  WriteCompletes
  EmulationGoesOn
  SoundGoesOn
CHECK_DEADLOCK FALSE
