CONSTANTS
  Order <- MCOrderLive
  Acking <- MCAckingLive
  Tick = "VIA"
  MaxDepth = 3
SPECIFICATION FairSpec
PROPERTIES
  DeviceReleased
  IdleWakes
