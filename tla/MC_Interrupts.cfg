CONSTANTS
  Order <- MCOrder
  Acking <- MCAcking
  Tick = "VIA"
  MaxDepth = 6
SPECIFICATION Spec
INVARIANTS
  TypeOK
  NoNestedIrq
  RequestNotLost
  NestBalanced
