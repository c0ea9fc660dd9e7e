CONSTANTS
  Present <- MCPresent
  Absent = 5
  TIBs <- MCTIBs
  SG_TABLE_SIZE = 3
  BufferSize = 6
  Word = 4
  MaxLength = 3
SPECIFICATION FairSpec
INVARIANTS
  TypeOK
  TableIsTransfer
  TibDenotes
  TransferIsOwn
PROPERTIES
  TibEnds
