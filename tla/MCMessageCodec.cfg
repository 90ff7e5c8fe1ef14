CONSTANTS
  Types <- CodecTypes
  Texts <- CodecTexts
  Numbers <- CodecNumbers
  MaxSets = 2
  MaxBuilt = 2
  MaxList = 2
  MaxRooms = 1
  MaxSize = 20
SPECIFICATION Spec
INVARIANTS
  TypeOK
  ArrivesAsSet
  InStep
  OnlyOversizeIsRefused
CHECK_DEADLOCK FALSE
