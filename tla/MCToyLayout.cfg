SPECIFICATION Spec
CONSTANTS
  Structs <- MCStructs
  MaxFields = 4
INVARIANTS
  TypeOK
  RoomForFields
  FieldsPlaced
  ArraysAligned
CHECK_DEADLOCK FALSE
