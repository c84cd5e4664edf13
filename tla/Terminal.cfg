SPECIFICATION Spec
CONSTANTS
  Width = 2
  Height = 2
  LineSize = 5
  Outputs <- SomeOutputs
  BufferSize = 3
  MaxEvents = 5
INVARIANTS TypeOK FlagsTrue LineShown
PROPERTY KeysInOrder
