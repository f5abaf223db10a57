SPECIFICATION StreamSpec
CONSTANTS
  MaxEvents = 0
  Bodies <- ShortBodies
INVARIANTS
  CompleteOutput
