SPECIFICATION DatabaseSpec
CONSTANTS
  c1 = c1
  c2 = c2
  Calls <- MCCalls
  Drivers <- MCDrivers
  Slots = 1
INVARIANTS
  AnswerIsTrue
PROPERTIES
  NothingStaysOpen
  SqlTimeoutEndsTransaction
  CallsAndCleanupsEnd
