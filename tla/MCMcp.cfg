SPECIFICATION MCSpec
CONSTANTS
  c1 = c1
  c2 = c2
  Calls <- MCCalls
  Fields = {"int"}
  Wires = {"word", "number"}
INVARIANTS
  AnswerIsTrue
  SpansTellTheTruth
PROPERTIES
  PanicsAreContained
  EveryCallReturns
