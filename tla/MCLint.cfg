SPECIFICATION Spec
CONSTANTS
  Paths <- MCPaths
  Alias = "alias"
  MaxImports = 2
  MaxAssignments = 2
INVARIANTS
  FindsTheBypasses
CHECK_DEADLOCK FALSE
