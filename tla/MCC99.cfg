CONSTANTS
  Scenario <- MCScenario
  Expression <- MCExpression
  CAPACITY = 5
SPECIFICATION Spec
\* c99_emit_build returns.
CHECK_DEADLOCK FALSE
INVARIANTS
  EmitterInv
  DeclaredBeforeBodies
  TypesAsVisible
