CONSTANTS
  Scenario <- MCScenario
  Expression <- MCExpression
  CAPACITY = 5
SPECIFICATION Spec
CHECK_DEADLOCK FALSE
INVARIANT TypesAsC
