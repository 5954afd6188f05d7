CONSTANT Scenario <- MCForInBody
SPECIFICATION Spec
CHECK_DEADLOCK FALSE
INVARIANT InIsKeyword
