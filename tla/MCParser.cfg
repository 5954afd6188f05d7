CONSTANT Scenario <- MCScenario
SPECIFICATION Spec
\* parse returns.
CHECK_DEADLOCK FALSE
INVARIANTS
  ParserInv
  StatementsFresh
  PrecedenceKept
  BracketsMatched
  AbsentOnlyInTypes
  PeekedIsNext
PROPERTY Terminates
