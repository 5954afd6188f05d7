CONSTANTS
  Input <- MCInput
  Keyword <- MCKeyword
  Named <- MCNamed
  Directive <- MCDirective
  MaxPeek = 3
SPECIFICATION Spec
CHECK_DEADLOCK FALSE
INVARIANT AssignmentsSpelled
