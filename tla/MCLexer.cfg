CONSTANTS
  Input <- MCInput
  Keyword <- MCKeyword
  Named <- MCNamed
  Directive <- MCDirective
  MaxPeek = 3
SPECIFICATION Spec
\* The parser stops at the end of the file, and the lexer when it throws.
CHECK_DEADLOCK FALSE
INVARIANTS
  PeekInvisible
  NewlinesSeparate
  TokensInv
  Progress
  LongestMatch
  RangeKept
