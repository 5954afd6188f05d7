------------------------------- MODULE Parser -------------------------------
(***************************************************************************)
(* parser.c: parse() reads the statements of a file one after the other.   *)
(***************************************************************************)
EXTENDS ParseTypes, ParseExpressions, ParseStatements

(* parser_init, and the first token.                                       *)
Init ==
  /\ ReaderInit
  /\ parser = [expression_depth |-> 0, allow_newline |-> FALSE, allow_type |-> FALSE,
               allow_in |-> FALSE, this_procedure |-> FALSE]
  /\ stack = <<Advance, Until({Kind("EOF")}, <<Call("parse_statement"), Inspect("absent statement")>>)>>
  /\ value = Absent
  /\ peeked = TOKEN_NIL
  /\ outcome = "parsing"
  /\ brackets = << >>
  /\ lenient = FALSE

(* parse returns when nothing is left to do.                               *)
Accepted ==
  /\ outcome = "parsing" /\ stack = << >>
  /\ End("accepted")

Next == Accepted \/ Machine \/ TypeFunctions \/ ExpressionFunctions \/ StatementFunctions

(* parse runs on one thread, which goes on as long as it can.              *)
Spec == Init /\ [][Next]_parserVars /\ WF_parserVars(Next)

-----------------------------------------------------------------------------
Outcomes == {"parsing", "accepted", "rejected", "absent expression", "absent statement", "misreported"}

(* The shape of the state: the depth is a count of brackets, or -1 in the  *)
(* header of a statement or a type, and what was added to it is all that   *)
(* is taken off.                                                           *)
TypeOK ==
  /\ parser.expression_depth \in Nat \cup {-1}
  /\ \A field \in {"allow_newline", "allow_type", "allow_in", "this_procedure"} :
       parser[field] \in BOOLEAN
  /\ DOMAIN value = DOMAIN Absent
  /\ outcome \in Outcomes /\ lenient \in BOOLEAN
  /\ peek \in Seq(Tokens)

(* Whatever a parse function sets in the parser while it runs, the         *)
(* functions it calls included, it has taken back when it returns, on each *)
(* of its ways out; only that a procedure was seen stays.                  *)
FlagsRestored ==
  Doing("leave") =>
    \A field \in DOMAIN parser \ {"this_procedure"} : parser[field] = Now.entered[field]

(* The parser's fields have their shape, and between its functions each    *)
(* finds them as the one that called it set them.                          *)
ParserInv == TypeOK /\ FlagsRestored

(* A statement is never parsed at the depth of an expression around it: no *)
(* newline that ends one of its lines is skipped (parser.c:243), and the   *)
(* return statement that parser.c:2981 refuses is never met.               *)
StatementsFresh == On("parse_statement") => parser.expression_depth = 0

(* The operands of a binary expression bind tighter than it, on the right  *)
(* strictly: that is what precedences and associativity to the left are.   *)
(* A directive such as #partial stands before a whole expression:          *)
(* parse_expression reads all that follows it, where an operand begins     *)
(* too.                                                                    *)
Bare(node, prec) == node.closed \/ (node.kind = "BINARY" => PRECEDENCE(node.op) >= prec)

PrecedenceKept ==
  Doing("join") => /\ Bare(Now.left, PRECEDENCE(Now.op))
                   /\ Bare(value, PRECEDENCE(Now.op) + 1)

(* The token that lexer_next will return first and is no comment.          *)
Ahead == Head(SelectSeq(peek, LAMBDA token : token.kind # "COMMENT"))

(* The task at the head of the stack is one of the function f.             *)
InTaskOf(f) ==
  LET i == SelectInSeq(stack, LAMBDA task : task.do = "leave")
  IN i # 0 /\ stack[i].f = f

(* What peekp returned, and the parser now decides on, is the next token   *)
(* that it will read, though lexer_peek scans one each time and returns    *)
(* the last but one (lexer.c:353).  Only a comment before the brace of a   *)
(* block upsets it, where the separator before has peeked already.         *)
PeekedIsNext ==
  \/ Doing("separated")
  \/ Doing("control_peeked")
  \/ Doing("within_peeked") /\ ~( /\ InTaskOf("parse_block_statement")
                                /\ \E i \in 1 .. Len(peek) : peek[i].kind = "COMMENT")
  => peeked.kind = Ahead.kind /\ peeked.as = Ahead.as

(* In a file that is parsed to its end every bracket was closed by one of  *)
(* its kind, in order, unless expect_operator took an in for one.          *)
BracketsMatched == outcome = "accepted" /\ ~lenient => brackets = << >>

(* Where an operand is missing the parser reports it.  An expression that  *)
(* is not there is looked into only while types are parsed, or what is     *)
(* written within one, where operands may be missing.                      *)
AbsentOnlyInTypes == outcome = "absent expression" => parser.allow_type

(* Outside an expression in is a keyword (parser.c:2240): in the header of *)
(* a for it ends the names of the variables, and is not one more operator. *)
Headers == {"parse_" \o kind \o "_statement" : kind \in {"for", "if", "when", "switch"}}
InHeaderOf(f) ==
  LET i == SelectInSeq(stack, LAMBDA task : task.do = "leave" /\ task.f \in Headers)
  IN parser.expression_depth < 0 /\ i # 0 /\ stack[i].f = f

InIsKeyword ==
  Doing("operators") /\ This({Op("IN")}) /\ InHeaderOf("parse_for_statement") =>
    OperatorPrecedence = 0

(* Every file is parsed to its end or rejected.                            *)
Terminates == <>(outcome # "parsing")
=============================================================================
