--------------------------- MODULE ParserMachine ---------------------------
(***************************************************************************)
(* How the functions of parser.c run.  A parse function is an action that  *)
(* puts what the function does on the stack as a sequence of tasks: a call *)
(* of another parse function, a token that is expected, accepted or tested *)
(* for, a field of the parser that is set.  The task at the head of the    *)
(* stack is what runs next.  PARSE_ERROR throws, which abandons the stack. *)
(*                                                                         *)
(* The tree is kept only as far as the parser looks at it again: value is  *)
(* what the last parse function returned, and of it the kind of the node   *)
(* and whether it evaluates to an identifier.                              *)
(***************************************************************************)
EXTENDS TokenReader

VARIABLES
  parser,    \* the fields of Parser that tell it how to go on
  stack,     \* what is left to do, the next task first
  value,     \* what the last parse function returned
  peeked,    \* what peekp returned, and how many more lines on it is
  outcome,   \* "parsing", or how parse() ended
  brackets,  \* history: the brackets that were read and are open
  lenient    \* history: expect_operator took an in for another operator

machineVars == <<parser, stack, value, peeked, outcome, brackets, lenient>>
parserVars == <<readerVars, machineVars>>

-----------------------------------------------------------------------------
(* Tokens as the parser tests for them: is_kind, is_operator and so on.    *)
Kind(k) == <<k, "any">>
Op(o) == <<"OPERATOR", o>>
Kw(k) == <<"KEYWORD", k>>
Dir(d) == <<"DIRECTIVE", d>>
EQ == <<"ASSIGNMENT", "EQ">>
StringLiteral == <<"LITERAL", "STRING">>
NEWLINE == <<"SEMICOLON", Newline>>
Ops(os) == {Op(o) : o \in os}
Dirs(ds) == {Dir(d) : d \in ds}

Is(token, ones) == <<token.kind, token.as>> \in ones \/ Kind(token.kind) \in ones
This(ones) == Is(this_token, ones)

(* A node: its kind, of which the node of a type, a statement or a tuple   *)
(* has another one inside; its operator if it is a binary expression;      *)
(* whether it evaluates to an identifier; how many nodes it holds; and, as *)
(* history, whether it is in parentheses or after a directive, which       *)
(* applies to all that follows it.                                         *)
Node(kind, of, op, name) ==
  [kind |-> kind, of |-> of, op |-> op, name |-> name, n |-> 0, closed |-> FALSE]

Absent == Node("NULL", "", "", "absent")
Identifier == Node("IDENTIFIER", "", "", "name")
Expression == Node("OTHER", "", "", "other")
Selector == Node("OTHER", "", "", "name")  \* an implicit one
Ternary == Node("TERNARY", "", "", "other")
Binary(op) == Node("BINARY", "", op, "other")
TypeOf(kind) == Node("TYPE", kind, "", "other")
PolyName == Node("TYPE", "POLY", "", "name")
Statement(kind) == Node(kind, "", "", "other")

-----------------------------------------------------------------------------
(* The tasks.                                                              *)
Call(f) == [do |-> "call", f |-> f]
CallWith(f, args) == [do |-> "call", f |-> f, args |-> args]
Lhs(f, lhs) == CallWith(f, [lhs |-> lhs])
RhsExpression == Lhs("parse_expression", FALSE)
Expect(ones) == [do |-> "expect", ones |-> ones]
Accept(ones, then, else) == [do |-> "accept", ones |-> ones, then |-> then, else |-> else]
When(ones, then, else) == [do |-> "when", ones |-> ones, then |-> then, else |-> else]
Advance == [do |-> "advance"]
Skip == [do |-> "skip"]
Set(fields) == [do |-> "set", fields |-> fields]
Deeper(by) == [do |-> "deeper", by |-> by]
Make(node) == [do |-> "make", node |-> node]
Apply(f) == [do |-> "apply", f |-> f]
Check(kinds) == [do |-> "check", kinds |-> kinds]
Refuse(kinds) == [do |-> "refuse", kinds |-> kinds]
Inspect(what) == [do |-> "inspect", what |-> what]
Fail == [do |-> "fail"]
Misreport == [do |-> "misreport"]
Either(tasks) == [do |-> "either", then |-> tasks]
While(ones, body) == [do |-> "while", ones |-> ones, body |-> body]
Until(ones, body) == [do |-> "until", ones |-> ones, body |-> body]
Break == [do |-> "break"]
Peek == [do |-> "peek"]
Separator(then, else) == [do |-> "separator", then |-> then, else |-> else]
Separated == [do |-> "separated"]
ControlSeparator(then, else) == [do |-> "control", then |-> then, else |-> else]
ControlPeeked(then, else) == [do |-> "control_peeked", then |-> then, else |-> else]
NewlineWithin == [do |-> "newline_within"]
WithinPeeked == [do |-> "within_peeked"]
ExpectSemicolon == [do |-> "semicolon"]
Leave(f) == [do |-> "leave", f |-> f, entered |-> parser]

PossibleNewline == Accept({NEWLINE}, << >>, << >>)
SeparatorOrBreak == Separator(<< >>, <<Break>>)
CommaOrBreak == Accept({Op("COMMA")}, << >>, <<Break>>)
Optional(ones) == Accept(ones, << >>, << >>)

(* parser->field = 1 and so on, and back to what it was at the entry.      *)
Depth(n) == Set([expression_depth |-> n])
AllowNewline(b) == Set([allow_newline |-> b])
AllowIn(b) == Set([allow_in |-> b])

-----------------------------------------------------------------------------
Now == Head(stack)
Rest == Tail(stack)
Doing(task) == outcome = "parsing" /\ stack # << >> /\ Now.do = task

End(how) ==
  /\ outcome' = how
  /\ UNCHANGED <<readerVars, parser, stack, value, peeked, brackets, lenient>>

Throw == End("rejected")

Go(tasks) ==
  /\ stack' = tasks
  /\ UNCHANGED <<readerVars, parser, value, peeked, outcome, brackets, lenient>>

GoWith(tasks, node) ==
  /\ stack' = tasks
  /\ value' = node
  /\ UNCHANGED <<readerVars, parser, peeked, outcome, brackets, lenient>>

(* The brackets, and the open ones after one more token: each is kept as   *)
(* what is to close it, and a stray one that closes stays.                 *)
OpeningBrackets == {Op("LPAREN"), Op("LBRACKET"), Kind("LBRACE")}
ClosingBrackets == {Op("RPAREN"), Op("RBRACKET"), Kind("RBRACE")}
Stray == Kind("INVALID")

Closing(token) ==
  CASE Is(token, {Op("LPAREN")}) -> Op("RPAREN")
    [] Is(token, {Op("LBRACKET")}) -> Op("RBRACKET")
    [] Is(token, {Kind("LBRACE")}) -> Kind("RBRACE")

Bracketed(open, token) ==
  CASE Is(token, OpeningBrackets) -> Append(open, Closing(token))
    [] Is(token, ClosingBrackets) ->
         IF open # << >> /\ Is(token, {Last(open)}) THEN Front(open) ELSE Append(open, Stray)
    [] OTHER -> open

ignore_newline == parser.expression_depth > 0

(* this_token becomes the next token.  A comment is skipped, the gap being *)
(* from the token before it, and within an expression a newline as well,   *)
(* which last_token then is.                                               *)
NextToken(gap, tasks) ==
  \E token \in Deliverable :
    LET again == CASE token.kind = "COMMENT" -> <<Skip>>
                   [] is_newline(token) /\ ignore_newline -> <<Advance>>
                   [] OTHER -> << >>
    IN /\ LexerNext(token)
       /\ this_token' = [token EXCEPT !.gap = Min({2, @ + gap})]
       /\ stack' = again \o tasks
       /\ UNCHANGED <<parser, value, outcome>>

advancep(tasks) ==
  /\ last_token' = this_token
  /\ NextToken(0, tasks)
  /\ peeked' = TOKEN_NIL
  /\ brackets' = Bracketed(brackets, this_token)

AdvanceToken == Doing("advance") /\ advancep(Rest) /\ UNCHANGED lenient

SkipComment ==
  /\ Doing("skip")
  /\ NextToken(this_token.gap, Rest)
  /\ UNCHANGED <<last_token, peeked, brackets, lenient>>

(* expect_operator takes an in for any operator.                           *)
TakenForIn(ones) ==
  /\ \E one \in ones : one[1] = "OPERATOR" /\ one[2] # "any"
  /\ This(Ops({"IN", "NOT_IN"}))
  /\ parser.expression_depth >= 0 \/ parser.allow_in

ExpectToken ==
  /\ Doing("expect")
  /\ IF This(Now.ones) \/ TakenForIn(Now.ones)
     THEN advancep(Rest) /\ lenient' = (lenient \/ ~This(Now.ones))
     ELSE Throw

AcceptToken ==
  /\ Doing("accept")
  /\ IF This(Now.ones) THEN advancep(Now.then \o Rest) /\ UNCHANGED lenient
     ELSE Go(Now.else \o Rest)

TestToken ==
  /\ Doing("when")
  /\ Go((IF This(Now.ones) THEN Now.then ELSE Now.else) \o Rest)

Loop ==
  \/ /\ Doing("while")
     /\ Go(IF This(Now.ones) THEN Now.body \o stack ELSE Rest)
  \/ /\ Doing("until")
     /\ Go(IF This(Now.ones) THEN Rest ELSE Now.body \o stack)
  \/ /\ Doing("break")
     /\ Go(Tail(Rest))

SetField ==
  /\ \/ /\ Doing("set")
        /\ parser' = [field \in DOMAIN parser |->
                       IF field \in DOMAIN Now.fields THEN Now.fields[field] ELSE parser[field]]
     \/ Doing("deeper") /\ parser' = [parser EXCEPT !.expression_depth = @ + Now.by]
  /\ stack' = Rest
  /\ UNCHANGED <<readerVars, value, peeked, outcome, brackets, lenient>>

(* What a function makes of the node it was given or got from a call.      *)
Made(f, node) ==
  CASE f = "type of expression" ->  \* parse_type_or_identifier
         (CASE node.kind = "NULL" -> Absent
            [] node.kind = "TYPE" -> Node(node.of, "", "", node.name)
            [] OTHER -> Node("EXPRESSION", "", "", node.name))
    [] f = "expression of type" -> Node("TYPE", node.kind, "", node.name)
    [] f \in {"parenthesis", "directive"} -> [node EXCEPT !.closed = TRUE]
    [] f = "expression statement" -> Node("EXPRESSION", node.kind, node.op, "other")
    [] f = "condition" ->  \* convert_statement_to_expression
         Node(node.of, "", node.op, "other")

MakeNode ==
  \/ Doing("make") /\ GoWith(Rest, Now.node)
  \/ Doing("apply") /\ GoWith(Rest, Made(Now.f, value))

(* A test of the node, which is not looked into, and one that looks.  What *)
(* is reported with a String for both arguments of %.*s may not come back. *)
CheckNode ==
  \/ Doing("check") /\ IF value.kind \in Now.kinds THEN Go(Rest) ELSE Throw
  \/ Doing("refuse") /\ IF value.kind \in Now.kinds THEN Throw ELSE Go(Rest)
  \/ /\ Doing("inspect")
     /\ IF value.kind = "NULL" THEN End(Now.what) ELSE Go(Rest)
  \/ Doing("fail") /\ Throw
  \/ Doing("misreport") /\ (Throw \/ End("misreported"))

(* A test of data that is not modelled.                                    *)
Choose ==
  /\ Doing("either")
  /\ Go(Rest) \/ Go(Now.then \o Rest)

(* A call of lexer_peek; peekp goes on after a comment.                    *)
PeekToken ==
  /\ Doing("peek")
  /\ \E token \in Scannable :
       /\ LexerPeek(token)
       /\ IF Peeked(token).kind = "COMMENT"
          THEN UNCHANGED <<stack, peeked>>
          ELSE /\ stack' = Rest
               /\ peeked' = [Peeked(token) EXCEPT !.gap = PeekedGap(token)]
  /\ UNCHANGED <<parser, value, outcome, brackets, lenient>>

accepted_separator ==
  \/ /\ Doing("separator")
     /\ CASE This({Op("COMMA")}) -> advancep(Now.then \o Rest) /\ UNCHANGED lenient
          [] This({NEWLINE}) -> Go(<<Peek, Separated>> \o Now.then \o Rest)
          [] This({Kind("SEMICOLON")}) /\ ~This({NEWLINE}) -> Throw
          [] OTHER -> Go(Now.else \o Rest)
  \/ /\ Doing("separated")
     /\ IF Is(peeked, {Kind("RBRACE"), Op("RPAREN")})
        THEN advancep(Rest) /\ UNCHANGED lenient ELSE Throw

(* Before a brace a semicolon should do, but mkkind (lexer.c:185) gives it *)
(* no string, so that it is not found to be ";".                           *)
accepted_control_statement_separator ==
  \/ /\ Doing("control")
     /\ Go(<<Peek, ControlPeeked(Now.then, Now.else)>> \o Rest)
  \/ /\ Doing("control_peeked")
     /\ IF /\ ~Is(peeked, {Kind("LBRACE")}) \/ this_token.as = ";"
           /\ This({Kind("SEMICOLON")})
        THEN advancep(Now.then \o Rest) /\ UNCHANGED lenient
        ELSE Go(Now.else \o Rest)

advance_possible_newline_within ==
  \/ /\ Doing("newline_within")
     /\ Go(IF This({NEWLINE}) THEN <<Peek, WithinPeeked>> \o Rest ELSE Rest)
  \/ /\ Doing("within_peeked")
     /\ IF peeked.gap <= 1 /\ Is(peeked, {Kind("LBRACE"), Kw("ELSE"), Kw("WHERE")})
        THEN advancep(Rest) /\ UNCHANGED lenient ELSE Go(Rest)

SameLine == this_token.gap = 0

expect_semicolon ==
  /\ Doing("semicolon")
  /\ IF This({Kind("SEMICOLON")}) THEN advancep(Rest) /\ UNCHANGED lenient
     ELSE IF \/ This({Kind("RBRACE"), Op("RPAREN")}) /\ SameLine
             \/ Is(last_token, {Kind("SEMICOLON")})
             \/ This({Kind("EOF")})
             \/ ~SameLine
     THEN Go(Rest)
     ELSE Throw

(* TRACE_LEAVE.                                                            *)
Return == Doing("leave") /\ Go(Rest)

Machine ==
  \/ AdvanceToken \/ SkipComment \/ ExpectToken \/ AcceptToken \/ TestToken \/ Loop
  \/ SetField \/ MakeNode \/ CheckNode \/ Choose \/ PeekToken
  \/ accepted_separator \/ accepted_control_statement_separator
  \/ advance_possible_newline_within \/ expect_semicolon \/ Return

(* A call of the parse function f is next; and what it does when it is     *)
(* entered, up to its return (TRACE_ENTER, TRACE_LEAVE).                   *)
On(f) == Doing("call") /\ Now.f = f
Args == Now.args
Enter(tasks) == Go(tasks \o <<Leave(Now.f)>> \o Rest)
=============================================================================
