-------------------------- MODULE ParseStatements --------------------------
(***************************************************************************)
(* The functions of parser.c that parse statements.                        *)
(***************************************************************************)
EXTENDS ParserMachine

parse_statement_list ==
  On("parse_statement_list") /\ Enter(
    <<Until({Kw("CASE"), Kind("RBRACE"), Kind("EOF")}, <<Call("parse_statement")>>)>>)

(* Mutant: a body is parsed at the depth it is found at.                   *)
Faulty_parse_body ==
  On("parse_body") /\ Enter(
    <<AllowNewline(TRUE),
      Expect({Kind("LBRACE")}), Call("parse_statement_list"), Expect({Kind("RBRACE")}),
      AllowNewline(parser.allow_newline),
      Make(Statement("BLOCK"))>>)

parse_body ==
  On("parse_body") /\ Enter(
    <<Set([expression_depth |-> 0, allow_newline |-> TRUE]),
      Expect({Kind("LBRACE")}), Call("parse_statement_list"), Expect({Kind("RBRACE")}),
      Set([expression_depth |-> parser.expression_depth, allow_newline |-> parser.allow_newline]),
      Make(Statement("BLOCK"))>>)

parse_block_statement ==
  On("parse_block_statement") /\ Enter(
    <<NewlineWithin>>
    \o (IF Args.when \/ parser.this_procedure THEN << >> ELSE <<Fail>>)
    \o <<Call("parse_body")>>)

Block(when) == CallWith("parse_block_statement", [when |-> when])

parse_do_body ==
  On("parse_do_body") /\ Enter(
    <<Set([expression_depth |-> 0, allow_newline |-> FALSE]),
      Call("parse_statement"),
      Inspect("absent statement"), Refuse({"BLOCK", "EMPTY"}),  \* convert_statement_to_body
      Set([expression_depth |-> parser.expression_depth, allow_newline |-> parser.allow_newline]),
      Make(Statement("BLOCK"))>>)

Body(when) == Accept({Kw("DO")}, <<Call("parse_do_body")>>, <<Block(when)>>)

-----------------------------------------------------------------------------
(* A declaration of n names: of what type and values is read next, or was. *)
DeclarationType(n) == [do |-> "declaration_type", n |-> n]
DeclarationValues(n, type, constant) ==
  [do |-> "declaration_values", n |-> n, type |-> type, constant |-> constant]
DeclarationEnd(n, type, values) ==
  [do |-> "declaration_end", n |-> n, type |-> type, values |-> values]

declaration_tail ==
  \/ /\ Doing("declaration_type")
     /\ LET type == value.kind # "NULL"
            values(constant) ==
              <<Advance, PossibleNewline, Lhs("parse_tuple_expression", FALSE),
                DeclarationValues(Now.n, type, constant)>>
        IN Go((IF This({EQ, Op("COLON")}) THEN values(This({Op("COLON")}))
               ELSE <<DeclarationEnd(Now.n, type, 0)>>) \o Rest)
  \/ /\ Doing("declaration_values")
     /\ IF value.n > Now.n \/ (value.n < Now.n /\ Now.constant) THEN Throw
        ELSE Go(<<DeclarationEnd(Now.n, Now.type, value.n)>> \o Rest)
  \/ /\ Doing("declaration_end")
     /\ LET brace == This({Kind("RBRACE")}) /\ SameLine
            counted == parser.this_procedure \/ Now.values = 0 \/ Now.values = Now.n
        IN IF ~Now.type /\ Now.values = 0 THEN Throw
           ELSE Go((IF parser.expression_depth >= 0 /\ ~brace THEN <<ExpectSemicolon>> ELSE << >>)
                   \o (IF counted THEN <<Make(Statement("DECLARATION"))>> ELSE <<Fail>>)
                   \o Rest)

parse_declaration_statement_tail ==
  On("parse_declaration_statement_tail") /\ Enter(
    <<Call("parse_type_or_identifier"), DeclarationType(Args.n)>>)

parse_declaration_statement ==
  On("parse_declaration_statement") /\ Enter(
    CASE value.name = "name" -> <<CallWith("parse_declaration_statement_tail", [n |-> value.n])>>
      [] value.name = "absent" -> <<Make(Absent), Inspect("absent expression")>>
      [] OTHER -> <<Fail>>)

parse_assignment_statement ==
  On("parse_assignment_statement") /\ Enter(
    IF parser.this_procedure
    THEN <<Advance, Lhs("parse_tuple_expression", FALSE), Make(Statement("ASSIGNMENT"))>>
    ELSE <<Fail>>)

Simple(allow_in, allow_label) ==
  CallWith("parse_simple_statement", [allow_in |-> allow_in, allow_label |-> allow_label])
AfterTuple(allow_in, allow_label) ==
  [do |-> "after_tuple", allow_in |-> allow_in, allow_label |-> allow_label]
AfterColon(allow_label) == [do |-> "after_colon", allow_label |-> allow_label]

Labelled == {Kind("LBRACE"), Kw("IF"), Kw("FOR"), Kw("SWITCH")}

(* value is the tuple on the left-hand side.                               *)
after_tuple ==
  \/ /\ Doing("after_tuple")
     /\ Go((CASE This({Kind("ASSIGNMENT")}) -> <<Call("parse_assignment_statement")>>
              [] This({Op("IN")}) /\ Now.allow_in ->
                   <<AllowIn(FALSE), Advance, Lhs("parse_expression", TRUE),
                     Make(Binary("IN")), Apply("expression statement"),
                     AllowIn(parser.allow_in)>>
              [] This({Op("COLON")}) -> <<Advance, AfterColon(Now.allow_label)>>
              [] OTHER -> IF value.n = 1
                          THEN <<Make(Node(value.of, "", value.op, "other")),
                                 Apply("expression statement")>>
                          ELSE <<Fail>>) \o Rest)
  \/ /\ Doing("after_colon")
     /\ Go((IF Now.allow_label /\ value.n = 1 /\ This(Labelled)
            THEN (CASE value.of = "IDENTIFIER" ->
                         <<Call("parse_statement"), Check({"BLOCK", "IF", "FOR", "SWITCH"})>>
                    [] value.of = "NULL" -> <<Make(Absent), Inspect("absent expression")>>
                    [] OTHER -> <<Fail>>)
            ELSE <<Call("parse_declaration_statement")>>) \o Rest)

parse_simple_statement ==
  On("parse_simple_statement") /\ Enter(
    <<Lhs("parse_tuple_expression", TRUE), AfterTuple(Args.allow_in, Args.allow_label)>>)

parse_basic_simple_statement ==
  On("parse_basic_simple_statement") /\ Enter(<<Simple(FALSE, TRUE), ExpectSemicolon>>)

-----------------------------------------------------------------------------
(* convert_statement_to_expression, of a statement that is there.          *)
Condition == <<Check({"EXPRESSION"}), Apply("condition")>>

(* Mutant: allow_in stays set.                                             *)
Faulty_parse_if_statement ==
  On("parse_if_statement") /\ Enter(
    <<Expect({Kw("IF")}),
      Set([expression_depth |-> -1, allow_in |-> TRUE]),
      Simple(FALSE, FALSE),
      ControlSeparator(<<RhsExpression>>, Condition),
      Set([expression_depth |-> parser.expression_depth]),
      Refuse({"NULL"}),
      Body(FALSE),
      NewlineWithin,
      Accept({Kw("ELSE")},
        <<When({Kw("IF")}, <<Call("parse_if_statement")>>,
          <<When({Kind("LBRACE")}, <<Block(FALSE)>>,
            <<Expect({Kw("DO")}), Call("parse_do_body")>>)>>)>>,
        << >>),
      Make(Statement("IF"))>>)

parse_if_statement ==
  On("parse_if_statement") /\ Enter(
    <<Expect({Kw("IF")}),
      Set([expression_depth |-> -1, allow_in |-> TRUE]),
      Simple(FALSE, FALSE),
      ControlSeparator(<<RhsExpression>>, Condition),
      Set([expression_depth |-> parser.expression_depth, allow_in |-> parser.allow_in]),
      Refuse({"NULL"}),
      Body(FALSE),
      NewlineWithin,
      Accept({Kw("ELSE")},
        <<When({Kw("IF")}, <<Call("parse_if_statement")>>,
          <<When({Kind("LBRACE")}, <<Block(FALSE)>>,
            <<Expect({Kw("DO")}), Call("parse_do_body")>>)>>)>>,
        << >>),
      Make(Statement("IF"))>>)

parse_when_statement ==
  On("parse_when_statement") /\ Enter(
    <<Expect({Kw("WHEN")}),
      Depth(-1), RhsExpression, Depth(parser.expression_depth),
      Refuse({"NULL"}),
      Body(TRUE),
      NewlineWithin,
      Accept({Kw("ELSE")},
        <<When({Kw("WHEN")}, <<Call("parse_when_statement")>>,
          <<When({Kind("LBRACE")}, <<Block(TRUE)>>,
            <<Expect({Kw("DO")}), Call("parse_do_body")>>)>>)>>,
        << >>),
      Make(Statement("WHEN"))>>)

BodyStart == {Kind("LBRACE"), Kw("DO")}

(* for [...] <cond>; [...] <post>, if a separator comes first.             *)
ForClauses ==
  ControlSeparator(
    <<When(BodyStart, <<Fail>>, << >>),
      When({Kind("SEMICOLON")}, << >>, <<Simple(FALSE, FALSE)>> \o Condition),
      ExpectSemicolon,
      When(BodyStart, << >>, <<Simple(FALSE, FALSE)>>)>>,
    << >>)

(* Is it an in?  An expression that is absent is looked into.              *)
for_range ==
  /\ Doing("for_range")
  /\ IF value.kind = "EXPRESSION" /\ value.of = "NULL" THEN End("absent expression")
     ELSE Go((IF value.kind = "EXPRESSION" /\ value.op = "IN" THEN << >> ELSE <<ForClauses>>) \o Rest)

parse_for_statement ==
  On("parse_for_statement") /\ Enter(
    <<Expect({Kw("FOR")}),
      When(BodyStart, << >>,
        <<Depth(-1),
          When({Op("IN")}, <<Fail>>,
            <<When({Kind("SEMICOLON")}, <<ForClauses>>,
                <<Simple(TRUE, FALSE), [do |-> "for_range"]>>)>>),
          Depth(parser.expression_depth)>>),
      Body(FALSE),
      Make(Statement("FOR"))>>)

parse_case_clause ==
  On("parse_case_clause") /\ Enter(
    <<Expect({Kw("CASE")}),
      AllowIn(~Args.type),
      When({Op("COLON")}, << >>, <<Lhs("parse_tuple_expression", FALSE)>>),
      AllowIn(parser.allow_in),
      Expect({Op("COLON")}),
      Call("parse_statement_list")>>)

(* The condition, absent if there is only an initialization, tells if the  *)
(* switch is over types.                                                   *)
switch_header ==
  /\ Doing("switch_header")
  /\ Go((IF value.kind = "EXPRESSION" THEN <<Apply("condition")>>
         ELSE <<ControlSeparator(<<RhsExpression>>, <<ExpectSemicolon, Make(Absent)>>)>>) \o Rest)

switch_clauses ==
  /\ Doing("switch_clauses")
  /\ LET type == value.kind = "BINARY" /\ value.op = "IN"
     IN Go(<<PossibleNewline,
             Expect({Kind("LBRACE")}),
             While({Kw("CASE")}, <<CallWith("parse_case_clause", [type |-> type])>>),
             Expect({Kind("RBRACE")}),
             Make(Statement("SWITCH"))>> \o Rest)

parse_switch_statement ==
  On("parse_switch_statement") /\ Enter(
    <<Expect({Kw("SWITCH")}),
      When({Kind("LBRACE")}, <<Make(Absent)>>,
        <<Depth(-1), Simple(TRUE, FALSE), [do |-> "switch_header"],
          Depth(parser.expression_depth)>>),
      [do |-> "switch_clauses"]>>)

parse_defer_statement ==
  On("parse_defer_statement") /\ Enter(
    <<Expect({Kw("DEFER")}), Call("parse_statement"), Make(Statement("DEFER"))>>)

parse_return_statement ==
  On("parse_return_statement") /\ Enter(
    <<Expect({Kw("RETURN")})>>
    \o (IF parser.expression_depth > 0 THEN <<Fail>> ELSE << >>)
    \o <<Until({Kind("SEMICOLON"), Kind("RBRACE"), Kind("EOF")}, <<RhsExpression, CommaOrBreak>>),
         ExpectSemicolon,
         Make(Statement("RETURN"))>>)

-----------------------------------------------------------------------------
OptionalName == When({Kind("IDENTIFIER")}, <<Call("parse_identifier")>>, << >>)

parse_import_statement ==
  On("parse_import_statement") /\ Enter(
    <<Expect({Kw("IMPORT")}), Optional({Kind("IDENTIFIER")}), Expect({StringLiteral}),
      ExpectSemicolon, Make(Statement("IMPORT"))>>)

parse_foreign_block_statement ==
  On("parse_foreign_block_statement") /\ Enter(
    <<OptionalName,
      NewlineWithin,
      Expect({Kind("LBRACE")}),
      Until({Kind("RBRACE"), Kind("EOF")}, <<Call("parse_statement")>>),
      Expect({Kind("RBRACE")}),
      ExpectSemicolon,
      Make(Statement("FOREIGN_BLOCK"))>>)

parse_foreign_import_statement ==
  On("parse_foreign_import_statement") /\ Enter(
    <<Expect({Kw("IMPORT")}), Optional({Kind("IDENTIFIER")}),
      Accept({Kind("LBRACE")},
        <<Until({Kind("RBRACE"), Kind("EOF")}, <<Expect({StringLiteral}), SeparatorOrBreak>>),
          Call("expect_closing")>>,
        <<Expect({StringLiteral})>>),
      Make(Statement("FOREIGN_IMPORT"))>>)

(* Before anything else but a block or an import there is no statement.    *)
parse_foreign_declaration_statement ==
  On("parse_foreign_declaration_statement") /\ Enter(
    <<Expect({Kw("FOREIGN")}),
      When({Kind("IDENTIFIER"), Kind("LBRACE")}, <<Call("parse_foreign_block_statement")>>,
        <<When({Kw("IMPORT")}, <<Call("parse_foreign_import_statement")>>, <<Make(Absent)>>)>>)>>)

(* Mutant: the keyword is not read.                                        *)
Faulty_parse_branch_statement ==
  On("parse_branch_statement") /\ Enter(<<OptionalName, Make(Statement("BRANCH"))>>)

parse_branch_statement ==
  On("parse_branch_statement") /\ Enter(<<Advance, OptionalName, Make(Statement("BRANCH"))>>)

parse_using_statement ==
  On("parse_using_statement") /\ Enter(
    <<Expect({Kw("USING")}),
      When({Kw("IMPORT")}, <<Call("parse_import_statement")>>,
        <<Lhs("parse_tuple_expression", FALSE),
          Accept({Op("COLON")}, <<Call("parse_declaration_statement")>>,
            <<ExpectSemicolon, Make(Statement("USING"))>>)>>)>>)

parse_package_statement ==
  On("parse_package_statement") /\ Enter(
    <<Expect({Kw("PACKAGE")}), Expect({Kind("IDENTIFIER")}), Make(Statement("PACKAGE"))>>)

parse_empty_statement ==
  On("parse_empty_statement") /\ Enter(<<ExpectSemicolon, Make(Statement("EMPTY"))>>)

StatementDirectives ==
  Dirs({"BOUNDS_CHECK", "NO_BOUNDS_CHECK", "TYPE_ASSERT", "NO_TYPE_ASSERT", "PARTIAL",
        "UNROLL", "FORCE_INLINE", "FORCE_NO_INLINE"})

parse_directive_for_statement ==
  On("parse_directive_for_statement") /\ Enter(
    <<Accept(Dirs({"ASSERT", "PANIC", "LOAD"}),
        <<Call("parse_directive_call_expression"), Apply("expression statement")>>,
        <<Expect(StatementDirectives), Call("parse_statement")>>)>>)

parse_attributes_for_statement ==
  On("parse_attributes_for_statement") /\ Enter(
    <<Expect({Kind("ATTRIBUTE")}),
      When({Kind("IDENTIFIER")}, <<Call("parse_identifier")>>,
        <<Expect({Op("LPAREN")}),
          Deeper(1),
          Until({Op("RPAREN"), Kind("EOF")},
            <<Call("parse_identifier"), Accept({EQ}, <<Call("parse_value")>>, << >>),
              SeparatorOrBreak>>),
          Deeper(-1),
          Expect({Op("RPAREN")})>>),
      PossibleNewline,
      Call("parse_statement"),
      Inspect("absent statement"),
      Check({"DECLARATION", "FOREIGN_BLOCK", "FOREIGN_IMPORT"})>>)

StatementKeywords ==
  {"FOREIGN", "IF", "WHEN", "IMPORT", "FOR", "SWITCH", "DEFER", "RETURN", "BREAK", "CONTINUE",
   "FALLTHROUGH", "USING", "PACKAGE", "CONTEXT", "PROC"}

KeywordStatement(keyword) ==
  CASE keyword = "FOREIGN" -> "parse_foreign_declaration_statement"
    [] keyword = "IF" -> "parse_if_statement"
    [] keyword = "WHEN" -> "parse_when_statement"
    [] keyword = "IMPORT" -> "parse_import_statement"
    [] keyword = "FOR" -> "parse_for_statement"
    [] keyword = "SWITCH" -> "parse_switch_statement"
    [] keyword = "DEFER" -> "parse_defer_statement"
    [] keyword = "RETURN" -> "parse_return_statement"
    [] keyword \in {"BREAK", "CONTINUE", "FALLTHROUGH"} -> "parse_branch_statement"
    [] keyword = "USING" -> "parse_using_statement"
    [] keyword = "PACKAGE" -> "parse_package_statement"
    [] keyword \in {"CONTEXT", "PROC"} -> "parse_basic_simple_statement"

SimpleStart ==
  {Kind("LITERAL"), Kind("IDENTIFIER")}
  \cup Ops({"LPAREN", "POINTER", "ADD", "SUB", "XOR", "NOT", "AND"})

parse_statement ==
  On("parse_statement") /\ Enter(
    CASE This(SimpleStart) -> <<Call("parse_basic_simple_statement")>>
      [] This({Kind("KEYWORD")}) /\ this_token.as \in StatementKeywords ->
           <<Call(KeywordStatement(this_token.as))>>
      [] This({Kind("ATTRIBUTE")}) -> <<Call("parse_attributes_for_statement")>>
      [] This({Kind("DIRECTIVE")}) -> <<Call("parse_directive_for_statement")>>
      [] This({Kind("LBRACE")}) -> <<Block(FALSE)>>
      [] This({Kind("SEMICOLON")}) -> <<Call("parse_empty_statement")>>
      [] OTHER -> <<Fail>>)

StatementFunctions ==
  \/ parse_statement_list \/ parse_body \/ parse_block_statement \/ parse_do_body
  \/ declaration_tail \/ parse_declaration_statement_tail \/ parse_declaration_statement
  \/ parse_assignment_statement \/ after_tuple \/ parse_simple_statement
  \/ parse_basic_simple_statement \/ parse_if_statement \/ parse_when_statement \/ for_range
  \/ parse_for_statement \/ parse_case_clause \/ switch_header \/ switch_clauses
  \/ parse_switch_statement \/ parse_defer_statement \/ parse_return_statement
  \/ parse_import_statement \/ parse_foreign_block_statement \/ parse_foreign_import_statement
  \/ parse_foreign_declaration_statement \/ parse_branch_statement \/ parse_using_statement
  \/ parse_package_statement \/ parse_empty_statement \/ parse_directive_for_statement
  \/ parse_attributes_for_statement \/ parse_statement
=============================================================================
