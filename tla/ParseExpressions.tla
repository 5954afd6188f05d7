-------------------------- MODULE ParseExpressions --------------------------
(***************************************************************************)
(* The functions of parser.c that parse values, operands and expressions.  *)
(* lhs is set where a brace begins a block and not a compound literal.     *)
(***************************************************************************)
EXTENDS ParserMachine

(* The precedence column of lexemes.h, from the operators that bind least. *)
Precedences ==
  <<{"OR_ELSE", "OR_RETURN", "QUESTION"},
    {"ELLIPSIS", "RANGEFULL", "RANGEHALF"},
    {"CMPOR"},
    {"CMPAND"},
    {"CMPEQ", "NOTEQ", "LT", "GT", "LTEQ", "GTEQ"},
    {"IN", "NOT_IN", "ADD", "SUB", "OR", "XOR"},
    {"QUO", "MUL", "MOD", "MODMOD", "AND", "ANDNOT", "SHL", "SHR"}>>

PRECEDENCE(op) ==
  IF \E prec \in 1 .. 7 : op \in Precedences[prec]
  THEN CHOOSE prec \in 1 .. 7 : op \in Precedences[prec] ELSE 0

parse_value ==
  On("parse_value") /\ Enter(
    <<When({Kind("LBRACE")}, <<Call("parse_compound_literal_expression")>>, <<RhsExpression>>)>>)

(* Those of intrinsics: the call is all that is read of them.              *)
parse_directive_call_expression ==
  On("parse_directive_call_expression") /\ Enter(<<Call("parse_call_expression")>>)

parse_literal_expression ==
  On("parse_literal_expression") /\ Enter(<<Advance, Make(Expression)>>)

parse_undefined_expression ==
  On("parse_undefined_expression") /\ Enter(<<Expect({Kind("UNDEFINED")}), Make(Expression)>>)

parse_directive_prefix ==
  LET type == <<Call("parse_type"), Apply("expression of type")>>
  IN On("parse_directive_prefix") /\ Enter(
       <<Accept(Dirs({"TYPE", "SOA", "SPARSE"}), type,
         <<Accept({Dir("SIMD")}, <<Call("parse_type"), Check({"ARRAY"}), Apply("expression of type")>>,
         <<Accept(Dirs({"PARTIAL", "BOUNDS_CHECK", "NO_BOUNDS_CHECK", "TYPE_ASSERT",
                        "NO_TYPE_ASSERT", "FORCE_INLINE", "FORCE_NO_INLINE"}),
             <<Lhs("parse_expression", Args.lhs), Apply("directive")>>,
         <<Accept(Dirs({"CONFIG", "DEFINED", "LOAD"}), <<Call("parse_directive_call_expression")>>,
         <<Accept(Dirs({"CALLER_LOCATION", "PROCEDURE"}), <<Make(Expression)>>,
         <<Expect({Dir("RELATIVE")}), Call("parse_directive_call_expression")>> \o type
         )>>)>>)>>)>>)>>)

-----------------------------------------------------------------------------
(* An operand in parentheses: newlines are skipped up to the closing one.  *)
Parenthesized ==
  <<Expect({Op("LPAREN")}),
    AllowNewline(IF parser.expression_depth < 0 THEN FALSE ELSE parser.allow_newline),
    Depth(Max({parser.expression_depth, 0}) + 1),
    RhsExpression,
    Expect({Op("RPAREN")}),
    Set([expression_depth |-> parser.expression_depth, allow_newline |-> parser.allow_newline]),
    Apply("parenthesis")>>

Array(count) == CallWith("parse_array_type_expression", [count |-> count])

(* [^]T, [?]T, [dynamic]T, []T and [N]T.                                   *)
BracketType ==
  <<Expect({Op("LBRACKET")}),
    When({Op("POINTER")}, <<Call("parse_multi_pointer_type_expression")>>,
    <<When({Op("QUESTION")}, <<Array(FALSE)>>,
    <<Accept({Kw("DYNAMIC")}, <<Call("parse_dynamic_array_type_expression")>>,
    <<Accept({Op("RBRACKET")}, <<Call("parse_slice_type_expression")>>, <<Array(TRUE)>>
    )>>)>>)>>)>>

OperandKeywords ==
  {"DISTINCT", "PROC", "BIT_SET", "TYPEID", "MAP", "MATRIX", "STRUCT", "UNION", "ENUM", "CONTEXT"}

KeywordOperand(keyword) ==
  CASE keyword = "DISTINCT" -> <<Call("parse_distinct_type_expression")>>
    [] keyword = "PROC" -> <<Expect({Kw("PROC")}),
                             When({Kind("LBRACE")}, <<Call("parse_procedure_group_expression")>>,
                               <<Call("parse_procedure")>>)>>
    [] keyword = "BIT_SET" -> <<Call("parse_bit_set_type_expression")>>
    [] keyword = "TYPEID" -> <<Call("parse_typeid_type_expression")>>
    [] keyword = "MAP" -> <<Call("parse_map_type_expression")>>
    [] keyword = "MATRIX" -> <<Call("parse_matrix_type_expression")>>
    [] keyword = "STRUCT" -> <<Call("parse_struct_type_expression")>>
    [] keyword = "UNION" -> <<Call("parse_union_type_expression")>>
    [] keyword = "ENUM" -> <<Call("parse_enum_type_expression")>>
    [] keyword = "CONTEXT" -> <<Expect({Kw("CONTEXT")}), Make(Expression)>>

parse_operand ==
  On("parse_operand") /\ Enter(
    CASE This({Kind("IDENTIFIER")}) -> <<Call("parse_identifier")>>
      [] This({Kind("LITERAL")}) -> <<Call("parse_literal_expression")>>
      [] This({Kind("LBRACE")}) /\ ~Args.lhs -> <<Call("parse_compound_literal_expression")>>
      [] This({Kind("DIRECTIVE")}) -> <<Lhs("parse_directive_prefix", Args.lhs)>>
      [] This({Kind("CONST")}) -> <<Call("parse_poly_type_expression")>>
      [] This({Kind("UNDEFINED")}) -> <<Call("parse_undefined_expression")>>
      [] This({Kind("KEYWORD")}) /\ this_token.as \in OperandKeywords ->
           KeywordOperand(this_token.as)
      [] This({Op("LPAREN")}) -> Parenthesized
      [] This({Op("POINTER")}) -> <<Call("parse_pointer_type_expression")>>
      [] This({Op("LBRACKET")}) -> BracketType
      [] OTHER -> <<Make(Absent)>>)

-----------------------------------------------------------------------------
Arguments(seen) == [do |-> "arguments", seen |-> seen]
Argument(seen, has) == [do |-> "argument", seen |-> seen, has |-> has]

(* The arguments of a call: seen an ellipsis before, has one itself.       *)
arguments ==
  \/ /\ Doing("arguments")
     /\ CASE This({Op("RPAREN"), Kind("EOF")}) -> Go(Rest)
          [] This({Op("COMMA"), EQ}) -> Throw
          [] This({Op("ELLIPSIS")}) ->
               Go(<<Expect({Op("ELLIPSIS")}), RhsExpression, Argument(Now.seen, TRUE)>> \o Rest)
          [] OTHER -> Go(<<RhsExpression, Argument(Now.seen, FALSE)>> \o Rest)
  \/ /\ Doing("argument")
     /\ LET more == <<Separator(<<Arguments(Now.seen \/ Now.has)>>, << >>)>>
            named == CASE Now.has -> <<Fail>>
                       [] ~Now.has /\ value.name = "name" -> <<Call("parse_value")>>
                       [] OTHER -> <<Inspect("absent expression"), Fail>>
        IN Go(<<Accept({EQ}, named, IF Now.seen THEN <<Fail>> ELSE << >>)>> \o more \o Rest)

(* Mutant: the closing parenthesis is accepted, not expected.              *)
Faulty_parse_call_expression ==
  On("parse_call_expression") /\ Enter(
    <<Set([expression_depth |-> 0, allow_newline |-> TRUE]),
      Expect({Op("LPAREN")}), Arguments(FALSE), Optional({Op("RPAREN")}),
      Set([expression_depth |-> parser.expression_depth, allow_newline |-> parser.allow_newline]),
      Make(Expression)>>)

parse_call_expression ==
  On("parse_call_expression") /\ Enter(
    <<Set([expression_depth |-> 0, allow_newline |-> TRUE]),
      Expect({Op("LPAREN")}), Arguments(FALSE), Expect({Op("RPAREN")}),
      Set([expression_depth |-> parser.expression_depth, allow_newline |-> parser.allow_newline]),
      Make(Expression)>>)

(* A newline before what closes, where a comma may not be left out.        *)
expect_closing ==
  On("expect_closing") /\ Enter(
    <<When({NEWLINE}, IF parser.allow_newline THEN <<Fail>> ELSE <<Advance>>, << >>),
      Expect({Kind("RBRACE")})>>)

parse_compound_literal_expression ==
  On("parse_compound_literal_expression") /\ Enter(
    <<Depth(0),
      Expect({Kind("LBRACE")}),
      Until({Kind("RBRACE"), Kind("EOF")},
        <<Call("parse_value"), Inspect("absent expression"),
          Accept({EQ}, <<Call("parse_value")>>, << >>),
          SeparatorOrBreak>>),
      Call("expect_closing"),
      Depth(parser.expression_depth),
      Make(Expression)>>)

Ranges == Ops({"ELLIPSIS", "RANGEFULL", "RANGEHALF"})

parse_index_expression ==
  On("parse_index_expression") /\ Enter(
    <<Deeper(1),
      Expect({Op("LBRACKET")}),
      When(Ranges \cup {Op("COLON")}, << >>, <<RhsExpression>>),
      When(Ranges, <<Fail>>, << >>),
      Accept(Ops({"COMMA", "COLON"}),
        <<When({Op("RBRACKET"), Kind("EOF")}, << >>, <<RhsExpression>>)>>, << >>),
      Expect({Op("RBRACKET")}),
      Deeper(-1),
      Make(Expression)>>)

-----------------------------------------------------------------------------
Atoms(lhs) == [do |-> "atoms", lhs |-> lhs]

(* .x, .(T) and .?, and before another operator a period is dropped.       *)
PeriodAtom ==
  <<Expect({Op("PERIOD")}),
    When({Kind("IDENTIFIER")}, <<Call("parse_identifier"), Make(Expression)>>,
    <<Accept({Op("LPAREN")}, <<Call("parse_type"), Expect({Op("RPAREN")}), Make(Expression)>>,
    <<Accept({Op("QUESTION")}, <<Make(Expression)>>,
    <<When({Kind("OPERATOR")}, << >>, <<Fail>>)>>)>>)>>)>>

(* One pass of the loop of parse_atom_expression, over what follows value. *)
Atom(lhs) ==
  CASE This({Op("LPAREN")}) -> <<Call("parse_call_expression")>>
    [] This({Op("PERIOD")}) -> PeriodAtom
    [] This({Op("ARROW")}) ->
         <<Expect({Op("ARROW")}), Call("parse_identifier"), Make(Expression)>>
    [] This({Op("LBRACKET")}) -> <<Call("parse_index_expression")>>
    [] This(Ops({"POINTER", "OR_RETURN"})) -> <<Advance, Make(Expression)>>
    [] This({Kind("LBRACE")}) /\ ~lhs /\ parser.expression_depth >= 0 ->
         <<Call("parse_compound_literal_expression")>>
    [] OTHER -> << >>

atoms ==
  /\ Doing("atoms")
  /\ Go((IF Atom(Now.lhs) = << >> THEN << >> ELSE Append(Atom(Now.lhs), Atoms(FALSE))) \o Rest)

(* Mutant: an operand may be missing anywhere.                             *)
Faulty_parse_atom_expression ==
  On("parse_atom_expression") /\ Enter(
    IF value.kind # "NULL" THEN <<Atoms(Args.lhs)>> ELSE << >>)

parse_atom_expression ==
  On("parse_atom_expression") /\ Enter(
    CASE value.kind # "NULL" -> <<Atoms(Args.lhs)>>
      [] value.kind = "NULL" /\ parser.allow_type -> << >>
      [] OTHER -> <<Fail>>)

parse_cast_expression ==
  On("parse_cast_expression") /\ Enter(
    <<Advance>>
    \o (IF This({Op("AUTO_CAST")}) THEN << >>
        ELSE <<Expect({Op("LPAREN")}), Call("parse_type"), Expect({Op("RPAREN")})>>)
    \o <<Lhs("parse_unary_expression", Args.lhs), Make(Expression)>>)

parse_unary_stem_expression ==
  On("parse_unary_stem_expression") /\ Enter(
    <<Advance, Lhs("parse_unary_expression", Args.lhs), Make(Expression)>>)

parse_implicit_selector_expression ==
  On("parse_implicit_selector_expression") /\ Enter(
    <<Expect({Op("PERIOD")}), Call("parse_identifier"), Make(Selector)>>)

parse_unary_expression ==
  On("parse_unary_expression") /\ Enter(
    CASE This(Ops({"TRANSMUTE", "AUTO_CAST", "CAST"})) -> <<Lhs("parse_cast_expression", Args.lhs)>>
      [] This(Ops({"ADD", "SUB", "XOR", "AND", "NOT"})) ->
           <<Lhs("parse_unary_stem_expression", Args.lhs)>>
      [] This({Op("PERIOD")}) -> <<Call("parse_implicit_selector_expression")>>
      [] OTHER -> <<Lhs("parse_operand", Args.lhs), Lhs("parse_atom_expression", Args.lhs)>>)

(* value is the condition before a question mark, or else what it is if.   *)
parse_ternary_expression ==
  On("parse_ternary_expression") /\ Enter(
    <<Accept({Op("QUESTION")},
        <<Lhs("parse_expression", Args.lhs), Expect({Op("COLON")})>>,
        <<Expect({Kw("IF"), Kw("WHEN")}), Lhs("parse_expression", Args.lhs), Expect({Kw("ELSE")})>>),
      Lhs("parse_expression", Args.lhs),
      Make(Ternary)>>)

-----------------------------------------------------------------------------
Operators(lhs, prec) == [do |-> "operators", lhs |-> lhs, prec |-> prec]
Join(op, left) == [do |-> "join", op |-> op, left |-> left]
Operands(lhs, prec) == CallWith("parse_binary_expression", [lhs |-> lhs, prec |-> prec])

TernaryKeyword == {Kw("IF"), Kw("WHEN")}

(* op_prec: outside an expression in is a keyword, unless it is allowed.   *)
OperatorPrecedence ==
  CASE This(TernaryKeyword) -> 1
    [] This(Ops({"IN", "NOT_IN"})) /\ parser.expression_depth < 0 /\ ~parser.allow_in -> 0
    [] OTHER -> IF This({Kind("OPERATOR")}) THEN PRECEDENCE(this_token.as) ELSE 0

(* Mutant: an operator of the same precedence is taken on the right.       *)
Faulty_operators ==
  \/ /\ Doing("operators")
     /\ IF OperatorPrecedence < Now.prec \/ (This(TernaryKeyword) /\ ~SameLine)
        THEN Go(Rest)
        ELSE Go((IF This(TernaryKeyword \cup {Op("QUESTION")})
                 THEN <<Lhs("parse_ternary_expression", Now.lhs)>>
                 ELSE <<Expect({Kind("OPERATOR")}), Operands(FALSE, OperatorPrecedence),
                        Join(this_token.as, value)>>)
                \o <<Operators(FALSE, Now.prec)>> \o Rest)
  \/ /\ Doing("join")
     /\ IF value.kind = "NULL" THEN Throw ELSE GoWith(Rest, Binary(Now.op))

(* One pass of the loop of parse_binary_expression; value is its expr.     *)
operators ==
  \/ /\ Doing("operators")
     /\ IF OperatorPrecedence < Now.prec \/ (This(TernaryKeyword) /\ ~SameLine)
        THEN Go(Rest)
        ELSE Go((IF This(TernaryKeyword \cup {Op("QUESTION")})
                 THEN <<Lhs("parse_ternary_expression", Now.lhs)>>
                 ELSE <<Expect({Kind("OPERATOR")}), Operands(FALSE, OperatorPrecedence + 1),
                        Join(this_token.as, value)>>)
                \o <<Operators(FALSE, Now.prec)>> \o Rest)
  \/ /\ Doing("join")
     /\ IF value.kind = "NULL" THEN Throw ELSE GoWith(Rest, Binary(Now.op))

parse_binary_expression ==
  On("parse_binary_expression") /\ Enter(
    <<Lhs("parse_unary_expression", Args.lhs), Operators(Args.lhs, Args.prec)>>)

parse_expression == On("parse_expression") /\ Enter(<<Operands(Args.lhs, 1)>>)

-----------------------------------------------------------------------------
Tuple(lhs, so_far) == [do |-> "tuple", lhs |-> lhs, so_far |-> so_far]

(* The first node of a tuple is remembered, and the first that is no name. *)
Joined(so_far, node) ==
  [so_far EXCEPT
    !.of = IF so_far.n = 0 THEN node.kind ELSE @,
    !.op = IF so_far.n = 0 THEN node.op ELSE @,
    !.name = IF @ = "name" THEN node.name ELSE @,
    !.n = @ + 1]

tuple ==
  /\ Doing("tuple")
  /\ LET so_far == Joined(Now.so_far, value)
     IN IF This({Op("COMMA")})
        THEN Go(<<Advance, Lhs("parse_expression", Now.lhs), Tuple(Now.lhs, so_far)>> \o Rest)
        ELSE GoWith(Rest, so_far)

parse_tuple_expression ==
  On("parse_tuple_expression") /\ Enter(
    <<AllowNewline(TRUE),
      Lhs("parse_expression", Args.lhs),
      Tuple(Args.lhs, Node("TUPLE", "", "", "name")),
      AllowNewline(parser.allow_newline)>>)

ExpressionFunctions ==
  \/ parse_value \/ parse_directive_call_expression \/ parse_literal_expression
  \/ parse_undefined_expression \/ parse_directive_prefix \/ parse_operand \/ arguments
  \/ parse_call_expression \/ expect_closing \/ parse_compound_literal_expression \/ parse_index_expression
  \/ atoms \/ parse_atom_expression \/ parse_cast_expression \/ parse_unary_stem_expression
  \/ parse_implicit_selector_expression \/ parse_unary_expression \/ parse_ternary_expression
  \/ operators \/ parse_binary_expression \/ parse_expression \/ tuple \/ parse_tuple_expression
=============================================================================
