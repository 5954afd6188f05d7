----------------------------- MODULE ParseTypes -----------------------------
(***************************************************************************)
(* The functions of parser.c that parse types, fields and procedure types. *)
(* What "leave" finds on the stack is the state of the parser at entry.    *)
(***************************************************************************)
EXTENDS ParserMachine

parse_identifier ==
  On("parse_identifier") /\ Enter(
    <<Accept({Kind("IDENTIFIER")}, << >>, <<Expect({Kind("CONST")}), Expect({Kind("IDENTIFIER")})>>),
      Make(Identifier)>>)

parse_type_or_identifier ==
  On("parse_type_or_identifier") /\ Enter(
    <<Set([expression_depth |-> -1, allow_type |-> TRUE]),
      Lhs("parse_operand", TRUE),
      Lhs("parse_atom_expression", TRUE),
      Set([expression_depth |-> parser.expression_depth, allow_type |-> parser.allow_type]),
      Apply("type of expression")>>)

parse_type ==
  On("parse_type") /\ Enter(<<Call("parse_type_or_identifier"), Refuse({"NULL"})>>)

parse_variable_name_or_type ==
  On("parse_variable_name_or_type") /\ Enter(
    <<Accept({Op("ELLIPSIS")},
        <<Call("parse_type_or_identifier"), Refuse({"NULL"})>>,
        <<Accept({Kw("TYPEID")},
            <<Accept({Op("QUO")}, <<Call("parse_type")>>, << >>), Make(Statement("TYPEID"))>>,
            <<Call("parse_type")>>)>>)>>)

FieldDirectives == Dirs({"ANY_INT", "C_VARARG", "NO_ALIAS", "SUBTYPE", "CONST"})

parse_field_flags ==
  On("parse_field_flags") /\ Enter(
    <<Optional({Kw("USING")}),
      While({Kind("DIRECTIVE")}, <<Expect(FieldDirectives)>>)>>)

-----------------------------------------------------------------------------
(* What follows the names of fields or, if there is no type, the types: a  *)
(* default, and a tag if there is a type and no default.                   *)
Default(typed) ==
  <<Accept({EQ}, <<RhsExpression>>,
      IF typed THEN <<Optional({StringLiteral})>> ELSE << >>)>>

(* With a type, the types before it must have been identifiers.            *)
Fields(typed, names) == Default(typed) \o (IF typed /\ ~names THEN <<Fail>> ELSE << >>)

(* The colon, and the type if there is one.                                *)
ColonType(typed, untyped) ==
  <<Expect({Op("COLON")}),
    When({EQ}, untyped, <<Call("parse_variable_name_or_type")>> \o typed)>>

FieldsEnd(struct) == IF struct THEN {Kind("RBRACE")} ELSE {Op("RPAREN")}

FieldNames(struct, names) == [do |-> "field_names", struct |-> struct, names |-> names]
FieldNamed(struct, names) == [do |-> "field_named", struct |-> struct, names |-> names]

(* The rest of a field list after the first names or types.                *)
FieldTail(struct, names) ==
  <<When({Op("COLON")},
      ColonType(Fields(TRUE, names), Fields(FALSE, names)),
      Fields(FALSE, names)),
    Separator(
      <<Until(FieldsEnd(struct) \cup {Kind("EOF"), Kind("SEMICOLON")},
          <<Call("parse_field_flags"),
            Call("parse_identifier"),
            While({Op("COMMA")}, <<Advance, Call("parse_identifier")>>)>>
          \o ColonType(Default(TRUE), Default(FALSE))
          \o <<SeparatorOrBreak>>)>>,
      << >>)>>

field_names ==
  \/ /\ Doing("field_names")
     /\ Go((IF This({IF Now.struct THEN Kind("RBRACE") ELSE Op("COLON"), Kind("EOF")})
            THEN FieldTail(Now.struct, Now.names)
            ELSE <<Call("parse_field_flags"), Call("parse_variable_name_or_type"),
                   FieldNamed(Now.struct, Now.names)>>)
           \o Rest)
  \/ /\ Doing("field_named")
     /\ LET names == Now.names /\ value.name = "name"
        IN Go(<<Separator(<<FieldNames(Now.struct, names)>>, FieldTail(Now.struct, names))>> \o Rest)

parse_field_list ==
  On("parse_field_list") /\ Enter(
    <<When({Op("RPAREN")}, << >>,
        <<AllowNewline(TRUE),
          FieldNames(Args.struct, TRUE),
          AllowNewline(parser.allow_newline)>>)>>)

FieldList(struct) == CallWith("parse_field_list", [struct |-> struct])

parse_procedure_results ==
  On("parse_procedure_results") /\ Enter(
    <<Accept({Op("ARROW")},
        <<Accept({Op("NOT")}, << >>,
            <<When({Op("LPAREN")},
                <<Expect({Op("LPAREN")}), FieldList(FALSE), PossibleNewline, Expect({Op("RPAREN")})>>,
                <<Call("parse_type")>>)>>)>>,
        << >>)>>)

parse_procedure_type ==
  On("parse_procedure_type") /\ Enter(
    <<Accept({StringLiteral}, <<Either(<<Fail>>)>>, << >>),  \* no calling convention
      Expect({Op("LPAREN")}), FieldList(FALSE), PossibleNewline, Expect({Op("RPAREN")}),
      Call("parse_procedure_results")>>)

(* The same lines in procedures, structures and unions, after the where.   *)
where_clause ==
  On("where_clause") /\ Enter(
    <<Depth(-1), Lhs("parse_tuple_expression", FALSE), Depth(parser.expression_depth)>>)

ProcedureDirectives ==
  Dirs({"OPTIONAL_OK", "OPTIONAL_ALLOCATOR_ERROR", "BOUNDS_CHECK", "NO_BOUNDS_CHECK",
        "TYPE_ASSERT", "NO_TYPE_ASSERT"})

(* What follows the type and the where clause of a procedure.              *)
ProcedureTail(where) ==
  <<While({Kind("DIRECTIVE")}, <<Expect(ProcedureDirectives)>>),
    NewlineWithin,
    Accept({Kind("UNDEFINED")},
      IF where THEN <<Fail>> ELSE <<Make(Expression)>>,
      <<When({Kind("LBRACE")},
          <<Set([this_procedure |-> TRUE]), Call("parse_body"), Make(Expression)>>,
          <<Make(TypeOf("PROCEDURE"))>>)>>)>>

parse_procedure ==
  On("parse_procedure") /\ Enter(
    <<Call("parse_procedure_type"),
      NewlineWithin,
      Accept({Kw("WHERE")}, <<Call("where_clause")>> \o ProcedureTail(TRUE), ProcedureTail(FALSE))>>)
-----------------------------------------------------------------------------
Bracket(tasks) == <<Expect({Op("LBRACKET")})>> \o tasks \o <<Expect({Op("RBRACKET")})>>

parse_bit_set_type_expression ==
  On("parse_bit_set_type_expression") /\ Enter(
    <<Expect({Kw("BIT_SET")})>>
    \o Bracket(<<RhsExpression,
                 Accept({Kind("SEMICOLON")}, <<Call("parse_type")>>, << >>)>>)
    \o <<Make(TypeOf("BIT_SET"))>>)

parse_typeid_type_expression ==
  On("parse_typeid_type_expression") /\ Enter(<<Expect({Kw("TYPEID")}), Make(TypeOf("TYPEID"))>>)

parse_map_type_expression ==
  On("parse_map_type_expression") /\ Enter(
    <<Expect({Kw("MAP")})>>
    \o Bracket(<<Lhs("parse_expression", TRUE)>>)
    \o <<Call("parse_type"), Make(TypeOf("MAP"))>>)

parse_matrix_type_expression ==
  On("parse_matrix_type_expression") /\ Enter(
    <<Expect({Kw("MATRIX")})>>
    \o Bracket(<<Lhs("parse_expression", TRUE), Expect({Op("COMMA")}),
                 Lhs("parse_expression", TRUE)>>)
    \o <<Call("parse_type"), Make(TypeOf("MATRIX"))>>)

parse_pointer_type_expression ==
  On("parse_pointer_type_expression") /\ Enter(
    <<Expect({Op("POINTER")}), Call("parse_type"), Make(TypeOf("POINTER"))>>)

parse_multi_pointer_type_expression ==
  On("parse_multi_pointer_type_expression") /\ Enter(
    <<Expect({Op("POINTER")}), Expect({Op("RBRACKET")}), Call("parse_type"),
      Make(TypeOf("MULTI_POINTER"))>>)

parse_array_type_expression ==
  On("parse_array_type_expression") /\ Enter(
    (IF Args.count
     THEN <<Deeper(1), RhsExpression, Deeper(-1)>>
     ELSE <<Expect({Op("QUESTION")})>>)
    \o <<Expect({Op("RBRACKET")}), Call("parse_type"), Make(TypeOf("ARRAY"))>>)

parse_dynamic_array_type_expression ==
  On("parse_dynamic_array_type_expression") /\ Enter(
    <<Expect({Op("RBRACKET")}), Call("parse_type"), Make(TypeOf("DYNAMIC_ARRAY"))>>)

parse_slice_type_expression ==
  On("parse_slice_type_expression") /\ Enter(<<Call("parse_type"), Make(TypeOf("SLICE"))>>)

parse_distinct_type_expression ==
  On("parse_distinct_type_expression") /\ Enter(
    <<Expect({Kw("DISTINCT")}), Call("parse_type"), Make(TypeOf("DISTINCT"))>>)

parse_procedure_group_expression ==
  On("parse_procedure_group_expression") /\ Enter(
    <<Expect({Kind("LBRACE")}),
      Until({Kind("RBRACE"), Kind("EOF")}, <<RhsExpression, SeparatorOrBreak>>),
      Expect({Kind("RBRACE")}),
      Make(Expression)>>)

(* #align of a structure has parentheses of its own, that of a union not.  *)
align ==
  On("align") /\ Enter(
    <<Depth(-1)>>
    \o (IF Args.struct
        THEN <<Expect({Op("LPAREN")}), Lhs("parse_expression", TRUE), Expect({Op("RPAREN")})>>
        ELSE <<Lhs("parse_expression", TRUE)>>)
    \o <<Depth(parser.expression_depth)>>)

(* From the parameters to the opening brace of a structure or union.       *)
Header(struct, directives) ==
  <<Accept({Op("LPAREN")}, <<FieldList(FALSE), Expect({Op("RPAREN")})>>, << >>),
    While({Kind("DIRECTIVE")},
      <<Accept({Dir("ALIGN")}, <<CallWith("align", [struct |-> struct])>>,
          <<Accept(Dirs(directives), << >>, <<IF struct THEN Fail ELSE Misreport>>)>>)>>),
    NewlineWithin,
    Accept({Kw("WHERE")}, <<Call("where_clause")>>, << >>),
    NewlineWithin,
    Expect({Kind("LBRACE")})>>

parse_struct_type_expression ==
  On("parse_struct_type_expression") /\ Enter(
    <<Expect({Kw("STRUCT")})>> \o Header(TRUE, {"PACKED", "RAW_UNION", "NO_COPY"})
    \o <<FieldList(TRUE), Expect({Kind("RBRACE")}), Make(TypeOf("STRUCT"))>>)

parse_union_type_expression ==
  On("parse_union_type_expression") /\ Enter(
    <<Expect({Kw("UNION")})>> \o Header(FALSE, {"NO_NIL", "SHARED_NIL", "MAYBE"})
    \o <<Until({Kind("RBRACE"), Kind("EOF")}, <<Call("parse_type"), SeparatorOrBreak>>),
         Expect({Kind("RBRACE")}), Make(TypeOf("UNION"))>>)

parse_enum_type_expression ==
  On("parse_enum_type_expression") /\ Enter(
    <<Expect({Kw("ENUM")}),
      When({Kind("LBRACE")}, << >>, <<Call("parse_type")>>),
      NewlineWithin,
      Expect({Kind("LBRACE")}),
      Until({Kind("RBRACE"), Kind("EOF")},
        <<Call("parse_value"), Inspect("absent expression"), Check({"IDENTIFIER"}),
          Accept({EQ}, <<Call("parse_value")>>, << >>),
          SeparatorOrBreak>>),
      Expect({Kind("RBRACE")}),
      Make(TypeOf("ENUM"))>>)

parse_poly_type_expression ==
  On("parse_poly_type_expression") /\ Enter(
    <<Expect({Kind("CONST")}), Call("parse_identifier"),
      Accept({Op("QUO")}, <<Call("parse_type"), Make(TypeOf("POLY"))>>, <<Make(PolyName)>>)>>)

TypeFunctions ==
  \/ parse_identifier \/ parse_type_or_identifier \/ parse_type \/ parse_variable_name_or_type
  \/ parse_field_flags \/ field_names \/ parse_field_list \/ parse_procedure_results
  \/ parse_procedure_type \/ where_clause \/ parse_procedure
  \/ parse_bit_set_type_expression \/ parse_typeid_type_expression \/ parse_map_type_expression
  \/ parse_matrix_type_expression \/ parse_pointer_type_expression
  \/ parse_multi_pointer_type_expression \/ parse_array_type_expression
  \/ parse_dynamic_array_type_expression \/ parse_slice_type_expression
  \/ parse_distinct_type_expression \/ parse_procedure_group_expression \/ align
  \/ parse_struct_type_expression \/ parse_union_type_expression \/ parse_enum_type_expression
  \/ parse_poly_type_expression
=============================================================================
