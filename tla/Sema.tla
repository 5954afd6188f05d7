-------------------------------- MODULE Sema --------------------------------
(***************************************************************************)
(* sema.c: the two tables of symbols, how a name is looked up in them and  *)
(* what C type an expression is given; ir.c: which loops can be lowered.   *)
(*                                                                         *)
(* A type is the sequence of the words it is written with.  An expression  *)
(* is a record of its kind and the operands that anything looks at.        *)
(***************************************************************************)
EXTENDS Integers, SequencesExt

CONSTANTS
  CAPACITY,   \* how many symbols a table holds: 256 in sema.h
  Expression  \* the expressions of what is built, those within them included

ASSUME CapacityAssumption == CAPACITY \in Nat \ {0}

VARIABLES globals, locals  \* the tables, the oldest symbol first

Symbol(name, type) == [name |-> name, type |-> type, procedure |-> FALSE, named_type |-> << >>]

CTypeOfName ==
  [bool |-> "BOOL", u8 |-> "U8", u32 |-> "U32", uintptr |-> "UINTPTR", string |-> "STRING"]

ctype_from_name(name) == IF name \in DOMAIN CTypeOfName THEN CTypeOfName[name] ELSE "UNKNOWN"

NoType == << >>

sema_type_from_ast(type) ==
  CASE Len(type) = 1 -> ctype_from_name(Head(type))
    [] type \in {<<"POINTER", "u8">>, <<"MULTI_POINTER", "u8">>} -> "U8_PTR"
    [] type = <<"SLICE", "u8">> -> "SLICE_U8"
    [] OTHER -> "UNKNOWN"

(* The results of a procedure are the sequence of their types.             *)
sema_procedure_result(results) ==
  CASE Len(results) = 0 -> "VOID"
    [] Len(results) = 1 -> sema_type_from_ast(results[1])
    [] OTHER -> "UNKNOWN"

HasRoom(table) == Len(table) < CAPACITY

(* The newest symbol of the name in the table, or none.                    *)
Newest(table, name) ==
  LET i == SelectLastInSeq(table, LAMBDA symbol : symbol.name = name)
  IN IF i = 0 THEN << >> ELSE <<table[i]>>

(* What sema_lookup finds when the table of the locals is this one.        *)
Lookup(table, name) ==
  IF Newest(table, name) # << >> THEN Newest(table, name) ELSE Newest(globals, name)

TypeOfName(table, name) ==
  CASE ctype_from_name(name) # "UNKNOWN" -> ctype_from_name(name)
    [] Lookup(table, name) # << >> -> Lookup(table, name)[1].type
    [] OTHER -> "UNKNOWN"

TypeOfCall(table, name) ==
  CASE name = "len" -> "UINTPTR"
    [] ctype_from_name(name) # "UNKNOWN" -> ctype_from_name(name)
    [] Lookup(table, name) # << >> /\ Lookup(table, name)[1].procedure -> Lookup(table, name)[1].type
    [] OTHER -> "UNKNOWN"

Truth == {"CMPEQ", "NOTEQ", "LT", "GT", "LTEQ", "GTEQ", "CMPAND", "CMPOR"}

(* sema_infer_expression, over a table of locals.                          *)
Infer(table, expression) ==
  LET infer[e \in Expression] ==
        CASE e.kind = "IDENTIFIER" -> TypeOfName(table, e.name)
          [] e.kind \in {"TYPE", "CAST"} -> sema_type_from_ast(e.type)
          [] e.kind = "SELECTOR" /\ e.operand.kind = "IDENTIFIER" ->  \* of an enumeration
               LET symbol == Lookup(table, e.operand.name)
               IN IF symbol # << >> /\ symbol[1].named_type # NoType /\ Head(symbol[1].named_type) = "ENUM"
                  THEN sema_type_from_ast(Tail(symbol[1].named_type)) ELSE "UNKNOWN"
          [] e.kind = "CALL" /\ e.operand.kind = "IDENTIFIER" -> TypeOfCall(table, e.operand.name)
          [] e.kind = "INDEX" ->
               IF infer[e.operand] \in {"U8_PTR", "SLICE_U8", "STRING"} THEN "U8" ELSE "UNKNOWN"
          [] e.kind = "SLICE" -> IF infer[e.operand] = "U8_PTR" THEN "SLICE_U8" ELSE "UNKNOWN"
          [] e.kind = "TUPLE" /\ Len(e.operands) = 1 -> infer[e.operands[1]]
          [] e.kind = "BINARY" ->
               (CASE e.op \in Truth -> "BOOL"
                  [] e.op \notin Truth /\ infer[e.lhs] # "UNKNOWN" -> infer[e.lhs]
                  [] OTHER -> infer[e.rhs])
          [] e.kind = "LITERAL" -> IF e.string THEN "STRING" ELSE "UNKNOWN"
          [] OTHER -> "UNKNOWN"
  IN infer[expression]

sema_infer_expression(e) == Infer(locals, e)

(* The symbol a declaration at the top of a file enters.                   *)
GlobalSymbol(declaration) ==
  LET value == declaration.value
  IN CASE value.kind = "PROCEDURE" ->
            [Symbol(declaration.name, sema_procedure_result(value.results)) EXCEPT !.procedure = TRUE]
       [] value.kind = "TYPE" ->
            [Symbol(declaration.name, "UNKNOWN") EXCEPT !.named_type = value.type]
       [] OTHER ->
            Symbol(declaration.name, IF declaration.type # NoType
                                     THEN sema_type_from_ast(declaration.type)
                                     ELSE sema_infer_expression(value))

(* Whether ir_lower_range_for takes it: for index in first ..< limit.      *)
ir_lower_range_for(statement) ==
  LET cond == statement.cond
  IN /\ ~statement.init /\ ~statement.post
     /\ cond.kind = "BINARY" /\ cond.op = "IN"
     /\ cond.lhs.kind = "TUPLE" /\ Len(cond.lhs.operands) = 1
     /\ cond.lhs.operands[1].kind = "IDENTIFIER"
     /\ cond.rhs.kind = "BINARY" /\ cond.rhs.op \in {"RANGEHALF", "RANGEFULL"}
=============================================================================
