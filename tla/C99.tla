-------------------------------- MODULE C99 --------------------------------
(***************************************************************************)
(* c99.c: the declarations of every file of a build are written out as C   *)
(* in three passes, after their symbols were collected: the types and the  *)
(* constants, the prototypes, the definitions.                             *)
(*                                                                         *)
(* The body of a procedure is not given beforehand.  A scenario says which *)
(* statements may stand in one and how many may, and one is chosen when    *)
(* the emitter gets there.  The text that is written is kept as far as the *)
(* properties need it: what was declared, and which names the C compiler   *)
(* sees at the place that is being written.                                *)
(***************************************************************************)
EXTENDS Sema

CONSTANT Scenario  \* records of declarations, body, labels and budget

ASSUME ScenarioAssumption ==
  \A s \in Scenario :
    /\ DOMAIN s = {"declarations", "body", "labels", "budget"}
    /\ Len(s.declarations) \in Nat /\ s.budget \in Nat
    /\ \A i \in 1 .. Len(s.declarations) :
         s.declarations[i].value.kind = "PROCEDURE" => Len(s.declarations[i].value.params) \in Nat

VARIABLES
  build,     \* the scenario
  pass,      \* "collect" and then the phase of for_each_declaration
  todo,      \* the indices of the declarations this pass has not seen yet
  stack,     \* what is left to write of a definition
  depth,     \* c->depth
  outcome,   \* "emitting", or how c99_emit_build ended
  out,       \* history: what was declared in C, <<what, index>>
  visible,   \* history: the local variables that C sees here, oldest first
  leaked,    \* history: the names of closed blocks, and of parameters locals had no room for
  undeclared \* history: the globals that were used before C knew them, <<pass, name>>

semaVars == <<globals, locals>>
history == <<out, visible, leaked, undeclared>>
vars == <<semaVars, build, pass, todo, stack, depth, outcome, history>>

-----------------------------------------------------------------------------
(* Expressions: emit_expression writes all of one or refuses it.           *)
CastTypes == {"u8", "u32", "uintptr", "bool"}
IsCast(call) == call.operand.kind = "IDENTIFIER" /\ call.operand.name \in CastTypes

(* The expressions that are written within one.                            *)
Operands(e) ==
  CASE e.kind \in {"SELECTOR", "UNARY", "CAST"} -> <<e.operand>>
    [] e.kind = "INDEX" -> <<e.operand, e.lhs>>
    [] e.kind = "BINARY" -> <<e.lhs, e.rhs>>
    [] e.kind = "CALL" -> IF IsCast(e) THEN e.arguments ELSE <<e.operand>> \o e.arguments
    [] e.kind \in {"COMPOUND_LITERAL", "TUPLE"} -> e.operands
    [] OTHER -> << >>

ASSUME ExpressionAssumption ==
  \A e \in Expression : \A i \in 1 .. Len(Operands(e)) : Operands(e)[i] \in Expression

emit_ast_type(type) == sema_type_from_ast(type) # "UNKNOWN" \/ Len(type) = 1

binary_operator ==
  Truth \cup {"ADD", "SUB", "OR", "XOR", "QUO", "MUL", "MOD", "AND", "SHL", "SHR", "ANDNOT"}

(* Whether an expression is one that C is written for.  A selector without *)
(* an operand is of a kind of its own, and none is written for it.         *)
Writable(e) ==
  \/ e.kind \in {"IDENTIFIER", "LITERAL", "SELECTOR"}
  \/ e.kind = "TUPLE" /\ Len(e.operands) = 1
  \/ e.kind = "INDEX" /\ ~e.multi
  \/ e.kind = "COMPOUND_LITERAL" /\ emit_ast_type(e.type) /\ e.named
  \/ e.kind = "CALL" /\ (IsCast(e) => Len(e.arguments) = 1)
  \/ e.kind = "CAST" /\ sema_type_from_ast(e.type) # "UNKNOWN"
  \/ e.kind = "UNARY" /\ e.op \in {"NOT", "SUB", "ADD"}
  \/ e.kind = "BINARY" /\ e.op \in binary_operator

emit_expression[e \in Expression] ==
  Writable(e) /\ \A i \in 1 .. Len(Operands(e)) : emit_expression[Operands(e)[i]]

(* The names that are written with an expression.                          *)
Names[e \in Expression] ==
  (CASE e.kind = "IDENTIFIER" /\ e.name # "nil" -> {e.name}
     [] e.kind = "COMPOUND_LITERAL" -> IF Len(e.type) = 1 THEN {e.type[1]} ELSE {}
     [] OTHER -> {})
  \cup UNION {Names[Operands(e)[i]] : i \in 1 .. Len(Operands(e))}

(* What was used before C knew it, after these names were written.         *)
Used(names) ==
  LET known == {build.declarations[o[2]].name : o \in ToSet(out)}
  IN undeclared \cup
       {<<pass, name>> : name \in {symbol.name : symbol \in ToSet(globals)} \cap
                                  {name \in names \ known : Newest(visible, name) = << >>}}

-----------------------------------------------------------------------------
End(how) ==
  /\ outcome' = how
  /\ UNCHANGED <<semaVars, build, pass, todo, stack, depth, history>>

unsupported == End("refused")

Init ==
  /\ build \in Scenario
  /\ pass = "collect"
  /\ todo = [i \in 1 .. Len(build.declarations) |-> i]
  /\ stack = << >>
  /\ depth = 0
  /\ outcome = "emitting"
  /\ globals = << >> /\ locals = << >>
  /\ out = << >> /\ visible = << >> /\ leaked = {} /\ undeclared = {}

(* One name and one value.                                                 *)
declaration_parts(declaration) == declaration.names = 1 /\ declaration.values = 1

This == build.declarations[Head(todo)]
IsStruct(value) == value.kind = "TYPE" /\ value.type # NoType /\ Head(value.type) = "STRUCT"
IsConstant(value) == value.kind \notin {"TYPE", "PROCEDURE"}

(* array_size reads before the array of the results, which is null where   *)
(* none are written.                                                       *)
NullInspected(value) == value.kind = "PROCEDURE" /\ ~value.arrow

sema_collect_globals ==
  /\ outcome = "emitting" /\ pass = "collect" /\ todo # << >>
  /\ CASE ~declaration_parts(This) ->
            todo' = Tail(todo) /\ UNCHANGED <<semaVars, build, pass, stack, depth, outcome, history>>
       [] declaration_parts(This) /\ NullInspected(This.value) -> End("crashed")
       [] OTHER ->
            IF HasRoom(globals)
            THEN /\ globals' = Append(globals, GlobalSymbol(This))
                 /\ todo' = Tail(todo)
                 /\ UNCHANGED <<locals, build, pass, stack, depth, outcome, history>>
            ELSE unsupported

Following == [collect |-> "types", types |-> "prototypes", prototypes |-> "definitions"]

NextPass ==
  /\ outcome = "emitting" /\ todo = << >> /\ stack = << >>
  /\ IF pass = "definitions" THEN End("emitted")
     ELSE /\ pass' = Following[pass]
          /\ todo' = [i \in 1 .. Len(build.declarations) |-> i]
          /\ UNCHANGED <<semaVars, build, stack, depth, outcome, history>>

Visiting == outcome = "emitting" /\ pass # "collect" /\ todo # << >> /\ stack = << >>

(* Mutant: the structures are written in every pass.                       *)
FaultySkips(declaration) ==
  CASE IsStruct(declaration.value) -> FALSE
    [] declaration.value.kind = "PROCEDURE" -> pass = "types"
    [] OTHER -> pass # "types"

(* A declaration that this pass writes nothing for.                        *)
Skips(declaration) ==
  CASE IsStruct(declaration.value) -> pass # "types"
    [] declaration.value.kind = "PROCEDURE" -> pass = "types"
    [] OTHER -> pass # "types"

SkipDeclaration ==
  /\ Visiting
  /\ CASE ~declaration_parts(This) \/ (This.value.kind = "TYPE" /\ ~IsStruct(This.value)) -> unsupported
       [] OTHER -> /\ Skips(This)
                   /\ todo' = Tail(todo)
                   /\ UNCHANGED <<semaVars, build, pass, stack, depth, outcome, history>>

(* A declaration written at the top of the text, with these names in it.   *)
Declare(what, names) ==
  /\ out' = Append(out, <<what, Head(todo)>>)
  /\ undeclared' = Used(names)
  /\ todo' = Tail(todo)
  /\ UNCHANGED <<semaVars, build, pass, stack, depth, outcome, visible, leaked>>

Writing(kind) == Visiting /\ declaration_parts(This) /\ This.value.kind = kind /\ ~Skips(This)

emit_struct_type ==
  /\ Writing("TYPE") /\ IsStruct(This.value)
  /\ LET fields == ToSet(This.value.fields)
     IN IF This.value.plain /\ \A type \in fields : emit_ast_type(type)
        THEN Declare("type", {type[1] : type \in {type \in fields : Len(type) = 1}} \ {This.name})
        ELSE unsupported

EmitConstant ==
  /\ Visiting /\ declaration_parts(This) /\ IsConstant(This.value) /\ ~Skips(This)
  /\ IF GlobalSymbol(This).type # "UNKNOWN" /\ emit_expression[This.value]
     THEN Declare("constant", Names[This.value])
     ELSE unsupported

(* The line a prototype and a definition begin with.                       *)
Signature(value) ==
  /\ sema_procedure_result(value.results) # "UNKNOWN"
  /\ \A i \in 1 .. Len(value.params) : sema_type_from_ast(value.params[i].type) # "UNKNOWN"

(* Mutant: no prototype is written.                                        *)
Faulty_emit_prototype ==
  /\ Writing("PROCEDURE") /\ pass = "prototypes"
  /\ todo' = Tail(todo)
  /\ UNCHANGED <<semaVars, build, pass, stack, depth, outcome, history>>

emit_prototype ==
  /\ Writing("PROCEDURE") /\ pass = "prototypes"
  /\ IF Signature(This.value) THEN Declare("prototype", {}) ELSE unsupported

(* The tasks of the stack.  A list of statements grows as it is written.   *)
Statements == [do |-> "statements"]
Cases == [do |-> "cases"]
CaseEnd == [do |-> "CaseEnd"]
SwitchEnd == [do |-> "SwitchEnd", sees |-> Len(visible)]
BlockEnd == [do |-> "BlockEnd", sees |-> Len(visible)]
ForEnd ==
  [do |-> "ForEnd", sees |-> Len(visible), saved |-> Len(locals), leaked |-> leaked]
Block == [do |-> "block"]

sema_begin_procedure(params) ==
  locals' = SubSeq([i \in 1 .. Len(params) |->
                      Symbol(params[i].name, sema_type_from_ast(params[i].type))],
                   1, Min({CAPACITY, Len(params)}))

emit_definition ==
  /\ Writing("PROCEDURE") /\ pass = "definitions"
  /\ CASE ~Signature(This.value) -> unsupported
       [] Signature(This.value) /\ ~This.value.body -> End("crashed")  \* a null block
       [] OTHER ->
            /\ sema_begin_procedure(This.value.params)
            /\ visible' = [i \in 1 .. Len(This.value.params) |->
                             Symbol(This.value.params[i].name,
                                    sema_type_from_ast(This.value.params[i].type))]
            /\ leaked' = {This.value.params[i].name : i \in CAPACITY + 1 .. Len(This.value.params)}
            /\ out' = Append(out, <<"definition", Head(todo)>>)
            /\ stack' = <<Block>>
            /\ todo' = Tail(todo)
            /\ UNCHANGED <<globals, build, pass, depth, outcome, undeclared>>

-----------------------------------------------------------------------------
(* The task that is next.                                                  *)
Emitting(task) == outcome = "emitting" /\ stack # << >> /\ Head(stack).do = task

(* It is written, with these names in it, and these tasks come before the  *)
(* rest of its list.                                                       *)
Written(names, tasks) ==
  /\ stack' = tasks \o stack
  /\ undeclared' = Used(names)
  /\ build' = [build EXCEPT !.budget = @ - 1]
  /\ UNCHANGED <<globals, pass, todo, outcome, out>>

Same == UNCHANGED <<locals, depth, visible, leaked>>

Add(name, type) ==
  /\ locals' = Append(locals, Symbol(name, type))
  /\ visible' = Append(visible, Symbol(name, type))
  /\ UNCHANGED <<depth, leaked>>

(* The type of a local variable; a literal without one is a uintptr.       *)
LocalType(s) ==
  LET type == IF s.type # NoType THEN sema_type_from_ast(s.type) ELSE sema_infer_expression(s.value)
  IN IF type = "UNKNOWN" /\ s.value.kind = "LITERAL" THEN "UINTPTR" ELSE type

emit_declaration(s) ==
  IF /\ declaration_parts(s) /\ s.value.kind # "PROCEDURE"
     /\ \/ LocalType(s) # "UNKNOWN"
        \/ s.value.kind = "COMPOUND_LITERAL" /\ emit_ast_type(s.value.type)
     /\ HasRoom(locals)
     /\ emit_expression[s.value]
  THEN Add(s.name, LocalType(s)) /\ Written(Names[s.value], << >>)
  ELSE unsupported

assignment_operator == {"EQ", "ADD", "SUB", "MUL", "QUO", "MOD", "AND", "OR", "XOR", "SHL", "SHR"}

emit_assignment(s) ==
  IF /\ Len(s.lhs) = 1 /\ Len(s.rhs) = 1 /\ s.op \in assignment_operator
     /\ emit_expression[s.lhs[1]] /\ emit_expression[s.rhs[1]]
  THEN Same /\ Written(Names[s.lhs[1]] \cup Names[s.rhs[1]], << >>)
  ELSE unsupported

emit_if(s) ==
  IF ~s.init /\ emit_expression[s.cond]
  THEN Same /\ Written(Names[s.cond], <<Block>> \o (IF s.elif THEN <<Block>> ELSE << >>))
  ELSE unsupported

emit_return(s) ==
  IF s.results # << >> => Len(s.results) = 1 /\ emit_expression[s.results[1]]
  THEN Same /\ Written(UNION {Names[e] : e \in ToSet(s.results)}, << >>)
  ELSE unsupported

(* The index has the type of the limit, which no local is looked up for    *)
(* after the index is one.                                                 *)
emit_for(s) ==
  IF /\ ir_lower_range_for(s) /\ HasRoom(locals)
     /\ emit_expression[s.cond.rhs.lhs] /\ emit_expression[s.cond.rhs.rhs]
  THEN LET type == sema_infer_expression(s.cond.rhs.rhs)
       IN /\ Add(s.cond.lhs.operands[1].name, IF type = "UNKNOWN" THEN "UINTPTR" ELSE type)
          /\ Written(Names[s.cond.rhs.lhs] \cup Names[s.cond.rhs.rhs], <<Block, ForEnd>>)
  ELSE unsupported

emit_switch(s) ==
  IF ~s.init /\ (s.has_cond => emit_expression[s.cond])
  THEN /\ depth' = depth + 1 /\ UNCHANGED <<locals, visible, leaked>>
       /\ Written(IF s.has_cond THEN Names[s.cond] ELSE {}, <<Cases, SwitchEnd>>)
  ELSE unsupported

EmitSimple(s) ==
  CASE s.kind = "EXPRESSION" ->
         IF emit_expression[s.expression] THEN Same /\ Written(Names[s.expression], << >>) ELSE unsupported
    [] s.kind = "BRANCH" -> IF s.branch \in {"BREAK", "CONTINUE"} THEN Same /\ Written({}, << >>) ELSE unsupported
    [] s.kind = "BLOCK" -> Same /\ Written({}, <<Block>>)
    [] s.kind \in {"EMPTY", "PACKAGE", "IMPORT"} -> Same /\ Written({}, << >>)
    [] OTHER -> unsupported

emit_statement ==
  /\ Emitting("statements") /\ build.budget > 0
  /\ \E s \in build.body :
       CASE s.kind = "DECLARATION" -> emit_declaration(s)
         [] s.kind = "ASSIGNMENT" -> emit_assignment(s)
         [] s.kind = "IF" -> emit_if(s)
         [] s.kind = "RETURN" -> emit_return(s)
         [] s.kind = "FOR" -> emit_for(s)
         [] s.kind = "SWITCH" -> emit_switch(s)
         [] OTHER -> EmitSimple(s)

-----------------------------------------------------------------------------
Go(tasks) ==
  /\ stack' = tasks
  /\ UNCHANGED <<globals, build, pass, todo, outcome, out, undeclared>>

(* A list of statements ends where the source has no more.                 *)
EndOfList == Emitting("statements") /\ Go(Tail(stack)) /\ Same

emit_block ==
  /\ Emitting("block")
  /\ Go(<<Statements, BlockEnd>> \o Tail(stack))
  /\ depth' = depth + 1 /\ UNCHANGED <<locals, visible, leaked>>

(* What was declared after the opening brace is seen no more.              *)
Unseen(sees) == {visible[i].name : i \in sees + 1 .. Len(visible)}

CloseBrace(task) ==
  /\ Emitting(task)
  /\ Go(Tail(stack))
  /\ depth' = depth - 1
  /\ visible' = SubSeq(visible, 1, Head(stack).sees)
  /\ leaked' = leaked \cup Unseen(Head(stack).sees)
  /\ UNCHANGED locals

EndBlock == CloseBrace("BlockEnd")
EndSwitch == CloseBrace("SwitchEnd")

(* Mutant: the index and what the body declared stay.                      *)
FaultyEndFor ==
  /\ Emitting("ForEnd")
  /\ Go(Tail(stack))
  /\ visible' = SubSeq(visible, 1, Head(stack).sees)
  /\ leaked' = Head(stack).leaked
  /\ UNCHANGED <<locals, depth>>

(* The end of emit_for, which alone takes its locals back.                 *)
EndFor ==
  /\ Emitting("ForEnd")
  /\ Go(Tail(stack))
  /\ locals' = SubSeq(locals, 1, Head(stack).saved)
  /\ visible' = SubSeq(visible, 1, Head(stack).sees)
  /\ leaked' = Head(stack).leaked
  /\ UNCHANGED depth

(* A clause, of which the statements have no braces of their own.          *)
Clause ==
  /\ Emitting("cases") /\ build.budget > 0
  /\ \E labels \in build.labels :
       IF \A i \in 1 .. Len(labels) : emit_expression[labels[i]]
       THEN /\ depth' = depth + 1 /\ UNCHANGED <<locals, visible, leaked>>
            /\ Written(UNION {Names[e] : e \in ToSet(labels)}, <<Statements, CaseEnd>>)
       ELSE unsupported

EndClause ==
  /\ Emitting("CaseEnd")
  /\ Go(Tail(stack))
  /\ depth' = depth - 1 /\ UNCHANGED <<locals, visible, leaked>>

EndOfCases == Emitting("cases") /\ Go(Tail(stack)) /\ Same

Next ==
  \/ sema_collect_globals \/ NextPass \/ SkipDeclaration
  \/ emit_struct_type \/ EmitConstant \/ emit_prototype \/ emit_definition
  \/ emit_statement \/ EndOfList \/ emit_block \/ EndBlock \/ EndSwitch \/ EndFor
  \/ Clause \/ EndClause \/ EndOfCases

Spec == Init /\ [][Next]_vars

-----------------------------------------------------------------------------
(* The shape of the state: no table holds more symbols than its array, and *)
(* no line is written at a negative depth.                                 *)
TypeOK ==
  /\ Len(globals) <= CAPACITY /\ Len(locals) <= CAPACITY
  /\ depth \in Nat
  /\ pass \in DOMAIN Following \cup {"definitions"}
  /\ outcome \in {"emitting", "emitted", "refused", "crashed"}

(* When the emitter reports success every declaration of every file was    *)
(* written once in each pass it belongs to, whatever is between them, and  *)
(* every brace that was opened was closed.                                 *)
Expected(i) ==
  CASE IsConstant(build.declarations[i].value) -> {<<"constant", i>>}
    [] IsStruct(build.declarations[i].value) -> {<<"type", i>>}
    [] OTHER -> {<<"prototype", i>>, <<"definition", i>>}

WrittenOnce ==
  outcome = "emitted" =>
    /\ ToSet(out) = UNION {Expected(i) : i \in 1 .. Len(build.declarations)}
    /\ IsInjective(out)
    /\ depth = 0

(* No table overflows on the way, and all is written at the end.           *)
EmitterInv == TypeOK /\ WrittenOnce

(* In a body no global is used before C knows it, in whatever order the    *)
(* files came to build->work (c99.c:493) and procedures call each other.   *)
DeclaredBeforeBodies == \A use \in undeclared : use[1] # "definitions"

(* The table of the locals says of a name what C's scopes make of it,      *)
(* inside and after loops, in blocks, clauses and the next procedure.  Not *)
(* of a name that a block or a switch declared and that is closed: its     *)
(* entries stay until the procedure or the loop around it ends.  Nor of a  *)
(* parameter that sema_add_local had no room for, which is not refused.    *)
NameTypes == {symbol.name : symbol \in ToSet(locals) \cup ToSet(visible)}
SameType(name) == TypeOfName(locals, name) = TypeOfName(visible, name)

TypesAsVisible == stack # << >> => \A name \in NameTypes \ leaked : SameType(name)

(* README.md calls the backend a behavior oracle: a variable that is given *)
(* no type has the type of the variable its value names.                   *)
TypesAsC == stack # << >> => \A name \in NameTypes : SameType(name)
=============================================================================
