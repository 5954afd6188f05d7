---------------------------- MODULE ParserProofs ----------------------------
(***************************************************************************)
(* Theorems about Parser, for every file: whatever tokens it holds.        *)
(***************************************************************************)
EXTENDS Parser, TLAPS

-----------------------------------------------------------------------------
(* Sequences, of whatever they hold.                                       *)
IsSeq(s) == \E S : s \in Seq(S)

LEMMA EmptyIsSeq == ASSUME NEW s, s = << >> PROVE IsSeq(s)
<1>1. s \in Seq({})
  OBVIOUS
<1> QED  BY <1>1 DEF IsSeq

LEMMA ConsIsSeq ==
  ASSUME NEW a, NEW s, IsSeq(s)
  PROVE  /\ IsSeq(<<a>> \o s)
         /\ <<a>> \o s # << >>
         /\ Head(<<a>> \o s) = a
         /\ Tail(<<a>> \o s) = s
<1> PICK S : s \in Seq(S)
  BY DEF IsSeq
<1> DEFINE U == S \cup {a}
<1>1. s \in Seq(U) /\ <<a>> \in Seq(U)
  OBVIOUS
<1>2. <<a>> \o s \in Seq(U)
  BY <1>1
<1> QED  BY <1>1, <1>2 DEF IsSeq

LEMMA ConcatIsSeq ==
  ASSUME NEW s, IsSeq(s), NEW t, IsSeq(t)
  PROVE  /\ IsSeq(s \o t)
         /\ << >> \o t = t
         /\ s # << >> => /\ s \o t # << >>
                         /\ Head(s \o t) = Head(s)
                         /\ IsSeq(Tail(s))
                         /\ Tail(s \o t) = Tail(s) \o t
<1> PICK S : s \in Seq(S)
  BY DEF IsSeq
<1> PICK T : t \in Seq(T)
  BY DEF IsSeq
<1> DEFINE U == S \cup T
<1>1. s \in Seq(U) /\ t \in Seq(U)
  OBVIOUS
<1>2. s \o t \in Seq(U)
  BY <1>1
<1> HIDE DEF U
<1> QED  BY <1>1, <1>2 DEF IsSeq

LEMMA ConcatAssoc ==
  ASSUME NEW s, IsSeq(s), NEW t, IsSeq(t), NEW u, IsSeq(u)
  PROVE  (s \o t) \o u = s \o (t \o u)
<1> PICK S : s \in Seq(S)
  BY DEF IsSeq
<1> PICK T : t \in Seq(T)
  BY DEF IsSeq
<1> PICK W : u \in Seq(W)
  BY DEF IsSeq
<1> DEFINE U == S \cup T \cup W
<1>1. s \in Seq(U) /\ t \in Seq(U) /\ u \in Seq(U)
  OBVIOUS
<1> HIDE DEF U
<1> QED  BY <1>1

LEMMA SplitSeq ==
  ASSUME NEW s, IsSeq(s), s # << >>
  PROVE  IsSeq(Tail(s)) /\ s = <<Head(s)>> \o Tail(s)
  BY DEF IsSeq

-----------------------------------------------------------------------------
(* What the stack is about: the state, as far as the properties tell two   *)
(* states apart.  The brackets are unknown once expect_operator was        *)
(* lenient; broken is a state between a break and the end of its loop.     *)
Ones == ClosingBrackets \cup {Stray}
FlagSet ==
  [expression_depth : Nat \cup {-1}, allow_newline : BOOLEAN, allow_type : BOOLEAN,
   allow_in : BOOLEAN]
NodeKinds ==
  {"", "NULL", "IDENTIFIER", "OTHER", "TERNARY", "BINARY", "TYPE", "TUPLE", "EXPRESSION"}
  \cup {"BLOCK", "DECLARATION", "ASSIGNMENT", "IF", "WHEN", "FOR", "SWITCH", "DEFER", "RETURN",
        "IMPORT", "FOREIGN_BLOCK", "FOREIGN_IMPORT", "BRANCH", "USING", "PACKAGE", "EMPTY"}
  \cup {"PROCEDURE", "POLY", "BIT_SET", "TYPEID", "MAP", "MATRIX", "POINTER", "MULTI_POINTER",
        "ARRAY", "DYNAMIC_ARRAY", "SLICE", "DISTINCT", "STRUCT", "UNION", "ENUM"}
NodeOps == Texts \cup {"IN"}
NodeSet ==
  [kind : NodeKinds, of : NodeKinds, op : NodeOps, name : {"absent", "name", "other"}, n : Nat,
   closed : BOOLEAN]
State ==
  [flags : FlagSet, value : NodeSet, token : Tokens, open : SUBSET Seq(Ones), broken : BOOLEAN]

Fl(depth, newline, type, in) ==
  [expression_depth |-> depth, allow_newline |-> newline, allow_type |-> type,
   allow_in |-> in]
Flags(fields) ==
  Fl(fields.expression_depth, fields.allow_newline, fields.allow_type, fields.allow_in)
Open == IF lenient THEN {} ELSE {brackets}
Status(flags, node, token, open, broken) ==
  [flags |-> flags, value |-> node, token |-> token, open |-> open, broken |-> broken]
Current == Status(Flags(parser), value, this_token, Open, FALSE)

(* Sets of states: those at one of the tokens, those at another one, and   *)
(* those after a token was read, or another token came, or an in was read. *)
Seen(A, ones) == {q \in A : Is(q.token, ones)}
Unseen(A, ones) == {q \in A : ~Is(q.token, ones)}
Passed(A) ==
  {p \in State : \E q \in A :
     p = [q EXCEPT !.token = p.token, !.open = {Bracketed(o, q.token) : o \in q.open}]}
Renewed(A) == {p \in State : \E q \in A : p = [q EXCEPT !.token = p.token]}
Blurred(A) == {p \in State : \E q \in A : p = [q EXCEPT !.token = p.token, !.open = {}]}
Broken(A) == {p \in State : \E q \in A : p = [q EXCEPT !.broken = TRUE]}
Unbroken(A) == {q \in A : ~q.broken}
Mended(A) == {p \in State : \E q \in A : q.broken /\ p = [q EXCEPT !.broken = FALSE]}
Kinds(A, kinds) == {q \in A : q.value.kind \in kinds}
NotKinds(A, kinds) == {q \in A : q.value.kind \notin kinds}
Setting(F, fields) ==
  Fl(IF "expression_depth" \in DOMAIN fields THEN fields.expression_depth ELSE F.expression_depth,
     IF "allow_newline" \in DOMAIN fields THEN fields.allow_newline ELSE F.allow_newline,
     IF "allow_type" \in DOMAIN fields THEN fields.allow_type ELSE F.allow_type,
     IF "allow_in" \in DOMAIN fields THEN fields.allow_in ELSE F.allow_in)

-----------------------------------------------------------------------------
(* What the parse functions ask for and give.                              *)
Name(t) == IF t.do = "call" THEN t.f ELSE t.do

AllBrackets == OpeningBrackets \cup ClosingBrackets

(* They parse statements, and are entered at depth 0.                      *)
Fresh ==
  {"parse_statement", "parse_statement_list", "parse_basic_simple_statement",
   "parse_case_clause", "parse_switch_statement", "switch_clauses", "parse_defer_statement",
   "parse_foreign_block_statement", "parse_foreign_declaration_statement",
   "parse_directive_for_statement", "parse_attributes_for_statement"}

(* They advance over the token they are called at.                         *)
Advancing ==
  {"parse_literal_expression", "parse_cast_expression", "parse_unary_stem_expression",
   "parse_branch_statement", "parse_assignment_statement"}

(* They close a bracket that was opened before the call.                   *)
BracketClosers ==
  {"parse_multi_pointer_type_expression", "parse_array_type_expression",
   "parse_dynamic_array_type_expression"}
Closers == BracketClosers \cup {"expect_closing"}
Closer(f) == IF f = "expect_closing" THEN Kind("RBRACE") ELSE Op("RBRACKET")

(* Nodes: one that is there if it has a name; an operand, which is no      *)
(* expression of operators; one that is there but in a type; a tuple or a  *)
(* statement whose first or only expression is there but in a type.        *)
Plain(v) == v.name = "absent" => v.kind = "NULL"
Unary(v) == v.closed \/ v.kind \notin {"BINARY", "TERNARY"}
Present(F, v) == v.kind = "NULL" => F.allow_type
Operand == {v \in NodeSet : Plain(v) /\ Unary(v)}
Solid == {v \in Operand : v.kind # "NULL"}
PresentOperand(F) == {v \in Operand : Present(F, v)}
Expr(F) == {v \in NodeSet : Plain(v) /\ Present(F, v)}
BinaryExpr(F, prec) == {v \in Expr(F) : prec = 1 \/ Bare(v, prec)}
Tupling(F) == {v \in NodeSet : /\ v.name = "absent" => F.allow_type
                               /\ v.n > 0 /\ v.of = "NULL" => F.allow_type}
Tupled(F) == {v \in Tupling(F) : v.n > 0}
Stated(F) == {v \in NodeSet : v.kind = "EXPRESSION" /\ v.of = "NULL" => F.allow_type}
Typed == {v \in NodeSet : Plain(v) /\ v.kind # "NULL"}

Precedence(F, token) ==
  CASE Is(token, TernaryKeyword) -> 1
    [] Is(token, Ops({"IN", "NOT_IN"})) /\ F.expression_depth < 0 /\ ~F.allow_in -> 0
    [] OTHER -> IF Is(token, {Kind("OPERATOR")}) THEN PRECEDENCE(token.as) ELSE 0

(* The token at which operands of this precedence end.                     *)
Stops(F, token, prec) ==
  Precedence(F, token) < prec \/ (Is(token, TernaryKeyword) /\ token.gap # 0)

OperandTasks ==
  {"parse_identifier", "parse_literal_expression", "parse_undefined_expression",
   "parse_directive_call_expression", "parse_call_expression", "parse_compound_literal_expression",
   "parse_index_expression", "parse_poly_type_expression",
   "parse_procedure", "parse_procedure_group_expression", "parse_bit_set_type_expression",
   "parse_typeid_type_expression", "parse_map_type_expression", "parse_matrix_type_expression",
   "parse_pointer_type_expression", "parse_multi_pointer_type_expression",
   "parse_array_type_expression", "parse_dynamic_array_type_expression",
   "parse_slice_type_expression", "parse_distinct_type_expression",
   "parse_struct_type_expression", "parse_union_type_expression", "parse_enum_type_expression"}
UnaryTasks ==
  {"parse_unary_expression", "parse_cast_expression", "parse_unary_stem_expression",
   "parse_implicit_selector_expression", "parse_atom_expression", "atoms"}
ExprTasks == {"parse_value", "parse_expression", "parse_ternary_expression"}
StatementTasks ==
  {"parse_simple_statement", "after_tuple", "after_colon", "parse_declaration_statement",
   "parse_declaration_statement_tail", "declaration_type", "declaration_values",
   "declaration_end", "parse_assignment_statement"}

(* What a task finds.                                                      *)
Pre(t, q) ==
  /\ Name(t) \in Fresh => q.flags.expression_depth = 0
  /\ Name(t) = "parse_simple_statement" /\ t.args.allow_label => q.flags.expression_depth = 0
  /\ Name(t) \in {"after_tuple", "after_colon"} =>
       /\ t.allow_label => q.flags.expression_depth = 0
       /\ q.value \in Tupled(q.flags)
  /\ Name(t) = "parse_declaration_statement" => q.value \in Tupled(q.flags)
  /\ Name(t) \in Advancing => ~Is(q.token, AllBrackets)
  /\ Name(t) \in Closers => \A o \in q.open : o # << >> /\ Last(o) = Closer(Name(t))
  /\ Name(t) = "parse_atom_expression" => q.value \in Operand
  /\ Name(t) = "atoms" => q.value \in PresentOperand(q.flags)
  /\ Name(t) = "argument" => q.value \in Expr(q.flags)
  /\ Name(t) = "tuple" => q.value \in Expr(q.flags) /\ t.so_far \in Tupling(q.flags)
  /\ Name(t) = "parse_binary_expression" => t.args.prec \in Nat \ {0}
  /\ Name(t) = "operators" =>
       /\ t.prec \in Nat \ {0} /\ q.value \in BinaryExpr(q.flags, t.prec)
       /\ Stops(q.flags, q.token, 1) \/ Bare(q.value, Precedence(q.flags, q.token))
  /\ Name(t) = "join" =>
       /\ Bare(t.left, PRECEDENCE(t.op)) /\ Bare(q.value, PRECEDENCE(t.op) + 1)
       /\ t.op \in NodeOps
  /\ Name(t) = "for_range" => q.value \in Stated(q.flags)

(* What it leaves: a value, a token, the flags, and the brackets.          *)
Results(t, q) ==
  CASE Name(t) \in OperandTasks -> Solid
    [] Name(t) \in {"parse_operand", "parse_directive_prefix"} -> Operand
    [] Name(t) \in UnaryTasks -> PresentOperand(q.flags)
    [] Name(t) \in ExprTasks -> Expr(q.flags)
    [] Name(t) = "parse_binary_expression" -> BinaryExpr(q.flags, t.args.prec)
    [] Name(t) = "operators" -> BinaryExpr(q.flags, t.prec)
    [] Name(t) = "join" -> {Binary(t.op)}
    [] Name(t) = "parse_type" -> Typed
    [] Name(t) = "parse_type_or_identifier" -> {v \in NodeSet : Plain(v)}
    [] Name(t) \in {"parse_tuple_expression", "tuple"} -> Tupled(q.flags)
    [] Name(t) \in StatementTasks -> Stated(q.flags)
    [] OTHER -> NodeSet

Ends(t, q) ==
  CASE Name(t) \in {"parse_expression", "parse_ternary_expression"} ->
         {token \in Tokens : Stops(q.flags, token, 1)}
    [] Name(t) = "parse_binary_expression" -> {token \in Tokens : Stops(q.flags, token, t.args.prec)}
    [] Name(t) = "operators" -> {token \in Tokens : Stops(q.flags, token, t.prec)}
    [] Name(t) = "join" -> {q.token}
    [] OTHER -> Tokens

OpenAfter(t, q) == IF Name(t) \in Closers THEN {Front(o) : o \in q.open} ELSE q.open

(* The states of these flags, brackets, values and tokens.                 *)
St(F, O, V, T) ==
  {p \in State : /\ p.flags = F /\ p.open \subseteq O /\ p.value \in V /\ p.token \in T
                 /\ ~p.broken}

Upon(t, q) == St(q.flags, OpenAfter(t, q), Results(t, q), Ends(t, q))

-----------------------------------------------------------------------------
(* J holds of a list of tasks and two sets of states that the tasks, from  *)
(* a state of the first, never find what they cannot work with, and end in *)
(* a state of the second.                                                  *)
In(J, l, A, B) == \E X, Y : A \subseteq X /\ Y \subseteq B /\ <<l, X, Y>> \in J

Steps ==
  {"call", "arguments", "argument", "atoms", "operators", "join", "tuple", "field_names",
   "field_named", "declaration_type", "declaration_values", "declaration_end", "after_tuple",
   "after_colon", "for_range", "switch_header", "switch_clauses"}
Branching == {"accept", "when", "separator", "control", "control_peeked", "either", "while", "until"}

(* The tasks that hold no others.                                          *)
SimpleValid(t, A, C) ==
  /\ t.do \in Steps => \A q \in A : Pre(t, q) /\ Upon(t, q) \subseteq C
  /\ t.do = "expect" => Passed(Seen(A, t.ones)) \subseteq C /\ Blurred(A) \subseteq C
  /\ t.do \in {"advance", "separated", "within_peeked"} => Passed(A) \subseteq C
  /\ t.do = "skip" => Renewed(A) \subseteq C
  /\ t.do = "set" =>
       \A q \in A : /\ Setting(q.flags, t.fields) \in FlagSet
                    /\ "this_procedure" \in DOMAIN t.fields => t.fields.this_procedure \in BOOLEAN
                    /\ [q EXCEPT !.flags = Setting(@, t.fields)] \in C
  /\ t.do = "deeper" =>
       \A q \in A : /\ q.flags.expression_depth + t.by \in Nat \cup {-1}
                    /\ [q EXCEPT !.flags.expression_depth = @ + t.by] \in C
  /\ t.do = "make" => t.node \in NodeSet /\ \A q \in A : [q EXCEPT !.value = t.node] \in C
  /\ t.do = "apply" =>
       \A q \in A : Made(t.f, q.value) \in NodeSet /\ [q EXCEPT !.value = Made(t.f, @)] \in C
  /\ t.do = "check" => Kinds(A, t.kinds) \subseteq C
  /\ t.do = "refuse" => NotKinds(A, t.kinds) \subseteq C
  /\ t.do = "inspect" =>
       /\ t.what \in {"absent expression", "absent statement"}
       /\ t.what = "absent expression" => \A q \in A : Present(q.flags, q.value)
       /\ NotKinds(A, {"NULL"}) \subseteq C
  /\ t.do = "break" => Broken(A) \subseteq C
  /\ t.do \in {"peek", "newline_within", "within_peeked", "semicolon"} => A \subseteq C
  /\ t.do = "newline_within" => Passed(Seen(A, {NEWLINE})) \subseteq C
  /\ t.do = "semicolon" => Passed(Seen(A, {Kind("SEMICOLON")})) \subseteq C
  /\ t.do = "leave" => (\A q \in A : q.flags = Flags(t.entered)) /\ A \subseteq C

(* Those that hold others; a loop has an invariant.                        *)
BranchValid(J, t, A, C) ==
  /\ t.do = "accept" => In(J, t.then, Passed(Seen(A, t.ones)), C) /\ In(J, t.else, Unseen(A, t.ones), C)
  /\ t.do = "when" => In(J, t.then, Seen(A, t.ones), C) /\ In(J, t.else, Unseen(A, t.ones), C)
  /\ t.do = "separator" =>
       In(J, t.then, Passed(Seen(A, {Op("COMMA"), NEWLINE})), C) /\ In(J, t.else, A, C)
  /\ t.do = "control" =>
       In(J, t.then, Passed(Seen(A, {Kind("SEMICOLON")})), C) /\ In(J, t.else, A, C)
  /\ t.do = "control_peeked" =>
       In(J, t.then, Passed(Seen(A, {Kind("SEMICOLON")})), C) /\ In(J, t.else, A, C)
  /\ t.do = "either" => A \subseteq C /\ In(J, t.then, A, C)
  /\ t.do = "while" => \E I : /\ A \subseteq I /\ In(J, t.body, Seen(Unbroken(I), t.ones), I)
                              /\ Unseen(Unbroken(I), t.ones) \subseteq C /\ Mended(I) \subseteq C
  /\ t.do = "until" => \E I : /\ A \subseteq I /\ In(J, t.body, Unseen(Unbroken(I), t.ones), I)
                              /\ Seen(Unbroken(I), t.ones) \subseteq C /\ Mended(I) \subseteq C

Valid(J, t, A, C) ==
  /\ t.do \notin {"while", "until"} => \A q \in A : ~q.broken
  /\ SimpleValid(t, A, C)
  /\ BranchValid(J, t, A, C)

Closed(J) ==
  \A j \in J : \E l, A, B :
    /\ j = <<l, A, B>> /\ IsSeq(l)
    /\ l = << >> => A \subseteq B
    /\ l # << >> => \E C : Valid(J, Head(l), A, C) /\ In(J, Tail(l), C, B)

Holds(l, A, B) == \E J : Closed(J) /\ In(J, l, A, B)
Task(t, A, C) == \E J : Closed(J) /\ Valid(J, t, A, C)

-----------------------------------------------------------------------------
(* The rules of Holds.                                                     *)
LEMMA InMono ==
  ASSUME NEW J, NEW K, NEW l, NEW A, NEW B, NEW X, NEW Y, In(J, l, A, B),
         J \subseteq K, X \subseteq A, B \subseteq Y
  PROVE  In(K, l, X, Y)
  BY DEF In

LEMMA SimpleMono ==
  ASSUME NEW t, NEW A, NEW C, NEW X, NEW Y, SimpleValid(t, A, C), X \subseteq A, C \subseteq Y
  PROVE  SimpleValid(t, X, Y)
<1>1. /\ t.do \in Steps => \A q \in X : Pre(t, q) /\ Upon(t, q) \subseteq Y
      /\ t.do = "apply" =>
           \A q \in X : Made(t.f, q.value) \in NodeSet /\ [q EXCEPT !.value = Made(t.f, @)] \in Y
      /\ t.do = "leave" => (\A q \in X : q.flags = Flags(t.entered)) /\ X \subseteq Y
      /\ t.do = "make" => t.node \in NodeSet /\ \A q \in X : [q EXCEPT !.value = t.node] \in Y
  BY DEF SimpleValid
<1>2. /\ t.do = "expect" => Passed(Seen(X, t.ones)) \subseteq Y /\ Blurred(X) \subseteq Y
      /\ t.do \in {"advance", "separated", "within_peeked"} => Passed(X) \subseteq Y
      /\ t.do = "skip" => Renewed(X) \subseteq Y
  BY DEF SimpleValid, Passed, Seen, Blurred, Renewed
<1>3. /\ t.do = "set" =>
           \A q \in X : /\ Setting(q.flags, t.fields) \in FlagSet
                        /\ "this_procedure" \in DOMAIN t.fields => t.fields.this_procedure \in BOOLEAN
                        /\ [q EXCEPT !.flags = Setting(@, t.fields)] \in Y
      /\ t.do = "deeper" =>
           \A q \in X : /\ q.flags.expression_depth + t.by \in Nat \cup {-1}
                        /\ [q EXCEPT !.flags.expression_depth = @ + t.by] \in Y
  BY DEF SimpleValid
<1>4. /\ t.do = "check" => Kinds(X, t.kinds) \subseteq Y
      /\ t.do = "refuse" => NotKinds(X, t.kinds) \subseteq Y
      /\ t.do = "inspect" =>
           /\ t.what \in {"absent expression", "absent statement"}
           /\ t.what = "absent expression" => \A q \in X : Present(q.flags, q.value)
           /\ NotKinds(X, {"NULL"}) \subseteq Y
  BY DEF SimpleValid, Kinds, NotKinds
<1>5. /\ t.do = "break" => Broken(X) \subseteq Y
      /\ t.do \in {"peek", "newline_within", "within_peeked", "semicolon"} => X \subseteq Y
      /\ t.do = "newline_within" => Passed(Seen(X, {NEWLINE})) \subseteq Y
      /\ t.do = "semicolon" => Passed(Seen(X, {Kind("SEMICOLON")})) \subseteq Y
  BY DEF SimpleValid, Passed, Seen, Broken
<1> QED  BY <1>1, <1>2, <1>3, <1>4, <1>5 DEF SimpleValid

LEMMA SetsMono ==
  ASSUME NEW A, NEW X, X \subseteq A
  PROVE  /\ \A ones : Seen(X, ones) \subseteq Seen(A, ones) /\ Unseen(X, ones) \subseteq Unseen(A, ones)
         /\ Passed(X) \subseteq Passed(A)
         /\ \A ones : Passed(Seen(X, ones)) \subseteq Passed(Seen(A, ones))
  BY DEF Passed, Seen, Unseen

LEMMA BranchMono ==
  ASSUME NEW J, NEW K, NEW t, NEW A, NEW C, NEW X, NEW Y, BranchValid(J, t, A, C),
         J \subseteq K, X \subseteq A, C \subseteq Y
  PROVE  BranchValid(K, t, X, Y)
<1> HIDE DEF In
<1>1. ASSUME t.do = "accept"
      PROVE  In(K, t.then, Passed(Seen(X, t.ones)), Y) /\ In(K, t.else, Unseen(X, t.ones), Y)
  <2>1. In(J, t.then, Passed(Seen(A, t.ones)), C) /\ In(J, t.else, Unseen(A, t.ones), C)
    BY <1>1 DEF BranchValid
  <2>2. Passed(Seen(X, t.ones)) \subseteq Passed(Seen(A, t.ones))
        /\ Unseen(X, t.ones) \subseteq Unseen(A, t.ones)
    BY SetsMono
  <2> QED  BY <2>1, <2>2, InMono
<1>2. ASSUME t.do = "when"
      PROVE  In(K, t.then, Seen(X, t.ones), Y) /\ In(K, t.else, Unseen(X, t.ones), Y)
  <2>1. In(J, t.then, Seen(A, t.ones), C) /\ In(J, t.else, Unseen(A, t.ones), C)
    BY <1>2 DEF BranchValid
  <2>2. Seen(X, t.ones) \subseteq Seen(A, t.ones) /\ Unseen(X, t.ones) \subseteq Unseen(A, t.ones)
    BY SetsMono
  <2> QED  BY <2>1, <2>2, InMono
<1>5. ASSUME t.do = "separator"
      PROVE  In(K, t.then, Passed(Seen(X, {Op("COMMA"), NEWLINE})), Y) /\ In(K, t.else, X, Y)
  <2>1. In(J, t.then, Passed(Seen(A, {Op("COMMA"), NEWLINE})), C) /\ In(J, t.else, A, C)
    BY <1>5 DEF BranchValid
  <2>2. Passed(Seen(X, {Op("COMMA"), NEWLINE})) \subseteq Passed(Seen(A, {Op("COMMA"), NEWLINE}))
    BY SetsMono
  <2> QED  BY <2>1, <2>2, InMono
<1>6. ASSUME t.do \in {"control", "control_peeked"}
      PROVE  In(K, t.then, Passed(Seen(X, {Kind("SEMICOLON")})), Y) /\ In(K, t.else, X, Y)
  <2>1. In(J, t.then, Passed(Seen(A, {Kind("SEMICOLON")})), C) /\ In(J, t.else, A, C)
    BY <1>6 DEF BranchValid
  <2>2. Passed(Seen(X, {Kind("SEMICOLON")})) \subseteq Passed(Seen(A, {Kind("SEMICOLON")}))
    BY SetsMono
  <2> QED  BY <2>1, <2>2, InMono
<1>7. ASSUME t.do = "either" PROVE X \subseteq Y /\ In(K, t.then, X, Y)
  BY <1>7, InMono DEF BranchValid
<1>3. ASSUME t.do = "while"
      PROVE  \E I : /\ X \subseteq I /\ In(K, t.body, Seen(Unbroken(I), t.ones), I)
                    /\ Unseen(Unbroken(I), t.ones) \subseteq Y /\ Mended(I) \subseteq Y
  <2> PICK I : /\ A \subseteq I /\ In(J, t.body, Seen(Unbroken(I), t.ones), I)
               /\ Unseen(Unbroken(I), t.ones) \subseteq C /\ Mended(I) \subseteq C
    BY <1>3 DEF BranchValid
  <2> In(K, t.body, Seen(Unbroken(I), t.ones), I)
    BY InMono
  <2> QED  OBVIOUS
<1>4. ASSUME t.do = "until"
      PROVE  \E I : /\ X \subseteq I /\ In(K, t.body, Unseen(Unbroken(I), t.ones), I)
                    /\ Seen(Unbroken(I), t.ones) \subseteq Y /\ Mended(I) \subseteq Y
  <2> PICK I : /\ A \subseteq I /\ In(J, t.body, Unseen(Unbroken(I), t.ones), I)
               /\ Seen(Unbroken(I), t.ones) \subseteq C /\ Mended(I) \subseteq C
    BY <1>4 DEF BranchValid
  <2> In(K, t.body, Unseen(Unbroken(I), t.ones), I)
    BY InMono
  <2> QED  OBVIOUS
<1> QED  BY <1>1, <1>2, <1>3, <1>4, <1>5, <1>6, <1>7 DEF BranchValid

LEMMA ValidMono ==
  ASSUME NEW J, NEW K, NEW t, NEW A, NEW C, NEW X, NEW Y, Valid(J, t, A, C),
         J \subseteq K, X \subseteq A, C \subseteq Y
  PROVE  Valid(K, t, X, Y)
  BY SimpleMono, BranchMono DEF Valid

LEMMA ClosedUnion ==
  ASSUME NEW J, NEW K, Closed(J), Closed(K)
  PROVE  Closed(J \cup K)
<1> SUFFICES ASSUME NEW j \in J \cup K
             PROVE  \E l, A, B :
                      /\ j = <<l, A, B>> /\ IsSeq(l)
                      /\ l = << >> => A \subseteq B
                      /\ l # << >> => \E C : Valid(J \cup K, Head(l), A, C)
                                             /\ In(J \cup K, Tail(l), C, B)
  BY DEF Closed
<1> PICK L : L \in {J, K} /\ j \in L
  OBVIOUS
<1> PICK l, A, B : /\ j = <<l, A, B>> /\ IsSeq(l)
                   /\ l = << >> => A \subseteq B
                   /\ l # << >> => \E C : Valid(L, Head(l), A, C) /\ In(L, Tail(l), C, B)
  BY DEF Closed
<1>1. ASSUME l # << >>
      PROVE  \E C : Valid(J \cup K, Head(l), A, C) /\ In(J \cup K, Tail(l), C, B)
  <2> PICK C : Valid(L, Head(l), A, C) /\ In(L, Tail(l), C, B)
    BY <1>1
  <2> Valid(J \cup K, Head(l), A, C) /\ In(J \cup K, Tail(l), C, B)
    BY ValidMono, InMono
  <2> QED  OBVIOUS
<1> QED  BY <1>1

LEMMA HoldsMono ==
  ASSUME NEW l, NEW A, NEW B, NEW X, NEW Y, Holds(l, A, B), X \subseteq A, B \subseteq Y
  PROVE  Holds(l, X, Y)
  BY InMono DEF Holds

LEMMA TaskMono ==
  ASSUME NEW t, NEW A, NEW B, NEW X, NEW Y, Task(t, A, B), X \subseteq A, B \subseteq Y
  PROVE  Task(t, X, Y)
<1> PICK J : Closed(J) /\ Valid(J, t, A, B)
  BY DEF Task
<1> Valid(J, t, X, Y)
  BY ValidMono
<1> QED  BY DEF Task

LEMMA HoldsSeq == ASSUME NEW l, NEW A, NEW B, Holds(l, A, B) PROVE IsSeq(l)
<1> PICK J, X, Y : Closed(J) /\ <<l, X, Y>> \in J
  BY DEF Holds, In
<1> PICK m, U, V : <<l, X, Y>> = <<m, U, V>> /\ IsSeq(m)
  BY DEF Closed
<1> QED  OBVIOUS

(* Nothing is left to do.                                                  *)
LEMMA HoldsEmpty == ASSUME NEW A, NEW B PROVE Holds(<< >>, A, B) <=> A \subseteq B
<1>1. ASSUME Holds(<< >>, A, B) PROVE A \subseteq B
  <2> PICK J, X, Y : Closed(J) /\ A \subseteq X /\ Y \subseteq B /\ <<<< >>, X, Y>> \in J
    BY <1>1 DEF Holds, In
  <2> PICK m, U, V : <<<< >>, X, Y>> = <<m, U, V>> /\ (m = << >> => U \subseteq V)
    BY DEF Closed
  <2> QED  OBVIOUS
<1>2. ASSUME A \subseteq B PROVE Holds(<< >>, A, B)
  <2> DEFINE J == {<<<< >>, A, B>>}
  <2>1. Closed(J)
    <3>1. \A j \in J : j = <<<< >>, A, B>> /\ IsSeq(<< >>)
      BY EmptyIsSeq
    <3> QED  BY <3>1, <1>2 DEF Closed
  <2>2. In(J, << >>, A, B)
    BY DEF In
  <2> QED  BY <2>1, <2>2 DEF Holds
<1> QED  BY <1>1, <1>2

(* The first task, and the rest.                                           *)
LEMMA HoldsCons ==
  ASSUME NEW l, IsSeq(l), l # << >>, NEW A, NEW B, NEW C,
         Task(Head(l), A, C), Holds(Tail(l), C, B)
  PROVE  Holds(l, A, B)
<1> PICK J : Closed(J) /\ Valid(J, Head(l), A, C)
  BY DEF Task
<1> PICK K : Closed(K) /\ In(K, Tail(l), C, B)
  BY DEF Holds
<1> DEFINE U == J \cup K
           W == U \cup {<<l, A, B>>}
<1>1. Closed(U)
  BY ClosedUnion
<1>2. Valid(W, Head(l), A, C) /\ In(W, Tail(l), C, B)
  BY ValidMono, InMono
<1>3. \A j \in U : \E m, X, Y :
        /\ j = <<m, X, Y>> /\ IsSeq(m)
        /\ m = << >> => X \subseteq Y
        /\ m # << >> => \E Z : Valid(W, Head(m), X, Z) /\ In(W, Tail(m), Z, Y)
  <2> TAKE j \in U
  <2> PICK m, X, Y : /\ j = <<m, X, Y>> /\ IsSeq(m)
                     /\ m = << >> => X \subseteq Y
                     /\ m # << >> => \E Z : Valid(U, Head(m), X, Z) /\ In(U, Tail(m), Z, Y)
    BY <1>1 DEF Closed
  <2>1. ASSUME m # << >> PROVE \E Z : Valid(W, Head(m), X, Z) /\ In(W, Tail(m), Z, Y)
    <3> PICK Z : Valid(U, Head(m), X, Z) /\ In(U, Tail(m), Z, Y)
      BY <2>1
    <3> Valid(W, Head(m), X, Z) /\ In(W, Tail(m), Z, Y)
      BY ValidMono, InMono
    <3> QED  OBVIOUS
  <2> QED  BY <2>1
<1>4. Closed(W)
  <2> HIDE DEF U
  <2> QED  BY <1>2, <1>3 DEF Closed
<1>5. In(W, l, A, B)
  BY DEF In
<1> QED  BY <1>4, <1>5 DEF Holds

LEMMA HoldsSplit ==
  ASSUME NEW l, l # << >>, NEW A, NEW B, Holds(l, A, B)
  PROVE  \E C : Task(Head(l), A, C) /\ Holds(Tail(l), C, B)
<1> PICK J, X, Y : Closed(J) /\ A \subseteq X /\ Y \subseteq B /\ <<l, X, Y>> \in J
  BY DEF Holds, In
<1> PICK C : Valid(J, Head(l), X, C) /\ In(J, Tail(l), C, Y)
  <2> PICK m, U, V : /\ <<l, X, Y>> = <<m, U, V>>
                     /\ m # << >> => \E C : Valid(J, Head(m), U, C) /\ In(J, Tail(m), C, V)
    BY DEF Closed
  <2> QED  OBVIOUS
<1>1. Valid(J, Head(l), A, C) /\ In(J, Tail(l), C, B)
  BY ValidMono, InMono
<1> QED  BY <1>1 DEF Task, Holds

(* One list of tasks after another.                                        *)
LEMMA HoldsConcat ==
  ASSUME NEW l, NEW m, NEW A, NEW B, NEW C, Holds(l, A, C), Holds(m, C, B)
  PROVE  Holds(l \o m, A, B)
<1> PICK J, A0, C0 : Closed(J) /\ A \subseteq A0 /\ C0 \subseteq C /\ <<l, A0, C0>> \in J
  BY DEF Holds, In
<1> PICK K, C1, B1 : Closed(K) /\ C \subseteq C1 /\ B1 \subseteq B /\ <<m, C1, B1>> \in K
  BY DEF Holds, In
<1> IsSeq(m)
  BY HoldsSeq
<1> DEFINE U == J \cup K
           D == {j \in J : j[3] \subseteq C}
           W == U \cup {<<j[1] \o m, j[2], B>> : j \in D}
<1>1. Closed(U)
  BY ClosedUnion
<1>2. \A k, X, Y : <<k, X, Y>> \in J /\ Y \subseteq C => <<k \o m, X, B>> \in W
  <2> SUFFICES ASSUME NEW k, NEW X, NEW Y, <<k, X, Y>> \in J, Y \subseteq C
               PROVE  <<k \o m, X, B>> \in W
    OBVIOUS
  <2>1. <<k, X, Y>> \in D
    OBVIOUS
  <2>2. <<<<k, X, Y>>[1] \o m, <<k, X, Y>>[2], B>> \in W
    BY <2>1
  <2> QED  BY <2>2
<1> HIDE DEF W
<1>3. \A j \in U : \E k, X, Y :
        /\ j = <<k, X, Y>> /\ IsSeq(k)
        /\ k = << >> => X \subseteq Y
        /\ k # << >> => \E Z : Valid(W, Head(k), X, Z) /\ In(W, Tail(k), Z, Y)
  <2> TAKE j \in U
  <2> PICK k, X, Y : /\ j = <<k, X, Y>> /\ IsSeq(k)
                     /\ k = << >> => X \subseteq Y
                     /\ k # << >> => \E Z : Valid(U, Head(k), X, Z) /\ In(U, Tail(k), Z, Y)
    BY <1>1 DEF Closed
  <2>1. ASSUME k # << >> PROVE \E Z : Valid(W, Head(k), X, Z) /\ In(W, Tail(k), Z, Y)
    <3> PICK Z : Valid(U, Head(k), X, Z) /\ In(U, Tail(k), Z, Y)
      BY <2>1
    <3> Valid(W, Head(k), X, Z) /\ In(W, Tail(k), Z, Y)
      BY ValidMono, InMono DEF W
    <3> QED  OBVIOUS
  <2> QED  BY <2>1
<1>4. ASSUME NEW k, NEW X, NEW Y, <<k, X, Y>> \in J, Y \subseteq C
      PROVE  /\ IsSeq(k \o m)
             /\ k \o m = << >> => X \subseteq B
             /\ k \o m # << >> => \E Z : Valid(W, Head(k \o m), X, Z) /\ In(W, Tail(k \o m), Z, B)
  <2>1. /\ IsSeq(k)
        /\ k = << >> => X \subseteq Y
        /\ k # << >> => \E Z : Valid(J, Head(k), X, Z) /\ In(J, Tail(k), Z, Y)
    <3> PICK k0, X0, Y0 : /\ <<k, X, Y>> = <<k0, X0, Y0>> /\ IsSeq(k0)
                          /\ k0 = << >> => X0 \subseteq Y0
                          /\ k0 # << >> => \E Z : Valid(J, Head(k0), X0, Z) /\ In(J, Tail(k0), Z, Y0)
      BY <1>4 DEF Closed
    <3> QED  OBVIOUS
  <2>2. CASE k # << >>
    <3> PICK Z, Z0, Y0 : Valid(J, Head(k), X, Z) /\ Z \subseteq Z0 /\ Y0 \subseteq Y
                         /\ <<Tail(k), Z0, Y0>> \in J
      BY <2>1, <2>2 DEF In
    <3>1. <<Tail(k) \o m, Z0, B>> \in W
      BY <1>2, <1>4
    <3>2. In(W, Tail(k) \o m, Z, B)
      BY <3>1 DEF In
    <3>3. Valid(W, Head(k), X, Z)
      BY ValidMono DEF W
    <3> QED  BY <2>1, <2>2, <3>2, <3>3, ConcatIsSeq
  <2>3. CASE k = << >>
    <3>1. k \o m = m
      BY <2>3, ConcatIsSeq, EmptyIsSeq
    <3>2. X \subseteq C
      BY <2>1, <2>3, <1>4
    <3>3. /\ m = << >> => C1 \subseteq B1
          /\ m # << >> => \E Z : Valid(K, Head(m), C1, Z) /\ In(K, Tail(m), Z, B1)
      <4> PICK k0, X0, Y0 : /\ <<m, C1, B1>> = <<k0, X0, Y0>>
                            /\ k0 = << >> => X0 \subseteq Y0
                            /\ k0 # << >> => \E Z : Valid(K, Head(k0), X0, Z) /\ In(K, Tail(k0), Z, Y0)
        BY DEF Closed
      <4> QED  OBVIOUS
    <3>4. ASSUME m # << >> PROVE \E Z : Valid(W, Head(m), X, Z) /\ In(W, Tail(m), Z, B)
      <4> PICK Z : Valid(K, Head(m), C1, Z) /\ In(K, Tail(m), Z, B1)
        BY <3>3, <3>4
      <4> Valid(W, Head(m), X, Z) /\ In(W, Tail(m), Z, B)
        BY <3>2, ValidMono, InMono DEF W
      <4> QED  OBVIOUS
    <3> QED  BY <3>1, <3>2, <3>3, <3>4
  <2> QED  BY <2>2, <2>3
<1>5. Closed(W)
  <2> SUFFICES ASSUME NEW j \in W
               PROVE  \E k, X, Y :
                        /\ j = <<k, X, Y>> /\ IsSeq(k)
                        /\ k = << >> => X \subseteq Y
                        /\ k # << >> => \E Z : Valid(W, Head(k), X, Z) /\ In(W, Tail(k), Z, Y)
    BY DEF Closed
  <2>1. CASE j \in U
    BY <2>1, <1>3
  <2>2. CASE j \notin U
    <3> PICK d \in D : j = <<d[1] \o m, d[2], B>>
      BY <2>2 DEF W
    <3> PICK k, X, Y : d = <<k, X, Y>>
      BY DEF Closed
    <3>1. <<k, X, Y>> \in J /\ Y \subseteq C /\ j = <<k \o m, X, B>>
      OBVIOUS
    <3> HIDE DEF D, U
    <3> QED  BY <3>1, <1>4
  <2> QED  BY <2>1, <2>2
<1>6. <<l \o m, A0, B>> \in W
  BY <1>2
<1>7. In(W, l \o m, A, B)
  BY <1>6 DEF In
<1> QED  BY <1>5, <1>7 DEF Holds

-----------------------------------------------------------------------------
(* The rules of Task: what it says of a task that holds others ...         *)
LEMMA TaskSimple ==
  ASSUME NEW t, NEW A, NEW C, Task(t, A, C)
  PROVE  /\ SimpleValid(t, A, C)
         /\ t.do \notin {"while", "until"} => \A q \in A : ~q.broken
  BY DEF Task, Valid

LEMMA TaskBranch ==
  ASSUME NEW t, NEW A, NEW C, Task(t, A, C)
  PROVE  /\ t.do = "accept" => /\ Holds(t.then, Passed(Seen(A, t.ones)), C)
                               /\ Holds(t.else, Unseen(A, t.ones), C)
         /\ t.do = "when" => Holds(t.then, Seen(A, t.ones), C) /\ Holds(t.else, Unseen(A, t.ones), C)
         /\ t.do = "separator" => /\ Holds(t.then, Passed(Seen(A, {Op("COMMA"), NEWLINE})), C)
                                  /\ Holds(t.else, A, C)
         /\ t.do \in {"control", "control_peeked"} =>
              /\ Holds(t.then, Passed(Seen(A, {Kind("SEMICOLON")})), C)
              /\ Holds(t.else, A, C)
         /\ t.do = "either" => A \subseteq C /\ Holds(t.then, A, C)
         /\ t.do = "while" =>
              \E I : /\ A \subseteq I /\ Holds(t.body, Seen(Unbroken(I), t.ones), I)
                     /\ Unseen(Unbroken(I), t.ones) \subseteq C /\ Mended(I) \subseteq C
         /\ t.do = "until" =>
              \E I : /\ A \subseteq I /\ Holds(t.body, Unseen(Unbroken(I), t.ones), I)
                     /\ Seen(Unbroken(I), t.ones) \subseteq C /\ Mended(I) \subseteq C
<1> PICK J : Closed(J) /\ Valid(J, t, A, C)
  BY DEF Task
<1>1. \A l, X, Y : In(J, l, X, Y) => Holds(l, X, Y)
  BY DEF Holds
<1>2. BranchValid(J, t, A, C)
  BY DEF Valid
<1>3. ASSUME t.do = "while"
      PROVE  \E I : /\ A \subseteq I /\ Holds(t.body, Seen(Unbroken(I), t.ones), I)
                    /\ Unseen(Unbroken(I), t.ones) \subseteq C /\ Mended(I) \subseteq C
  <2> HIDE DEF In
  <2> QED  BY <1>1, <1>2, <1>3 DEF BranchValid
<1>4. ASSUME t.do = "until"
      PROVE  \E I : /\ A \subseteq I /\ Holds(t.body, Unseen(Unbroken(I), t.ones), I)
                    /\ Seen(Unbroken(I), t.ones) \subseteq C /\ Mended(I) \subseteq C
  BY <1>1, <1>2, <1>4 DEF BranchValid
<1> QED  BY <1>1, <1>2, <1>3, <1>4 DEF BranchValid

(* ... and what is to be shown of one.                                     *)
LEMMA HoldsBoth ==
  ASSUME NEW l, NEW A, NEW B, NEW m, NEW X, NEW Y, Holds(l, A, B), Holds(m, X, Y)
  PROVE  \E J : Closed(J) /\ In(J, l, A, B) /\ In(J, m, X, Y)
<1> PICK J : Closed(J) /\ In(J, l, A, B)
  BY DEF Holds
<1> PICK K : Closed(K) /\ In(K, m, X, Y)
  BY DEF Holds
<1>1. In(J \cup K, l, A, B) /\ In(J \cup K, m, X, Y)
  BY InMono
<1> QED  BY <1>1, ClosedUnion

LEMMA SimpleTask ==
  ASSUME NEW t, NEW A, NEW C, t.do \notin Branching, \A q \in A : ~q.broken,
         SimpleValid(t, A, C)
  PROVE  Task(t, A, C)
<1>1. Closed({})
  BY DEF Closed
<1>2. Valid({}, t, A, C)
  BY DEF Valid, BranchValid, Branching
<1> QED  BY <1>1, <1>2 DEF Task

LEMMA AcceptTask ==
  ASSUME NEW ones, NEW a, NEW b, NEW A, NEW C, \A q \in A : ~q.broken,
         Holds(a, Passed(Seen(A, ones)), C), Holds(b, Unseen(A, ones), C)
  PROVE  Task(Accept(ones, a, b), A, C)
<1> PICK J : Closed(J) /\ In(J, a, Passed(Seen(A, ones)), C) /\ In(J, b, Unseen(A, ones), C)
  BY HoldsBoth
<1>1. Valid(J, Accept(ones, a, b), A, C)
  BY DEF Valid, SimpleValid, BranchValid, Accept, Steps
<1> QED  BY <1>1 DEF Task

LEMMA WhenTask ==
  ASSUME NEW ones, NEW a, NEW b, NEW A, NEW C, \A q \in A : ~q.broken,
         Holds(a, Seen(A, ones), C), Holds(b, Unseen(A, ones), C)
  PROVE  Task(When(ones, a, b), A, C)
<1> PICK J : Closed(J) /\ In(J, a, Seen(A, ones), C) /\ In(J, b, Unseen(A, ones), C)
  BY HoldsBoth
<1>1. Valid(J, When(ones, a, b), A, C)
  BY DEF Valid, SimpleValid, BranchValid, When, Steps
<1> QED  BY <1>1 DEF Task

LEMMA SeparatorTask ==
  ASSUME NEW a, NEW b, NEW A, NEW C, \A q \in A : ~q.broken,
         Holds(a, Passed(Seen(A, {Op("COMMA"), NEWLINE})), C), Holds(b, A, C)
  PROVE  Task(Separator(a, b), A, C)
<1> PICK J : Closed(J) /\ In(J, a, Passed(Seen(A, {Op("COMMA"), NEWLINE})), C) /\ In(J, b, A, C)
  BY HoldsBoth
<1>1. Valid(J, Separator(a, b), A, C)
  BY DEF Valid, SimpleValid, BranchValid, Separator, Steps
<1> QED  BY <1>1 DEF Task

LEMMA ControlTask ==
  ASSUME NEW a, NEW b, NEW A, NEW C, \A q \in A : ~q.broken,
         Holds(a, Passed(Seen(A, {Kind("SEMICOLON")})), C), Holds(b, A, C)
  PROVE  Task(ControlSeparator(a, b), A, C) /\ Task(ControlPeeked(a, b), A, C)
<1> PICK J : Closed(J) /\ In(J, a, Passed(Seen(A, {Kind("SEMICOLON")})), C) /\ In(J, b, A, C)
  BY HoldsBoth
<1>1. Valid(J, ControlSeparator(a, b), A, C) /\ Valid(J, ControlPeeked(a, b), A, C)
  BY DEF Valid, SimpleValid, BranchValid, ControlSeparator, ControlPeeked, Steps
<1> QED  BY <1>1 DEF Task

LEMMA EitherTask ==
  ASSUME NEW a, NEW A, NEW C, \A q \in A : ~q.broken, Holds(a, A, C), A \subseteq C
  PROVE  Task(Either(a), A, C)
<1> PICK J : Closed(J) /\ In(J, a, A, C)
  BY DEF Holds
<1>1. Valid(J, Either(a), A, C)
  BY DEF Valid, SimpleValid, BranchValid, Either, Steps
<1> QED  BY <1>1 DEF Task

LEMMA WhileTask ==
  ASSUME NEW ones, NEW body, NEW A, NEW C, NEW I, A \subseteq I,
         Holds(body, Seen(Unbroken(I), ones), I), Unseen(Unbroken(I), ones) \subseteq C,
         Mended(I) \subseteq C
  PROVE  Task(While(ones, body), A, C)
<1> PICK J : Closed(J) /\ In(J, body, Seen(Unbroken(I), ones), I)
  BY DEF Holds
<1>1. Valid(J, While(ones, body), A, C)
  BY DEF Valid, SimpleValid, BranchValid, While, Steps
<1> QED  BY <1>1 DEF Task

LEMMA UntilTask ==
  ASSUME NEW ones, NEW body, NEW A, NEW C, NEW I, A \subseteq I,
         Holds(body, Unseen(Unbroken(I), ones), I), Seen(Unbroken(I), ones) \subseteq C,
         Mended(I) \subseteq C
  PROVE  Task(Until(ones, body), A, C)
<1> PICK J : Closed(J) /\ In(J, body, Unseen(Unbroken(I), ones), I)
  BY DEF Holds
<1>1. Valid(J, Until(ones, body), A, C)
  BY DEF Valid, SimpleValid, BranchValid, Until, Steps
<1> QED  BY <1>1 DEF Task

(* Lists that are written out.                                             *)
LEMMA Chain1 ==
  ASSUME NEW a, NEW P0, NEW P1, Task(a, P0, P1)
  PROVE  Holds(<<a>>, P0, P1)
<1>1. <<a>> \in Seq({a})
  OBVIOUS
<1>2. <<a>> # << >> /\ Head(<<a>>) = a
      /\ Tail(<<a>>) = << >>
  OBVIOUS
<1>3. Holds(<< >>, P1, P1)
  BY HoldsEmpty
<1>4. IsSeq(<<a>>)
  BY <1>1 DEF IsSeq
<1> QED  BY <1>2, <1>3, <1>4, HoldsCons

LEMMA Chain2 ==
  ASSUME NEW a, NEW b,
         NEW P0, NEW P1, NEW P2,
         Task(a, P0, P1), Task(b, P1, P2)
  PROVE  Holds(<<a, b>>, P0, P2)
<1>1. <<a, b>> \in Seq({a, b})
  OBVIOUS
<1>2. <<a, b>> # << >> /\ Head(<<a, b>>) = a
      /\ Tail(<<a, b>>) = <<b>>
  OBVIOUS
<1>3. Holds(<<b>>, P1, P2)
  BY Chain1
<1>4. IsSeq(<<a, b>>)
  BY <1>1 DEF IsSeq
<1> QED  BY <1>2, <1>3, <1>4, HoldsCons

LEMMA Chain3 ==
  ASSUME NEW a, NEW b, NEW c,
         NEW P0, NEW P1, NEW P2, NEW P3,
         Task(a, P0, P1), Task(b, P1, P2), Task(c, P2, P3)
  PROVE  Holds(<<a, b, c>>, P0, P3)
<1>1. <<a, b, c>> \in Seq({a, b, c})
  OBVIOUS
<1>2. <<a, b, c>> # << >> /\ Head(<<a, b, c>>) = a
      /\ Tail(<<a, b, c>>) = <<b, c>>
  OBVIOUS
<1>3. Holds(<<b, c>>, P1, P3)
  BY Chain2
<1>4. IsSeq(<<a, b, c>>)
  BY <1>1 DEF IsSeq
<1> QED  BY <1>2, <1>3, <1>4, HoldsCons

LEMMA Chain4 ==
  ASSUME NEW a, NEW b, NEW c, NEW d,
         NEW P0, NEW P1, NEW P2, NEW P3, NEW P4,
         Task(a, P0, P1), Task(b, P1, P2), Task(c, P2, P3), Task(d, P3, P4)
  PROVE  Holds(<<a, b, c, d>>, P0, P4)
<1>1. <<a, b, c, d>> \in Seq({a, b, c, d})
  OBVIOUS
<1>2. <<a, b, c, d>> # << >> /\ Head(<<a, b, c, d>>) = a
      /\ Tail(<<a, b, c, d>>) = <<b, c, d>>
  OBVIOUS
<1>3. Holds(<<b, c, d>>, P1, P4)
  BY Chain3
<1>4. IsSeq(<<a, b, c, d>>)
  BY <1>1 DEF IsSeq
<1> QED  BY <1>2, <1>3, <1>4, HoldsCons

LEMMA Chain5 ==
  ASSUME NEW a, NEW b, NEW c, NEW d, NEW e,
         NEW P0, NEW P1, NEW P2, NEW P3, NEW P4, NEW P5,
         Task(a, P0, P1), Task(b, P1, P2), Task(c, P2, P3), Task(d, P3, P4),
         Task(e, P4, P5)
  PROVE  Holds(<<a, b, c, d, e>>, P0, P5)
<1>1. <<a, b, c, d, e>> \in Seq({a, b, c, d, e})
  OBVIOUS
<1>2. <<a, b, c, d, e>> # << >> /\ Head(<<a, b, c, d, e>>) = a
      /\ Tail(<<a, b, c, d, e>>) = <<b, c, d, e>>
  OBVIOUS
<1>3. Holds(<<b, c, d, e>>, P1, P5)
  BY Chain4
<1>4. IsSeq(<<a, b, c, d, e>>)
  BY <1>1 DEF IsSeq
<1> QED  BY <1>2, <1>3, <1>4, HoldsCons

LEMMA Chain6 ==
  ASSUME NEW a, NEW b, NEW c, NEW d, NEW e, NEW f,
         NEW P0, NEW P1, NEW P2, NEW P3, NEW P4, NEW P5, NEW P6,
         Task(a, P0, P1), Task(b, P1, P2), Task(c, P2, P3), Task(d, P3, P4),
         Task(e, P4, P5), Task(f, P5, P6)
  PROVE  Holds(<<a, b, c, d, e, f>>, P0, P6)
<1>1. <<a, b, c, d, e, f>> \in Seq({a, b, c, d, e, f})
  OBVIOUS
<1>2. <<a, b, c, d, e, f>> # << >> /\ Head(<<a, b, c, d, e, f>>) = a
      /\ Tail(<<a, b, c, d, e, f>>) = <<b, c, d, e, f>>
  OBVIOUS
<1>3. Holds(<<b, c, d, e, f>>, P1, P6)
  BY Chain5
<1>4. IsSeq(<<a, b, c, d, e, f>>)
  BY <1>1 DEF IsSeq
<1> QED  BY <1>2, <1>3, <1>4, HoldsCons

LEMMA Chain7 ==
  ASSUME NEW a, NEW b, NEW c, NEW d, NEW e, NEW f, NEW g,
         NEW P0, NEW P1, NEW P2, NEW P3, NEW P4, NEW P5, NEW P6, NEW P7,
         Task(a, P0, P1), Task(b, P1, P2), Task(c, P2, P3), Task(d, P3, P4),
         Task(e, P4, P5), Task(f, P5, P6), Task(g, P6, P7)
  PROVE  Holds(<<a, b, c, d, e, f, g>>, P0, P7)
<1>1. <<a, b, c, d, e, f, g>> \in Seq({a, b, c, d, e, f, g})
  OBVIOUS
<1>2. <<a, b, c, d, e, f, g>> # << >> /\ Head(<<a, b, c, d, e, f, g>>) = a
      /\ Tail(<<a, b, c, d, e, f, g>>) = <<b, c, d, e, f, g>>
  OBVIOUS
<1>3. Holds(<<b, c, d, e, f, g>>, P1, P7)
  BY Chain6
<1>4. IsSeq(<<a, b, c, d, e, f, g>>)
  BY <1>1 DEF IsSeq
<1> QED  BY <1>2, <1>3, <1>4, HoldsCons

LEMMA Chain8 ==
  ASSUME NEW a, NEW b, NEW c, NEW d, NEW e, NEW f, NEW g, NEW h,
         NEW P0, NEW P1, NEW P2, NEW P3, NEW P4, NEW P5, NEW P6, NEW P7, NEW P8,
         Task(a, P0, P1), Task(b, P1, P2), Task(c, P2, P3), Task(d, P3, P4),
         Task(e, P4, P5), Task(f, P5, P6), Task(g, P6, P7), Task(h, P7, P8)
  PROVE  Holds(<<a, b, c, d, e, f, g, h>>, P0, P8)
<1>1. <<a, b, c, d, e, f, g, h>> \in Seq({a, b, c, d, e, f, g, h})
  OBVIOUS
<1>2. <<a, b, c, d, e, f, g, h>> # << >> /\ Head(<<a, b, c, d, e, f, g, h>>) = a
      /\ Tail(<<a, b, c, d, e, f, g, h>>) = <<b, c, d, e, f, g, h>>
  OBVIOUS
<1>3. Holds(<<b, c, d, e, f, g, h>>, P1, P8)
  BY Chain7
<1>4. IsSeq(<<a, b, c, d, e, f, g, h>>)
  BY <1>1 DEF IsSeq
<1> QED  BY <1>2, <1>3, <1>4, HoldsCons

LEMMA Chain9 ==
  ASSUME NEW a, NEW b, NEW c, NEW d, NEW e, NEW f, NEW g, NEW h, NEW i,
         NEW P0, NEW P1, NEW P2, NEW P3, NEW P4, NEW P5, NEW P6, NEW P7, NEW P8, NEW P9,
         Task(a, P0, P1), Task(b, P1, P2), Task(c, P2, P3), Task(d, P3, P4),
         Task(e, P4, P5), Task(f, P5, P6), Task(g, P6, P7), Task(h, P7, P8),
         Task(i, P8, P9)
  PROVE  Holds(<<a, b, c, d, e, f, g, h, i>>, P0, P9)
<1>1. <<a, b, c, d, e, f, g, h, i>> \in Seq({a, b, c, d, e, f, g, h, i})
  OBVIOUS
<1>2. <<a, b, c, d, e, f, g, h, i>> # << >> /\ Head(<<a, b, c, d, e, f, g, h, i>>) = a
      /\ Tail(<<a, b, c, d, e, f, g, h, i>>) = <<b, c, d, e, f, g, h, i>>
  OBVIOUS
<1>3. Holds(<<b, c, d, e, f, g, h, i>>, P1, P9)
  BY Chain8
<1>4. IsSeq(<<a, b, c, d, e, f, g, h, i>>)
  BY <1>1 DEF IsSeq
<1> QED  BY <1>2, <1>3, <1>4, HoldsCons

LEMMA Chain10 ==
  ASSUME NEW a, NEW b, NEW c, NEW d, NEW e, NEW f, NEW g, NEW h, NEW i, NEW j,
         NEW P0, NEW P1, NEW P2, NEW P3, NEW P4, NEW P5, NEW P6, NEW P7, NEW P8, NEW P9, NEW P10,
         Task(a, P0, P1), Task(b, P1, P2), Task(c, P2, P3), Task(d, P3, P4),
         Task(e, P4, P5), Task(f, P5, P6), Task(g, P6, P7), Task(h, P7, P8),
         Task(i, P8, P9), Task(j, P9, P10)
  PROVE  Holds(<<a, b, c, d, e, f, g, h, i, j>>, P0, P10)
<1>1. <<a, b, c, d, e, f, g, h, i, j>> \in Seq({a, b, c, d, e, f, g, h, i, j})
  OBVIOUS
<1>2. <<a, b, c, d, e, f, g, h, i, j>> # << >> /\ Head(<<a, b, c, d, e, f, g, h, i, j>>) = a
      /\ Tail(<<a, b, c, d, e, f, g, h, i, j>>) = <<b, c, d, e, f, g, h, i, j>>
  OBVIOUS
<1>3. Holds(<<b, c, d, e, f, g, h, i, j>>, P1, P10)
  BY Chain9
<1>4. IsSeq(<<a, b, c, d, e, f, g, h, i, j>>)
  BY <1>1 DEF IsSeq
<1> QED  BY <1>2, <1>3, <1>4, HoldsCons

-----------------------------------------------------------------------------
(* The same of the sets St.  First the brackets: tokens that are none, and *)
(* what is open after one that opens, and after the one that closes it.    *)
BracketOps == {"LPAREN", "RPAREN", "LBRACKET", "RBRACKET", "any"}
Neutral(ones) ==
  \A one \in ones : /\ one[1] \notin {"LBRACE", "RBRACE"}
                    /\ one[1] = "OPERATOR" => one[2] \notin BracketOps
At(ones) == {token \in Tokens : Is(token, ones)}
With(O, one) == {Append(o, one) : o \in O}

LEMMA NeutralTokens ==
  ASSUME NEW ones, Neutral(ones), NEW token, Is(token, ones)
  PROVE  ~Is(token, AllBrackets)
<1> DEFINE k == token.kind
           a == token.as
<1> SUFFICES ASSUME Is(token, AllBrackets) PROVE FALSE
  OBVIOUS
<1>1. k \in {"LBRACE", "RBRACE"} \/ (k = "OPERATOR" /\ a \in BracketOps)
  BY DEF Is, AllBrackets, OpeningBrackets, ClosingBrackets, Op, Kind, BracketOps
<1>2. <<k, a>> \in ones \/ <<k, "any">> \in ones
  BY DEF Is, Kind
<1> HIDE DEF k, a
<1>3. ASSUME NEW x, <<k, x>> \in ones
      PROVE  k \notin {"LBRACE", "RBRACE"} /\ (k = "OPERATOR" => x \notin BracketOps)
  BY <1>3 DEF Neutral
<1> QED  BY <1>1, <1>2, <1>3 DEF BracketOps

LEMMA Unbracketed ==
  ASSUME NEW token, ~Is(token, AllBrackets), NEW o
  PROVE  Bracketed(o, token) = o
  BY DEF Bracketed, AllBrackets, Is

LEMMA OpensRule ==
  ASSUME NEW token, NEW o
  PROVE  /\ Is(token, {Op("LPAREN")}) => Bracketed(o, token) = Append(o, Op("RPAREN"))
         /\ Is(token, {Op("LBRACKET")}) => Bracketed(o, token) = Append(o, Op("RBRACKET"))
         /\ Is(token, {Kind("LBRACE")}) => Bracketed(o, token) = Append(o, Kind("RBRACE"))
<1>1. /\ Is(token, {Op("LPAREN")}) => token.kind = "OPERATOR" /\ token.as = "LPAREN"
      /\ Is(token, {Op("LBRACKET")}) => token.kind = "OPERATOR" /\ token.as = "LBRACKET"
      /\ Is(token, {Kind("LBRACE")}) => token.kind = "LBRACE"
  BY DEF Is, Op, Kind
<1>2. /\ Is(token, {Op("LPAREN")}) => Is(token, OpeningBrackets)
      /\ Is(token, {Op("LBRACKET")}) => Is(token, OpeningBrackets) /\ ~Is(token, {Op("LPAREN")})
      /\ Is(token, {Kind("LBRACE")}) =>
           Is(token, OpeningBrackets) /\ ~Is(token, {Op("LPAREN")}) /\ ~Is(token, {Op("LBRACKET")})
  BY <1>1 DEF Is, OpeningBrackets, Op, Kind
<1>3. /\ Is(token, {Op("LPAREN")}) => Closing(token) = Op("RPAREN")
      /\ Is(token, {Op("LBRACKET")}) => Closing(token) = Op("RBRACKET")
      /\ Is(token, {Kind("LBRACE")}) => Closing(token) = Kind("RBRACE")
  BY <1>2 DEF Closing
<1>4. Is(token, OpeningBrackets) => ~Is(token, ClosingBrackets)
  BY DEF Is, OpeningBrackets, ClosingBrackets, Op, Kind
<1>5. Is(token, OpeningBrackets) => Bracketed(o, token) = Append(o, Closing(token))
  BY <1>4 DEF Bracketed
<1> HIDE DEF Closing
<1> QED  BY <1>2, <1>3, <1>5

LEMMA LastFront ==
  ASSUME NEW S, NEW o \in Seq(S), NEW one \in S
  PROVE  /\ Append(o, one) # << >> /\ Last(Append(o, one)) = one
         /\ Front(Append(o, one)) = o
  BY DEF Last, Front

LEMMA ClosesRule ==
  ASSUME NEW o \in Seq(Ones), NEW one \in ClosingBrackets, NEW token, Is(token, {one})
  PROVE  Bracketed(Append(o, one), token) = o
<1>1. ~Is(token, OpeningBrackets) /\ Is(token, ClosingBrackets)
  BY DEF OpeningBrackets, ClosingBrackets, Is, Op, Kind
<1>2. one \in Ones
  BY DEF Ones
<1>3. /\ Append(o, one) # << >> /\ Last(Append(o, one)) = one
      /\ Front(Append(o, one)) = o
  BY <1>2, LastFront
<1> QED  BY <1>1, <1>3 DEF Bracketed

LEMMA BracketedSeq ==
  ASSUME NEW o \in Seq(Ones), NEW token
  PROVE  Bracketed(o, token) \in Seq(Ones)
<1>1. Is(token, OpeningBrackets) => Closing(token) \in Ones
  BY DEF Is, OpeningBrackets, Closing, Ones, ClosingBrackets, Op, Kind
<1>2. Stray \in Ones
  BY DEF Ones
<1>3. o # << >> => Front(o) \in Seq(Ones)
  BY DEF Front
<1> QED  BY <1>1, <1>2, <1>3 DEF Bracketed

(* The states after a token.                                               *)
LEMMA PassedNeutral ==
  ASSUME NEW F, NEW O, NEW V, NEW T, NEW ones, Neutral(ones)
  PROVE  Passed(Seen(St(F, O, V, T), ones)) \subseteq St(F, O, V, Tokens)
<1> SUFFICES ASSUME NEW p \in State, NEW q \in Seen(St(F, O, V, T), ones),
                    p = [q EXCEPT !.token = p.token, !.open = {Bracketed(o, q.token) : o \in q.open}]
             PROVE  p \in St(F, O, V, Tokens)
  BY DEF Passed
<1>1. q \in State /\ q.open \subseteq O /\ Is(q.token, ones)
  BY DEF Seen, St
<1>2. {Bracketed(o, q.token) : o \in q.open} = q.open
  BY <1>1, NeutralTokens, Unbracketed
<1>3. p.flags = q.flags /\ p.value = q.value /\ p.broken = q.broken /\ p.open = q.open
  BY <1>1, <1>2 DEF State
<1> QED  BY <1>3 DEF St, Seen, State

LEMMA PassedOpening ==
  ASSUME NEW F, NEW O, NEW V, NEW T, NEW one, NEW close,
         \A token \in Tokens : \A o : Is(token, {one}) => Bracketed(o, token) = Append(o, close)
  PROVE  Passed(Seen(St(F, O, V, T), {one})) \subseteq St(F, With(O, close), V, Tokens)
<1> SUFFICES ASSUME NEW p \in State, NEW q \in Seen(St(F, O, V, T), {one}),
                    p = [q EXCEPT !.token = p.token, !.open = {Bracketed(o, q.token) : o \in q.open}]
             PROVE  p \in St(F, With(O, close), V, Tokens)
  BY DEF Passed
<1>1. q \in State /\ q.open \subseteq O /\ Is(q.token, {one})
  BY DEF Seen, St
<1>2. {Bracketed(o, q.token) : o \in q.open} \subseteq With(O, close)
  BY <1>1 DEF With, State
<1>3. p.flags = q.flags /\ p.value = q.value /\ p.broken = q.broken
      /\ p.open \subseteq With(O, close)
  BY <1>1, <1>2 DEF State
<1> QED  BY <1>3 DEF St, Seen, State

LEMMA PassedOpen ==
  ASSUME NEW F, NEW O, NEW V, NEW T
  PROVE  /\ Passed(Seen(St(F, O, V, T), {Op("LPAREN")}))
              \subseteq St(F, With(O, Op("RPAREN")), V, Tokens)
         /\ Passed(Seen(St(F, O, V, T), {Op("LBRACKET")}))
              \subseteq St(F, With(O, Op("RBRACKET")), V, Tokens)
         /\ Passed(Seen(St(F, O, V, T), {Kind("LBRACE")}))
              \subseteq St(F, With(O, Kind("RBRACE")), V, Tokens)
  BY OpensRule, PassedOpening

LEMMA PassedClose ==
  ASSUME NEW F, NEW O, O \subseteq Seq(Ones), NEW V, NEW T, NEW one \in ClosingBrackets
  PROVE  Passed(Seen(St(F, With(O, one), V, T), {one})) \subseteq St(F, O, V, Tokens)
<1> SUFFICES ASSUME NEW p \in State, NEW q \in Seen(St(F, With(O, one), V, T), {one}),
                    p = [q EXCEPT !.token = p.token, !.open = {Bracketed(o, q.token) : o \in q.open}]
             PROVE  p \in St(F, O, V, Tokens)
  BY DEF Passed
<1>1. q \in State /\ q.open \subseteq With(O, one) /\ Is(q.token, {one})
  BY DEF Seen, St
<1>2. \A o \in O : Bracketed(Append(o, one), q.token) = o
  BY <1>1, ClosesRule
<1>3. {Bracketed(o, q.token) : o \in q.open} \subseteq O
  <2> SUFFICES ASSUME NEW o \in q.open PROVE Bracketed(o, q.token) \in O
    OBVIOUS
  <2> PICK x \in O : o = Append(x, one)
    BY <1>1 DEF With
  <2> QED  BY <1>2
<1>4. p.flags = q.flags /\ p.value = q.value /\ p.broken = q.broken /\ p.open \subseteq O
  BY <1>1, <1>3 DEF State
<1> QED  BY <1>4 DEF St, Seen, State

LEMMA BlurredSt ==
  ASSUME NEW F, NEW O, NEW V, NEW T, NEW P
  PROVE  Blurred(St(F, O, V, T)) \subseteq St(F, P, V, Tokens)
  BY DEF Blurred, St, State

LEMMA StMono ==
  ASSUME NEW F, NEW O, NEW V, NEW T, NEW P, NEW W, NEW U,
         O \subseteq P, V \cap NodeSet \subseteq W, T \cap Tokens \subseteq U
  PROVE  St(F, O, V, T) \subseteq St(F, P, W, U)
  BY DEF St, State

LEMMA StFacts ==
  ASSUME NEW F, NEW O, NEW V, NEW T
  PROVE  /\ St(F, O, V, T) \subseteq St(F, O, V, Tokens)
         /\ St(F, O, V, T) \subseteq St(F, O, NodeSet, Tokens)
         /\ \A q \in St(F, O, V, T) : ~q.broken
         /\ \A ones : Seen(St(F, O, V, T), ones) \subseteq St(F, O, V, T)
         /\ \A ones : Unseen(St(F, O, V, T), ones) \subseteq St(F, O, V, T)
         /\ \A ones : Seen(St(F, O, V, T), ones) \subseteq St(F, O, V, At(ones))
  BY DEF St, State, Seen, Unseen, At

(* The tasks that read a token.                                            *)
LEMMA ExpectTask ==
  ASSUME NEW ones, NEW F, NEW O, NEW V, NEW T, NEW P,
         Passed(Seen(St(F, O, V, T), ones)) \subseteq St(F, P, V, Tokens)
  PROVE  Task(Expect(ones), St(F, O, V, T), St(F, P, V, Tokens))
<1> DEFINE t == Expect(ones)
           A == St(F, O, V, T)
           C == St(F, P, V, Tokens)
<1>1. t.do \notin Branching /\ t.do = "expect" /\ t.ones = ones /\ t.do \notin Steps
  BY DEF Expect, Branching, Steps
<1>2. Blurred(A) \subseteq C
  BY BlurredSt
<1> HIDE DEF t
<1>3. SimpleValid(t, A, C)
  BY <1>1, <1>2 DEF SimpleValid
<1> QED  BY <1>1, <1>3, SimpleTask, StFacts DEF t

LEMMA ExpectNeutral ==
  ASSUME NEW ones, Neutral(ones), NEW F, NEW O, NEW V, NEW T
  PROVE  Task(Expect(ones), St(F, O, V, T), St(F, O, V, Tokens))
  BY ExpectTask, PassedNeutral

LEMMA ExpectOpen ==
  ASSUME NEW F, NEW O, NEW V, NEW T
  PROVE  /\ Task(Expect({Op("LPAREN")}), St(F, O, V, T), St(F, With(O, Op("RPAREN")), V, Tokens))
         /\ Task(Expect({Op("LBRACKET")}), St(F, O, V, T), St(F, With(O, Op("RBRACKET")), V, Tokens))
         /\ Task(Expect({Kind("LBRACE")}), St(F, O, V, T), St(F, With(O, Kind("RBRACE")), V, Tokens))
  BY ExpectTask, PassedOpen

LEMMA ExpectClose ==
  ASSUME NEW F, NEW O, O \subseteq Seq(Ones), NEW V, NEW T, NEW one \in ClosingBrackets
  PROVE  Task(Expect({one}), St(F, With(O, one), V, T), St(F, O, V, Tokens))
  BY ExpectTask, PassedClose

LEMMA AcceptNeutral ==
  ASSUME NEW ones, Neutral(ones), NEW F, NEW O, NEW V, NEW T, NEW a, NEW b, NEW C,
         Holds(a, St(F, O, V, Tokens), C), Holds(b, St(F, O, V, T), C)
  PROVE  Task(Accept(ones, a, b), St(F, O, V, T), C)
<1>1. Holds(a, Passed(Seen(St(F, O, V, T), ones)), C)
  BY PassedNeutral, HoldsMono
<1>2. Holds(b, Unseen(St(F, O, V, T), ones), C)
  BY StFacts, HoldsMono
<1> QED  BY <1>1, <1>2, AcceptTask, StFacts

LEMMA AcceptOpen ==
  ASSUME NEW F, NEW O, NEW V, NEW T, NEW a, NEW b, NEW C, Holds(b, St(F, O, V, T), C)
  PROVE  /\ Holds(a, St(F, With(O, Op("RPAREN")), V, Tokens), C) =>
              Task(Accept({Op("LPAREN")}, a, b), St(F, O, V, T), C)
         /\ Holds(a, St(F, With(O, Kind("RBRACE")), V, Tokens), C) =>
              Task(Accept({Kind("LBRACE")}, a, b), St(F, O, V, T), C)
<1>1. \A ones : Holds(b, Unseen(St(F, O, V, T), ones), C)
  BY StFacts, HoldsMono
<1>2. ASSUME Holds(a, St(F, With(O, Op("RPAREN")), V, Tokens), C)
      PROVE  Holds(a, Passed(Seen(St(F, O, V, T), {Op("LPAREN")})), C)
  BY <1>2, PassedOpen, HoldsMono
<1>3. ASSUME Holds(a, St(F, With(O, Kind("RBRACE")), V, Tokens), C)
      PROVE  Holds(a, Passed(Seen(St(F, O, V, T), {Kind("LBRACE")})), C)
  BY <1>3, PassedOpen, HoldsMono
<1> QED  BY <1>1, <1>2, <1>3, AcceptTask, StFacts

LEMMA AcceptClose ==
  ASSUME NEW F, NEW O, O \subseteq Seq(Ones), NEW V, NEW T, NEW one \in ClosingBrackets,
         NEW a, NEW b, NEW C,
         Holds(a, St(F, O, V, Tokens), C), Holds(b, St(F, With(O, one), V, T), C)
  PROVE  Task(Accept({one}, a, b), St(F, With(O, one), V, T), C)
<1>1. Holds(a, Passed(Seen(St(F, With(O, one), V, T), {one})), C)
  BY PassedClose, HoldsMono
<1>2. Holds(b, Unseen(St(F, With(O, one), V, T), {one}), C)
  BY StFacts, HoldsMono
<1> QED  BY <1>1, <1>2, AcceptTask, StFacts

LEMMA WhenRule ==
  ASSUME NEW ones, NEW F, NEW O, NEW V, NEW T, NEW a, NEW b, NEW C,
         Holds(a, St(F, O, V, At(ones)), C), Holds(b, St(F, O, V, T), C)
  PROVE  Task(When(ones, a, b), St(F, O, V, T), C)
<1>1. Holds(a, Seen(St(F, O, V, T), ones), C) /\ Holds(b, Unseen(St(F, O, V, T), ones), C)
  BY StFacts, HoldsMono
<1> QED  BY <1>1, WhenTask, StFacts

LEMMA AdvanceRule ==
  ASSUME NEW F, NEW O, NEW V, NEW T, NEW ones, Neutral(ones), T \subseteq At(ones)
  PROVE  Task(Advance, St(F, O, V, T), St(F, O, V, Tokens))
<1> DEFINE A == St(F, O, V, T)
           C == St(F, O, V, Tokens)
<1>1. Passed(A) \subseteq C
  <2> A = Seen(A, ones)
    BY DEF Seen, St, At
  <2> QED  BY PassedNeutral
<1>2. Advance.do \notin Branching /\ Advance.do = "advance" /\ Advance.do \notin Steps
  BY DEF Advance, Branching, Steps
<1> HIDE DEF A, C
<1>3. SimpleValid(Advance, A, C)
  BY <1>1, <1>2 DEF SimpleValid
<1>4. \A q \in A : ~q.broken
  BY StFacts DEF A
<1> QED  BY <1>2, <1>3, <1>4, SimpleTask DEF A, C

LEMMA NeutralSeparators ==
  /\ Neutral({Op("COMMA"), NEWLINE}) /\ Neutral({NEWLINE}) /\ Neutral({Kind("SEMICOLON")})
  /\ Neutral({Op("COMMA")})
  BY DEF Neutral, Op, Kind, NEWLINE, Newline, BracketOps

LEMMA SeparatorRule ==
  ASSUME NEW F, NEW O, NEW V, NEW T, NEW a, NEW b, NEW C,
         Holds(a, St(F, O, V, Tokens), C), Holds(b, St(F, O, V, T), C)
  PROVE  Task(Separator(a, b), St(F, O, V, T), C)
<1>1. Holds(a, Passed(Seen(St(F, O, V, T), {Op("COMMA"), NEWLINE})), C)
  BY PassedNeutral, NeutralSeparators, HoldsMono
<1> QED  BY <1>1, SeparatorTask, StFacts

LEMMA ControlRule ==
  ASSUME NEW F, NEW O, NEW V, NEW T, NEW a, NEW b, NEW C,
         Holds(a, St(F, O, V, Tokens), C), Holds(b, St(F, O, V, T), C)
  PROVE  Task(ControlSeparator(a, b), St(F, O, V, T), C)
<1>1. Holds(a, Passed(Seen(St(F, O, V, T), {Kind("SEMICOLON")})), C)
  BY PassedNeutral, NeutralSeparators, HoldsMono
<1> QED  BY <1>1, ControlTask, StFacts

LEMMA SemicolonRule ==
  ASSUME NEW F, NEW O, NEW V, NEW T
  PROVE  /\ Task(ExpectSemicolon, St(F, O, V, T), St(F, O, V, Tokens))
         /\ Task(NewlineWithin, St(F, O, V, T), St(F, O, V, Tokens))
<1> DEFINE A == St(F, O, V, T)
           C == St(F, O, V, Tokens)
<1>1. /\ Passed(Seen(A, {NEWLINE})) \subseteq C
      /\ Passed(Seen(A, {Kind("SEMICOLON")})) \subseteq C
      /\ A \subseteq C /\ \A q \in A : ~q.broken
  BY PassedNeutral, NeutralSeparators, StFacts
<1>2. /\ ExpectSemicolon.do \notin Branching \cup Steps /\ ExpectSemicolon.do = "semicolon"
      /\ NewlineWithin.do \notin Branching \cup Steps /\ NewlineWithin.do = "newline_within"
  BY DEF ExpectSemicolon, NewlineWithin, Branching, Steps
<1> HIDE DEF A, C
<1>3. SimpleValid(ExpectSemicolon, A, C) /\ SimpleValid(NewlineWithin, A, C)
  BY <1>1, <1>2 DEF SimpleValid
<1>4. Task(ExpectSemicolon, A, C) /\ Task(NewlineWithin, A, C)
  BY <1>1, <1>2, <1>3, SimpleTask
<1> QED  BY <1>4 DEF A, C

(* Loops: their body keeps the flags and the brackets, and may break off.  *)
Looping(F, O) == {q \in State : q.flags = F /\ q.open \subseteq O}

LEMMA LoopSets ==
  ASSUME NEW F, NEW O, NEW V, NEW T
  PROVE  /\ St(F, O, V, T) \subseteq Looping(F, O)
         /\ \A ones : Seen(Unbroken(Looping(F, O)), ones) \subseteq St(F, O, NodeSet, At(ones))
         /\ \A ones : Unseen(Unbroken(Looping(F, O)), ones) \subseteq St(F, O, NodeSet, Tokens)
         /\ Mended(Looping(F, O)) \subseteq St(F, O, NodeSet, Tokens)
         /\ Broken(St(F, O, V, T)) \subseteq Looping(F, O)
<1>1. /\ St(F, O, V, T) \subseteq Looping(F, O)
      /\ \A ones : Seen(Unbroken(Looping(F, O)), ones) \subseteq St(F, O, NodeSet, At(ones))
      /\ \A ones : Unseen(Unbroken(Looping(F, O)), ones) \subseteq St(F, O, NodeSet, Tokens)
  BY DEF St, State, Looping, Seen, Unseen, Unbroken, At
<1>2. Mended(Looping(F, O)) \subseteq St(F, O, NodeSet, Tokens)
  <2> SUFFICES ASSUME NEW p \in State, NEW q \in Looping(F, O), p = [q EXCEPT !.broken = FALSE]
               PROVE  p \in St(F, O, NodeSet, Tokens)
    BY DEF Mended
  <2> QED  BY DEF Looping, St, State
<1>3. Broken(St(F, O, V, T)) \subseteq Looping(F, O)
  <2> SUFFICES ASSUME NEW p \in State, NEW q \in St(F, O, V, T), p = [q EXCEPT !.broken = TRUE]
               PROVE  p \in Looping(F, O)
    BY DEF Broken
  <2> QED  BY DEF Looping, St, State
<1> QED  BY <1>1, <1>2, <1>3

LEMMA WhileRule ==
  ASSUME NEW ones, NEW body, NEW F, NEW O, NEW V, NEW T,
         Holds(body, St(F, O, NodeSet, At(ones)), Looping(F, O))
  PROVE  Task(While(ones, body), St(F, O, V, T), St(F, O, NodeSet, Tokens))
<1>1. Holds(body, Seen(Unbroken(Looping(F, O)), ones), Looping(F, O))
  BY LoopSets, HoldsMono
<1>2. /\ Unseen(Unbroken(Looping(F, O)), ones) \subseteq St(F, O, NodeSet, Tokens)
      /\ Mended(Looping(F, O)) \subseteq St(F, O, NodeSet, Tokens)
      /\ St(F, O, V, T) \subseteq Looping(F, O)
  BY LoopSets
<1> QED  BY <1>1, <1>2, WhileTask

LEMMA UntilRule ==
  ASSUME NEW ones, NEW body, NEW F, NEW O, NEW V, NEW T,
         Holds(body, St(F, O, NodeSet, Tokens), Looping(F, O))
  PROVE  Task(Until(ones, body), St(F, O, V, T), St(F, O, NodeSet, Tokens))
<1>1. Holds(body, Unseen(Unbroken(Looping(F, O)), ones), Looping(F, O))
  BY LoopSets, HoldsMono
<1>2. /\ Seen(Unbroken(Looping(F, O)), ones) \subseteq St(F, O, NodeSet, Tokens)
      /\ Mended(Looping(F, O)) \subseteq St(F, O, NodeSet, Tokens)
      /\ St(F, O, V, T) \subseteq Looping(F, O)
  <2> \A ones2 : Seen(Unbroken(Looping(F, O)), ones2) \subseteq St(F, O, NodeSet, Tokens)
    BY DEF St, State, Looping, Seen, Unbroken
  <2> QED  BY LoopSets
<1> QED  BY <1>1, <1>2, UntilTask

LEMMA BreakRule ==
  ASSUME NEW F, NEW O, NEW V, NEW T
  PROVE  /\ Task(Break, St(F, O, V, T), Looping(F, O))
         /\ Task(SeparatorOrBreak, St(F, O, V, T), Looping(F, O))
         /\ Task(CommaOrBreak, St(F, O, V, T), Looping(F, O))
<1>1. Task(Break, St(F, O, V, T), Looping(F, O))
  <2> DEFINE A == St(F, O, V, T)
             C == Looping(F, O)
  <2>1. Break.do \notin Branching \cup Steps /\ Break.do = "break"
    BY DEF Break, Branching, Steps
  <2>2. Broken(A) \subseteq C /\ \A q \in A : ~q.broken
    BY LoopSets, StFacts
  <2> HIDE DEF A, C
  <2>3. SimpleValid(Break, A, C)
    BY <2>1, <2>2 DEF SimpleValid
  <2>4. Task(Break, A, C)
    BY <2>1, <2>2, <2>3, SimpleTask
  <2> QED  BY <2>4 DEF A, C
<1>2. Holds(<<Break>>, St(F, O, V, T), Looping(F, O))
  BY <1>1, Chain1
<1>3. Holds(<< >>, St(F, O, V, Tokens), Looping(F, O))
  BY LoopSets, HoldsEmpty
<1>4. Task(SeparatorOrBreak, St(F, O, V, T), Looping(F, O))
  BY <1>2, <1>3, SeparatorRule DEF SeparatorOrBreak
<1>5. Task(CommaOrBreak, St(F, O, V, T), Looping(F, O))
  BY <1>2, <1>3, AcceptNeutral, NeutralSeparators DEF CommaOrBreak
<1> QED  BY <1>1, <1>4, <1>5

(* The tasks that set the parser's fields.                                 *)
LEMMA SetRule ==
  ASSUME NEW fields, NEW F, NEW O, NEW V, NEW T,
         F \in FlagSet => Setting(F, fields) \in FlagSet,
         "this_procedure" \in DOMAIN fields => fields.this_procedure \in BOOLEAN
  PROVE  Task(Set(fields), St(F, O, V, T), St(Setting(F, fields), O, V, T))
<1> DEFINE t == Set(fields)
           A == St(F, O, V, T)
           C == St(Setting(F, fields), O, V, T)
<1>1. t.do \notin Branching \cup Steps /\ t.do = "set" /\ t.fields = fields
  BY DEF Set, Branching, Steps
<1>2. ASSUME NEW q \in A
      PROVE  /\ Setting(q.flags, fields) \in FlagSet
             /\ [q EXCEPT !.flags = Setting(@, fields)] \in C
  <2>1. q \in State /\ q.flags = F /\ F \in FlagSet
    BY DEF St, State
  <2>2. Setting(F, fields) \in FlagSet
    BY <2>1
  <2> HIDE DEF Setting
  <2> QED  BY <2>1, <2>2 DEF St, State
<1>3. \A q \in A : ~q.broken
  BY StFacts
<1> HIDE DEF t, A, C
<1>4. SimpleValid(t, A, C)
  BY <1>1, <1>2 DEF SimpleValid
<1>5. Task(t, A, C)
  BY <1>1, <1>3, <1>4, SimpleTask
<1> QED  BY <1>5 DEF t, A, C

LEMMA SetRules ==
  ASSUME NEW d, NEW n, NEW y, NEW i, NEW O, NEW V, NEW T, NEW e, NEW m, NEW z, NEW j,
         e \in Nat \cup {-1}, m \in BOOLEAN, z \in BOOLEAN, j \in BOOLEAN
  PROVE  /\ Task(Depth(e), St(Fl(d, n, y, i), O, V, T), St(Fl(e, n, y, i), O, V, T))
         /\ Task(AllowNewline(m), St(Fl(d, n, y, i), O, V, T), St(Fl(d, m, y, i), O, V, T))
         /\ Task(AllowIn(j), St(Fl(d, n, y, i), O, V, T), St(Fl(d, n, y, j), O, V, T))
         /\ Task(Set([expression_depth |-> e, allow_newline |-> m]),
                 St(Fl(d, n, y, i), O, V, T), St(Fl(e, m, y, i), O, V, T))
         /\ Task(Set([expression_depth |-> e, allow_type |-> z]),
                 St(Fl(d, n, y, i), O, V, T), St(Fl(e, n, z, i), O, V, T))
         /\ Task(Set([expression_depth |-> e, allow_in |-> j]),
                 St(Fl(d, n, y, i), O, V, T), St(Fl(e, n, y, j), O, V, T))
         /\ Task(Set([this_procedure |-> TRUE]),
                 St(Fl(d, n, y, i), O, V, T), St(Fl(d, n, y, i), O, V, T))
<1> DEFINE F == Fl(d, n, y, i)
<1>1. F \in FlagSet => d \in Nat \cup {-1} /\ n \in BOOLEAN /\ y \in BOOLEAN /\ i \in BOOLEAN
  BY DEF Fl, FlagSet
<1>2. ASSUME NEW e2 \in Nat \cup {-1}, NEW n2 \in BOOLEAN, NEW y2 \in BOOLEAN, NEW i2 \in BOOLEAN
      PROVE  Fl(e2, n2, y2, i2) \in FlagSet
  BY DEF Fl, FlagSet
<1>3. /\ Setting(F, [expression_depth |-> e]) = Fl(e, n, y, i)
      /\ Setting(F, [allow_newline |-> m]) = Fl(d, m, y, i)
      /\ Setting(F, [allow_in |-> j]) = Fl(d, n, y, j)
      /\ Setting(F, [expression_depth |-> e, allow_newline |-> m]) = Fl(e, m, y, i)
      /\ Setting(F, [expression_depth |-> e, allow_type |-> z]) = Fl(e, n, z, i)
      /\ Setting(F, [expression_depth |-> e, allow_in |-> j]) = Fl(e, n, y, j)
      /\ Setting(F, [this_procedure |-> TRUE]) = Fl(d, n, y, i)
  BY DEF Setting, Fl
<1>4. ASSUME NEW fields, NEW G, Setting(F, fields) = G, F \in FlagSet => G \in FlagSet,
             "this_procedure" \in DOMAIN fields => fields.this_procedure \in BOOLEAN
      PROVE  Task(Set(fields), St(F, O, V, T), St(G, O, V, T))
  BY <1>4, SetRule
<1>5. /\ F \in FlagSet => Fl(e, n, y, i) \in FlagSet /\ Fl(d, m, y, i) \in FlagSet
      /\ F \in FlagSet => Fl(d, n, y, j) \in FlagSet /\ Fl(e, m, y, i) \in FlagSet
      /\ F \in FlagSet => Fl(e, n, z, i) \in FlagSet /\ Fl(e, n, y, j) \in FlagSet
      /\ F \in FlagSet => Fl(d, n, y, i) \in FlagSet
  BY <1>1, <1>2
<1> HIDE DEF F
<1>6. /\ Task(Set([expression_depth |-> e]), St(F, O, V, T), St(Fl(e, n, y, i), O, V, T))
      /\ Task(Set([allow_newline |-> m]), St(F, O, V, T), St(Fl(d, m, y, i), O, V, T))
      /\ Task(Set([allow_in |-> j]), St(F, O, V, T), St(Fl(d, n, y, j), O, V, T))
  BY <1>3, <1>4, <1>5
<1>7. /\ Task(Set([expression_depth |-> e, allow_newline |-> m]), St(F, O, V, T), St(Fl(e, m, y, i), O, V, T))
      /\ Task(Set([expression_depth |-> e, allow_type |-> z]), St(F, O, V, T), St(Fl(e, n, z, i), O, V, T))
      /\ Task(Set([expression_depth |-> e, allow_in |-> j]), St(F, O, V, T), St(Fl(e, n, y, j), O, V, T))
      /\ Task(Set([this_procedure |-> TRUE]), St(F, O, V, T), St(Fl(d, n, y, i), O, V, T))
  BY <1>3, <1>4, <1>5
<1> QED  BY <1>6, <1>7 DEF Depth, AllowNewline, AllowIn, F

LEMMA DeeperRule ==
  ASSUME NEW d, NEW n, NEW y, NEW i, NEW O, NEW V, NEW T, NEW by,
         d \in Nat \cup {-1} => d + by \in Nat \cup {-1}
  PROVE  Task(Deeper(by), St(Fl(d, n, y, i), O, V, T), St(Fl(d + by, n, y, i), O, V, T))
<1> DEFINE t == Deeper(by)
           A == St(Fl(d, n, y, i), O, V, T)
           C == St(Fl(d + by, n, y, i), O, V, T)
<1>1. t.do \notin Branching \cup Steps /\ t.do = "deeper" /\ t.by = by
  BY DEF Deeper, Branching, Steps
<1>2. ASSUME NEW q \in A
      PROVE  /\ q.flags.expression_depth + by \in Nat \cup {-1}
             /\ [q EXCEPT !.flags.expression_depth = @ + by] \in C
  <2>1. q \in State /\ q.flags = Fl(d, n, y, i) /\ q.flags \in FlagSet
    BY DEF St, State
  <2>2. d \in Nat \cup {-1} /\ n \in BOOLEAN /\ y \in BOOLEAN /\ i \in BOOLEAN
    BY <2>1 DEF Fl, FlagSet
  <2>3. [q.flags EXCEPT !.expression_depth = @ + by] = Fl(d + by, n, y, i)
    BY <2>1 DEF Fl
  <2>4. Fl(d + by, n, y, i) \in FlagSet
    BY <2>2 DEF Fl, FlagSet
  <2>5. [q EXCEPT !.flags.expression_depth = @ + by] = [q EXCEPT !.flags = Fl(d + by, n, y, i)]
    BY <2>1, <2>3 DEF State
  <2>6. q.flags.expression_depth = d
    BY <2>1 DEF Fl
  <2>7. [q EXCEPT !.flags = Fl(d + by, n, y, i)] \in C
    BY <2>1, <2>4 DEF St, State
  <2> QED  BY <2>2, <2>5, <2>6, <2>7
<1>3. \A q \in A : ~q.broken
  BY StFacts
<1> HIDE DEF t, A, C
<1>4. SimpleValid(t, A, C)
  BY <1>1, <1>2 DEF SimpleValid
<1>5. Task(t, A, C)
  BY <1>1, <1>3, <1>4, SimpleTask
<1> QED  BY <1>5 DEF t, A, C

(* The tasks that make, change and look at nodes, and those that end.      *)
LEMMA MakeRule ==
  ASSUME NEW node \in NodeSet, NEW F, NEW O, NEW V, NEW T
  PROVE  Task(Make(node), St(F, O, V, T), St(F, O, {node}, T))
<1> DEFINE t == Make(node)
           A == St(F, O, V, T)
           C == St(F, O, {node}, T)
<1>1. t.do \notin Branching \cup Steps /\ t.do = "make" /\ t.node = node
  BY DEF Make, Branching, Steps
<1>2. \A q \in A : [q EXCEPT !.value = node] \in C /\ ~q.broken
  BY DEF St, State
<1> HIDE DEF t, A, C
<1>3. SimpleValid(t, A, C)
  BY <1>1, <1>2 DEF SimpleValid
<1>4. Task(t, A, C)
  BY <1>1, <1>2, <1>3, SimpleTask
<1> QED  BY <1>4 DEF t, A, C

LEMMA ApplyRule ==
  ASSUME NEW f, NEW F, NEW O, NEW V, NEW T, NEW W,
         \A v \in V \cap NodeSet : Made(f, v) \in W \cap NodeSet
  PROVE  Task(Apply(f), St(F, O, V, T), St(F, O, W, T))
<1> DEFINE t == Apply(f)
           A == St(F, O, V, T)
           C == St(F, O, W, T)
<1>1. t.do \notin Branching \cup Steps /\ t.do = "apply" /\ t.f = f
  BY DEF Apply, Branching, Steps
<1>2. ASSUME NEW q \in A
      PROVE  Made(f, q.value) \in NodeSet /\ [q EXCEPT !.value = Made(f, @)] \in C /\ ~q.broken
  <2>1. q \in State /\ q.value \in V \cap NodeSet /\ ~q.broken
    BY DEF St, State
  <2> DEFINE w == Made(f, q.value)
  <2>2. w \in W \cap NodeSet
    BY <2>1
  <2> HIDE DEF w
  <2>3. [q EXCEPT !.value = w] \in C
    BY <2>1, <2>2 DEF St, State
  <2> QED  BY <2>1, <2>2, <2>3 DEF w
<1> HIDE DEF t, A, C
<1>3. SimpleValid(t, A, C)
  BY <1>1, <1>2 DEF SimpleValid
<1>4. Task(t, A, C)
  BY <1>1, <1>2, <1>3, SimpleTask
<1> QED  BY <1>4 DEF t, A, C

LEMMA CheckRules ==
  ASSUME NEW kinds, NEW F, NEW O, NEW V, NEW T
  PROVE  /\ Task(Check(kinds), St(F, O, V, T), St(F, O, {v \in V : v.kind \in kinds}, T))
         /\ Task(Refuse(kinds), St(F, O, V, T), St(F, O, {v \in V : v.kind \notin kinds}, T))
         /\ Task(Inspect("absent statement"), St(F, O, V, T), St(F, O, V, T))
         /\ (\A v \in V \cap NodeSet : Present(F, v)) =>
              Task(Inspect("absent expression"), St(F, O, V, T),
                   St(F, O, {v \in V : v.kind # "NULL"}, T))
<1> DEFINE A == St(F, O, V, T)
           C == St(F, O, {v \in V : v.kind \in kinds}, T)
           D == St(F, O, {v \in V : v.kind \notin kinds}, T)
           E == St(F, O, {v \in V : v.kind # "NULL"}, T)
<1>1. /\ Check(kinds).do = "check" /\ Check(kinds).kinds = kinds
      /\ Refuse(kinds).do = "refuse" /\ Refuse(kinds).kinds = kinds
      /\ \A w : Inspect(w).do = "inspect" /\ Inspect(w).what = w
      /\ "check" \notin Branching \cup Steps /\ "refuse" \notin Branching \cup Steps
      /\ "inspect" \notin Branching \cup Steps
  BY DEF Check, Refuse, Inspect, Branching, Steps
<1>2. /\ Kinds(A, kinds) \subseteq C /\ NotKinds(A, kinds) \subseteq D
      /\ NotKinds(A, {"NULL"}) \subseteq A /\ NotKinds(A, {"NULL"}) \subseteq E
      /\ \A q \in A : ~q.broken /\ q.flags = F /\ q.value \in V \cap NodeSet
  BY DEF Kinds, NotKinds, St, State
<1> HIDE DEF A, C, D, E
<1>3. SimpleValid(Check(kinds), A, C) /\ SimpleValid(Refuse(kinds), A, D)
      /\ SimpleValid(Inspect("absent statement"), A, A)
  BY <1>1, <1>2 DEF SimpleValid
<1>4. (\A v \in V \cap NodeSet : Present(F, v)) => SimpleValid(Inspect("absent expression"), A, E)
  BY <1>1, <1>2 DEF SimpleValid
<1>5. /\ Task(Check(kinds), A, C) /\ Task(Refuse(kinds), A, D)
      /\ Task(Inspect("absent statement"), A, A)
      /\ (\A v \in V \cap NodeSet : Present(F, v)) => Task(Inspect("absent expression"), A, E)
  BY <1>1, <1>2, <1>3, <1>4, SimpleTask
<1> QED  BY <1>5 DEF A, C, D, E

LEMMA FailRules ==
  ASSUME NEW F, NEW O, NEW V, NEW T, NEW C
  PROVE  Task(Fail, St(F, O, V, T), C) /\ Task(Misreport, St(F, O, V, T), C)
<1> DEFINE A == St(F, O, V, T)
<1>1. /\ Fail.do \notin Branching \cup Steps /\ Fail.do = "fail"
      /\ Misreport.do \notin Branching \cup Steps /\ Misreport.do = "misreport"
  BY DEF Fail, Misreport, Branching, Steps
<1>2. SimpleValid(Fail, A, C) /\ SimpleValid(Misreport, A, C)
  BY <1>1 DEF SimpleValid
<1> QED  BY <1>1, <1>2, SimpleTask, StFacts

(* A call.                                                                 *)
LEMMA StepTask ==
  ASSUME NEW t, t.do \in Steps, NEW A, NEW C,
         \A q \in A : ~q.broken /\ Pre(t, q) /\ Upon(t, q) \subseteq C
  PROVE  Task(t, A, C)
<1>1. t.do \notin Branching
  BY DEF Steps, Branching
<1>2. SimpleValid(t, A, C)
  BY DEF SimpleValid, Steps
<1> QED  BY <1>1, <1>2, SimpleTask

LEMMA CallName ==
  ASSUME NEW f, NEW args
  PROVE  /\ Name(Call(f)) = f /\ Call(f).do \in Steps
         /\ Name(CallWith(f, args)) = f /\ CallWith(f, args).do \in Steps
         /\ CallWith(f, args).args = args
  BY DEF Name, Call, CallWith, Steps

-----------------------------------------------------------------------------
(* The invariant: the variables have their types, and from the state that  *)
(* the parser is in the stack leads to the end of the file, with nothing   *)
(* open; and what is to be shown of how parse() ended.                     *)
Final == {q \in State : q.open \subseteq {<< >>} /\ ~q.broken}

ParserFields ==
  [expression_depth : Nat \cup {-1}, allow_newline : BOOLEAN, allow_type : BOOLEAN,
   allow_in : BOOLEAN, this_procedure : BOOLEAN]
Sources ==
  [prefix : Seq(Tokens), alphabet : SUBSET (KINDS \X Texts), gaps : SUBSET (0 .. 2), budget : Int]

Types ==
  /\ parser \in ParserFields /\ value \in NodeSet /\ this_token \in Tokens
  /\ brackets \in Seq(Ones) /\ lenient \in BOOLEAN /\ outcome \in Outcomes
  /\ source \in Sources /\ peek \in Seq(Tokens)

StackInv == outcome = "parsing" => Holds(stack, {Current}, Final)

IInv == Types /\ StackInv /\ BracketsMatched /\ AbsentOnlyInTypes

Here == St(Flags(parser), Open, {value}, {this_token})

LEMMA FlagsType ==
  ASSUME NEW fields \in ParserFields
  PROVE  Flags(fields) \in FlagSet
  BY DEF ParserFields, Flags, Fl, FlagSet

LEMMA CurrentState ==
  ASSUME Types
  PROVE  /\ Flags(parser) \in FlagSet /\ Open \subseteq Seq(Ones)
         /\ Current \in State /\ ~Current.broken /\ Current \in Here
         /\ Current.flags = Flags(parser) /\ Current.value = value
         /\ Current.token = this_token /\ Current.open = Open
<1>1. Flags(parser) \in FlagSet
  BY FlagsType DEF Types
<1>2. Open \subseteq Seq(Ones)
  BY DEF Open, Types
<1> HIDE DEF Flags
<1>3. Current \in State
  BY <1>1, <1>2 DEF Types, Current, Status, State
<1> QED  BY <1>1, <1>2, <1>3 DEF Current, Status, Here, St

(* The state at another token, with other brackets open.                   *)
Moved(token, open) == Status(Flags(parser), value, token, open, FALSE)

LEMMA MovedState ==
  ASSUME Types, NEW token \in Tokens, NEW open \in SUBSET Seq(Ones)
  PROVE  /\ Moved(token, open) \in State /\ ~Moved(token, open).broken
         /\ Moved(token, open).token = token /\ Moved(token, open).open = open
<1>1. Flags(parser) \in FlagSet
  BY FlagsType DEF Types
<1> HIDE DEF Flags
<1> QED  BY <1>1 DEF Types, Moved, Status, State

LEMMA MovedToken ==
  ASSUME NEW token, NEW open, NEW t
  PROVE  [Moved(token, open) EXCEPT !.token = t] = Moved(t, open)
<1> DEFINE b == FALSE
<1> HIDE DEF b
<1>1. [Status(Flags(parser), value, token, open, b) EXCEPT !.token = t]
        = Status(Flags(parser), value, t, open, b)
  BY SMT DEF Status
<1> QED  BY <1>1, Zenon DEF Moved, b

LEMMA MovedCurrent ==
  ASSUME NEW t, NEW o
  PROVE  [Current EXCEPT !.token = t, !.open = o] = Moved(t, o)
<1> DEFINE b == FALSE
           f == Flags(parser)
<1> HIDE DEF b, f
<1>1. [Status(f, value, this_token, Open, b) EXCEPT !.token = t] = Status(f, value, t, Open, b)
  BY SMT DEF Status
<1>2. [Status(f, value, t, Open, b) EXCEPT !.open = o] = Status(f, value, t, o, b)
  BY SMT DEF Status
<1>3. [Status(f, value, this_token, Open, b) EXCEPT !.token = t, !.open = o]
        = Status(f, value, t, o, b)
  BY <1>1, <1>2
<1> QED  BY <1>3, Zenon DEF Moved, Current, b, f

LEMMA CurrentValue ==
  ASSUME NEW node
  PROVE  [Current EXCEPT !.value = node] = Status(Flags(parser), node, this_token, Open, FALSE)
<1> DEFINE b == FALSE
           f == Flags(parser)
<1> HIDE DEF b, f
<1>1. [Status(f, value, this_token, Open, b) EXCEPT !.value = node]
        = Status(f, node, this_token, Open, b)
  BY SMT DEF Status
<1> QED  BY <1>1, Zenon DEF Current, b, f

(* The task at the head of the stack.                                      *)
LEMMA HeadRule ==
  ASSUME IInv, outcome = "parsing", stack # << >>
  PROVE  \E C : Task(Now, {Current}, C) /\ Holds(Rest, C, Final)
  BY HoldsSplit DEF IInv, StackInv, Now, Rest

(* Steps that end, and that only change the stack and the value.           *)
LEMMA EndRule ==
  ASSUME IInv, NEW how \in Outcomes \ {"parsing"}, End(how),
         how = "accepted" /\ ~lenient => brackets = << >>,
         how = "absent expression" => parser.allow_type
  PROVE  IInv'
<1>1. Types'
  BY DEF IInv, Types, End, readerVars
<1>2. (BracketsMatched /\ AbsentOnlyInTypes)'
  BY DEF BracketsMatched, AbsentOnlyInTypes, End
<1>3. StackInv'
  BY DEF StackInv, End
<1> QED  BY <1>1, <1>2, <1>3 DEF IInv

LEMMA ThrowRule == ASSUME IInv, Throw PROVE IInv'
  BY EndRule DEF Throw, Outcomes

LEMMA GoRule ==
  ASSUME IInv, outcome = "parsing", NEW tasks, Holds(tasks, {Current}, Final), Go(tasks)
  PROVE  IInv'
<1>1. Types'
  BY DEF IInv, Types, Go, readerVars
<1>2. (BracketsMatched /\ AbsentOnlyInTypes)'
  BY DEF BracketsMatched, AbsentOnlyInTypes, Go
<1>3. Current' = Current
  BY DEF Go, Current, Open, readerVars
<1>4. StackInv'
  BY <1>3 DEF StackInv, Go
<1> QED  BY <1>1, <1>2, <1>4 DEF IInv

LEMMA GoWithRule ==
  ASSUME IInv, outcome = "parsing", NEW tasks, NEW node \in NodeSet,
         Holds(tasks, {[Current EXCEPT !.value = node]}, Final), GoWith(tasks, node)
  PROVE  IInv'
<1>1. Types'
  BY DEF IInv, Types, GoWith, readerVars
<1>2. (BracketsMatched /\ AbsentOnlyInTypes)'
  BY DEF BracketsMatched, AbsentOnlyInTypes, GoWith
<1>3. /\ parser' = parser /\ value' = node /\ this_token' = this_token
      /\ brackets' = brackets /\ lenient' = lenient
  BY DEF GoWith, readerVars
<1>5. Open' = Open
  BY <1>3 DEF Open
<1>6. Current' = [Current EXCEPT !.value = node]
  BY <1>3, <1>5, CurrentValue, Zenon DEF Current
<1>4. StackInv'
  BY <1>6 DEF StackInv, GoWith
<1> QED  BY <1>1, <1>2, <1>4 DEF IInv

-----------------------------------------------------------------------------
(* The tokens of the lexer.                                                *)
LEMMA MinTwo ==
  ASSUME NEW k \in Nat
  PROVE  Min({2, k}) \in 0 .. 2
<1>1. \E m \in {2, k} : \A j \in {2, k} : m <= j
  BY SMT
<1>2. Min({2, k}) \in {2, k} /\ Min({2, k}) <= 2
  BY <1>1 DEF Min
<1> QED  BY <1>2, SMT

LEMMA ScannableTokens ==
  ASSUME source \in Sources
  PROVE  Scannable \subseteq Tokens
<1>1. source.prefix # << >> => Head(source.prefix) \in Tokens
  BY DEF Sources
<1>2. Gaps \subseteq 0 .. 2
  BY DEF Gaps, Sources
<1>3. Free \subseteq Tokens
  BY <1>2 DEF Free, Sources, Token, Tokens
<1>4. EndToken(0) \in Tokens /\ EndToken(1) \in Tokens /\ NewlineToken \in Tokens
  BY DEF EndToken, NewlineToken, Newline, Token, Tokens, KINDS, Texts
<1> QED  BY <1>1, <1>3, <1>4 DEF Scannable

LEMMA ScanType ==
  ASSUME source \in Sources, NEW token, Scan(token)
  PROVE  source' \in Sources
<1>1. source.prefix # << >> => Tail(source.prefix) \in Seq(Tokens)
  BY DEF Sources
<1>2. source.budget - 1 \in Int
  BY DEF Sources
<1>3. \/ source' = source
      \/ source.prefix # << >> /\ source' = [source EXCEPT !.prefix = Tail(@)]
      \/ source' = [source EXCEPT !.budget = @ - 1]
  BY DEF Scan
<1> QED  BY <1>1, <1>2, <1>3 DEF Sources

LEMMA LexerNextTypes ==
  ASSUME source \in Sources, peek \in Seq(Tokens), NEW token \in Deliverable, LexerNext(token)
  PROVE  token \in Tokens /\ source' \in Sources /\ peek' \in Seq(Tokens)
<1>1. CASE peek # << >>
  BY <1>1 DEF Deliverable, LexerNext
<1>2. CASE peek = << >>
  BY <1>2, ScannableTokens, ScanType DEF Deliverable, LexerNext
<1> QED  BY <1>1, <1>2

(* The next token, whichever it is: comments and newlines within an        *)
(* expression that are read first do not tell.                             *)
LEMMA NextTokenRule ==
  ASSUME IInv, outcome = "parsing", NEW gap \in 0 .. 2, NEW tasks, NextToken(gap, tasks),
         brackets' \in Seq(Ones), lenient' \in BOOLEAN, NEW G,
         \A token \in Tokens : Moved(token, Open') \in G,
         Holds(tasks, G, Final)
  PROVE  IInv'
<1>p. PICK token \in Deliverable :
      LET again == CASE token.kind = "COMMENT" -> <<Skip>>
                     [] is_newline(token) /\ ignore_newline -> <<Advance>>
                     [] OTHER -> << >>
      IN /\ LexerNext(token)
         /\ this_token' = [token EXCEPT !.gap = Min({2, @ + gap})]
         /\ stack' = again \o tasks
         /\ UNCHANGED <<parser, value, outcome>>
  BY DEF NextToken
<1> DEFINE again == CASE token.kind = "COMMENT" -> <<Skip>>
                      [] is_newline(token) /\ ignore_newline -> <<Advance>>
                      [] OTHER -> << >>
<1>q. /\ LexerNext(token)
      /\ this_token' = [token EXCEPT !.gap = Min({2, @ + gap})]
      /\ stack' = again \o tasks
      /\ parser' = parser /\ value' = value /\ outcome' = outcome
  BY <1>p
<1>0. Types
  BY DEF IInv
<1>1. token \in Tokens /\ source' \in Sources /\ peek' \in Seq(Tokens)
  BY <1>0, <1>q, LexerNextTypes DEF Types
<1>2. token.gap \in 0 .. 2
  BY <1>1 DEF Tokens
<1>3. Min({2, token.gap + gap}) \in 0 .. 2
  BY <1>2, MinTwo
<1>4. this_token' \in Tokens /\ this_token'.kind = token.kind /\ this_token'.as = token.as
  BY <1>1, <1>3, <1>q DEF Tokens
<1>5. Types'
  BY <1>0, <1>1, <1>4, <1>q DEF Types
<1> DEFINE c == Moved(this_token', Open')
<1>6. Current' = c
  BY <1>q DEF Current, Moved
<1>7. c \in G
  BY <1>4
<1>8. Open' \subseteq Seq(Ones)
  BY DEF Open
<1>9. c \in State /\ ~c.broken /\ c.token = this_token' /\ c.open = Open'
  BY <1>0, <1>4, <1>8, MovedState
<1>10. ASSUME NEW p \in State, p = [c EXCEPT !.token = p.token]
       PROVE  p \in G
  <2>1. p.token \in Tokens
    BY DEF State
  <2>2. p = Moved(p.token, Open')
    BY <1>10, MovedToken
  <2> QED  BY <2>1, <2>2
<1> HIDE DEF c
<1>11. ASSUME token.kind = "COMMENT" PROVE Holds(again \o tasks, {c}, Final)
  <2>1. SimpleValid(Skip, {c}, G)
    BY <1>10 DEF SimpleValid, Skip, Steps, Renewed
  <2>2. Task(Skip, {c}, G)
    BY <2>1, <1>9, SimpleTask DEF Skip, Branching
  <2>3. Holds(<<Skip>>, {c}, G)
    BY <2>2, Chain1
  <2>4. Holds(<<Skip>> \o tasks, {c}, Final)
    BY <2>3, HoldsConcat
  <2>5. again = <<Skip>>
    BY <1>11 DEF is_newline
  <2> QED  BY <2>4, <2>5
<1>12. ASSUME token.kind # "COMMENT", is_newline(token), ignore_newline
       PROVE  Holds(again \o tasks, {c}, Final)
  <2>1. Is(c.token, {NEWLINE})
    BY <1>4, <1>9, <1>12 DEF is_newline, Is, NEWLINE
  <2>2. ~Is(c.token, AllBrackets)
    BY <2>1, NeutralTokens, NeutralSeparators
  <2>3. Passed({c}) \subseteq G
    <3> SUFFICES ASSUME NEW p \in State,
                        p = [c EXCEPT !.token = p.token,
                               !.open = {Bracketed(o, c.token) : o \in c.open}]
                 PROVE  p \in G
      BY DEF Passed
    <3>1. {Bracketed(o, c.token) : o \in c.open} = c.open
      BY <2>2, Unbracketed
    <3>2. p = [c EXCEPT !.token = p.token]
      BY <1>9, <3>1 DEF State
    <3> QED  BY <3>2, <1>10
  <2>4. SimpleValid(Advance, {c}, G)
    BY <2>3 DEF SimpleValid, Advance, Steps
  <2>5. Task(Advance, {c}, G)
    BY <2>4, <1>9, SimpleTask DEF Advance, Branching
  <2>6. Holds(<<Advance>>, {c}, G)
    BY <2>5, Chain1
  <2>7. Holds(<<Advance>> \o tasks, {c}, Final)
    BY <2>6, HoldsConcat
  <2>8. again = <<Advance>>
    BY <1>12
  <2> QED  BY <2>7, <2>8
<1>13. ASSUME token.kind # "COMMENT", ~(is_newline(token) /\ ignore_newline)
       PROVE  Holds(again \o tasks, {c}, Final)
  <2>1. Holds(tasks, {c}, Final)
    BY <1>7, HoldsMono
  <2>2. << >> \o tasks = tasks
    BY HoldsSeq, ConcatIsSeq, EmptyIsSeq
  <2>3. again = << >>
    BY <1>13
  <2> QED  BY <2>1, <2>2, <2>3
<1>14. Holds(again \o tasks, {c}, Final)
  BY <1>11, <1>12, <1>13
<1> HIDE DEF again
<1>15. StackInv'
  BY <1>14, <1>6, <1>q DEF StackInv
<1>16. (BracketsMatched /\ AbsentOnlyInTypes)'
  BY <1>q DEF BracketsMatched, AbsentOnlyInTypes
<1> QED  BY <1>5, <1>15, <1>16 DEF IInv

LEMMA AdvanceStep ==
  ASSUME IInv, outcome = "parsing", NEW tasks, advancep(tasks), UNCHANGED lenient,
         Holds(tasks, Passed({Current}), Final)
  PROVE  IInv'
<1>0. Types
  BY DEF IInv
<1>1. brackets' = Bracketed(brackets, this_token) /\ NextToken(0, tasks)
  BY DEF advancep
<1>2. brackets' \in Seq(Ones) /\ lenient' \in BOOLEAN
  BY <1>0, <1>1, BracketedSeq DEF Types
<1>3. Open' = {Bracketed(o, this_token) : o \in Open}
  BY <1>1 DEF Open
<1>4. Open' \subseteq Seq(Ones)
  BY <1>2 DEF Open
<1>5. ASSUME NEW token \in Tokens
      PROVE  Moved(token, Open') \in Passed({Current})
  <2> DEFINE p == Moved(token, Open')
  <2>1. p \in State /\ p.token = token
    BY <1>0, <1>4, MovedState
  <2>2. p = [Current EXCEPT !.token = p.token,
               !.open = {Bracketed(o, Current.token) : o \in Current.open}]
    BY <1>0, <1>3, <2>1, MovedCurrent, CurrentState
  <2> HIDE DEF p
  <2>3. p \in Passed({Current})
    BY <2>1, <2>2 DEF Passed
  <2> QED  BY <2>3 DEF p
<1> DEFINE G == Passed({Current})
<1>6. 0 \in 0 .. 2 /\ \A token \in Tokens : Moved(token, Open') \in G
  BY <1>5
<1>7. Holds(tasks, G, Final)
  OBVIOUS
<1> HIDE DEF G
<1> QED  BY <1>1, <1>2, <1>6, <1>7, NextTokenRule

(* The operator for which an in is taken.                                  *)
LEMMA LenientStep ==
  ASSUME IInv, outcome = "parsing", NEW tasks, advancep(tasks), lenient' = TRUE,
         Holds(tasks, Blurred({Current}), Final)
  PROVE  IInv'
<1>0. Types
  BY DEF IInv
<1>1. brackets' = Bracketed(brackets, this_token) /\ NextToken(0, tasks)
  BY DEF advancep
<1>2. brackets' \in Seq(Ones) /\ lenient' \in BOOLEAN
  BY <1>0, <1>1, BracketedSeq DEF Types
<1>3. Open' = {}
  BY DEF Open
<1>5. ASSUME NEW token \in Tokens
      PROVE  Moved(token, Open') \in Blurred({Current})
  <2> DEFINE p == Moved(token, Open')
  <2>1. p \in State /\ p.token = token
    BY <1>0, <1>3, MovedState
  <2>2. p = [Current EXCEPT !.token = p.token, !.open = {}]
    BY <1>0, <1>3, <2>1, MovedCurrent
  <2> HIDE DEF p
  <2>3. p \in Blurred({Current})
    BY <2>1, <2>2 DEF Blurred
  <2> QED  BY <2>3 DEF p
<1> DEFINE G == Blurred({Current})
<1>6. 0 \in 0 .. 2 /\ \A token \in Tokens : Moved(token, Open') \in G
  BY <1>5
<1>7. Holds(tasks, G, Final)
  OBVIOUS
<1> HIDE DEF G
<1> QED  BY <1>1, <1>2, <1>6, <1>7, NextTokenRule

-----------------------------------------------------------------------------
(* Each of the tasks but the calls keeps the invariant.                    *)
LEMMA TokenInv ==
  ASSUME IInv, AdvanceToken \/ SkipComment \/ ExpectToken
  PROVE  IInv'
<1>0. outcome = "parsing" /\ stack # << >>
  BY DEF AdvanceToken, SkipComment, ExpectToken, Doing
<1> PICK C : Task(Now, {Current}, C) /\ Holds(Rest, C, Final)
  BY <1>0, HeadRule
<1>1. SimpleValid(Now, {Current}, C)
  BY TaskSimple
<1>2. CASE AdvanceToken
  <2>1. Passed({Current}) \subseteq C
    BY <1>1, <1>2 DEF SimpleValid, AdvanceToken, Doing
  <2>2. Holds(Rest, Passed({Current}), Final)
    BY <2>1, HoldsMono
  <2> QED  BY <1>0, <1>2, <2>2, AdvanceStep DEF AdvanceToken
<1>3. CASE SkipComment
  <2>1. Renewed({Current}) \subseteq C
    BY <1>1, <1>3 DEF SimpleValid, SkipComment, Doing
  <2>2. /\ NextToken(this_token.gap, Rest) /\ lenient' = lenient /\ brackets' = brackets
        /\ Types
    BY <1>3 DEF SkipComment, IInv
  <2>3. this_token.gap \in 0 .. 2 /\ brackets' \in Seq(Ones) /\ lenient' \in BOOLEAN
    BY <2>2 DEF Types, Tokens
  <2>4. Open' = Open /\ Open \subseteq Seq(Ones)
    BY <2>2, <2>3 DEF Open
  <2>5. ASSUME NEW token \in Tokens
        PROVE  Moved(token, Open') \in C
    <3> DEFINE p == Moved(token, Open)
    <3>1. p \in State /\ p.token = token
      BY <2>2, <2>4, MovedState
    <3>2. p = [Current EXCEPT !.token = token]
      <4>1. Current = Moved(this_token, Open)
        BY Zenon DEF Moved, Current
      <4> QED  BY <4>1, MovedToken
    <3> HIDE DEF p
    <3>3. p \in Renewed({Current})
      BY <3>1, <3>2 DEF Renewed
    <3> QED  BY <2>1, <2>4, <3>3 DEF p
  <2> QED  BY <1>0, <2>2, <2>3, <2>5, NextTokenRule
<1>4. CASE ExpectToken
  <2>0. Now.do = "expect"
    BY <1>4 DEF ExpectToken, Doing
  <2>1. Passed(Seen({Current}, Now.ones)) \subseteq C /\ Blurred({Current}) \subseteq C
    BY <1>1, <2>0 DEF SimpleValid
  <2>2. CASE This(Now.ones)
    <3>1. Seen({Current}, Now.ones) = {Current}
      BY <2>2, CurrentState DEF Seen, This, IInv
    <3>2. Holds(Rest, Passed({Current}), Final)
      BY <2>1, <3>1, HoldsMono
    <3>3. advancep(Rest) /\ lenient' = lenient
      BY <1>4, <2>2 DEF ExpectToken, IInv, Types
    <3> QED  BY <1>0, <3>2, <3>3, AdvanceStep
  <2>3. CASE ~This(Now.ones) /\ TakenForIn(Now.ones)
    <3>1. Holds(Rest, Blurred({Current}), Final)
      BY <2>1, HoldsMono
    <3>2. advancep(Rest) /\ lenient' = TRUE
      BY <1>4, <2>3 DEF ExpectToken
    <3> QED  BY <1>0, <3>1, <3>2, LenientStep
  <2>4. CASE ~This(Now.ones) /\ ~TakenForIn(Now.ones)
    BY <1>4, <2>4, ThrowRule DEF ExpectToken
  <2> QED  BY <2>2, <2>3, <2>4
<1> QED  BY <1>2, <1>3, <1>4

(* One more task, or a list of tasks, before the rest.                     *)
LEMMA ThenRest ==
  ASSUME NEW l, NEW A, NEW C, Holds(l, A, C), Holds(Rest, C, Final)
  PROVE  Holds(l \o Rest, A, Final)
  BY HoldsConcat

LEMMA SeenCurrent ==
  ASSUME IInv, NEW ones
  PROVE  /\ This(ones) => Seen({Current}, ones) = {Current}
         /\ ~This(ones) => Unseen({Current}, ones) = {Current}
  BY CurrentState DEF Seen, Unseen, This, IInv

LEMMA AcceptInv ==
  ASSUME IInv, AcceptToken \/ TestToken
  PROVE  IInv'
<1>0. outcome = "parsing" /\ stack # << >>
  BY DEF AcceptToken, TestToken, Doing
<1> PICK C : Task(Now, {Current}, C) /\ Holds(Rest, C, Final)
  BY <1>0, HeadRule
<1>1. CASE AcceptToken
  <2>0. Now.do = "accept"
    BY <1>1 DEF AcceptToken, Doing
  <2>1. /\ Holds(Now.then, Passed(Seen({Current}, Now.ones)), C)
        /\ Holds(Now.else, Unseen({Current}, Now.ones), C)
    BY <2>0, TaskBranch
  <2>2. CASE This(Now.ones)
    <3>1. Holds(Now.then \o Rest, Passed({Current}), Final)
      BY <2>1, <2>2, SeenCurrent, ThenRest
    <3>2. advancep(Now.then \o Rest) /\ lenient' = lenient
      BY <1>1, <2>2 DEF AcceptToken
    <3> QED  BY <1>0, <3>1, <3>2, AdvanceStep
  <2>3. CASE ~This(Now.ones)
    <3>1. Holds(Now.else \o Rest, {Current}, Final)
      BY <2>1, <2>3, SeenCurrent, ThenRest
    <3>2. Go(Now.else \o Rest)
      BY <1>1, <2>3 DEF AcceptToken
    <3> QED  BY <1>0, <3>1, <3>2, GoRule
  <2> QED  BY <2>2, <2>3
<1>2. CASE TestToken
  <2>0. Now.do = "when"
    BY <1>2 DEF TestToken, Doing
  <2>1. /\ Holds(Now.then, Seen({Current}, Now.ones), C)
        /\ Holds(Now.else, Unseen({Current}, Now.ones), C)
    BY <2>0, TaskBranch
  <2>2. Holds((IF This(Now.ones) THEN Now.then ELSE Now.else) \o Rest, {Current}, Final)
    BY <2>1, SeenCurrent, ThenRest
  <2>3. Go((IF This(Now.ones) THEN Now.then ELSE Now.else) \o Rest)
    BY <1>2 DEF TestToken
  <2> QED  BY <1>0, <2>2, <2>3, GoRule
<1> QED  BY <1>1, <1>2

(* A loop: its task is left on the stack for the next pass.                *)
LEMMA WhileAgain ==
  ASSUME NEW t, t.do = "while" \/ t.do = "until", NEW I, NEW C,
         t.do = "while" => /\ Holds(t.body, Seen(Unbroken(I), t.ones), I)
                           /\ Unseen(Unbroken(I), t.ones) \subseteq C,
         t.do = "until" => /\ Holds(t.body, Unseen(Unbroken(I), t.ones), I)
                           /\ Seen(Unbroken(I), t.ones) \subseteq C,
         Mended(I) \subseteq C
  PROVE  Task(t, I, C)
<1>1. t.do \notin Steps /\ t.do \in Branching
  BY DEF Steps, Branching
<1>2. SimpleValid(t, I, C)
  BY <1>1 DEF SimpleValid
<1>3. CASE t.do = "while"
  <2> PICK J : Closed(J) /\ In(J, t.body, Seen(Unbroken(I), t.ones), I)
    BY <1>3 DEF Holds
  <2>1. BranchValid(J, t, I, C)
    BY <1>3 DEF BranchValid
  <2> QED  BY <1>2, <1>3, <2>1 DEF Task, Valid
<1>4. CASE t.do = "until"
  <2> PICK J : Closed(J) /\ In(J, t.body, Unseen(Unbroken(I), t.ones), I)
    BY <1>4 DEF Holds
  <2>1. BranchValid(J, t, I, C)
    BY <1>4 DEF BranchValid
  <2> QED  BY <1>2, <1>4, <2>1 DEF Task, Valid
<1> QED  BY <1>3, <1>4

LEMMA BrokenCurrent ==
  ASSUME IInv
  PROVE  /\ \E p \in Broken({Current}) : p.broken
         /\ \A I : Broken({Current}) \subseteq I => Current \in Mended(I)
<1> DEFINE b == TRUE
           c == FALSE
           f == Flags(parser)
           p == Status(f, value, this_token, Open, b)
           q == Status(f, value, this_token, Open, c)
<1>1. Current = q
  BY Zenon DEF Current
<1> HIDE DEF b, c, f
<1>2. p = [q EXCEPT !.broken = b] /\ q = [p EXCEPT !.broken = c]
  BY SMT DEF Status
<1>3. q \in State
  BY <1>1, CurrentState DEF IInv
<1>4. p \in State /\ p.broken = TRUE
  BY <1>3, <1>2 DEF State, b
<1> HIDE DEF p, q
<1>5. p \in Broken({Current})
  BY <1>1, <1>2, <1>4 DEF Broken, b
<1>6. ASSUME NEW I, Broken({Current}) \subseteq I PROVE Current \in Mended(I)
  BY <1>1, <1>2, <1>3, <1>4, <1>5, <1>6 DEF Mended, c
<1> QED  BY <1>4, <1>5, <1>6

LEMMA LoopInv == ASSUME IInv, Loop PROVE IInv'
<1>0. outcome = "parsing" /\ stack # << >>
  BY DEF Loop, Doing
<1> PICK C : Task(Now, {Current}, C) /\ Holds(Rest, C, Final)
  BY <1>0, HeadRule
<1>1. IsSeq(stack) /\ stack = <<Now>> \o Rest
  BY <1>0, HoldsSeq, SplitSeq DEF IInv, StackInv, Now, Rest
<1>2. ~Current.broken
  BY CurrentState DEF IInv
<1>3. CASE Now.do = "while"
  <2> PICK I : /\ {Current} \subseteq I /\ Holds(Now.body, Seen(Unbroken(I), Now.ones), I)
               /\ Unseen(Unbroken(I), Now.ones) \subseteq C /\ Mended(I) \subseteq C
    BY <1>3, TaskBranch
  <2>1. Holds(stack, I, Final)
    BY <1>0, <1>1, <1>3, WhileAgain, HoldsCons DEF Now, Rest
  <2>2. CASE This(Now.ones)
    <3>1. Current \in Seen(Unbroken(I), Now.ones)
      BY <1>2, <2>2, CurrentState DEF Seen, Unbroken, This, IInv
    <3>2. Holds(Now.body \o stack, {Current}, Final)
      BY <2>1, <3>1, HoldsConcat, HoldsMono
    <3> QED  BY <1>0, <1>3, <2>2, <3>2, GoRule DEF Loop, Doing
  <2>3. CASE ~This(Now.ones)
    <3>1. Current \in C
      BY <1>2, <2>3, CurrentState DEF Unseen, Unbroken, This, IInv
    <3>2. Holds(Rest, {Current}, Final)
      BY <3>1, HoldsMono
    <3> QED  BY <1>0, <1>3, <2>3, <3>2, GoRule DEF Loop, Doing
  <2> QED  BY <2>2, <2>3
<1>4. CASE Now.do = "until"
  <2> PICK I : /\ {Current} \subseteq I /\ Holds(Now.body, Unseen(Unbroken(I), Now.ones), I)
               /\ Seen(Unbroken(I), Now.ones) \subseteq C /\ Mended(I) \subseteq C
    BY <1>4, TaskBranch
  <2>1. Holds(stack, I, Final)
    BY <1>0, <1>1, <1>4, WhileAgain, HoldsCons DEF Now, Rest
  <2>2. CASE ~This(Now.ones)
    <3>1. Current \in Unseen(Unbroken(I), Now.ones)
      BY <1>2, <2>2, CurrentState DEF Unseen, Unbroken, This, IInv
    <3>2. Holds(Now.body \o stack, {Current}, Final)
      BY <2>1, <3>1, HoldsConcat, HoldsMono
    <3> QED  BY <1>0, <1>4, <2>2, <3>2, GoRule DEF Loop, Doing
  <2>3. CASE This(Now.ones)
    <3>1. Current \in C
      BY <1>2, <2>3, CurrentState DEF Seen, Unbroken, This, IInv
    <3>2. Holds(Rest, {Current}, Final)
      BY <3>1, HoldsMono
    <3> QED  BY <1>0, <1>4, <2>3, <3>2, GoRule DEF Loop, Doing
  <2> QED  BY <2>2, <2>3
<1>5. CASE Now.do = "break"
  <2>1. Broken({Current}) \subseteq C
    BY <1>5, TaskSimple DEF SimpleValid
  <2>2. PICK p \in C : p.broken
    BY <2>1, BrokenCurrent
  <2>3. Rest # << >>
    BY <2>2, HoldsEmpty DEF Final
  <2> PICK D : Task(Head(Rest), C, D) /\ Holds(Tail(Rest), D, Final)
    BY <2>3, HoldsSplit
  <2>4. Head(Rest).do \in {"while", "until"}
    BY <2>2, TaskSimple
  <2>5. PICK I : C \subseteq I /\ Mended(I) \subseteq D
    BY <2>4, TaskBranch
  <2>6. Current \in D
    BY <2>1, <2>5, BrokenCurrent
  <2>7. Holds(Tail(Rest), {Current}, Final)
    BY <2>6, HoldsMono
  <2> QED  BY <1>0, <1>5, <2>7, GoRule DEF Loop, Doing
<1> QED  BY <1>3, <1>4, <1>5 DEF Loop, Doing

LEMMA SetFieldInv == ASSUME IInv, SetField PROVE IInv'
<1>0. outcome = "parsing" /\ stack # << >>
  BY DEF SetField, Doing
<1> PICK C : Task(Now, {Current}, C) /\ Holds(Rest, C, Final)
  BY <1>0, HeadRule
<1>1. SimpleValid(Now, {Current}, C)
  BY TaskSimple
<1>2. Types /\ parser \in ParserFields
  BY DEF IInv, Types
<1>3. /\ stack' = Rest /\ value' = value /\ this_token' = this_token /\ outcome' = outcome
      /\ brackets' = brackets /\ lenient' = lenient /\ source' = source /\ peek' = peek
  BY DEF SetField, readerVars
<1>4. Open' = Open
  BY <1>3 DEF Open
<1>5. ASSUME NEW fields \in ParserFields, parser' = fields,
             [Current EXCEPT !.flags = Flags(fields)] \in C
      PROVE  IInv'
  <2>1. Current' = [Current EXCEPT !.flags = Flags(fields)]
    <3> DEFINE b == FALSE
               f == Flags(parser)
               g == Flags(fields)
    <3>1. Current' = Status(g, value, this_token, Open, b)
      BY <1>3, <1>4, <1>5, Zenon DEF Current
    <3>2. Current = Status(f, value, this_token, Open, b)
      BY Zenon DEF Current
    <3> HIDE DEF b, f, g
    <3>3. [Status(f, value, this_token, Open, b) EXCEPT !.flags = g]
            = Status(g, value, this_token, Open, b)
      BY SMT DEF Status
    <3>4. Current' = [Current EXCEPT !.flags = g]
      BY <3>1, <3>2, <3>3
    <3> QED  BY <3>4, Zenon DEF g
  <2>2. Holds(Rest, {Current'}, Final)
    BY <1>5, <2>1, HoldsMono
  <2>3. StackInv'
    BY <1>3, <2>2 DEF StackInv
  <2>4. Types'
    BY <1>2, <1>3, <1>5 DEF Types
  <2>5. (BracketsMatched /\ AbsentOnlyInTypes)'
    BY <1>0, <1>3 DEF BracketsMatched, AbsentOnlyInTypes
  <2> QED  BY <2>3, <2>4, <2>5 DEF IInv
<1>6. CASE Now.do = "set"
  <2> DEFINE fields == Now.fields
             new == [field \in DOMAIN parser |->
                       IF field \in DOMAIN fields THEN fields[field] ELSE parser[field]]
             S == Setting(Flags(parser), fields)
  <2>1. parser' = new
    BY <1>6 DEF SetField, Doing
  <2>2. /\ Setting(Current.flags, fields) \in FlagSet
        /\ "this_procedure" \in DOMAIN fields => fields.this_procedure \in BOOLEAN
        /\ [Current EXCEPT !.flags = Setting(@, fields)] \in C
    BY <1>1, <1>6 DEF SimpleValid
  <2>3. Current.flags = Flags(parser)
    BY <1>2, CurrentState
  <2>4. S \in FlagSet
    BY <2>2, <2>3
  <2>5. DOMAIN parser = {"expression_depth", "allow_newline", "allow_type", "allow_in",
                         "this_procedure"}
    BY <1>2 DEF ParserFields
  <2>6. /\ new.expression_depth = S.expression_depth /\ new.allow_newline = S.allow_newline
        /\ new.allow_type = S.allow_type /\ new.allow_in = S.allow_in
    BY <2>5 DEF Setting, Flags, Fl
  <2>7. new.this_procedure \in BOOLEAN
    BY <1>2, <2>2, <2>5 DEF ParserFields
  <2>8. Flags(new) = S
    BY <2>6 DEF Flags, Setting, Fl
  <2>9. new \in ParserFields
    <3>1. DOMAIN new = DOMAIN parser
      OBVIOUS
    <3>2. /\ new.expression_depth \in Nat \cup {-1} /\ new.allow_newline \in BOOLEAN
          /\ new.allow_type \in BOOLEAN /\ new.allow_in \in BOOLEAN
      BY <2>4, <2>6 DEF FlagSet
    <3>3. new = [expression_depth |-> new.expression_depth,
                 allow_newline |-> new.allow_newline, allow_type |-> new.allow_type,
                 allow_in |-> new.allow_in, this_procedure |-> new.this_procedure]
      BY <2>5
    <3> HIDE DEF new
    <3> QED  BY <2>7, <3>2, <3>3 DEF ParserFields
  <2> HIDE DEF new, S
  <2>10. [Current EXCEPT !.flags = S] \in C
    BY <2>2, <2>3 DEF S
  <2> QED  BY <1>5, <2>1, <2>8, <2>9, <2>10
<1>7. CASE Now.do = "deeper"
  <2> DEFINE k == parser.expression_depth + Now.by
             new == [parser EXCEPT !.expression_depth = k]
  <2>1. parser' = new
    BY <1>7 DEF SetField, Doing
  <2>2. /\ Current.flags.expression_depth + Now.by \in Nat \cup {-1}
        /\ [Current EXCEPT !.flags.expression_depth = @ + Now.by] \in C
    BY <1>1, <1>7 DEF SimpleValid
  <2>3. Current.flags = Flags(parser) /\ Flags(parser).expression_depth = parser.expression_depth
    BY <1>2, CurrentState DEF Flags, Fl
  <2>4. k \in Nat \cup {-1}
    BY <2>2, <2>3
  <2> HIDE DEF k
  <2>5. new \in ParserFields
    BY <1>2, <2>4 DEF ParserFields
  <2>6. Flags(new) = [Flags(parser) EXCEPT !.expression_depth = k]
    BY <1>2 DEF Flags, Fl, ParserFields
  <2>7. [Current EXCEPT !.flags = Flags(new)] \in C
    BY <2>2, <2>3, <2>6 DEF k
  <2> HIDE DEF new
  <2> QED  BY <1>5, <2>1, <2>5, <2>7
<1> QED  BY <1>6, <1>7 DEF SetField, Doing

LEMMA NodeInv == ASSUME IInv, MakeNode \/ CheckNode \/ Choose PROVE IInv'
<1>0. outcome = "parsing" /\ stack # << >>
  BY DEF MakeNode, CheckNode, Choose, Doing
<1> PICK C : Task(Now, {Current}, C) /\ Holds(Rest, C, Final)
  BY <1>0, HeadRule
<1>1. SimpleValid(Now, {Current}, C)
  BY TaskSimple
<1>2. Current.value = value /\ Current.flags = Flags(parser)
  BY CurrentState DEF IInv
<1>3. ASSUME Current \in C PROVE Holds(Rest, {Current}, Final)
  BY <1>3, HoldsMono
<1>4. ASSUME NEW node, [Current EXCEPT !.value = node] \in C
      PROVE  Holds(Rest, {[Current EXCEPT !.value = node]}, Final)
  BY <1>4, HoldsMono
<1>5. CASE Doing("make") /\ GoWith(Rest, Now.node)
  <2>1. Now.node \in NodeSet /\ [Current EXCEPT !.value = Now.node] \in C
    BY <1>1, <1>5 DEF SimpleValid, Doing
  <2> QED  BY <1>0, <1>4, <1>5, <2>1, GoWithRule
<1>6. CASE Doing("apply") /\ GoWith(Rest, Made(Now.f, value))
  <2>1. Made(Now.f, value) \in NodeSet /\ [Current EXCEPT !.value = Made(Now.f, value)] \in C
    BY <1>1, <1>2, <1>6 DEF SimpleValid, Doing
  <2> QED  BY <1>0, <1>4, <1>6, <2>1, GoWithRule
<1>7. CASE Doing("check") /\ IF value.kind \in Now.kinds THEN Go(Rest) ELSE Throw
  <2>1. value.kind \in Now.kinds => Current \in C
    BY <1>1, <1>2, <1>7 DEF SimpleValid, Doing, Kinds
  <2> QED  BY <1>0, <1>3, <1>7, <2>1, GoRule, ThrowRule
<1>8. CASE Doing("refuse") /\ IF value.kind \in Now.kinds THEN Throw ELSE Go(Rest)
  <2>1. value.kind \notin Now.kinds => Current \in C
    BY <1>1, <1>2, <1>8 DEF SimpleValid, Doing, NotKinds
  <2> QED  BY <1>0, <1>3, <1>8, <2>1, GoRule, ThrowRule
<1>9. CASE Doing("inspect") /\ IF value.kind = "NULL" THEN End(Now.what) ELSE Go(Rest)
  <2>1. /\ Now.what \in {"absent expression", "absent statement"}
        /\ Now.what = "absent expression" => Present(Current.flags, Current.value)
        /\ NotKinds({Current}, {"NULL"}) \subseteq C
    BY <1>1, <1>9 DEF SimpleValid, Doing
  <2>2. CASE value.kind = "NULL"
    <3>0. Flags(parser).allow_type = parser.allow_type
      BY DEF Flags, Fl
    <3>1. Now.what = "absent expression" => parser.allow_type
      BY <1>2, <2>1, <2>2, <3>0, Zenon DEF Present
    <3>2. Now.what \in Outcomes \ {"parsing"} /\ Now.what # "accepted"
      BY <2>1 DEF Outcomes
    <3> QED  BY <1>9, <2>2, <3>1, <3>2, EndRule
  <2>3. CASE value.kind # "NULL"
    <3>1. Current \in C
      BY <1>2, <2>1, <2>3 DEF NotKinds
    <3> QED  BY <1>0, <1>3, <1>9, <2>3, <3>1, GoRule
  <2> QED  BY <2>2, <2>3
<1>10. CASE Doing("fail") /\ Throw
  BY <1>10, ThrowRule
<1>11. CASE Doing("misreport") /\ (Throw \/ End("misreported"))
  <2>1. "misreported" \in Outcomes \ {"parsing"}
    BY DEF Outcomes
  <2> QED  BY <1>11, <2>1, ThrowRule, EndRule
<1>12. CASE Choose
  <2>1. Current \in C /\ Holds(Now.then, {Current}, C)
    BY <1>12, TaskBranch DEF Choose, Doing
  <2>2. Holds(Now.then \o Rest, {Current}, Final)
    BY <2>1, ThenRest
  <2> QED  BY <1>0, <1>3, <1>12, <2>1, <2>2, GoRule DEF Choose
<1> QED  BY <1>5, <1>6, <1>7, <1>8, <1>9, <1>10, <1>11, <1>12 DEF MakeNode, CheckNode

(* What is peeked at changes nothing but the lexer's queue.                *)
LEMMA PeekInv == ASSUME IInv, PeekToken PROVE IInv'
<1>0. outcome = "parsing" /\ stack # << >> /\ Now.do = "peek"
  BY DEF PeekToken, Doing
<1> PICK C : Task(Now, {Current}, C) /\ Holds(Rest, C, Final)
  BY <1>0, HeadRule
<1>1. {Current} \subseteq C
  BY <1>0, TaskSimple DEF SimpleValid
<1>2. PICK token \in Scannable :
        /\ LexerPeek(token)
        /\ stack' = stack \/ stack' = Rest
        /\ UNCHANGED <<parser, value, outcome, brackets, lenient>>
  BY DEF PeekToken
<1>3. Types
  BY DEF IInv
<1>4. token \in Tokens /\ source' \in Sources
  BY <1>2, <1>3, ScannableTokens, ScanType DEF Types, LexerPeek
<1>5. peek' \in Seq(Tokens) /\ this_token' = this_token
  BY <1>2, <1>3, <1>4 DEF Types, LexerPeek
<1>6. Types'
  BY <1>2, <1>3, <1>4, <1>5 DEF Types
<1>7. Current' = Current
  BY <1>2, <1>5 DEF Current, Open
<1>8. Holds(Rest, {Current}, Final)
  BY <1>1, HoldsMono
<1>9. StackInv'
  BY <1>0, <1>2, <1>7, <1>8 DEF StackInv, IInv
<1>10. (BracketsMatched /\ AbsentOnlyInTypes)'
  BY <1>0, <1>2 DEF BracketsMatched, AbsentOnlyInTypes
<1> QED  BY <1>6, <1>9, <1>10 DEF IInv

LEMMA SeparatorInv == ASSUME IInv, accepted_separator PROVE IInv'
<1>0. outcome = "parsing" /\ stack # << >>
  BY DEF accepted_separator, Doing
<1> PICK C : Task(Now, {Current}, C) /\ Holds(Rest, C, Final)
  BY <1>0, HeadRule
<1>1. CASE Now.do = "separator"
  <2> DEFINE ones == {Op("COMMA"), NEWLINE}
  <2>1. Holds(Now.then, Passed(Seen({Current}, ones)), C) /\ Holds(Now.else, {Current}, C)
    BY <1>1, TaskBranch
  <2>2. Holds(Now.else \o Rest, {Current}, Final)
    BY <2>1, ThenRest
  <2>3. \/ This({Op("COMMA")}) /\ advancep(Now.then \o Rest) /\ UNCHANGED lenient
        \/ This({NEWLINE}) /\ Go(<<Peek, Separated>> \o Now.then \o Rest)
        \/ Throw
        \/ Go(Now.else \o Rest)
    BY <1>1 DEF accepted_separator, Doing
  <2>6. CASE This({Op("COMMA")}) /\ advancep(Now.then \o Rest) /\ UNCHANGED lenient
    <3>1. This(ones)
      BY <2>6 DEF This, Is
    <3>2. Holds(Now.then, Passed({Current}), C)
      BY <2>1, <3>1, SeenCurrent
    <3>3. Holds(Now.then \o Rest, Passed({Current}), Final)
      BY <3>2, ThenRest
    <3> QED  BY <1>0, <2>6, <3>3, AdvanceStep
  <2>7. CASE This({NEWLINE}) /\ Go(<<Peek, Separated>> \o Now.then \o Rest)
    <3>1. This(ones)
      BY <2>7 DEF This, Is
    <3>2. Holds(<<Peek, Separated>>, {Current}, Passed({Current}))
      <4>1. ~Current.broken
        BY CurrentState DEF IInv
      <4>2. Task(Peek, {Current}, {Current})
        <5>1. SimpleValid(Peek, {Current}, {Current})
          BY DEF SimpleValid, Peek, Steps
        <5> QED  BY <4>1, <5>1, SimpleTask DEF Peek, Branching
      <4>3. Task(Separated, {Current}, Passed({Current}))
        <5>1. SimpleValid(Separated, {Current}, Passed({Current}))
          BY DEF SimpleValid, Separated, Steps
        <5> QED  BY <4>1, <5>1, SimpleTask DEF Separated, Branching
      <4> QED  BY <4>2, <4>3, Chain2
    <3>3. Holds(Now.then, Passed({Current}), C)
      BY <2>1, <3>1, SeenCurrent
    <3>4. Holds(<<Peek, Separated>> \o Now.then, {Current}, C)
      BY <3>2, <3>3, HoldsConcat
    <3>5. Holds((<<Peek, Separated>> \o Now.then) \o Rest, {Current}, Final)
      BY <3>4, ThenRest
    <3> QED  BY <1>0, <2>7, <3>5, GoRule
  <2> QED  BY <1>0, <2>2, <2>3, <2>6, <2>7, GoRule, ThrowRule
<1>2. CASE Now.do = "separated"
  <2>0. SimpleValid(Now, {Current}, C)
    BY TaskSimple
  <2>1. Passed({Current}) \subseteq C
    BY <1>2, <2>0 DEF SimpleValid
  <2>2. Holds(Rest, Passed({Current}), Final)
    BY <2>1, HoldsMono
  <2>3. (advancep(Rest) /\ UNCHANGED lenient) \/ Throw
    BY <1>2 DEF accepted_separator, Doing
  <2> QED  BY <1>0, <2>2, <2>3, AdvanceStep, ThrowRule
<1> QED  BY <1>1, <1>2 DEF accepted_separator, Doing

LEMMA ControlInv == ASSUME IInv, accepted_control_statement_separator PROVE IInv'
<1>0. outcome = "parsing" /\ stack # << >>
  BY DEF accepted_control_statement_separator, Doing
<1> PICK C : Task(Now, {Current}, C) /\ Holds(Rest, C, Final)
  BY <1>0, HeadRule
<1> DEFINE ones == {Kind("SEMICOLON")}
<1>1. ASSUME Now.do \in {"control", "control_peeked"}
      PROVE  Holds(Now.then, Passed(Seen({Current}, ones)), C) /\ Holds(Now.else, {Current}, C)
  BY <1>1, TaskBranch
<1>2. CASE Now.do = "control"
  <2>1. Go(<<Peek, ControlPeeked(Now.then, Now.else)>> \o Rest)
    BY <1>2 DEF accepted_control_statement_separator, Doing
  <2>2. ~Current.broken
    BY CurrentState DEF IInv
  <2>3. Task(Peek, {Current}, {Current})
    <3>1. SimpleValid(Peek, {Current}, {Current})
      BY DEF SimpleValid, Peek, Steps
    <3> QED  BY <2>2, <3>1, SimpleTask DEF Peek, Branching
  <2>4. Task(ControlPeeked(Now.then, Now.else), {Current}, C)
    BY <1>1, <1>2, <2>2, ControlTask
  <2>5. Holds(<<Peek, ControlPeeked(Now.then, Now.else)>>, {Current}, C)
    BY <2>3, <2>4, Chain2
  <2>6. Holds(<<Peek, ControlPeeked(Now.then, Now.else)>> \o Rest, {Current}, Final)
    BY <2>5, ThenRest
  <2> QED  BY <1>0, <2>1, <2>6, GoRule
<1>3. CASE Now.do = "control_peeked"
  <2>1. \/ This(ones) /\ advancep(Now.then \o Rest) /\ UNCHANGED lenient
        \/ Go(Now.else \o Rest)
    BY <1>3 DEF accepted_control_statement_separator, Doing
  <2>2. Holds(Now.else \o Rest, {Current}, Final)
    BY <1>1, <1>3, ThenRest
  <2>3. CASE This(ones) /\ advancep(Now.then \o Rest) /\ UNCHANGED lenient
    <3>1. Holds(Now.then, Passed({Current}), C)
      BY <1>1, <1>3, <2>3, SeenCurrent
    <3>2. Holds(Now.then \o Rest, Passed({Current}), Final)
      BY <3>1, ThenRest
    <3> QED  BY <1>0, <2>3, <3>2, AdvanceStep
  <2> QED  BY <1>0, <2>1, <2>2, <2>3, GoRule
<1> QED  BY <1>2, <1>3 DEF accepted_control_statement_separator, Doing

LEMMA NewlineInv ==
  ASSUME IInv, advance_possible_newline_within \/ expect_semicolon \/ Return
  PROVE  IInv'
<1>0. outcome = "parsing" /\ stack # << >>
  BY DEF advance_possible_newline_within, expect_semicolon, Return, Doing
<1> PICK C : Task(Now, {Current}, C) /\ Holds(Rest, C, Final)
  BY <1>0, HeadRule
<1>1. SimpleValid(Now, {Current}, C)
  BY TaskSimple
<1>2. ASSUME Current \in C PROVE Holds(Rest, {Current}, Final)
  BY <1>2, HoldsMono
<1>3. ASSUME Passed({Current}) \subseteq C PROVE Holds(Rest, Passed({Current}), Final)
  BY <1>3, HoldsMono
<1>4. CASE Now.do = "newline_within"
  <2>1. Current \in C /\ Passed(Seen({Current}, {NEWLINE})) \subseteq C
    BY <1>1, <1>4 DEF SimpleValid
  <2>2. Go(IF This({NEWLINE}) THEN <<Peek, WithinPeeked>> \o Rest ELSE Rest)
    BY <1>0, <1>4 DEF advance_possible_newline_within, expect_semicolon, Return, Doing
  <2>3. CASE This({NEWLINE})
    <3>1. Passed({Current}) \subseteq C
      BY <2>1, <2>3, SeenCurrent
    <3>2. ~Current.broken
      BY CurrentState DEF IInv
    <3>3. Task(Peek, {Current}, {Current})
      <4>1. SimpleValid(Peek, {Current}, {Current})
        BY DEF SimpleValid, Peek, Steps
      <4> QED  BY <3>2, <4>1, SimpleTask DEF Peek, Branching
    <3>4. Task(WithinPeeked, {Current}, C)
      <4>1. SimpleValid(WithinPeeked, {Current}, C)
        BY <2>1, <3>1 DEF SimpleValid, WithinPeeked, Steps
      <4> QED  BY <3>2, <4>1, SimpleTask DEF WithinPeeked, Branching
    <3>5. Holds(<<Peek, WithinPeeked>> \o Rest, {Current}, Final)
      BY <3>3, <3>4, Chain2, ThenRest
    <3> QED  BY <1>0, <2>2, <2>3, <3>5, GoRule
  <2>4. CASE ~This({NEWLINE})
    BY <1>0, <1>2, <2>1, <2>2, <2>4, GoRule
  <2> QED  BY <2>3, <2>4
<1>5. CASE Now.do = "within_peeked"
  <2>1. Current \in C /\ Passed({Current}) \subseteq C
    BY <1>1, <1>5 DEF SimpleValid
  <2>2. (advancep(Rest) /\ UNCHANGED lenient) \/ Go(Rest)
    BY <1>0, <1>5 DEF advance_possible_newline_within, expect_semicolon, Return, Doing
  <2> QED  BY <1>0, <1>2, <1>3, <2>1, <2>2, GoRule, AdvanceStep
<1>6. CASE Now.do = "semicolon"
  <2>1. Current \in C /\ Passed(Seen({Current}, {Kind("SEMICOLON")})) \subseteq C
    BY <1>1, <1>6 DEF SimpleValid
  <2>2. \/ This({Kind("SEMICOLON")}) /\ advancep(Rest) /\ UNCHANGED lenient
        \/ Go(Rest) \/ Throw
    BY <1>0, <1>6 DEF advance_possible_newline_within, expect_semicolon, Return, Doing
  <2>3. CASE This({Kind("SEMICOLON")}) /\ advancep(Rest) /\ UNCHANGED lenient
    <3>1. Passed({Current}) \subseteq C
      BY <2>1, <2>3, SeenCurrent
    <3> QED  BY <1>0, <1>3, <2>3, <3>1, AdvanceStep
  <2> QED  BY <1>0, <1>2, <2>1, <2>2, <2>3, GoRule, ThrowRule
<1>7. CASE Now.do = "leave"
  <2>1. Current \in C
    BY <1>1, <1>7 DEF SimpleValid
  <2>2. Go(Rest)
    BY <1>0, <1>7 DEF advance_possible_newline_within, expect_semicolon, Return, Doing
  <2> QED  BY <1>0, <1>2, <2>1, <2>2, GoRule
<1> QED  BY <1>4, <1>5, <1>6, <1>7
         DEF advance_possible_newline_within, expect_semicolon, Return, Doing

(* So does the end of the file.                                            *)
LEMMA AcceptedInv == ASSUME IInv, Accepted PROVE IInv'
<1>1. outcome = "parsing" /\ stack = << >> /\ End("accepted")
  BY DEF Accepted
<1>2. Current \in Final
  BY <1>1, HoldsEmpty DEF IInv, StackInv
<1>3. ~lenient => brackets = << >>
  BY <1>2, CurrentState DEF Final, Open, IInv
<1>4. "accepted" \in Outcomes \ {"parsing"}
  BY DEF Outcomes
<1> QED  BY <1>1, <1>3, <1>4, EndRule

LEMMA MachineInv == ASSUME IInv, Machine PROVE IInv'
  BY TokenInv, AcceptInv, LoopInv, SetFieldInv, NodeInv, PeekInv, SeparatorInv, ControlInv,
     NewlineInv
  DEF Machine

-----------------------------------------------------------------------------
(* A call of a parse function: it pushes its tasks, which are to lead from *)
(* what it finds to what it leaves.                                        *)
LEMMA StepPre ==
  ASSUME IInv, outcome = "parsing", stack # << >>, Now.do \in Steps
  PROVE  Pre(Now, Current)
<1> PICK C : Task(Now, {Current}, C)
  BY HeadRule
<1>1. SimpleValid(Now, {Current}, C)
  BY TaskSimple
<1> QED  BY <1>1 DEF SimpleValid

LEMMA EnterRule ==
  ASSUME IInv, Doing("call"), NEW tasks, Enter(tasks), Holds(tasks, Here, Upon(Now, Current))
  PROVE  IInv'
<1>0. outcome = "parsing" /\ stack # << >> /\ Now.do \in Steps
  BY DEF Doing, Steps
<1> PICK C : Task(Now, {Current}, C) /\ Holds(Rest, C, Final)
  BY <1>0, HeadRule
<1>1. Upon(Now, Current) \subseteq C
  <2>1. SimpleValid(Now, {Current}, C)
    BY TaskSimple
  <2> QED  BY <1>0, <2>1 DEF SimpleValid
<1>2. Current.flags = Flags(parser) /\ Current \in Here
  BY CurrentState DEF IInv
<1>3. \A q \in Upon(Now, Current) : q.flags = Flags(parser) /\ ~q.broken
  BY <1>2 DEF Upon, St
<1> DEFINE t == Leave(Now.f)
<1>4. t.do = "leave" /\ t.entered = parser /\ t.do \notin Branching \cup Steps
  BY DEF Leave, Branching, Steps
<1> HIDE DEF t
<1>5. SimpleValid(t, Upon(Now, Current), C)
  BY <1>1, <1>3, <1>4 DEF SimpleValid
<1>6. Task(t, Upon(Now, Current), C)
  BY <1>3, <1>4, <1>5, SimpleTask
<1>7. Holds(tasks \o <<t>>, Here, C)
  BY <1>6, Chain1, HoldsConcat
<1>8. Holds((tasks \o <<t>>) \o Rest, {Current}, Final)
  BY <1>2, <1>7, HoldsConcat, HoldsMono
<1> QED  BY <1>0, <1>8, GoRule DEF Enter, t

LEMMA StepRule ==
  ASSUME IInv, outcome = "parsing", stack # << >>, Now.do \in Steps, NEW tasks,
         Go(tasks \o Rest), Holds(tasks, Here, Upon(Now, Current))
  PROVE  IInv'
<1> PICK C : Task(Now, {Current}, C) /\ Holds(Rest, C, Final)
  BY HeadRule
<1>1. Upon(Now, Current) \subseteq C
  <2>1. SimpleValid(Now, {Current}, C)
    BY TaskSimple
  <2> QED  BY <2>1 DEF SimpleValid
<1>2. {Current} \subseteq Here
  BY CurrentState DEF IInv
<1>3. Holds(tasks, {Current}, C)
  BY <1>1, <1>2, HoldsMono
<1> QED  BY <1>3, ThenRest, GoRule

LEMMA StepEnds ==
  ASSUME IInv, outcome = "parsing", stack # << >>, Now.do \in Steps, Go(Rest),
         Here \subseteq Upon(Now, Current)
  PROVE  IInv'
<1> PICK C : Task(Now, {Current}, C) /\ Holds(Rest, C, Final)
  BY HeadRule
<1>1. Current \in C
  <2>1. SimpleValid(Now, {Current}, C)
    BY TaskSimple
  <2>2. Upon(Now, Current) \subseteq C
    BY <2>1 DEF SimpleValid
  <2> QED  BY <2>2, CurrentState DEF IInv
<1>2. Holds(Rest, {Current}, Final)
  BY <1>1, HoldsMono
<1> QED  BY <1>2, GoRule

(* What they leave, by their results.                                      *)
LEMMA UponOperand ==
  ASSUME NEW t, NEW q
  PROVE  /\ Name(t) \in OperandTasks \ Closers => Upon(t, q) = St(q.flags, q.open, Solid, Tokens)
         /\ Name(t) \in {"parse_operand", "parse_directive_prefix"} =>
              Upon(t, q) = St(q.flags, q.open, Operand, Tokens)
         /\ Name(t) \in BracketClosers =>
              Upon(t, q) = St(q.flags, {Front(o) : o \in q.open}, Solid, Tokens)
<1>1. /\ Name(t) \in OperandTasks => Results(t, q) = Solid
      /\ Name(t) \in {"parse_operand", "parse_directive_prefix"} => Results(t, q) = Operand
  BY DEF Results, OperandTasks, UnaryTasks, ExprTasks, StatementTasks
<1>2. /\ Name(t) \in OperandTasks \cup {"parse_operand", "parse_directive_prefix"} =>
           Ends(t, q) = Tokens
      /\ Name(t) \in {"parse_operand", "parse_directive_prefix"} => Name(t) \notin Closers
  BY DEF Ends, OperandTasks, Closers, BracketClosers
<1>3. BracketClosers \subseteq OperandTasks /\ BracketClosers \subseteq Closers
  BY DEF BracketClosers, OperandTasks, Closers
<1> QED  BY <1>1, <1>2, <1>3 DEF Upon, OpenAfter

LEMMA UponUnary ==
  ASSUME NEW t, NEW q, Name(t) \in UnaryTasks
  PROVE  Upon(t, q) = St(q.flags, q.open, PresentOperand(q.flags), Tokens)
<1>1. Results(t, q) = PresentOperand(q.flags)
  BY DEF Results, OperandTasks, UnaryTasks, ExprTasks, StatementTasks
<1>2. Ends(t, q) = Tokens /\ OpenAfter(t, q) = q.open
  BY DEF Ends, UnaryTasks, OpenAfter, Closers, BracketClosers
<1> QED  BY <1>1, <1>2 DEF Upon

LEMMA UponExpr ==
  ASSUME NEW t, NEW q
  PROVE  /\ Name(t) = "parse_value" => Upon(t, q) = St(q.flags, q.open, Expr(q.flags), Tokens)
         /\ Name(t) \in {"parse_expression", "parse_ternary_expression"} =>
              Upon(t, q) = St(q.flags, q.open, Expr(q.flags),
                              {token \in Tokens : Stops(q.flags, token, 1)})
         /\ Name(t) = "parse_binary_expression" =>
              Upon(t, q) = St(q.flags, q.open, BinaryExpr(q.flags, t.args.prec),
                              {token \in Tokens : Stops(q.flags, token, t.args.prec)})
         /\ Name(t) = "operators" =>
              Upon(t, q) = St(q.flags, q.open, BinaryExpr(q.flags, t.prec),
                              {token \in Tokens : Stops(q.flags, token, t.prec)})
         /\ Name(t) = "join" => Upon(t, q) = St(q.flags, q.open, {Binary(t.op)}, {q.token})
<1>1. /\ Name(t) \in ExprTasks => Results(t, q) = Expr(q.flags)
      /\ Name(t) = "parse_binary_expression" => Results(t, q) = BinaryExpr(q.flags, t.args.prec)
      /\ Name(t) = "operators" => Results(t, q) = BinaryExpr(q.flags, t.prec)
      /\ Name(t) = "join" => Results(t, q) = {Binary(t.op)}
  BY DEF Results, OperandTasks, UnaryTasks, ExprTasks, StatementTasks
<1>2. /\ Name(t) = "parse_value" => Ends(t, q) = Tokens
      /\ Name(t) \in {"parse_expression", "parse_ternary_expression"} =>
           Ends(t, q) = {token \in Tokens : Stops(q.flags, token, 1)}
      /\ Name(t) = "parse_binary_expression" =>
           Ends(t, q) = {token \in Tokens : Stops(q.flags, token, t.args.prec)}
      /\ Name(t) = "operators" => Ends(t, q) = {token \in Tokens : Stops(q.flags, token, t.prec)}
      /\ Name(t) = "join" => Ends(t, q) = {q.token}
  BY DEF Ends
<1>3. Name(t) \in ExprTasks \cup {"parse_binary_expression", "operators", "join"} =>
        OpenAfter(t, q) = q.open
  BY DEF ExprTasks, OpenAfter, Closers, BracketClosers
<1>4. "parse_value" \in ExprTasks /\ "parse_expression" \in ExprTasks
      /\ "parse_ternary_expression" \in ExprTasks
  BY DEF ExprTasks
<1> QED  BY <1>1, <1>2, <1>3, <1>4 DEF Upon

LEMMA UponType ==
  ASSUME NEW t, NEW q
  PROVE  /\ Name(t) = "parse_type" => Upon(t, q) = St(q.flags, q.open, Typed, Tokens)
         /\ Name(t) = "parse_type_or_identifier" =>
              Upon(t, q) = St(q.flags, q.open, {v \in NodeSet : Plain(v)}, Tokens)
         /\ Name(t) \in {"parse_tuple_expression", "tuple"} =>
              Upon(t, q) = St(q.flags, q.open, Tupled(q.flags), Tokens)
         /\ Name(t) \in StatementTasks => Upon(t, q) = St(q.flags, q.open, Stated(q.flags), Tokens)
<1>1. /\ Name(t) = "parse_type" => Results(t, q) = Typed
      /\ Name(t) = "parse_type_or_identifier" => Results(t, q) = {v \in NodeSet : Plain(v)}
      /\ Name(t) \in {"parse_tuple_expression", "tuple"} => Results(t, q) = Tupled(q.flags)
      /\ Name(t) \in StatementTasks => Results(t, q) = Stated(q.flags)
  BY DEF Results, OperandTasks, UnaryTasks, ExprTasks, StatementTasks
<1>2. Name(t) \in StatementTasks \cup {"parse_type", "parse_type_or_identifier",
                                       "parse_tuple_expression", "tuple"} =>
        Ends(t, q) = Tokens /\ OpenAfter(t, q) = q.open
  BY DEF Ends, StatementTasks, OpenAfter, Closers, BracketClosers
<1> QED  BY <1>1, <1>2 DEF Upon

(* The other ones, of whose results nothing is known.                      *)
Telling ==
  OperandTasks \cup UnaryTasks \cup ExprTasks \cup StatementTasks \cup Closers
  \cup {"parse_operand", "parse_directive_prefix", "parse_binary_expression", "operators", "join",
        "parse_type", "parse_type_or_identifier", "parse_tuple_expression", "tuple"}

All(F, O) == St(F, O, NodeSet, Tokens)

LEMMA UponOther ==
  ASSUME NEW t, NEW q
  PROVE  /\ Name(t) \notin Telling => Upon(t, q) = All(q.flags, q.open)
         /\ Name(t) = "expect_closing" => Upon(t, q) = All(q.flags, {Front(o) : o \in q.open})
<1>1. Name(t) \notin Telling \/ Name(t) = "expect_closing" => Results(t, q) = NodeSet
  BY DEF Results, Telling, OperandTasks, UnaryTasks, ExprTasks, StatementTasks
<1>2. Name(t) \notin Telling \/ Name(t) = "expect_closing" => Ends(t, q) = Tokens
  BY DEF Ends, Telling, ExprTasks
<1>3. /\ Name(t) \notin Telling => OpenAfter(t, q) = q.open
      /\ Name(t) = "expect_closing" => OpenAfter(t, q) = {Front(o) : o \in q.open}
  BY DEF OpenAfter, Telling, Closers
<1> QED  BY <1>1, <1>2, <1>3 DEF Upon, All

-----------------------------------------------------------------------------
(* What a task, or a list of tasks, does wherever the flags are F: it      *)
(* keeps them and the open brackets, and leaves a value of W.  A list is   *)
(* looped if it may also break off the loop that it is the body of.        *)
Giving(F, t, W) == \A O \in SUBSET Seq(Ones) : Task(t, All(F, O), St(F, O, W, Tokens))
Gives(F, l, W) == \A O \in SUBSET Seq(Ones) : Holds(l, All(F, O), St(F, O, W, Tokens))
Looped(F, l) == \A O \in SUBSET Seq(Ones) : Holds(l, All(F, O), Looping(F, O))

LEMMA AllMono ==
  ASSUME NEW F, NEW O, NEW V, NEW W
  PROVE  /\ V \cap NodeSet \subseteq W => St(F, O, V, Tokens) \subseteq St(F, O, W, Tokens)
         /\ St(F, O, V, Tokens) \subseteq All(F, O)
         /\ All(F, O) \subseteq Looping(F, O)
  BY StMono, LoopSets DEF All

LEMMA GivingMono ==
  ASSUME NEW F, NEW t, NEW V, NEW W, Giving(F, t, V), V \cap NodeSet \subseteq W
  PROVE  Giving(F, t, W)
  BY AllMono, TaskMono DEF Giving

LEMMA GivesMono ==
  ASSUME NEW F, NEW l, NEW V, NEW W, Gives(F, l, V), V \cap NodeSet \subseteq W
  PROVE  Gives(F, l, W)
  BY AllMono, HoldsMono DEF Gives

LEMMA GivesNone == ASSUME NEW F PROVE Gives(F, << >>, NodeSet)
  BY HoldsEmpty DEF Gives, All

LEMMA GivesThen ==
  ASSUME NEW F, NEW l, NEW m, NEW W, Gives(F, l, NodeSet), Gives(F, m, W)
  PROVE  Gives(F, l \o m, W)
  BY HoldsConcat DEF Gives, All

LEMMA Gives1 == ASSUME NEW F, NEW a, NEW W, Giving(F, a, W) PROVE Gives(F, <<a>>, W)
  BY Chain1 DEF Giving, Gives

LEMMA Gives2 ==
  ASSUME NEW F, NEW a, NEW b, NEW W, Giving(F, a, NodeSet), Giving(F, b, W)
  PROVE  Gives(F, <<a, b>>, W)
<1> SUFFICES ASSUME NEW O \in SUBSET Seq(Ones)
             PROVE  Holds(<<a, b>>, All(F, O), St(F, O, W, Tokens))
  BY DEF Gives
<1>1. Task(a, All(F, O), All(F, O)) /\ Task(b, All(F, O), St(F, O, W, Tokens))
  BY DEF Giving, All
<1> QED  BY <1>1, Chain2

LEMMA Gives3 ==
  ASSUME NEW F, NEW a, NEW b, NEW c, NEW W,
         Giving(F, a, NodeSet), Giving(F, b, NodeSet), Giving(F, c, W)
  PROVE  Gives(F, <<a, b, c>>, W)
<1>1. Gives(F, <<a>>, NodeSet) /\ Gives(F, <<b, c>>, W)
  BY Gives1, Gives2
<1>2. <<a, b, c>> = <<a>> \o <<b, c>>
  OBVIOUS
<1> QED  BY <1>1, <1>2, GivesThen

LEMMA Gives4 ==
  ASSUME NEW F, NEW a, NEW b, NEW c, NEW d, NEW W,
         Giving(F, a, NodeSet), Giving(F, b, NodeSet), Giving(F, c, NodeSet), Giving(F, d, W)
  PROVE  Gives(F, <<a, b, c, d>>, W)
<1>1. Gives(F, <<a>>, NodeSet) /\ Gives(F, <<b, c, d>>, W)
  BY Gives1, Gives3
<1>2. <<a, b, c, d>> = <<a>> \o <<b, c, d>>
  OBVIOUS
<1> QED  BY <1>1, <1>2, GivesThen

LEMMA Gives5 ==
  ASSUME NEW F, NEW a, NEW b, NEW c, NEW d, NEW e, NEW W, Giving(F, a, NodeSet),
         Giving(F, b, NodeSet), Giving(F, c, NodeSet), Giving(F, d, NodeSet), Giving(F, e, W)
  PROVE  Gives(F, <<a, b, c, d, e>>, W)
<1>1. Gives(F, <<a>>, NodeSet) /\ Gives(F, <<b, c, d, e>>, W)
  BY Gives1, Gives4
<1>2. <<a, b, c, d, e>> = <<a>> \o <<b, c, d, e>>
  OBVIOUS
<1> QED  BY <1>1, <1>2, GivesThen

(* The tasks that are not calls, of a value that does not matter.          *)
LEMMA GivingExpect ==
  ASSUME NEW F, NEW ones, Neutral(ones)
  PROVE  Giving(F, Expect(ones), NodeSet)
  BY ExpectNeutral DEF Giving, All

LEMMA GivingAccept ==
  ASSUME NEW F, NEW ones, Neutral(ones), NEW a, NEW b, NEW W, Gives(F, a, W), Gives(F, b, W)
  PROVE  Giving(F, Accept(ones, a, b), W)
  BY AcceptNeutral DEF Giving, Gives, All

LEMMA GivingWhen ==
  ASSUME NEW F, NEW ones, NEW a, NEW b, NEW W, Gives(F, a, W), Gives(F, b, W)
  PROVE  Giving(F, When(ones, a, b), W)
<1> SUFFICES ASSUME NEW O \in SUBSET Seq(Ones)
             PROVE  Task(When(ones, a, b), All(F, O), St(F, O, W, Tokens))
  BY DEF Giving
<1>1. St(F, O, NodeSet, At(ones)) \subseteq All(F, O)
  BY DEF All, St, State
<1>2. Holds(a, St(F, O, NodeSet, At(ones)), St(F, O, W, Tokens))
      /\ Holds(b, All(F, O), St(F, O, W, Tokens))
  BY <1>1, HoldsMono DEF Gives
<1> QED  BY <1>2, WhenRule DEF All

LEMMA GivingSeparator ==
  ASSUME NEW F, NEW a, NEW b, NEW W, Gives(F, a, W), Gives(F, b, W)
  PROVE  Giving(F, Separator(a, b), W) /\ Giving(F, ControlSeparator(a, b), W)
  BY SeparatorRule, ControlRule DEF Giving, Gives, All

LEMMA GivingEither ==
  ASSUME NEW F, NEW a, Gives(F, a, NodeSet)
  PROVE  Giving(F, Either(a), NodeSet)
  BY EitherTask, StFacts DEF Giving, Gives, All

LEMMA GivingSemicolon ==
  ASSUME NEW F
  PROVE  Giving(F, ExpectSemicolon, NodeSet) /\ Giving(F, NewlineWithin, NodeSet)
         /\ Giving(F, PossibleNewline, NodeSet)
<1>1. Giving(F, ExpectSemicolon, NodeSet) /\ Giving(F, NewlineWithin, NodeSet)
  BY SemicolonRule DEF Giving, All
<1>2. Giving(F, PossibleNewline, NodeSet)
  BY GivingAccept, GivesNone, NeutralSeparators DEF PossibleNewline
<1> QED  BY <1>1, <1>2

LEMMA GivingFail ==
  ASSUME NEW F, NEW W
  PROVE  Giving(F, Fail, W) /\ Giving(F, Misreport, W) /\ Gives(F, <<Fail>>, W)
<1>1. Giving(F, Fail, W) /\ Giving(F, Misreport, W)
  BY FailRules DEF Giving, All
<1> QED  BY <1>1, Gives1

LEMMA GivingMake ==
  ASSUME NEW F, NEW W, NEW node \in W \cap NodeSet
  PROVE  Giving(F, Make(node), W)
<1>1. Giving(F, Make(node), {node})
  BY MakeRule DEF Giving, All
<1> QED  BY <1>1, GivingMono

LEMMA GivingCheck ==
  ASSUME NEW F, NEW kinds
  PROVE  /\ Giving(F, Check(kinds), {v \in NodeSet : v.kind \in kinds})
         /\ Giving(F, Refuse(kinds), {v \in NodeSet : v.kind \notin kinds})
         /\ Giving(F, Check(kinds), NodeSet) /\ Giving(F, Refuse(kinds), NodeSet)
         /\ Giving(F, Inspect("absent statement"), NodeSet)
<1>1. /\ Giving(F, Check(kinds), {v \in NodeSet : v.kind \in kinds})
      /\ Giving(F, Refuse(kinds), {v \in NodeSet : v.kind \notin kinds})
      /\ Giving(F, Inspect("absent statement"), NodeSet)
  BY CheckRules DEF Giving, All
<1> QED  BY <1>1, GivingMono

(* Loops.                                                                  *)
LEMMA GivingLoop ==
  ASSUME NEW F, NEW ones, NEW l, Looped(F, l)
  PROVE  Giving(F, Until(ones, l), NodeSet) /\ Giving(F, While(ones, l), NodeSet)
<1> SUFFICES ASSUME NEW O \in SUBSET Seq(Ones)
             PROVE  /\ Task(Until(ones, l), All(F, O), All(F, O))
                    /\ Task(While(ones, l), All(F, O), All(F, O))
  BY DEF Giving, All
<1>1. St(F, O, NodeSet, At(ones)) \subseteq All(F, O)
  BY DEF All, St, State
<1>2. Holds(l, All(F, O), Looping(F, O)) /\ Holds(l, St(F, O, NodeSet, At(ones)), Looping(F, O))
  BY <1>1, HoldsMono DEF Looped
<1> QED  BY <1>2, UntilRule, WhileRule DEF All

LEMMA LoopedGives == ASSUME NEW F, NEW l, NEW W, Gives(F, l, W) PROVE Looped(F, l)
<1> SUFFICES ASSUME NEW O \in SUBSET Seq(Ones) PROVE Holds(l, All(F, O), Looping(F, O))
  BY DEF Looped
<1>1. St(F, O, W, Tokens) \subseteq Looping(F, O)
  BY LoopSets
<1> QED  BY <1>1, HoldsMono DEF Gives

LEMMA LoopedThen ==
  ASSUME NEW F, NEW l, NEW m, Gives(F, l, NodeSet), Looped(F, m)
  PROVE  Looped(F, l \o m)
  BY HoldsConcat DEF Gives, Looped, All

LEMMA LoopedBreak ==
  ASSUME NEW F
  PROVE  Looped(F, <<SeparatorOrBreak>>) /\ Looped(F, <<CommaOrBreak>>)
  BY BreakRule, Chain1 DEF Looped, All

LEMMA Looped2 ==
  ASSUME NEW F, NEW a, Giving(F, a, NodeSet)
  PROVE  Looped(F, <<a, SeparatorOrBreak>>) /\ Looped(F, <<a, CommaOrBreak>>)
<1>1. Gives(F, <<a>>, NodeSet)
  BY Gives1
<1>2. ASSUME NEW b PROVE <<a, b>> = <<a>> \o <<b>>
  OBVIOUS
<1> QED  BY <1>1, <1>2, LoopedBreak, LoopedThen

LEMMA Looped3 ==
  ASSUME NEW F, NEW a, NEW b, Giving(F, a, NodeSet), Giving(F, b, NodeSet)
  PROVE  Looped(F, <<a, b, SeparatorOrBreak>>)
<1>1. Gives(F, <<a>>, NodeSet) /\ Looped(F, <<b, SeparatorOrBreak>>)
  BY Gives1, Looped2
<1>2. ASSUME NEW c PROVE <<a, b, c>> = <<a>> \o <<b, c>>
  OBVIOUS
<1> QED  BY <1>1, <1>2, LoopedThen

(* What is in brackets.                                                    *)
LEMMA InBrackets ==
  ASSUME NEW F, NEW l, Gives(F, l, NodeSet)
  PROVE  /\ Gives(F, <<Expect({Op("LPAREN")})>> \o l \o <<Expect({Op("RPAREN")})>>, NodeSet)
         /\ Gives(F, <<Expect({Op("LBRACKET")})>> \o l \o <<Expect({Op("RBRACKET")})>>, NodeSet)
         /\ Gives(F, <<Expect({Kind("LBRACE")})>> \o l \o <<Expect({Kind("RBRACE")})>>, NodeSet)
<1> SUFFICES ASSUME NEW open, NEW close \in ClosingBrackets,
                    \A O : Task(Expect({open}), All(F, O), All(F, With(O, close)))
             PROVE  Gives(F, <<Expect({open})>> \o l \o <<Expect({close})>>, NodeSet)
  <2>1. {Op("RPAREN"), Op("RBRACKET"), Kind("RBRACE")} \subseteq ClosingBrackets
    BY DEF ClosingBrackets
  <2> QED  BY <2>1, ExpectOpen DEF All
<1> SUFFICES ASSUME NEW O \in SUBSET Seq(Ones)
             PROVE  Holds(<<Expect({open})>> \o l \o <<Expect({close})>>, All(F, O), All(F, O))
  BY DEF Gives, All
<1>1. With(O, close) \in SUBSET Seq(Ones)
  BY DEF With, Ones
<1>2. Holds(l, All(F, With(O, close)), All(F, With(O, close)))
  BY <1>1 DEF Gives, All
<1>3. Holds(<<Expect({open})>>, All(F, O), All(F, With(O, close)))
  BY Chain1
<1>4. Holds(<<Expect({close})>>, All(F, With(O, close)), All(F, O))
  BY ExpectClose, Chain1 DEF All
<1> QED  BY <1>2, <1>3, <1>4, HoldsConcat

-----------------------------------------------------------------------------
(* Calls.  Most parse functions ask for nothing.                           *)
ValueTasks ==
  {"parse_simple_statement", "after_tuple", "after_colon", "parse_declaration_statement",
   "parse_atom_expression", "atoms", "argument", "tuple", "parse_binary_expression",
   "operators", "join", "for_range"}
Demanding == Fresh \cup Advancing \cup Closers \cup ValueTasks

LEMMA UndemandingPre ==
  ASSUME NEW t, NEW q, Name(t) \notin Demanding \/ (Name(t) \in Fresh /\ q.flags.expression_depth = 0)
  PROVE  Pre(t, q)
<1>1. CASE Name(t) \notin Demanding
  BY <1>1 DEF Pre, Demanding, ValueTasks
<1>2. CASE Name(t) \in Fresh /\ q.flags.expression_depth = 0
  <2>1. Name(t) \notin Advancing \cup Closers \cup ValueTasks
    BY <1>2 DEF Fresh, Advancing, Closers, BracketClosers, ValueTasks
  <2> QED  BY <1>2, <2>1 DEF Pre, ValueTasks
<1> QED  BY <1>1, <1>2

(* What a step gives that asks for nothing more.                           *)
LEMMA StepGiving ==
  ASSUME NEW t, t.do \in Steps, NEW F, NEW W,
         Name(t) \notin Demanding \/ (Name(t) \in Fresh /\ F.expression_depth = 0),
         \A q : q.flags = F => Results(t, q) \cap NodeSet \subseteq W
  PROVE  Giving(F, t, W)
<1> SUFFICES ASSUME NEW O \in SUBSET Seq(Ones), NEW q \in All(F, O)
             PROVE  ~q.broken /\ Pre(t, q) /\ Upon(t, q) \subseteq St(F, O, W, Tokens)
  BY StepTask DEF Giving
<1>1. ~q.broken /\ q.flags = F /\ q.open \subseteq O
  BY DEF All, St
<1>2. Pre(t, q)
  BY <1>1, UndemandingPre
<1>3. Name(t) \notin Closers
  BY DEF Demanding, ValueTasks, Closers, BracketClosers, Fresh
<1>4. OpenAfter(t, q) \subseteq O
  BY <1>1, <1>3 DEF OpenAfter
<1>5. Results(t, q) \cap NodeSet \subseteq W /\ Ends(t, q) \cap Tokens \subseteq Tokens
  BY <1>1
<1>6. Upon(t, q) \subseteq St(F, O, W, Tokens)
  BY <1>1, <1>4, <1>5, StMono DEF Upon
<1> QED  BY <1>1, <1>2, <1>6

LEMMA CallGiving ==
  ASSUME NEW f, NEW F, f \notin Demanding \/ (f \in Fresh /\ F.expression_depth = 0)
  PROVE  Giving(F, Call(f), NodeSet) /\ \A args : Giving(F, CallWith(f, args), NodeSet)
<1>1. /\ Call(f).do \in Steps /\ Name(Call(f)) = f
      /\ \A args : CallWith(f, args).do \in Steps /\ Name(CallWith(f, args)) = f
  BY CallName
<1>2. \A t, q : Results(t, q) \cap NodeSet \subseteq NodeSet
  OBVIOUS
<1>3. Giving(F, Call(f), NodeSet)
  BY <1>1, <1>2, StepGiving
<1>4. \A args : Giving(F, CallWith(f, args), NodeSet)
  BY <1>1, <1>2, StepGiving
<1> QED  BY <1>3, <1>4

(* Those of a value that matters.                                          *)
LEMMA ResultsOf ==
  ASSUME NEW t, NEW q
  PROVE  /\ Name(t) \in OperandTasks => Results(t, q) = Solid
         /\ Name(t) \in {"parse_operand", "parse_directive_prefix"} => Results(t, q) = Operand
         /\ Name(t) \in UnaryTasks => Results(t, q) = PresentOperand(q.flags)
         /\ Name(t) \in ExprTasks => Results(t, q) = Expr(q.flags)
         /\ Name(t) = "parse_type" => Results(t, q) = Typed
         /\ Name(t) = "parse_type_or_identifier" => Results(t, q) = {v \in NodeSet : Plain(v)}
         /\ Name(t) = "parse_tuple_expression" => Results(t, q) = Tupled(q.flags)
         /\ Name(t) \in StatementTasks => Results(t, q) = Stated(q.flags)
  BY DEF Results, OperandTasks, UnaryTasks, ExprTasks, StatementTasks

LEMMA OperandGiving ==
  ASSUME NEW f \in OperandTasks, f \notin Demanding, NEW F
  PROVE  Giving(F, Call(f), Solid) /\ \A args : Giving(F, CallWith(f, args), Solid)
<1>1. /\ Call(f).do \in Steps /\ Name(Call(f)) = f
      /\ \A args : CallWith(f, args).do \in Steps /\ Name(CallWith(f, args)) = f
  BY CallName
<1>2. \A t, q : Name(t) = f => Results(t, q) \cap NodeSet \subseteq Solid
  BY ResultsOf
<1>3. Giving(F, Call(f), Solid)
  BY <1>1, <1>2, StepGiving
<1>4. \A args : Giving(F, CallWith(f, args), Solid)
  BY <1>1, <1>2, StepGiving
<1> QED  BY <1>3, <1>4

LEMMA ValueGiving ==
  ASSUME NEW F, NEW lhs
  PROVE  /\ Giving(F, Lhs("parse_unary_expression", lhs), PresentOperand(F))
         /\ Giving(F, Call("parse_implicit_selector_expression"), PresentOperand(F))
         /\ Giving(F, Call("parse_value"), Expr(F))
         /\ Giving(F, Lhs("parse_expression", lhs), Expr(F))
         /\ Giving(F, Call("parse_type"), Typed)
         /\ Giving(F, Lhs("parse_tuple_expression", lhs), Tupled(F))
<1>1. \A f, args : /\ Call(f).do \in Steps /\ Name(Call(f)) = f
                   /\ CallWith(f, args).do \in Steps /\ Name(CallWith(f, args)) = f
  BY CallName
<1>2. /\ "parse_unary_expression" \in UnaryTasks /\ "parse_implicit_selector_expression" \in UnaryTasks
      /\ "parse_value" \in ExprTasks /\ "parse_expression" \in ExprTasks
  BY DEF UnaryTasks, ExprTasks
<1>3. \A f \in {"parse_unary_expression", "parse_implicit_selector_expression", "parse_value",
                "parse_expression", "parse_type", "parse_tuple_expression"} : f \notin Demanding
  BY DEF Demanding, Fresh, Advancing, Closers, BracketClosers, ValueTasks
<1>4. ASSUME NEW t, t.do \in Steps, Name(t) \notin Demanding
      PROVE  /\ Name(t) \in UnaryTasks => Giving(F, t, PresentOperand(F))
             /\ Name(t) \in ExprTasks => Giving(F, t, Expr(F))
             /\ Name(t) = "parse_type" => Giving(F, t, Typed)
             /\ Name(t) = "parse_tuple_expression" => Giving(F, t, Tupled(F))
  BY <1>4, ResultsOf, StepGiving
<1> QED  BY <1>1, <1>2, <1>3, <1>4 DEF Lhs

LEMMA Calls ==
  ASSUME NEW F, NEW b
  PROVE  /\ Giving(F, Call("parse_identifier"), NodeSet)
         /\ Giving(F, Call("parse_type"), NodeSet)
         /\ Giving(F, Call("parse_type_or_identifier"), NodeSet)
         /\ Giving(F, Call("parse_variable_name_or_type"), NodeSet)
         /\ Giving(F, Call("parse_value"), NodeSet)
         /\ Giving(F, Lhs("parse_expression", b), NodeSet) /\ Giving(F, RhsExpression, NodeSet)
         /\ Giving(F, Lhs("parse_tuple_expression", b), NodeSet)
         /\ Giving(F, Lhs("parse_unary_expression", b), NodeSet)
         /\ Giving(F, Call("parse_directive_call_expression"), NodeSet)
         /\ Giving(F, Call("parse_field_flags"), NodeSet) /\ Giving(F, FieldList(b), NodeSet)
         /\ Giving(F, Call("where_clause"), NodeSet)
         /\ Giving(F, Call("parse_body"), NodeSet) /\ Giving(F, Block(b), NodeSet)
         /\ Giving(F, Call("parse_do_body"), NodeSet)
         /\ Giving(F, Arguments(b), NodeSet)
<1> DEFINE names ==
      {"parse_identifier", "parse_type", "parse_type_or_identifier", "parse_variable_name_or_type",
       "parse_value", "parse_expression", "parse_tuple_expression", "parse_unary_expression",
       "parse_directive_call_expression", "parse_field_flags", "parse_field_list", "where_clause",
       "parse_body", "parse_block_statement", "parse_do_body"}
<1>1. \A f \in names : f \notin Demanding
  BY DEF Demanding, Fresh, Advancing, Closers, BracketClosers, ValueTasks
<1>2. \A f \in names : Giving(F, Call(f), NodeSet) /\ \A args : Giving(F, CallWith(f, args), NodeSet)
  BY <1>1, CallGiving
<1>3. Giving(F, Arguments(b), NodeSet)
  <2>1. Arguments(b).do \in Steps /\ Name(Arguments(b)) = "arguments"
    BY DEF Arguments, Steps, Name
  <2>2. "arguments" \notin Demanding
    BY DEF Demanding, Fresh, Advancing, Closers, BracketClosers, ValueTasks
  <2>3. \A t, q : Results(t, q) \cap NodeSet \subseteq NodeSet
    OBVIOUS
  <2> QED  BY <2>1, <2>2, <2>3, StepGiving
<1> QED  BY <1>2, <1>3 DEF Lhs, RhsExpression, FieldList, Block

(* The nodes that are made.                                                *)
LEMMA NodeType ==
  ASSUME NEW kind \in NodeKinds, NEW of \in NodeKinds, NEW op \in NodeOps,
         NEW name \in {"absent", "name", "other"}
  PROVE  /\ Node(kind, of, op, name) \in NodeSet /\ Node(kind, of, op, name).of = of
         /\ Node(kind, of, op, name).kind = kind /\ Node(kind, of, op, name).name = name
<1> DEFINE b == FALSE
<1>1. b \in BOOLEAN /\ 0 \in Nat
  OBVIOUS
<1> HIDE DEF b
<1>2. [kind |-> kind, of |-> of, op |-> op, name |-> name, n |-> 0, closed |-> b] \in NodeSet
  BY <1>1 DEF NodeSet
<1>3. Node(kind, of, op, name) =
        [kind |-> kind, of |-> of, op |-> op, name |-> name, n |-> 0, closed |-> b]
  BY DEF Node, b
<1> QED  BY <1>2, <1>3

LEMMA Nodes ==
  /\ Absent \in NodeSet /\ Absent \in Operand /\ Absent.kind = "NULL"
  /\ {Identifier, Expression, Selector} \subseteq Solid
  /\ {Identifier, Expression, Selector} \subseteq NodeSet
  /\ Identifier.kind = "IDENTIFIER" /\ Expression.kind = "OTHER" /\ Selector.kind = "OTHER"
  /\ Ternary \in NodeSet /\ Plain(Ternary) /\ Ternary.kind = "TERNARY"
  /\ PolyName \in Solid \cap NodeSet
  /\ \A kind \in NodeKinds : /\ TypeOf(kind) \in Solid \cap NodeSet
                             /\ Statement(kind) \in NodeSet /\ Statement(kind).kind = kind
  /\ \A op \in NodeOps : Binary(op) \in NodeSet /\ Plain(Binary(op)) /\ Binary(op).kind = "BINARY"
<1> DEFINE none == ""
           names == {"absent", "name", "other"}
<1>1. none \in NodeOps
  BY DEF NodeOps, Texts
<1>2. ASSUME NEW kind \in NodeKinds, NEW of \in NodeKinds, NEW op \in NodeOps,
             NEW name \in names
      PROVE  /\ Node(kind, of, op, name) \in NodeSet
             /\ Node(kind, of, op, name).kind = kind /\ Node(kind, of, op, name).name = name
  BY NodeType
<1>3. /\ none \in NodeKinds /\ "NULL" \in NodeKinds /\ "IDENTIFIER" \in NodeKinds
      /\ "OTHER" \in NodeKinds /\ "TERNARY" \in NodeKinds /\ "BINARY" \in NodeKinds
      /\ "TYPE" \in NodeKinds /\ "POLY" \in NodeKinds
      /\ "absent" \in names /\ "name" \in names /\ "other" \in names
  BY DEF NodeKinds
<1>4. /\ Absent = Node("NULL", none, none, "absent")
      /\ Identifier = Node("IDENTIFIER", none, none, "name")
      /\ Expression = Node("OTHER", none, none, "other")
      /\ Selector = Node("OTHER", none, none, "name")
      /\ Ternary = Node("TERNARY", none, none, "other")
      /\ PolyName = Node("TYPE", "POLY", none, "name")
      /\ \A kind : TypeOf(kind) = Node("TYPE", kind, none, "other")
      /\ \A kind : Statement(kind) = Node(kind, none, none, "other")
      /\ \A op : Binary(op) = Node("BINARY", none, op, "other")
  BY Zenon DEF Absent, Identifier, Expression, Selector, Ternary, PolyName, TypeOf, Statement, Binary
<1> HIDE DEF names, none
<1>5. /\ Absent \in NodeSet /\ Absent.kind = "NULL"
      /\ Identifier \in NodeSet /\ Identifier.name # "absent" /\ Identifier.kind = "IDENTIFIER"
      /\ Expression \in NodeSet /\ Expression.name # "absent" /\ Expression.kind = "OTHER"
      /\ Selector \in NodeSet /\ Selector.name # "absent" /\ Selector.kind = "OTHER"
      /\ Ternary \in NodeSet /\ Ternary.name # "absent" /\ Ternary.kind = "TERNARY"
      /\ PolyName \in NodeSet /\ PolyName.name # "absent" /\ PolyName.kind = "TYPE"
  BY <1>1, <1>2, <1>3, <1>4
<1>6. ASSUME NEW kind \in NodeKinds
      PROVE  /\ TypeOf(kind) \in NodeSet /\ TypeOf(kind).name # "absent" /\ TypeOf(kind).kind = "TYPE"
             /\ Statement(kind) \in NodeSet /\ Statement(kind).kind = kind
  BY <1>1, <1>2, <1>3, <1>4
<1>7. ASSUME NEW op \in NodeOps
      PROVE  Binary(op) \in NodeSet /\ Binary(op).name # "absent" /\ Binary(op).kind = "BINARY"
  BY <1>1, <1>2, <1>3, <1>4
<1> HIDE DEF Absent, Identifier, Expression, Selector, Ternary, PolyName, TypeOf, Statement, Binary
<1> QED  BY <1>5, <1>6, <1>7 DEF Solid, Operand, Plain, Unary

-----------------------------------------------------------------------------
(* The tasks that set the flags, and what they enclose.                    *)
Moves(F, G, t) ==
  \A O \in SUBSET Seq(Ones) : \A V : Task(t, St(F, O, V, Tokens), St(G, O, V, Tokens))

LEMMA Within ==
  ASSUME NEW F, NEW G, NEW s, Moves(F, G, s), NEW e, Moves(G, F, e), NEW l, NEW W, Gives(G, l, W)
  PROVE  Gives(F, <<s>> \o l \o <<e>>, W)
<1> SUFFICES ASSUME NEW O \in SUBSET Seq(Ones)
             PROVE  Holds(<<s>> \o l \o <<e>>, All(F, O), St(F, O, W, Tokens))
  BY DEF Gives
<1>1. Holds(<<s>>, All(F, O), All(G, O)) /\ Holds(<<e>>, St(G, O, W, Tokens), St(F, O, W, Tokens))
  BY Chain1 DEF Moves, All
<1>2. Holds(l, All(G, O), St(G, O, W, Tokens))
  BY DEF Gives
<1> QED  BY <1>1, <1>2, HoldsConcat

(* The flags of the parser, one of them or two set.                        *)
LEMMA ParserFlags ==
  ASSUME Types
  PROVE  /\ Flags(parser) = Fl(parser.expression_depth, parser.allow_newline, parser.allow_type,
                              parser.allow_in)
         /\ parser.expression_depth \in Nat \cup {-1} /\ parser.allow_newline \in BOOLEAN
         /\ parser.allow_type \in BOOLEAN /\ parser.allow_in \in BOOLEAN
  BY DEF Flags, Types, ParserFields

LEMMA MovesRules ==
  ASSUME NEW d, NEW n, NEW y, NEW i, NEW e \in Nat \cup {-1}, NEW m \in BOOLEAN, NEW z \in BOOLEAN,
         NEW j \in BOOLEAN
  PROVE  /\ Moves(Fl(d, n, y, i), Fl(e, n, y, i), Depth(e))
         /\ Moves(Fl(d, n, y, i), Fl(d, m, y, i), AllowNewline(m))
         /\ Moves(Fl(d, n, y, i), Fl(d, n, y, j), AllowIn(j))
         /\ Moves(Fl(d, n, y, i), Fl(e, m, y, i), Set([expression_depth |-> e, allow_newline |-> m]))
         /\ Moves(Fl(d, n, y, i), Fl(e, n, z, i), Set([expression_depth |-> e, allow_type |-> z]))
         /\ Moves(Fl(d, n, y, i), Fl(e, n, y, j), Set([expression_depth |-> e, allow_in |-> j]))
         /\ Moves(Fl(d, n, y, i), Fl(d, n, y, i), Set([this_procedure |-> TRUE]))
<1>1. ASSUME NEW O \in SUBSET Seq(Ones), NEW V
      PROVE  /\ Task(Depth(e), St(Fl(d, n, y, i), O, V, Tokens), St(Fl(e, n, y, i), O, V, Tokens))
             /\ Task(AllowNewline(m), St(Fl(d, n, y, i), O, V, Tokens), St(Fl(d, m, y, i), O, V, Tokens))
             /\ Task(AllowIn(j), St(Fl(d, n, y, i), O, V, Tokens), St(Fl(d, n, y, j), O, V, Tokens))
             /\ Task(Set([expression_depth |-> e, allow_newline |-> m]),
                     St(Fl(d, n, y, i), O, V, Tokens), St(Fl(e, m, y, i), O, V, Tokens))
             /\ Task(Set([expression_depth |-> e, allow_type |-> z]),
                     St(Fl(d, n, y, i), O, V, Tokens), St(Fl(e, n, z, i), O, V, Tokens))
             /\ Task(Set([expression_depth |-> e, allow_in |-> j]),
                     St(Fl(d, n, y, i), O, V, Tokens), St(Fl(e, n, y, j), O, V, Tokens))
             /\ Task(Set([this_procedure |-> TRUE]),
                     St(Fl(d, n, y, i), O, V, Tokens), St(Fl(d, n, y, i), O, V, Tokens))
  BY SetRules
<1> QED  BY <1>1, Zenon DEF Moves

(* Both the depth and the newlines, as parentheses and calls set them.     *)
LEMMA MovesBoth ==
  ASSUME NEW d, NEW n, NEW y, NEW i, NEW e \in Nat \cup {-1}, NEW m \in BOOLEAN
  PROVE  Moves(Fl(d, n, y, i), Fl(e, m, y, i), Set([expression_depth |-> e, allow_newline |-> m]))
<1>1. ASSUME NEW z \in BOOLEAN, NEW j \in BOOLEAN
      PROVE  Moves(Fl(d, n, y, i), Fl(e, m, y, i), Set([expression_depth |-> e, allow_newline |-> m]))
  BY MovesRules, ZenonT(60)
<1> QED  BY <1>1, TRUE \in BOOLEAN, Zenon

LEMMA MovesDeeper ==
  ASSUME NEW d, NEW n, NEW y, NEW i
  PROVE  /\ Moves(Fl(d, n, y, i), Fl(d + 1, n, y, i), Deeper(1))
         /\ d \in Nat \cup {-1} => Moves(Fl(d + 1, n, y, i), Fl(d, n, y, i), Deeper(-1))
<1>1. d \in Nat \cup {-1} => /\ d + 1 \in Nat \cup {-1}
                             /\ d + 1 + (-1) = d /\ d + 1 + (-1) \in Nat \cup {-1}
  OBVIOUS
<1> QED  BY <1>1, DeeperRule DEF Moves

(* The flags that a parse function sets, and sets back to what they were.  *)
LEMMA MovesHere ==
  ASSUME Types, NEW d, d = parser.expression_depth, NEW n, n = parser.allow_newline,
         NEW y, y = parser.allow_type, NEW i, i = parser.allow_in,
         NEW e \in Nat \cup {-1}, NEW m \in BOOLEAN, NEW z \in BOOLEAN, NEW j \in BOOLEAN
  PROVE  /\ Moves(Flags(parser), Fl(e, n, y, i), Depth(e))
         /\ Moves(Fl(e, n, y, i), Flags(parser), Depth(d))
         /\ Moves(Flags(parser), Fl(d, m, y, i), AllowNewline(m))
         /\ Moves(Fl(d, m, y, i), Flags(parser), AllowNewline(n))
         /\ Moves(Flags(parser), Fl(d, n, y, j), AllowIn(j))
         /\ Moves(Fl(d, n, y, j), Flags(parser), AllowIn(i))
         /\ Moves(Flags(parser), Fl(e, m, y, i), Set([expression_depth |-> e, allow_newline |-> m]))
         /\ Moves(Fl(e, m, y, i), Flags(parser), Set([expression_depth |-> d, allow_newline |-> n]))
         /\ Moves(Flags(parser), Fl(e, n, z, i), Set([expression_depth |-> e, allow_type |-> z]))
         /\ Moves(Fl(e, n, z, i), Flags(parser), Set([expression_depth |-> d, allow_type |-> y]))
         /\ Moves(Flags(parser), Fl(e, n, y, j), Set([expression_depth |-> e, allow_in |-> j]))
         /\ Moves(Fl(e, n, y, j), Flags(parser), Set([expression_depth |-> d, allow_in |-> i]))
         /\ Moves(Flags(parser), Fl(d + 1, n, y, i), Deeper(1))
         /\ Moves(Fl(d + 1, n, y, i), Flags(parser), Deeper(-1))
<1>1. Flags(parser) = Fl(d, n, y, i)
  BY ParserFlags
<1>2. d \in Nat \cup {-1} /\ n \in BOOLEAN /\ y \in BOOLEAN /\ i \in BOOLEAN
  BY ParserFlags
<1>3. /\ Moves(Fl(d, n, y, i), Fl(e, n, y, i), Depth(e))
      /\ Moves(Fl(d, n, y, i), Fl(d, m, y, i), AllowNewline(m))
      /\ Moves(Fl(d, n, y, i), Fl(d, n, y, j), AllowIn(j))
      /\ Moves(Fl(d, n, y, i), Fl(e, m, y, i), Set([expression_depth |-> e, allow_newline |-> m]))
      /\ Moves(Fl(d, n, y, i), Fl(e, n, z, i), Set([expression_depth |-> e, allow_type |-> z]))
      /\ Moves(Fl(d, n, y, i), Fl(e, n, y, j), Set([expression_depth |-> e, allow_in |-> j]))
  BY MovesRules, ZenonT(60)
<1>6. ASSUME NEW e0, NEW n0, NEW y0, NEW i0
      PROVE  /\ Moves(Fl(e0, n0, y0, i0), Fl(d, n0, y0, i0), Depth(d))
             /\ Moves(Fl(e0, n0, y0, i0), Fl(d, n, y0, i0),
                      Set([expression_depth |-> d, allow_newline |-> n]))
             /\ Moves(Fl(e0, n0, y0, i0), Fl(d, n0, y, i0),
                      Set([expression_depth |-> d, allow_type |-> y]))
             /\ Moves(Fl(e0, n0, y0, i0), Fl(d, n0, y0, i),
                      Set([expression_depth |-> d, allow_in |-> i]))
  BY <1>2, MovesRules, ZenonT(60)
<1>4. /\ Moves(Fl(e, n, y, i), Fl(d, n, y, i), Depth(d))
      /\ Moves(Fl(d, m, y, i), Fl(d, n, y, i), AllowNewline(n))
      /\ Moves(Fl(d, n, y, j), Fl(d, n, y, i), AllowIn(i))
      /\ Moves(Fl(e, m, y, i), Fl(d, n, y, i), Set([expression_depth |-> d, allow_newline |-> n]))
      /\ Moves(Fl(e, n, z, i), Fl(d, n, y, i), Set([expression_depth |-> d, allow_type |-> y]))
      /\ Moves(Fl(e, n, y, j), Fl(d, n, y, i), Set([expression_depth |-> d, allow_in |-> i]))
  <2>1. Moves(Fl(e, n, y, i), Fl(d, n, y, i), Depth(d))
    BY <1>6, Zenon
  <2>2. Moves(Fl(d, m, y, i), Fl(d, n, y, i), AllowNewline(n))
    BY <1>2, MovesRules, ZenonT(60)
  <2>3. Moves(Fl(d, n, y, j), Fl(d, n, y, i), AllowIn(i))
    BY <1>2, MovesRules, ZenonT(60)
  <2>4. Moves(Fl(e, m, y, i), Fl(d, n, y, i), Set([expression_depth |-> d, allow_newline |-> n]))
    BY <1>6, Zenon
  <2>5. Moves(Fl(e, n, z, i), Fl(d, n, y, i), Set([expression_depth |-> d, allow_type |-> y]))
    BY <1>6, Zenon
  <2>6. Moves(Fl(e, n, y, j), Fl(d, n, y, i), Set([expression_depth |-> d, allow_in |-> i]))
    BY <1>6, Zenon
  <2> QED  BY <2>1, <2>2, <2>3, <2>4, <2>5, <2>6
<1>5. /\ Moves(Fl(d, n, y, i), Fl(d + 1, n, y, i), Deeper(1))
      /\ Moves(Fl(d + 1, n, y, i), Fl(d, n, y, i), Deeper(-1))
  BY <1>2, MovesDeeper
<1> QED  BY <1>1, <1>3, <1>4, <1>5, Zenon

(* Lists that are written out, and one more task before them or after them. *)
LEMMA GivesCons3 ==
  ASSUME NEW F, NEW W, NEW a, NEW b, NEW c,
         Giving(F, a, NodeSet), Gives(F, <<b, c>>, W)
  PROVE  Gives(F, <<a, b, c>>, W)
<1>1. <<a, b, c>> = <<a>> \o <<b, c>>
  OBVIOUS
<1> QED  BY <1>1, Gives1, GivesThen

LEMMA GivesCons4 ==
  ASSUME NEW F, NEW W, NEW a, NEW b, NEW c, NEW d,
         Giving(F, a, NodeSet), Gives(F, <<b, c, d>>, W)
  PROVE  Gives(F, <<a, b, c, d>>, W)
<1>1. <<a, b, c, d>> = <<a>> \o <<b, c, d>>
  OBVIOUS
<1> QED  BY <1>1, Gives1, GivesThen

LEMMA GivesCons5 ==
  ASSUME NEW F, NEW W, NEW a, NEW b, NEW c, NEW d, NEW e,
         Giving(F, a, NodeSet), Gives(F, <<b, c, d, e>>, W)
  PROVE  Gives(F, <<a, b, c, d, e>>, W)
<1>1. <<a, b, c, d, e>> = <<a>> \o <<b, c, d, e>>
  OBVIOUS
<1> QED  BY <1>1, Gives1, GivesThen

LEMMA GivesCons6 ==
  ASSUME NEW F, NEW W, NEW a, NEW b, NEW c, NEW d, NEW e, NEW f,
         Giving(F, a, NodeSet), Gives(F, <<b, c, d, e, f>>, W)
  PROVE  Gives(F, <<a, b, c, d, e, f>>, W)
<1>1. <<a, b, c, d, e, f>> = <<a>> \o <<b, c, d, e, f>>
  OBVIOUS
<1> QED  BY <1>1, Gives1, GivesThen

LEMMA GivesCons7 ==
  ASSUME NEW F, NEW W, NEW a, NEW b, NEW c, NEW d, NEW e, NEW f, NEW g,
         Giving(F, a, NodeSet), Gives(F, <<b, c, d, e, f, g>>, W)
  PROVE  Gives(F, <<a, b, c, d, e, f, g>>, W)
<1>1. <<a, b, c, d, e, f, g>> = <<a>> \o <<b, c, d, e, f, g>>
  OBVIOUS
<1> QED  BY <1>1, Gives1, GivesThen

LEMMA GivesCons8 ==
  ASSUME NEW F, NEW W, NEW a, NEW b, NEW c, NEW d, NEW e, NEW f, NEW g, NEW h,
         Giving(F, a, NodeSet), Gives(F, <<b, c, d, e, f, g, h>>, W)
  PROVE  Gives(F, <<a, b, c, d, e, f, g, h>>, W)
<1>1. <<a, b, c, d, e, f, g, h>> = <<a>> \o <<b, c, d, e, f, g, h>>
  OBVIOUS
<1> QED  BY <1>1, Gives1, GivesThen

LEMMA GivesSnoc3 ==
  ASSUME NEW F, NEW W, NEW a, NEW b, NEW c,
         Gives(F, <<a, b>>, NodeSet), Giving(F, c, W)
  PROVE  Gives(F, <<a, b, c>>, W)
<1>1. <<a, b, c>> = <<a, b>> \o <<c>>
  OBVIOUS
<1> QED  BY <1>1, Gives1, GivesThen

LEMMA GivesSnoc4 ==
  ASSUME NEW F, NEW W, NEW a, NEW b, NEW c, NEW d,
         Gives(F, <<a, b, c>>, NodeSet), Giving(F, d, W)
  PROVE  Gives(F, <<a, b, c, d>>, W)
<1>1. <<a, b, c, d>> = <<a, b, c>> \o <<d>>
  OBVIOUS
<1> QED  BY <1>1, Gives1, GivesThen

LEMMA GivesSnoc5 ==
  ASSUME NEW F, NEW W, NEW a, NEW b, NEW c, NEW d, NEW e,
         Gives(F, <<a, b, c, d>>, NodeSet), Giving(F, e, W)
  PROVE  Gives(F, <<a, b, c, d, e>>, W)
<1>1. <<a, b, c, d, e>> = <<a, b, c, d>> \o <<e>>
  OBVIOUS
<1> QED  BY <1>1, Gives1, GivesThen

LEMMA GivesSnoc6 ==
  ASSUME NEW F, NEW W, NEW a, NEW b, NEW c, NEW d, NEW e, NEW f,
         Gives(F, <<a, b, c, d, e>>, NodeSet), Giving(F, f, W)
  PROVE  Gives(F, <<a, b, c, d, e, f>>, W)
<1>1. <<a, b, c, d, e, f>> = <<a, b, c, d, e>> \o <<f>>
  OBVIOUS
<1> QED  BY <1>1, Gives1, GivesThen

LEMMA GivesSnoc7 ==
  ASSUME NEW F, NEW W, NEW a, NEW b, NEW c, NEW d, NEW e, NEW f, NEW g,
         Gives(F, <<a, b, c, d, e, f>>, NodeSet), Giving(F, g, W)
  PROVE  Gives(F, <<a, b, c, d, e, f, g>>, W)
<1>1. <<a, b, c, d, e, f, g>> = <<a, b, c, d, e, f>> \o <<g>>
  OBVIOUS
<1> QED  BY <1>1, Gives1, GivesThen

LEMMA GivesSnoc8 ==
  ASSUME NEW F, NEW W, NEW a, NEW b, NEW c, NEW d, NEW e, NEW f, NEW g, NEW h,
         Gives(F, <<a, b, c, d, e, f, g>>, NodeSet), Giving(F, h, W)
  PROVE  Gives(F, <<a, b, c, d, e, f, g, h>>, W)
<1>1. <<a, b, c, d, e, f, g, h>> = <<a, b, c, d, e, f, g>> \o <<h>>
  OBVIOUS
<1> QED  BY <1>1, Gives1, GivesThen

LEMMA List41 ==
  ASSUME NEW a, NEW b, NEW c, NEW d, NEW e
  PROVE  <<a, b, c, d, e>> = <<a, b, c, d>> \o <<e>>
  OBVIOUS

LEMMA ListJoin2 == ASSUME NEW a, NEW b PROVE <<a, b>> = <<a>> \o <<b>>
<1> DEFINE s == <<a, a>>
           t == <<b>>
<1>1. <<a, a, b>> = s \o t
  OBVIOUS
<1>2. /\ s # << >> /\ s \in Seq({a, b}) /\ t \in Seq({a, b}) /\ Tail(s) = <<a>>
      /\ Tail(<<a, a, b>>) = <<a, b>>
  OBVIOUS
<1>3. IsSeq(s) /\ IsSeq(t)
  BY <1>2 DEF IsSeq
<1> HIDE DEF s, t
<1>4. Tail(s \o t) = Tail(s) \o t
  BY <1>2, <1>3, ConcatIsSeq
<1> QED  BY <1>1, <1>2, <1>4 DEF t

LEMMA ListJoin ==
  ASSUME NEW a, NEW b, NEW c
  PROVE  <<a, b, c>> = <<a>> \o <<b, c>> /\ <<a, b, c>> = <<a, b>> \o <<c>>
  OBVIOUS

LEMMA ListJoin4 ==
  ASSUME NEW a, NEW b, NEW c, NEW d
  PROVE  /\ <<a, b, c, d>> = <<a>> \o <<b, c, d>> /\ <<a, b, c, d>> = <<a, b>> \o <<c, d>>
         /\ <<a, b, c, d>> = <<a, b, c>> \o <<d>>
  OBVIOUS

LEMMA ListJoin5 ==
  ASSUME NEW a, NEW b, NEW c, NEW d, NEW e
  PROVE  /\ <<a, b, c, d, e>> = <<a>> \o <<b, c, d, e>> /\ <<a, b, c, d, e>> = <<a, b>> \o <<c, d, e>>
         /\ <<a, b, c, d, e>> = <<a, b, c>> \o <<d, e>>
         /\ <<a, b, c, d, e>> = <<a, b, c, d>> \o <<e>>
  OBVIOUS

LEMMA InBrackets1 ==
  ASSUME NEW F, NEW a, Gives(F, <<a>>, NodeSet)
  PROVE  /\ Gives(F, <<Expect({Op("LPAREN")}), a, Expect({Op("RPAREN")})>>, NodeSet)
         /\ Gives(F, <<Expect({Op("LBRACKET")}), a, Expect({Op("RBRACKET")})>>, NodeSet)
         /\ Gives(F, <<Expect({Kind("LBRACE")}), a, Expect({Kind("RBRACE")})>>, NodeSet)
<1>1. <<Expect({Op("LPAREN")}), a, Expect({Op("RPAREN")})>>
        = <<Expect({Op("LPAREN")})>> \o <<a>> \o <<Expect({Op("RPAREN")})>>
  OBVIOUS
<1>2. <<Expect({Op("LBRACKET")}), a, Expect({Op("RBRACKET")})>>
        = <<Expect({Op("LBRACKET")})>> \o <<a>> \o <<Expect({Op("RBRACKET")})>>
  OBVIOUS
<1>3. <<Expect({Kind("LBRACE")}), a, Expect({Kind("RBRACE")})>>
        = <<Expect({Kind("LBRACE")})>> \o <<a>> \o <<Expect({Kind("RBRACE")})>>
  OBVIOUS
<1> QED  BY <1>1, <1>2, <1>3, InBrackets

LEMMA InBrackets2 ==
  ASSUME NEW F, NEW a, NEW b, Gives(F, <<a, b>>, NodeSet)
  PROVE  /\ Gives(F, <<Expect({Op("LPAREN")}), a, b, Expect({Op("RPAREN")})>>, NodeSet)
         /\ Gives(F, <<Expect({Op("LBRACKET")}), a, b, Expect({Op("RBRACKET")})>>, NodeSet)
         /\ Gives(F, <<Expect({Kind("LBRACE")}), a, b, Expect({Kind("RBRACE")})>>, NodeSet)
<1>1. <<Expect({Op("LPAREN")}), a, b, Expect({Op("RPAREN")})>>
        = <<Expect({Op("LPAREN")})>> \o <<a, b>> \o <<Expect({Op("RPAREN")})>>
  OBVIOUS
<1>2. <<Expect({Op("LBRACKET")}), a, b, Expect({Op("RBRACKET")})>>
        = <<Expect({Op("LBRACKET")})>> \o <<a, b>> \o <<Expect({Op("RBRACKET")})>>
  OBVIOUS
<1>3. <<Expect({Kind("LBRACE")}), a, b, Expect({Kind("RBRACE")})>>
        = <<Expect({Kind("LBRACE")})>> \o <<a, b>> \o <<Expect({Kind("RBRACE")})>>
  OBVIOUS
<1> QED  BY <1>1, <1>2, <1>3, InBrackets

LEMMA InBrackets3 ==
  ASSUME NEW F, NEW a, NEW b, NEW c, Gives(F, <<a, b, c>>, NodeSet)
  PROVE  /\ Gives(F, <<Expect({Op("LPAREN")}), a, b, c, Expect({Op("RPAREN")})>>, NodeSet)
         /\ Gives(F, <<Expect({Op("LBRACKET")}), a, b, c, Expect({Op("RBRACKET")})>>, NodeSet)
         /\ Gives(F, <<Expect({Kind("LBRACE")}), a, b, c, Expect({Kind("RBRACE")})>>, NodeSet)
<1>1. <<Expect({Op("LPAREN")}), a, b, c, Expect({Op("RPAREN")})>>
        = <<Expect({Op("LPAREN")})>> \o <<a, b, c>> \o <<Expect({Op("RPAREN")})>>
  OBVIOUS
<1>2. <<Expect({Op("LBRACKET")}), a, b, c, Expect({Op("RBRACKET")})>>
        = <<Expect({Op("LBRACKET")})>> \o <<a, b, c>> \o <<Expect({Op("RBRACKET")})>>
  OBVIOUS
<1>3. <<Expect({Kind("LBRACE")}), a, b, c, Expect({Kind("RBRACE")})>>
        = <<Expect({Kind("LBRACE")})>> \o <<a, b, c>> \o <<Expect({Kind("RBRACE")})>>
  OBVIOUS
<1> QED  BY <1>1, <1>2, <1>3, InBrackets

LEMMA GivesLast ==
  ASSUME NEW F, NEW l, NEW t, NEW W, Gives(F, l, NodeSet), Giving(F, t, W)
  PROVE  Gives(F, l \o <<t>>, W)
  BY Gives1, GivesThen

LEMMA GivesFirst ==
  ASSUME NEW F, NEW l, NEW t, NEW W, Giving(F, t, NodeSet), Gives(F, l, W)
  PROVE  Gives(F, <<t>> \o l, W)
  BY Gives1, GivesThen

LEMMA Within1 ==
  ASSUME NEW F, NEW G, NEW s, Moves(F, G, s), NEW e, Moves(G, F, e), NEW a, NEW W, Giving(G, a, W)
  PROVE  Gives(F, <<s, a, e>>, W)
<1>1. Gives(G, <<a>>, W)
  BY Gives1
<1>2. <<s, a, e>> = <<s>> \o <<a>> \o <<e>>
  OBVIOUS
<1> QED  BY <1>1, <1>2, Within

LEMMA Within2 ==
  ASSUME NEW F, NEW G, NEW s, Moves(F, G, s), NEW e, Moves(G, F, e), NEW a, NEW b, NEW W,
         Gives(G, <<a, b>>, W)
  PROVE  Gives(F, <<s, a, b, e>>, W)
<1>1. <<s, a, b, e>> = <<s>> \o <<a, b>> \o <<e>>
  OBVIOUS
<1> QED  BY <1>1, Within

LEMMA Within3 ==
  ASSUME NEW F, NEW G, NEW s, Moves(F, G, s), NEW e, Moves(G, F, e), NEW a, NEW b, NEW c, NEW W,
         Gives(G, <<a, b, c>>, W)
  PROVE  Gives(F, <<s, a, b, c, e>>, W)
<1>1. <<s, a, b, c, e>> = <<s>> \o <<a, b, c>> \o <<e>>
  OBVIOUS
<1> QED  BY <1>1, Within

-----------------------------------------------------------------------------
(* A parse function is entered: its tasks are to give what it promises.    *)
LEMMA HereAny ==
  ASSUME Types, NEW l, NEW W, Gives(Flags(parser), l, W)
  PROVE  Holds(l, Here, St(Flags(parser), Open, W, Tokens))
<1>1. Open \in SUBSET Seq(Ones) /\ value \in NodeSet /\ this_token \in Tokens
  BY CurrentState DEF Types
<1>2. Here \subseteq All(Flags(parser), Open)
  BY <1>1, StMono DEF Here, All
<1> QED  BY <1>1, <1>2, HoldsMono DEF Gives

LEMMA EnterHolds ==
  ASSUME IInv, NEW f, On(f), NEW tasks, Enter(tasks), NEW W,
         Holds(tasks, Here, St(Flags(parser), Open, W, Tokens)),
         \A t, q : Name(t) = f /\ q.flags = Flags(parser) =>
           St(q.flags, q.open, W, Tokens) \subseteq Upon(t, q)
  PROVE  IInv'
<1>1. Doing("call") /\ Name(Now) = f
  BY DEF On, Doing, Name
<1>2. St(Flags(parser), Open, W, Tokens) \subseteq Upon(Now, Current)
  BY <1>1, CurrentState DEF IInv
<1>3. Holds(tasks, Here, Upon(Now, Current))
  BY <1>2, HoldsMono DEF IInv
<1> QED  BY <1>1, <1>3, EnterRule

LEMMA EnterGiving ==
  ASSUME IInv, NEW f, On(f), NEW tasks, Enter(tasks), NEW W, Gives(Flags(parser), tasks, W),
         \A t, q : Name(t) = f /\ q.flags = Flags(parser) =>
           St(q.flags, q.open, W, Tokens) \subseteq Upon(t, q)
  PROVE  IInv'
<1>1. Holds(tasks, Here, St(Flags(parser), Open, W, Tokens))
  BY HereAny DEF IInv
<1> QED  BY <1>1, EnterHolds

LEMMA EnterOther ==
  ASSUME IInv, NEW f, On(f), f \notin Telling, NEW tasks, Enter(tasks),
         Gives(Flags(parser), tasks, NodeSet)
  PROVE  IInv'
<1>1. \A t, q : Name(t) = f => St(q.flags, q.open, NodeSet, Tokens) \subseteq Upon(t, q)
  BY UponOther DEF All
<1> QED  BY <1>1, EnterGiving

LEMMA EnterOperand ==
  ASSUME IInv, NEW f, On(f), f \in OperandTasks \ Closers, NEW tasks, Enter(tasks),
         Gives(Flags(parser), tasks, Solid)
  PROVE  IInv'
<1>1. \A t, q : Name(t) = f => St(q.flags, q.open, Solid, Tokens) \subseteq Upon(t, q)
  BY UponOperand
<1> QED  BY <1>1, EnterGiving

(* One that is at depth 0.                                                 *)
LEMMA FreshDepth ==
  ASSUME IInv, NEW f \in Fresh, On(f)
  PROVE  parser.expression_depth = 0 /\ Flags(parser).expression_depth = 0
<1>1. outcome = "parsing" /\ stack # << >> /\ Now.do \in Steps /\ Name(Now) = f
  BY DEF On, Doing, Name, Steps
<1>2. Pre(Now, Current)
  BY <1>1, StepPre
<1>3. Current.flags.expression_depth = 0
  BY <1>1, <1>2 DEF Pre
<1>4. Flags(parser).expression_depth = parser.expression_depth
  BY DEF Flags, Fl
<1> QED  BY <1>3, <1>4, CurrentState DEF IInv

(* Tokens that are no brackets.                                            *)
LEMMA NeutralOnes ==
  /\ Neutral({Op("COMMA")}) /\ Neutral({Op("COLON")}) /\ Neutral({Op("PERIOD")})
  /\ Neutral({Op("QUO")}) /\ Neutral({Op("ELLIPSIS")}) /\ Neutral({Op("ARROW")})
  /\ Neutral({Op("NOT")}) /\ Neutral({Op("QUESTION")}) /\ Neutral({Op("POINTER")})
  /\ Neutral(Ops({"COMMA", "COLON"}))
  /\ Neutral({Kind("IDENTIFIER")}) /\ Neutral({Kind("CONST")}) /\ Neutral({Kind("UNDEFINED")})
  /\ Neutral({Kind("SEMICOLON")}) /\ Neutral({Kind("ATTRIBUTE")})
  /\ Neutral({EQ}) /\ Neutral({StringLiteral}) /\ Neutral({NEWLINE})
  /\ \A k : Neutral({Kw(k)}) /\ Neutral({Dir(k)}) /\ Neutral(Dirs(k))
  /\ Neutral({Kw("IF"), Kw("WHEN")})
<1>1. /\ Neutral({Op("COMMA")}) /\ Neutral({Op("COLON")}) /\ Neutral({Op("PERIOD")})
      /\ Neutral({Op("QUO")}) /\ Neutral({Op("ELLIPSIS")}) /\ Neutral({Op("ARROW")})
      /\ Neutral({Op("NOT")}) /\ Neutral({Op("QUESTION")}) /\ Neutral({Op("POINTER")})
      /\ Neutral(Ops({"COMMA", "COLON"}))
  BY DEF Neutral, Op, Ops, BracketOps
<1>2. /\ Neutral({Kind("IDENTIFIER")}) /\ Neutral({Kind("CONST")}) /\ Neutral({Kind("UNDEFINED")})
      /\ Neutral({Kind("SEMICOLON")}) /\ Neutral({Kind("ATTRIBUTE")})
      /\ Neutral({EQ}) /\ Neutral({StringLiteral}) /\ Neutral({NEWLINE})
  BY DEF Neutral, Kind, EQ, StringLiteral, NEWLINE, BracketOps
<1>3. /\ \A k : Neutral({Kw(k)}) /\ Neutral({Dir(k)}) /\ Neutral(Dirs(k))
      /\ Neutral({Kw("IF"), Kw("WHEN")})
  BY DEF Neutral, Kw, Dir, Dirs, BracketOps
<1> QED  BY <1>1, <1>2, <1>3

LEMMA Makes ==
  ASSUME NEW F
  PROVE  /\ Giving(F, Make(Identifier), Solid) /\ Giving(F, Make(Expression), Solid)
         /\ Giving(F, Make(Selector), Solid) /\ Giving(F, Make(PolyName), Solid)
         /\ Giving(F, Make(Absent), NodeSet) /\ Giving(F, Make(Absent), Operand)
         /\ Giving(F, Make(Expression), NodeSet)
         /\ \A kind \in NodeKinds : /\ Giving(F, Make(TypeOf(kind)), Solid)
                                    /\ Giving(F, Make(TypeOf(kind)), NodeSet)
                                    /\ Giving(F, Make(Statement(kind)), NodeSet)
  BY Nodes, GivingMake

LEMMA Solids == Solid \subseteq NodeSet /\ Solid \subseteq Operand /\ Operand \subseteq NodeSet
  BY DEF Solid, Operand

(* What is made of a node.                                                 *)
LEMMA MadeRules ==
  ASSUME NEW v \in NodeSet
  PROVE  /\ Made("type of expression", v) \in NodeSet
         /\ v \in Operand => Plain(Made("type of expression", v))
         /\ Made("expression of type", v) \in NodeSet
         /\ v \in Typed => Made("expression of type", v) \in Solid
         /\ \A f \in {"parenthesis", "directive"} :
              /\ Made(f, v) \in NodeSet /\ Made(f, v).kind = v.kind
              /\ Plain(v) => Made(f, v) \in Operand
         /\ Made("expression statement", v) \in NodeSet
         /\ Made("expression statement", v).of = v.kind
         /\ Made("condition", v) \in NodeSet
<1> DEFINE none == ""
           names == {"absent", "name", "other"}
           exprs == {"parenthesis", "directive"}
           type == Made("type of expression", v)
           expression == Made("expression of type", v)
           statement == Made("expression statement", v)
           condition == Made("condition", v)
<1>1. none \in NodeOps /\ none \in NodeKinds
  BY DEF NodeOps, Texts, NodeKinds
<1>2. "EXPRESSION" \in NodeKinds /\ "TYPE" \in NodeKinds /\ "other" \in names
  BY DEF NodeKinds
<1>3. v.kind \in NodeKinds /\ v.of \in NodeKinds /\ v.op \in NodeOps /\ v.name \in names
  BY DEF NodeSet
<1>4. ASSUME NEW kind \in NodeKinds, NEW of \in NodeKinds, NEW op \in NodeOps, NEW name \in names
      PROVE  /\ Node(kind, of, op, name) \in NodeSet /\ Node(kind, of, op, name).of = of
             /\ Node(kind, of, op, name).kind = kind /\ Node(kind, of, op, name).name = name
  BY NodeType
<1>5. /\ expression = Node("TYPE", v.kind, none, v.name)
      /\ statement = Node("EXPRESSION", v.kind, v.op, "other")
      /\ condition = Node(v.of, none, v.op, "other")
      /\ \A f \in exprs : Made(f, v) = [v EXCEPT !.closed = TRUE]
  BY Zenon DEF Made
<1>6. /\ v.kind = "NULL" => type = Absent
      /\ v.kind = "TYPE" => type = Node(v.of, none, none, v.name)
      /\ v.kind \notin {"NULL", "TYPE"} => type = Node("EXPRESSION", none, none, v.name)
  BY Zenon DEF Made
<1> HIDE DEF none, names, exprs, type, expression, statement, condition
<1>7. type \in NodeSet /\ (v \in Operand => Plain(type))
  BY <1>1, <1>2, <1>3, <1>4, <1>6, Nodes DEF Operand, Plain
<1>8. expression \in NodeSet /\ (v \in Typed => expression \in Solid)
  BY <1>1, <1>2, <1>3, <1>4, <1>5 DEF Typed, Solid, Operand, Plain, Unary
<1>9. /\ statement \in NodeSet /\ statement.of = v.kind /\ condition \in NodeSet
  BY <1>1, <1>2, <1>3, <1>4, <1>5
<1>10. ASSUME NEW f \in exprs
       PROVE  /\ Made(f, v) \in NodeSet /\ Made(f, v).kind = v.kind
              /\ Plain(v) => Made(f, v) \in Operand
  <2> DEFINE b == TRUE
             w == [v EXCEPT !.closed = b]
  <2>1. Made(f, v) = w
    BY <1>5
  <2>2. b \in BOOLEAN
    OBVIOUS
  <2>3. b
    OBVIOUS
  <2> HIDE DEF b
  <2>4. w \in NodeSet /\ w.kind = v.kind /\ w.name = v.name /\ w.closed = b
    BY <2>2 DEF NodeSet
  <2> HIDE DEF w
  <2>5. w.closed
    BY <2>3, <2>4, Zenon
  <2>6. Unary(w)
    BY <2>5, Zenon DEF Unary
  <2> QED  BY <2>1, <2>4, <2>6 DEF Operand, Plain
<1> QED  BY <1>7, <1>8, <1>9, <1>10, Zenon DEF exprs, type, expression, statement, condition

LEMMA GivesApply ==
  ASSUME NEW F, NEW l, NEW V, Gives(F, l, V), NEW f, NEW W,
         \A v \in V \cap NodeSet : Made(f, v) \in W \cap NodeSet
  PROVE  Gives(F, l \o <<Apply(f)>>, W)
<1> SUFFICES ASSUME NEW O \in SUBSET Seq(Ones)
             PROVE  Holds(l \o <<Apply(f)>>, All(F, O), St(F, O, W, Tokens))
  BY DEF Gives
<1>1. Holds(l, All(F, O), St(F, O, V, Tokens))
  BY DEF Gives
<1>2. Task(Apply(f), St(F, O, V, Tokens), St(F, O, W, Tokens))
  BY ApplyRule
<1> QED  BY <1>1, <1>2, Chain1, HoldsConcat

LEMMA GivesInspect ==
  ASSUME NEW F, NEW l, NEW V, Gives(F, l, V), \A v \in V \cap NodeSet : Present(F, v)
  PROVE  /\ Gives(F, l \o <<Inspect("absent expression")>>, {v \in V : v.kind # "NULL"})
         /\ Gives(F, l \o <<Inspect("absent expression")>>, NodeSet)
<1>1. ASSUME NEW O \in SUBSET Seq(Ones)
      PROVE  Holds(l \o <<Inspect("absent expression")>>, All(F, O),
                   St(F, O, {v \in V : v.kind # "NULL"}, Tokens))
  <2>1. Holds(l, All(F, O), St(F, O, V, Tokens))
    BY DEF Gives
  <2>2. Task(Inspect("absent expression"), St(F, O, V, Tokens),
             St(F, O, {v \in V : v.kind # "NULL"}, Tokens))
    BY CheckRules
  <2> QED  BY <2>1, <2>2, Chain1, HoldsConcat
<1>2. Gives(F, l \o <<Inspect("absent expression")>>, {v \in V : v.kind # "NULL"})
  BY <1>1 DEF Gives
<1> QED  BY <1>2, GivesMono

(* An operand and what follows it.                                         *)
LEMMA OperandAtom ==
  ASSUME NEW F, NEW b, NEW c
  PROVE  Gives(F, <<Lhs("parse_operand", b), Lhs("parse_atom_expression", c)>>, PresentOperand(F))
<1> DEFINE s == Lhs("parse_operand", b)
           t == Lhs("parse_atom_expression", c)
<1>1. s.do \in Steps /\ Name(s) = "parse_operand" /\ t.do \in Steps /\ Name(t) = "parse_atom_expression"
  BY CallName DEF Lhs
<1>2. "parse_operand" \notin Demanding /\ "parse_atom_expression" \in UnaryTasks
  BY DEF Demanding, Fresh, Advancing, Closers, BracketClosers, ValueTasks, UnaryTasks
<1> HIDE DEF s, t
<1>3. Giving(F, s, Operand)
  BY <1>1, <1>2, ResultsOf, StepGiving
<1>4. ASSUME NEW O \in SUBSET Seq(Ones)
      PROVE  Task(t, St(F, O, Operand, Tokens), St(F, O, PresentOperand(F), Tokens))
  <2> SUFFICES ASSUME NEW q \in St(F, O, Operand, Tokens)
               PROVE  ~q.broken /\ Pre(t, q) /\ Upon(t, q) \subseteq St(F, O, PresentOperand(F), Tokens)
    BY <1>1, StepTask
  <2>1. ~q.broken /\ q.flags = F /\ q.open \subseteq O /\ q.value \in Operand
    BY DEF St
  <2>2. Pre(t, q)
    BY <1>1, <2>1 DEF Pre, Fresh, Advancing, Closers, BracketClosers
  <2>3. Upon(t, q) = St(F, q.open, PresentOperand(F), Tokens)
    BY <1>1, <1>2, <2>1, UponUnary
  <2> QED  BY <2>1, <2>2, <2>3, StMono
<1> SUFFICES ASSUME NEW O \in SUBSET Seq(Ones)
             PROVE  Holds(<<s, t>>, All(F, O), St(F, O, PresentOperand(F), Tokens))
  BY DEF Gives, s, t
<1>5. Task(s, All(F, O), St(F, O, Operand, Tokens))
  BY <1>3 DEF Giving
<1> QED  BY <1>4, <1>5, Chain2

(* The functions of ParseTypes.                                            *)
LEMMA IdentifierInv == ASSUME IInv, parse_identifier PROVE IInv'
<1> DEFINE F == Flags(parser)
<1> HIDE DEF F
<1>1. Gives(F, <<Expect({Kind("CONST")}), Expect({Kind("IDENTIFIER")})>>, NodeSet)
  BY NeutralOnes, GivingExpect, Gives2
<1>2. Giving(F, Accept({Kind("IDENTIFIER")}, << >>,
                       <<Expect({Kind("CONST")}), Expect({Kind("IDENTIFIER")})>>), NodeSet)
  BY <1>1, NeutralOnes, GivesNone, GivingAccept
<1>3. Gives(F, <<Accept({Kind("IDENTIFIER")}, << >>,
                        <<Expect({Kind("CONST")}), Expect({Kind("IDENTIFIER")})>>),
                 Make(Identifier)>>, Solid)
  BY <1>2, Makes, Gives2
<1>4. "parse_identifier" \in OperandTasks \ Closers
  BY DEF OperandTasks, Closers, BracketClosers
<1> QED  BY <1>3, <1>4, EnterOperand DEF parse_identifier, F

(* The types that are a keyword or an operator, and another type.          *)
LEMMA PrefixTypeInv ==
  ASSUME IInv,
         \/ parse_typeid_type_expression \/ parse_pointer_type_expression
         \/ parse_slice_type_expression \/ parse_distinct_type_expression
  PROVE  IInv'
<1> DEFINE F == Flags(parser)
<1> HIDE DEF F
<1>1. /\ "parse_typeid_type_expression" \in OperandTasks \ Closers
      /\ "parse_pointer_type_expression" \in OperandTasks \ Closers
      /\ "parse_slice_type_expression" \in OperandTasks \ Closers
      /\ "parse_distinct_type_expression" \in OperandTasks \ Closers
  BY DEF OperandTasks, Closers, BracketClosers
<1>2. {"TYPEID", "POINTER", "SLICE", "DISTINCT"} \subseteq NodeKinds
  BY DEF NodeKinds
<1>3. CASE parse_typeid_type_expression
  <2>1. Gives(F, <<Expect({Kw("TYPEID")}), Make(TypeOf("TYPEID"))>>, Solid)
    BY <1>2, NeutralOnes, GivingExpect, Makes, Gives2
  <2> QED  BY <1>1, <1>3, <2>1, EnterOperand DEF parse_typeid_type_expression, F
<1>4. CASE parse_pointer_type_expression
  <2>1. Gives(F, <<Expect({Op("POINTER")}), Call("parse_type"), Make(TypeOf("POINTER"))>>, Solid)
    BY <1>2, NeutralOnes, GivingExpect, Calls, Makes, Gives3
  <2> QED  BY <1>1, <1>4, <2>1, EnterOperand DEF parse_pointer_type_expression, F
<1>5. CASE parse_slice_type_expression
  <2>1. Gives(F, <<Call("parse_type"), Make(TypeOf("SLICE"))>>, Solid)
    BY <1>2, Calls, Makes, Gives2
  <2> QED  BY <1>1, <1>5, <2>1, EnterOperand DEF parse_slice_type_expression, F
<1>6. CASE parse_distinct_type_expression
  <2>1. Gives(F, <<Expect({Kw("DISTINCT")}), Call("parse_type"), Make(TypeOf("DISTINCT"))>>, Solid)
    BY <1>2, NeutralOnes, GivingExpect, Calls, Makes, Gives3
  <2> QED  BY <1>1, <1>6, <2>1, EnterOperand DEF parse_distinct_type_expression, F
<1> QED  BY <1>3, <1>4, <1>5, <1>6

LEMMA TypeOrIdentifierInv == ASSUME IInv, parse_type_or_identifier PROVE IInv'
<1> DEFINE F == Flags(parser)
           G == Fl(-1, parser.allow_newline, TRUE, parser.allow_in)
           in == Set([expression_depth |-> -1, allow_type |-> TRUE])
           out == Set([expression_depth |-> parser.expression_depth, allow_type |-> parser.allow_type])
           a == Lhs("parse_operand", TRUE)
           b == Lhs("parse_atom_expression", TRUE)
           f == "type of expression"
           W == {v \in NodeSet : Plain(v)}
<1>1. Moves(F, G, in) /\ Moves(G, F, out)
  <2>1. -1 \in Nat \cup {-1} /\ TRUE \in BOOLEAN
    OBVIOUS
  <2> QED  BY <2>1, MovesHere, Zenon DEF IInv
<1>2. Gives(G, <<a, b>>, PresentOperand(G))
  BY OperandAtom
<1>3. PresentOperand(G) \cap NodeSet \subseteq Operand
  BY DEF PresentOperand
<1>4. \A v \in Operand \cap NodeSet : Made(f, v) \in W \cap NodeSet
  BY MadeRules, Zenon
<1>5. \A t, q : Name(t) = "parse_type_or_identifier" =>
                St(q.flags, q.open, W, Tokens) \subseteq Upon(t, q)
  BY UponType
<1>6. parse_type_or_identifier =>
        On("parse_type_or_identifier") /\ Enter(<<in, a, b, out, Apply(f)>>)
  BY Zenon DEF parse_type_or_identifier
<1> HIDE DEF F, G, in, out, a, b, f, W
<1>7. Gives(F, <<in, a, b, out>>, Operand)
  BY <1>1, <1>2, <1>3, Within2, GivesMono
<1>8. Gives(F, <<in, a, b, out>> \o <<Apply(f)>>, W)
  BY <1>4, <1>7, GivesApply
<1>9. <<in, a, b, out, Apply(f)>> = <<in, a, b, out>> \o <<Apply(f)>>
  BY List41
<1> QED  BY <1>5, <1>6, <1>8, <1>9, EnterGiving DEF F

LEMMA TypeInv == ASSUME IInv, parse_type PROVE IInv'
<1> DEFINE F == Flags(parser)
           l == <<Call("parse_type_or_identifier"), Refuse({"NULL"})>>
<1>1. \A t, q : Name(t) = "parse_type" => St(q.flags, q.open, Typed, Tokens) \subseteq Upon(t, q)
  BY UponType
<1>2. Giving(F, Call("parse_type_or_identifier"), {v \in NodeSet : Plain(v)})
  <2> DEFINE t == Call("parse_type_or_identifier")
  <2>1. t.do \in Steps /\ Name(t) = "parse_type_or_identifier"
    BY CallName
  <2>2. "parse_type_or_identifier" \notin Demanding
    BY DEF Demanding, Fresh, Advancing, Closers, BracketClosers, ValueTasks
  <2> HIDE DEF t
  <2>3. \A q : Results(t, q) = {v \in NodeSet : Plain(v)}
    BY <2>1, ResultsOf
  <2> QED  BY <2>1, <2>2, <2>3, StepGiving DEF t
<1> HIDE DEF F
<1>3. Gives(F, l, Typed)
  <2> SUFFICES ASSUME NEW O \in SUBSET Seq(Ones)
               PROVE  Holds(l, All(F, O), St(F, O, Typed, Tokens))
    BY DEF Gives
  <2> DEFINE W == {v \in NodeSet : Plain(v)}
             U == {v \in W : v.kind \notin {"NULL"}}
  <2>1. Task(Call("parse_type_or_identifier"), All(F, O), St(F, O, W, Tokens))
    BY <1>2 DEF Giving
  <2>2. Task(Refuse({"NULL"}), St(F, O, W, Tokens), St(F, O, U, Tokens))
    BY CheckRules
  <2>3. St(F, O, U, Tokens) \subseteq St(F, O, Typed, Tokens)
    BY StMono DEF Typed
  <2> HIDE DEF W, U
  <2> QED  BY <2>1, <2>2, <2>3, Chain2, HoldsMono
<1> QED  BY <1>1, <1>3, EnterGiving DEF parse_type, F

LEMMA VariableInv ==
  ASSUME IInv, parse_variable_name_or_type \/ parse_field_flags PROVE IInv'
<1> DEFINE F == Flags(parser)
           keyword == <<Accept({Op("QUO")}, <<Call("parse_type")>>, << >>), Make(Statement("TYPEID"))>>
           other == <<Accept({Kw("TYPEID")}, keyword, <<Call("parse_type")>>)>>
           pack == <<Call("parse_type_or_identifier"), Refuse({"NULL"})>>
           variable == <<Accept({Op("ELLIPSIS")}, pack, other)>>
           flags == <<Optional({Kw("USING")}), While({Kind("DIRECTIVE")}, <<Expect(FieldDirectives)>>)>>
<1>1. "parse_variable_name_or_type" \notin Telling /\ "parse_field_flags" \notin Telling
  BY DEF Telling, OperandTasks, UnaryTasks, ExprTasks, StatementTasks, Closers, BracketClosers
<1> HIDE DEF F
<1>2. "TYPEID" \in NodeKinds
  BY DEF NodeKinds
<1>3. Gives(F, <<Call("parse_type")>>, NodeSet)
  BY Calls, Gives1
<1>4. Giving(F, Accept({Op("QUO")}, <<Call("parse_type")>>, << >>), NodeSet)
  BY <1>3, NeutralOnes, GivesNone, GivingAccept
<1>5. Gives(F, keyword, NodeSet)
  BY <1>2, <1>4, Makes, Gives2
<1>6. Gives(F, pack, NodeSet)
  BY Calls, GivingCheck, Gives2
<1> HIDE DEF keyword, pack
<1>7. Gives(F, other, NodeSet)
  BY <1>3, <1>5, NeutralOnes, GivingAccept, Gives1
<1> HIDE DEF other
<1>8. Gives(F, variable, NodeSet)
  BY <1>6, <1>7, NeutralOnes, GivingAccept, Gives1
<1>9. Gives(F, <<Expect(FieldDirectives)>>, NodeSet)
  BY NeutralOnes, GivingExpect, Gives1 DEF FieldDirectives
<1>10. Giving(F, While({Kind("DIRECTIVE")}, <<Expect(FieldDirectives)>>), NodeSet)
  BY <1>9, LoopedGives, GivingLoop
<1>11. Giving(F, Optional({Kw("USING")}), NodeSet)
  BY NeutralOnes, GivesNone, GivingAccept DEF Optional
<1>12. Gives(F, flags, NodeSet)
  BY <1>10, <1>11, Gives2
<1>13. CASE parse_variable_name_or_type
  BY <1>1, <1>8, <1>13, EnterOther DEF parse_variable_name_or_type, F, keyword, pack, other
<1>14. CASE parse_field_flags
  BY <1>1, <1>12, <1>14, EnterOther DEF parse_field_flags, F
<1> QED  BY <1>13, <1>14

-----------------------------------------------------------------------------
(* What closes a bracket that is open at its start.                        *)
Shuts(F, l, one, W) ==
  \A O \in SUBSET Seq(Ones) : Holds(l, All(F, With(O, one)), St(F, O, W, Tokens))
Shutting(F, t, one, W) ==
  \A O \in SUBSET Seq(Ones) : Task(t, All(F, With(O, one)), St(F, O, W, Tokens))

LEMMA WithOnes ==
  ASSUME NEW O \in SUBSET Seq(Ones), NEW one \in ClosingBrackets
  PROVE  With(O, one) \in SUBSET Seq(Ones)
  BY DEF With, Ones

LEMMA Closings ==
  /\ Op("RPAREN") \in ClosingBrackets /\ Op("RBRACKET") \in ClosingBrackets
  /\ Kind("RBRACE") \in ClosingBrackets
  BY DEF ClosingBrackets

LEMMA Shuts1 ==
  ASSUME NEW F, NEW t, NEW one, NEW W, Shutting(F, t, one, W)
  PROVE  Shuts(F, <<t>>, one, W)
  BY Chain1 DEF Shuts, Shutting

LEMMA ShuttingExpect ==
  ASSUME NEW F, NEW one \in ClosingBrackets
  PROVE  Shutting(F, Expect({one}), one, NodeSet)
  BY ExpectClose DEF Shutting, All

LEMMA Shuts2 ==
  ASSUME NEW F, NEW t, NEW u, NEW one \in ClosingBrackets, NEW W,
         Giving(F, t, NodeSet), Shutting(F, u, one, W)
  PROVE  Shuts(F, <<t, u>>, one, W)
<1> SUFFICES ASSUME NEW O \in SUBSET Seq(Ones)
             PROVE  Holds(<<t, u>>, All(F, With(O, one)), St(F, O, W, Tokens))
  BY DEF Shuts
<1>1. Task(t, All(F, With(O, one)), All(F, With(O, one)))
  BY WithOnes DEF Giving, All
<1> QED  BY <1>1, Chain2 DEF Shutting

(* Before it is closed, and after.                                         *)
LEMMA ShutsAfter ==
  ASSUME NEW F, NEW one \in ClosingBrackets, NEW l, NEW m, NEW W,
         Gives(F, l, NodeSet), Shuts(F, m, one, W)
  PROVE  Shuts(F, l \o m, one, W)
<1> SUFFICES ASSUME NEW O \in SUBSET Seq(Ones)
             PROVE  Holds(l \o m, All(F, With(O, one)), St(F, O, W, Tokens))
  BY DEF Shuts
<1>1. Holds(l, All(F, With(O, one)), All(F, With(O, one)))
  BY WithOnes DEF Gives, All
<1> QED  BY <1>1, HoldsConcat DEF Shuts

LEMMA ShutsBefore ==
  ASSUME NEW F, NEW one, NEW l, NEW m, NEW W, Shuts(F, l, one, NodeSet), Gives(F, m, W)
  PROVE  Shuts(F, l \o m, one, W)
  BY HoldsConcat DEF Shuts, Gives, All

LEMMA ShutsExpect ==
  ASSUME NEW F, NEW one \in ClosingBrackets, NEW l, NEW m, NEW W,
         Gives(F, l, NodeSet), Gives(F, m, W)
  PROVE  /\ Shuts(F, l \o <<Expect({one})>> \o m, one, W)
         /\ Shuts(F, <<Expect({one})>> \o m, one, W)
<1>1. Shuts(F, <<Expect({one})>>, one, NodeSet)
  BY ShuttingExpect, Shuts1
<1>2. Shuts(F, l \o <<Expect({one})>>, one, NodeSet)
  BY <1>1, ShutsAfter
<1> QED  BY <1>1, <1>2, ShutsBefore

(* Either of two ways.                                                     *)
LEMMA ShuttingWhen ==
  ASSUME NEW F, NEW one, NEW ones, NEW a, NEW b, NEW W, Shuts(F, a, one, W), Shuts(F, b, one, W)
  PROVE  Shutting(F, When(ones, a, b), one, W)
<1> SUFFICES ASSUME NEW O \in SUBSET Seq(Ones)
             PROVE  Task(When(ones, a, b), All(F, With(O, one)), St(F, O, W, Tokens))
  BY DEF Shutting
<1>1. St(F, With(O, one), NodeSet, At(ones)) \subseteq All(F, With(O, one))
  BY DEF All, St, State
<1>2. /\ Holds(a, St(F, With(O, one), NodeSet, At(ones)), St(F, O, W, Tokens))
      /\ Holds(b, All(F, With(O, one)), St(F, O, W, Tokens))
  BY <1>1, HoldsMono DEF Shuts
<1> QED  BY <1>2, WhenRule DEF All

LEMMA ShuttingAccept ==
  ASSUME NEW F, NEW one \in ClosingBrackets, NEW a, NEW b, NEW W
  PROVE  /\ Gives(F, a, W) /\ Shuts(F, b, one, W) => Shutting(F, Accept({one}, a, b), one, W)
         /\ \A ones : Neutral(ones) /\ Shuts(F, a, one, W) /\ Shuts(F, b, one, W) =>
              Shutting(F, Accept(ones, a, b), one, W)
<1>1. ASSUME Gives(F, a, W), Shuts(F, b, one, W), NEW O \in SUBSET Seq(Ones)
      PROVE  Task(Accept({one}, a, b), All(F, With(O, one)), St(F, O, W, Tokens))
  BY <1>1, AcceptClose DEF Gives, Shuts, All
<1>2. ASSUME NEW ones, Neutral(ones), Shuts(F, a, one, W), Shuts(F, b, one, W),
             NEW O \in SUBSET Seq(Ones)
      PROVE  Task(Accept(ones, a, b), All(F, With(O, one)), St(F, O, W, Tokens))
  BY <1>2, AcceptNeutral DEF Shuts, All
<1> QED  BY <1>1, <1>2 DEF Shutting

(* One that opens it.                                                      *)
LEMMA GivesOpen ==
  ASSUME NEW F, NEW l, NEW W
  PROVE  /\ Shuts(F, l, Op("RPAREN"), W) => Gives(F, <<Expect({Op("LPAREN")})>> \o l, W)
         /\ Shuts(F, l, Op("RBRACKET"), W) => Gives(F, <<Expect({Op("LBRACKET")})>> \o l, W)
         /\ Shuts(F, l, Kind("RBRACE"), W) => Gives(F, <<Expect({Kind("LBRACE")})>> \o l, W)
<1> SUFFICES ASSUME NEW open, NEW close,
                    \A O : Task(Expect({open}), All(F, O), All(F, With(O, close))),
                    Shuts(F, l, close, W)
             PROVE  Gives(F, <<Expect({open})>> \o l, W)
  BY ExpectOpen DEF All
<1> SUFFICES ASSUME NEW O \in SUBSET Seq(Ones)
             PROVE  Holds(<<Expect({open})>> \o l, All(F, O), St(F, O, W, Tokens))
  BY DEF Gives
<1>1. Holds(<<Expect({open})>>, All(F, O), All(F, With(O, close)))
  BY Chain1
<1> QED  BY <1>1, HoldsConcat DEF Shuts

LEMMA GivingOpen ==
  ASSUME NEW F, NEW a, NEW b, NEW W, Gives(F, b, W)
  PROVE  /\ Shuts(F, a, Op("RPAREN"), W) => Giving(F, Accept({Op("LPAREN")}, a, b), W)
         /\ Shuts(F, a, Kind("RBRACE"), W) => Giving(F, Accept({Kind("LBRACE")}, a, b), W)
<1>1. ASSUME Shuts(F, a, Op("RPAREN"), W), NEW O \in SUBSET Seq(Ones)
      PROVE  Task(Accept({Op("LPAREN")}, a, b), All(F, O), St(F, O, W, Tokens))
  BY <1>1, AcceptOpen DEF Gives, Shuts, All
<1>2. ASSUME Shuts(F, a, Kind("RBRACE"), W), NEW O \in SUBSET Seq(Ones)
      PROVE  Task(Accept({Kind("LBRACE")}, a, b), All(F, O), St(F, O, W, Tokens))
  BY <1>2, AcceptOpen DEF Gives, Shuts, All
<1> QED  BY <1>1, <1>2 DEF Giving

(* The functions that close a bracket, called and entered.                 *)
LEMMA FrontWith ==
  ASSUME NEW O \in SUBSET Seq(Ones), NEW one \in ClosingBrackets
  PROVE  /\ {Front(o) : o \in With(O, one)} = O
         /\ \A o \in With(O, one) : o # << >> /\ Last(o) = one
<1>1. one \in Ones
  BY DEF Ones
<1>2. \A o \in O : Append(o, one) # << >> /\ Last(Append(o, one)) = one /\ Front(Append(o, one)) = o
  BY <1>1, LastFront
<1> QED  BY <1>2 DEF With

LEMMA ShutsCall ==
  ASSUME NEW F, NEW f \in BracketClosers, NEW args
  PROVE  /\ Shuts(F, <<Call(f)>>, Op("RBRACKET"), Solid)
         /\ Shuts(F, <<CallWith(f, args)>>, Op("RBRACKET"), Solid)
<1> SUFFICES ASSUME NEW t, t.do \in Steps, Name(t) = f
             PROVE  Shutting(F, t, Op("RBRACKET"), Solid)
  BY CallName, Shuts1
<1> DEFINE one == Op("RBRACKET")
<1>1. one \in ClosingBrackets /\ Closer(f) = one
  BY Closings DEF Closer, BracketClosers
<1> HIDE DEF one
<1> SUFFICES ASSUME NEW O \in SUBSET Seq(Ones), NEW q \in All(F, With(O, one))
             PROVE  ~q.broken /\ Pre(t, q) /\ Upon(t, q) \subseteq St(F, O, Solid, Tokens)
  BY StepTask DEF Shutting, one
<1>2. ~q.broken /\ q.flags = F /\ q.open \subseteq With(O, one)
  BY DEF All, St
<1>3. \A o \in q.open : o # << >> /\ Last(o) = one
  BY <1>1, <1>2, FrontWith
<1>4. Pre(t, q)
  BY <1>1, <1>3 DEF Pre, Fresh, Advancing, BracketClosers
<1>5. {Front(o) : o \in q.open} \subseteq O
  BY <1>1, <1>2, FrontWith
<1>6. Upon(t, q) = St(F, {Front(o) : o \in q.open}, Solid, Tokens)
  BY <1>2, UponOperand
<1> QED  BY <1>2, <1>4, <1>5, <1>6, StMono

LEMMA ShutsClosing ==
  ASSUME NEW F
  PROVE  Shutting(F, Call("expect_closing"), Kind("RBRACE"), NodeSet)
<1> DEFINE one == Kind("RBRACE")
           t == Call("expect_closing")
<1>1. t.do \in Steps /\ Name(t) = "expect_closing"
  BY CallName
<1>2. one \in ClosingBrackets /\ Closer("expect_closing") = one
  BY Closings DEF Closer
<1> HIDE DEF one, t
<1> SUFFICES ASSUME NEW O \in SUBSET Seq(Ones), NEW q \in All(F, With(O, one))
             PROVE  ~q.broken /\ Pre(t, q) /\ Upon(t, q) \subseteq All(F, O)
  BY <1>1, StepTask DEF Shutting, one, t, All
<1>3. ~q.broken /\ q.flags = F /\ q.open \subseteq With(O, one)
  BY DEF All, St
<1>4. \A o \in q.open : o # << >> /\ Last(o) = one
  BY <1>2, <1>3, FrontWith
<1>5. Pre(t, q)
  BY <1>1, <1>2, <1>4 DEF Pre, Fresh, Advancing
<1>6. {Front(o) : o \in q.open} \subseteq O
  BY <1>2, <1>3, FrontWith
<1>7. Upon(t, q) = All(F, {Front(o) : o \in q.open})
  BY <1>1, <1>3, UponOther
<1> QED  BY <1>3, <1>5, <1>6, <1>7, StMono DEF All

LEMMA OpenWith ==
  ASSUME IInv, NEW f \in Closers, On(f)
  PROVE  LET P == {Front(o) : o \in Open}
         IN /\ P \in SUBSET Seq(Ones) /\ Open \subseteq With(P, Closer(f))
            /\ Current.open = Open /\ Name(Now) = f
<1>1. outcome = "parsing" /\ stack # << >> /\ Now.do \in Steps /\ Name(Now) = f
  BY DEF On, Doing, Name, Steps
<1>2. Pre(Now, Current)
  BY <1>1, StepPre
<1>3. Current.open = Open /\ Open \subseteq Seq(Ones)
  BY CurrentState DEF IInv
<1>4. \A o \in Open : o # << >> /\ Last(o) = Closer(f)
  BY <1>1, <1>2, <1>3 DEF Pre
<1>5. ASSUME NEW o \in Open PROVE Front(o) \in Seq(Ones) /\ o = Append(Front(o), Closer(f))
  <2>1. o \in Seq(Ones) /\ o # << >> /\ o[Len(o)] = Closer(f)
    BY <1>3, <1>4 DEF Last
  <2> QED  BY <2>1 DEF Front
<1> QED  BY <1>1, <1>3, <1>5 DEF With

LEMMA EnterCloser ==
  ASSUME IInv, NEW f \in Closers, On(f), NEW tasks, Enter(tasks), NEW W,
         Shuts(Flags(parser), tasks, Closer(f), W),
         \A t, q : Name(t) = f =>
           St(q.flags, {Front(o) : o \in q.open}, W, Tokens) \subseteq Upon(t, q)
  PROVE  IInv'
<1> DEFINE P == {Front(o) : o \in Open}
<1>1. /\ P \in SUBSET Seq(Ones) /\ Open \subseteq With(P, Closer(f))
      /\ Current.open = Open /\ Name(Now) = f
  BY OpenWith
<1>2. Doing("call")
  BY DEF On
<1>3. Current.flags = Flags(parser) /\ value \in NodeSet /\ this_token \in Tokens
  BY CurrentState DEF IInv, Types
<1>4. St(Flags(parser), P, W, Tokens) \subseteq Upon(Now, Current)
  BY <1>1, <1>3
<1> HIDE DEF P
<1>5. Here \subseteq All(Flags(parser), With(P, Closer(f)))
  BY <1>1, <1>3, StMono DEF Here, All
<1>6. Holds(tasks, All(Flags(parser), With(P, Closer(f))), St(Flags(parser), P, W, Tokens))
  BY <1>1 DEF Shuts
<1>7. Holds(tasks, Here, Upon(Now, Current))
  BY <1>4, <1>5, <1>6, HoldsMono
<1> QED  BY <1>2, <1>7, EnterRule

LEMMA EnterBracket ==
  ASSUME IInv, NEW f \in BracketClosers, On(f), NEW tasks, Enter(tasks),
         Shuts(Flags(parser), tasks, Op("RBRACKET"), Solid)
  PROVE  IInv'
<1>1. f \in Closers /\ Closer(f) = Op("RBRACKET")
  BY DEF Closers, Closer, BracketClosers
<1>2. \A t, q : Name(t) = f => St(q.flags, {Front(o) : o \in q.open}, Solid, Tokens) \subseteq Upon(t, q)
  BY UponOperand
<1> QED  BY <1>1, <1>2, EnterCloser

(* A step of a function that goes on after a call.                         *)
LEMMA StepHolds ==
  ASSUME IInv, NEW f \in Steps \ {"call"}, Doing(f), NEW tasks, Go(tasks \o Rest), NEW W,
         Holds(tasks, Here, St(Flags(parser), Open, W, Tokens)),
         \A t, q : Name(t) = f /\ q.flags = Flags(parser) =>
           St(q.flags, q.open, W, Tokens) \subseteq Upon(t, q)
  PROVE  IInv'
<1>1. outcome = "parsing" /\ stack # << >> /\ Now.do \in Steps /\ Name(Now) = f
  BY DEF Doing, Name
<1>2. St(Flags(parser), Open, W, Tokens) \subseteq Upon(Now, Current)
  BY <1>1, CurrentState DEF IInv
<1>3. Holds(tasks, Here, Upon(Now, Current))
  BY <1>2, HoldsMono DEF IInv
<1> QED  BY <1>1, <1>3, StepRule

LEMMA StepGives ==
  ASSUME IInv, NEW f \in Steps \ {"call"}, Doing(f), NEW tasks, Go(tasks \o Rest), NEW W,
         Gives(Flags(parser), tasks, W),
         \A t, q : Name(t) = f /\ q.flags = Flags(parser) =>
           St(q.flags, q.open, W, Tokens) \subseteq Upon(t, q)
  PROVE  IInv'
<1>1. Holds(tasks, Here, St(Flags(parser), Open, W, Tokens))
  BY HereAny DEF IInv
<1> QED  BY <1>1, StepHolds

LEMMA StepOther ==
  ASSUME IInv, NEW f \in Steps \ {"call"}, f \notin Telling, Doing(f), NEW tasks, Go(tasks \o Rest),
         Gives(Flags(parser), tasks, NodeSet)
  PROVE  IInv'
<1>1. \A t, q : Name(t) = f => St(q.flags, q.open, NodeSet, Tokens) \subseteq Upon(t, q)
  BY UponOther DEF All
<1> QED  BY <1>1, StepGives

LEMMA MoreCalls ==
  ASSUME NEW F, NEW args
  PROVE  /\ Giving(F, Call("parse_procedure_type"), NodeSet)
         /\ Giving(F, Call("parse_procedure_results"), NodeSet)
         /\ Giving(F, CallWith("align", args), NodeSet)
         /\ Giving(F, Call("parse_import_statement"), NodeSet)
         /\ Giving(F, Call("parse_foreign_import_statement"), NodeSet)
         /\ Giving(F, Call("parse_if_statement"), NodeSet)
         /\ Giving(F, Call("parse_when_statement"), NodeSet)
<1> DEFINE names ==
      {"parse_procedure_type", "parse_procedure_results", "align", "parse_import_statement",
       "parse_foreign_import_statement", "parse_if_statement", "parse_when_statement"}
<1>1. \A f \in names : f \notin Demanding
  BY DEF Demanding, Fresh, Advancing, Closers, BracketClosers, ValueTasks
<1>2. \A f \in names : Giving(F, Call(f), NodeSet) /\ \A as : Giving(F, CallWith(f, as), NodeSet)
  BY <1>1, CallGiving
<1> QED  BY <1>2

LEMMA GivingOptional ==
  ASSUME NEW F, NEW ones, Neutral(ones)
  PROVE  Giving(F, Optional(ones), NodeSet)
  BY GivesNone, GivingAccept DEF Optional

(* A token, which is no bracket, and a task, as often as the token comes.  *)
LEMMA GivingAdvance ==
  ASSUME NEW F, NEW ones, Neutral(ones), NEW t, Giving(F, t, NodeSet)
  PROVE  Giving(F, While(ones, <<Advance, t>>), NodeSet)
<1> SUFFICES ASSUME NEW O \in SUBSET Seq(Ones)
             PROVE  Task(While(ones, <<Advance, t>>), All(F, O), All(F, O))
  BY DEF Giving, All
<1>1. Task(Advance, St(F, O, NodeSet, At(ones)), All(F, O)) /\ Task(t, All(F, O), All(F, O))
  BY AdvanceRule DEF Giving, All
<1>2. Holds(<<Advance, t>>, St(F, O, NodeSet, At(ones)), Looping(F, O))
  BY <1>1, Chain2, AllMono, HoldsMono
<1> QED  BY <1>2, WhileRule DEF All

-----------------------------------------------------------------------------
(* Fields.                                                                 *)
LEMMA FieldGiving ==
  ASSUME NEW F, NEW struct, NEW names
  PROVE  Giving(F, FieldNames(struct, names), NodeSet) /\ Giving(F, FieldNamed(struct, names), NodeSet)
<1>1. /\ FieldNames(struct, names).do \in Steps /\ Name(FieldNames(struct, names)) = "field_names"
      /\ FieldNamed(struct, names).do \in Steps /\ Name(FieldNamed(struct, names)) = "field_named"
  BY DEF FieldNames, FieldNamed, Steps, Name
<1>2. "field_names" \notin Demanding /\ "field_named" \notin Demanding
  BY DEF Demanding, Fresh, Advancing, Closers, BracketClosers, ValueTasks
<1>3. \A t, q : Results(t, q) \cap NodeSet \subseteq NodeSet
  OBVIOUS
<1> QED  BY <1>1, <1>2, <1>3, StepGiving

LEMMA GivesDefault ==
  ASSUME NEW F, NEW typed \in BOOLEAN
  PROVE  Gives(F, Default(typed), NodeSet)
<1> DEFINE tag == IF typed THEN <<Optional({StringLiteral})>> ELSE << >>
<1>1. Gives(F, <<Optional({StringLiteral})>>, NodeSet)
  BY NeutralOnes, GivingOptional, Gives1
<1>2. Gives(F, tag, NodeSet)
  BY <1>1, GivesNone
<1>3. Gives(F, <<RhsExpression>>, NodeSet)
  <2>1. Giving(F, RhsExpression, NodeSet)
    BY Calls
  <2> QED  BY <2>1, Gives1
<1> HIDE DEF tag
<1>4. Gives(F, <<Accept({EQ}, <<RhsExpression>>, tag)>>, NodeSet)
  BY <1>2, <1>3, NeutralOnes, GivingAccept, Gives1
<1> QED  BY <1>4 DEF Default, tag

LEMMA GivesFields ==
  ASSUME NEW F, NEW typed \in BOOLEAN, NEW names
  PROVE  Gives(F, Fields(typed, names), NodeSet)
<1>1. Gives(F, IF typed /\ ~names THEN <<Fail>> ELSE << >>, NodeSet)
  BY GivesNone, GivingFail
<1> QED  BY <1>1, GivesDefault, GivesThen DEF Fields

LEMMA GivesColonType ==
  ASSUME NEW F, NEW typed, NEW untyped, Gives(F, typed, NodeSet), Gives(F, untyped, NodeSet)
  PROVE  Gives(F, ColonType(typed, untyped), NodeSet)
<1> DEFINE call == Call("parse_variable_name_or_type")
<1>1. Giving(F, call, NodeSet)
  BY Calls
<1> HIDE DEF call
<1>2. Gives(F, <<call>> \o typed, NodeSet)
  BY <1>1, GivesFirst
<1>3. Giving(F, When({EQ}, untyped, <<call>> \o typed), NodeSet)
  BY <1>2, GivingWhen
<1>4. Giving(F, Expect({Op("COLON")}), NodeSet)
  BY NeutralOnes, GivingExpect
<1> QED  BY <1>3, <1>4, Gives2 DEF ColonType, call

LEMMA GivesFieldTail ==
  ASSUME NEW F, NEW struct, NEW names
  PROVE  Gives(F, FieldTail(struct, names), NodeSet)
<1> DEFINE flags == Call("parse_field_flags")
           name == Call("parse_identifier")
           more == While({Op("COMMA")}, <<Advance, name>>)
           type == ColonType(Default(TRUE), Default(FALSE))
           body == <<flags, name, more>> \o type \o <<SeparatorOrBreak>>
           first == When({Op("COLON")}, ColonType(Fields(TRUE, names), Fields(FALSE, names)),
                         Fields(FALSE, names))
           ends == FieldsEnd(struct) \cup {Kind("EOF"), Kind("SEMICOLON")}
<1>1. TRUE \in BOOLEAN /\ FALSE \in BOOLEAN
  OBVIOUS
<1>2. /\ Gives(F, Fields(TRUE, names), NodeSet) /\ Gives(F, Fields(FALSE, names), NodeSet)
      /\ Gives(F, Default(TRUE), NodeSet) /\ Gives(F, Default(FALSE), NodeSet)
  BY <1>1, GivesFields, GivesDefault, Zenon
<1>3. Gives(F, type, NodeSet) /\ Gives(F, ColonType(Fields(TRUE, names), Fields(FALSE, names)), NodeSet)
  BY <1>2, GivesColonType, Zenon
<1>4. Giving(F, first, NodeSet)
  BY <1>2, <1>3, GivingWhen, Zenon
<1>5. Giving(F, flags, NodeSet) /\ Giving(F, name, NodeSet)
  BY Calls
<1>6. Giving(F, more, NodeSet)
  BY <1>5, NeutralOnes, GivingAdvance
<1> HIDE DEF flags, name, more, type, first, ends
<1>7. Gives(F, <<flags, name, more>>, NodeSet)
  BY <1>5, <1>6, Gives3
<1>8. Looped(F, body)
  BY <1>3, <1>7, GivesThen, LoopedBreak, LoopedThen
<1> HIDE DEF body
<1>9. Gives(F, <<Until(ends, body)>>, NodeSet)
  BY <1>8, GivingLoop, Gives1
<1>10. Giving(F, Separator(<<Until(ends, body)>>, << >>), NodeSet)
  BY <1>9, GivesNone, GivingSeparator
<1>11. FieldTail(struct, names) = <<first, Separator(<<Until(ends, body)>>, << >>)>>
  BY Zenon DEF FieldTail, first, ends, body, type, more, flags, name
<1> QED  BY <1>4, <1>10, <1>11, Gives2

LEMMA FieldNamesInv == ASSUME IInv, field_names PROVE IInv'
<1> DEFINE F == Flags(parser)
           flags == Call("parse_field_flags")
           type == Call("parse_variable_name_or_type")
<1> HIDE DEF F
<1>1. /\ "field_names" \in Steps \ {"call"} /\ "field_named" \in Steps \ {"call"}
      /\ "field_names" \notin Telling /\ "field_named" \notin Telling
  BY DEF Steps, Telling, OperandTasks, UnaryTasks, ExprTasks, StatementTasks, Closers, BracketClosers
<1>2. \A struct, names : Gives(F, FieldTail(struct, names), NodeSet)
  BY GivesFieldTail
<1>3. CASE Doing("field_names")
  <2> DEFINE end == This({IF Now.struct THEN Kind("RBRACE") ELSE Op("COLON"), Kind("EOF")})
             tail == FieldTail(Now.struct, Now.names)
             next == <<flags, type, FieldNamed(Now.struct, Now.names)>>
  <2>1. Gives(F, next, NodeSet)
    BY Calls, FieldGiving, Gives3
  <2>2. Go((IF end THEN tail ELSE next) \o Rest)
    BY <1>3 DEF field_names, Doing
  <2> HIDE DEF end, tail, next
  <2>3. Gives(F, IF end THEN tail ELSE next, NodeSet)
    BY <1>2, <2>1 DEF tail
  <2> QED  BY <1>1, <1>3, <2>2, <2>3, StepOther DEF F
<1>4. CASE Doing("field_named")
  <2> DEFINE names == Now.names /\ value.name = "name"
             next == <<FieldNames(Now.struct, names)>>
             tail == FieldTail(Now.struct, names)
  <2>1. Gives(F, next, NodeSet)
    BY FieldGiving, Gives1
  <2>2. Go(<<Separator(next, tail)>> \o Rest)
    BY <1>4 DEF field_names, Doing
  <2>3. Gives(F, tail, NodeSet)
    BY <1>2
  <2> HIDE DEF next, tail
  <2>4. Gives(F, <<Separator(next, tail)>>, NodeSet)
    BY <2>1, <2>3, GivingSeparator, Gives1
  <2> QED  BY <1>1, <1>4, <2>2, <2>4, StepOther DEF F
<1> QED  BY <1>3, <1>4 DEF field_names

LEMMA FieldListInv == ASSUME IInv, parse_field_list PROVE IInv'
<1> DEFINE F == Flags(parser)
           G == Fl(parser.expression_depth, TRUE, parser.allow_type, parser.allow_in)
           in == AllowNewline(TRUE)
           out == AllowNewline(parser.allow_newline)
           names == FieldNames(Args.struct, TRUE)
<1>1. Moves(F, G, in) /\ Moves(G, F, out)
  <2>1. TRUE \in BOOLEAN /\ -1 \in Nat \cup {-1}
    OBVIOUS
  <2> QED  BY <2>1, MovesHere, Zenon DEF IInv
<1>2. Giving(G, names, NodeSet)
  BY FieldGiving
<1>3. "parse_field_list" \notin Telling
  BY DEF Telling, OperandTasks, UnaryTasks, ExprTasks, StatementTasks, Closers, BracketClosers
<1>4. On("parse_field_list") /\ Enter(<<When({Op("RPAREN")}, << >>, <<in, names, out>>)>>)
  BY DEF parse_field_list
<1> HIDE DEF F, G, in, out, names
<1>5. Gives(F, <<in, names, out>>, NodeSet)
  BY <1>1, <1>2, Within1
<1>6. Gives(F, <<When({Op("RPAREN")}, << >>, <<in, names, out>>)>>, NodeSet)
  BY <1>5, GivesNone, GivingWhen, Gives1
<1> QED  BY <1>3, <1>4, <1>6, EnterOther DEF F

(* Procedures.                                                             *)
LEMMA GivesParameters ==
  ASSUME NEW F
  PROVE  /\ Gives(F, <<FieldList(FALSE), PossibleNewline>>, NodeSet)
         /\ Gives(F, <<Expect({Op("LPAREN")}), FieldList(FALSE), PossibleNewline,
                       Expect({Op("RPAREN")})>>, NodeSet)
<1>1. Gives(F, <<FieldList(FALSE), PossibleNewline>>, NodeSet)
  <2>1. Giving(F, FieldList(FALSE), NodeSet) /\ Giving(F, PossibleNewline, NodeSet)
    BY Calls, GivingSemicolon
  <2> QED  BY <2>1, Gives2
<1> QED  BY <1>1, InBrackets2

LEMMA ProcedureTypeInv ==
  ASSUME IInv, parse_procedure_results \/ parse_procedure_type PROVE IInv'
<1> DEFINE F == Flags(parser)
           open == Expect({Op("LPAREN")})
           fields == FieldList(FALSE)
           close == Expect({Op("RPAREN")})
           params == <<open, fields, PossibleNewline, close>>
           type == <<Call("parse_type")>>
           results == <<Accept({Op("NOT")}, << >>, <<When({Op("LPAREN")}, params, type)>>)>>
           convention == Accept({StringLiteral}, <<Either(<<Fail>>)>>, << >>)
           tail == Call("parse_procedure_results")
<1>1. "parse_procedure_results" \notin Telling /\ "parse_procedure_type" \notin Telling
  BY DEF Telling, OperandTasks, UnaryTasks, ExprTasks, StatementTasks, Closers, BracketClosers
<1> HIDE DEF F
<1>2. Gives(F, params, NodeSet)
  BY GivesParameters
<1>3. Gives(F, type, NodeSet)
  BY Calls, Gives1
<1>4. Giving(F, tail, NodeSet)
  BY MoreCalls
<1>5. Giving(F, convention, NodeSet)
  <2>1. Gives(F, <<Either(<<Fail>>)>>, NodeSet)
    BY GivingFail, GivingEither, Gives1
  <2> QED  BY <2>1, NeutralOnes, GivesNone, GivingAccept
<1>6. CASE parse_procedure_results
  <2>1. On("parse_procedure_results") /\ Enter(<<Accept({Op("ARROW")}, results, << >>)>>)
    BY <1>6 DEF parse_procedure_results
  <2> HIDE DEF params, type
  <2>2. Gives(F, <<When({Op("LPAREN")}, params, type)>>, NodeSet)
    BY <1>2, <1>3, GivingWhen, Gives1
  <2>3. Gives(F, results, NodeSet)
    BY <2>2, NeutralOnes, GivesNone, GivingAccept, Gives1
  <2> HIDE DEF results
  <2>4. Gives(F, <<Accept({Op("ARROW")}, results, << >>)>>, NodeSet)
    BY <2>3, NeutralOnes, GivesNone, GivingAccept, Gives1
  <2> QED  BY <1>1, <2>1, <2>4, EnterOther DEF F
<1>7. CASE parse_procedure_type
  <2>1. /\ On("parse_procedure_type")
        /\ Enter(<<convention, open, fields, PossibleNewline, close, tail>>)
    BY <1>7 DEF parse_procedure_type
  <2> HIDE DEF convention, open, fields, close, tail
  <2>2. Gives(F, <<open, fields, PossibleNewline, close, tail>>, NodeSet)
    BY <1>2, <1>4, GivesSnoc5
  <2>3. Gives(F, <<convention, open, fields, PossibleNewline, close, tail>>, NodeSet)
    BY <1>5, <2>2, GivesCons6
  <2> QED  BY <1>1, <2>1, <2>3, EnterOther DEF F
<1> QED  BY <1>6, <1>7

LEMMA WhereInv == ASSUME IInv, where_clause PROVE IInv'
<1> DEFINE F == Flags(parser)
           G == Fl(-1, parser.allow_newline, parser.allow_type, parser.allow_in)
           in == Depth(-1)
           out == Depth(parser.expression_depth)
           call == Lhs("parse_tuple_expression", FALSE)
<1>1. Moves(F, G, in) /\ Moves(G, F, out)
  <2>1. TRUE \in BOOLEAN /\ -1 \in Nat \cup {-1}
    OBVIOUS
  <2> QED  BY <2>1, MovesHere, Zenon DEF IInv
<1>2. Giving(G, call, NodeSet)
  BY Calls
<1>3. "where_clause" \notin Telling
  BY DEF Telling, OperandTasks, UnaryTasks, ExprTasks, StatementTasks, Closers, BracketClosers
<1>4. On("where_clause") /\ Enter(<<in, call, out>>)
  BY DEF where_clause
<1> HIDE DEF F, G, in, out, call
<1> QED  BY <1>1, <1>2, <1>3, <1>4, Within1, EnterOther DEF F

LEMMA GivingMoves == ASSUME NEW F, NEW t, Moves(F, F, t) PROVE Giving(F, t, NodeSet)
  BY DEF Moves, Giving, All

LEMMA GivesProcedureTail ==
  ASSUME Types, NEW where
  PROVE  Gives(Flags(parser), ProcedureTail(where), Solid)
<1> DEFINE F == Flags(parser)
           set == Set([this_procedure |-> TRUE])
           procedure == <<set, Call("parse_body"), Make(Expression)>>
           type == <<Make(TypeOf("PROCEDURE"))>>
           directives == While({Kind("DIRECTIVE")}, <<Expect(ProcedureDirectives)>>)
           undefined == IF where THEN <<Fail>> ELSE <<Make(Expression)>>
           body == <<When({Kind("LBRACE")}, procedure, type)>>
<1>1. Giving(F, set, NodeSet)
  <2> DEFINE d == parser.expression_depth
             n == parser.allow_newline
             y == parser.allow_type
             i == parser.allow_in
  <2>1. F = Fl(d, n, y, i)
    BY ParserFlags
  <2>2. 0 \in Nat \cup {-1} /\ TRUE \in BOOLEAN
    OBVIOUS
  <2> HIDE DEF F, d, n, y, i
  <2>3. Moves(Fl(d, n, y, i), Fl(d, n, y, i), set)
    BY <2>2, MovesRules, ZenonT(60)
  <2> QED  BY <2>1, <2>3, GivingMoves
<1>2. Gives(F, <<Expect(ProcedureDirectives)>>, NodeSet)
  BY NeutralOnes, GivingExpect, Gives1 DEF ProcedureDirectives
<1>3. Giving(F, directives, NodeSet)
  BY <1>2, LoopedGives, GivingLoop
<1>4. "PROCEDURE" \in NodeKinds
  BY DEF NodeKinds
<1>5. ProcedureTail(where) = <<directives, NewlineWithin, Accept({Kind("UNDEFINED")}, undefined, body)>>
  BY Zenon DEF ProcedureTail, directives, undefined, body, procedure, type, set
<1> HIDE DEF F, set, directives
<1>6. Gives(F, procedure, Solid)
  BY <1>1, Calls, Makes, Gives3
<1>7. Gives(F, type, Solid)
  BY <1>4, Makes, Gives1
<1>8. Gives(F, undefined, Solid)
  <2>1. Gives(F, <<Make(Expression)>>, Solid)
    BY Makes, Gives1
  <2> QED  BY <2>1, GivingFail
<1> HIDE DEF procedure, type, undefined
<1>9. Gives(F, body, Solid)
  BY <1>6, <1>7, GivingWhen, Gives1
<1> HIDE DEF body
<1>10. Giving(F, Accept({Kind("UNDEFINED")}, undefined, body), Solid)
  BY <1>8, <1>9, NeutralOnes, GivingAccept
<1>11. Giving(F, NewlineWithin, NodeSet)
  BY GivingSemicolon
<1>12. Gives(F, ProcedureTail(where), Solid)
  BY <1>3, <1>5, <1>10, <1>11, Gives3
<1> QED  BY <1>12 DEF F

LEMMA ProcedureInv == ASSUME IInv, parse_procedure PROVE IInv'
<1> DEFINE F == Flags(parser)
           type == Call("parse_procedure_type")
           where == Call("where_clause")
           tail(b) == ProcedureTail(b)
<1>1. On("parse_procedure") /\ Enter(<<type, NewlineWithin,
        Accept({Kw("WHERE")}, <<where>> \o tail(TRUE), tail(FALSE))>>)
  BY DEF parse_procedure
<1>2. "parse_procedure" \in OperandTasks \ Closers
  BY DEF OperandTasks, Closers, BracketClosers
<1>3. \A b : Gives(F, tail(b), Solid)
  BY GivesProcedureTail DEF IInv
<1> HIDE DEF F, tail, type, where
<1>4. Giving(F, where, NodeSet) /\ Giving(F, type, NodeSet) /\ Giving(F, NewlineWithin, NodeSet)
  BY Calls, MoreCalls, GivingSemicolon DEF where, type
<1>5. Gives(F, <<where>> \o tail(TRUE), Solid)
  BY <1>3, <1>4, GivesFirst
<1>6. Giving(F, Accept({Kw("WHERE")}, <<where>> \o tail(TRUE), tail(FALSE)), Solid)
  BY <1>3, <1>5, NeutralOnes, GivingAccept
<1>7. Gives(F, <<type, NewlineWithin,
                 Accept({Kw("WHERE")}, <<where>> \o tail(TRUE), tail(FALSE))>>, Solid)
  BY <1>4, <1>6, Gives3
<1> QED  BY <1>1, <1>2, <1>7, EnterOperand DEF F

(* Types with brackets.                                                    *)
LEMMA GivesBracket ==
  ASSUME NEW F, NEW l, Gives(F, l, NodeSet)
  PROVE  Gives(F, Bracket(l), NodeSet)
  BY InBrackets DEF Bracket

LEMMA BracketTypeInv ==
  ASSUME IInv,
         parse_bit_set_type_expression \/ parse_map_type_expression \/ parse_matrix_type_expression
  PROVE  IInv'
<1> DEFINE F == Flags(parser)
           type == Call("parse_type")
           expr == Lhs("parse_expression", TRUE)
           base == Accept({Kind("SEMICOLON")}, <<type>>, << >>)
<1>1. /\ "parse_bit_set_type_expression" \in OperandTasks \ Closers
      /\ "parse_map_type_expression" \in OperandTasks \ Closers
      /\ "parse_matrix_type_expression" \in OperandTasks \ Closers
  BY DEF OperandTasks, Closers, BracketClosers
<1>2. {"BIT_SET", "MAP", "MATRIX"} \subseteq NodeKinds
  BY DEF NodeKinds
<1> HIDE DEF F
<1>3. /\ Giving(F, type, NodeSet) /\ Giving(F, expr, NodeSet) /\ Giving(F, RhsExpression, NodeSet)
  BY Calls
<1>4. \A k : Giving(F, Expect({Kw(k)}), NodeSet)
  BY NeutralOnes, GivingExpect
<1>5. CASE parse_bit_set_type_expression
  <2> DEFINE k == Expect({Kw("BIT_SET")})
             m == Make(TypeOf("BIT_SET"))
  <2>1. On("parse_bit_set_type_expression") /\ Enter(<<k>> \o Bracket(<<RhsExpression, base>>) \o <<m>>)
    BY <1>5 DEF parse_bit_set_type_expression
  <2>2. Giving(F, m, Solid) /\ Giving(F, k, NodeSet)
    BY <1>2, <1>4, Makes
  <2> HIDE DEF k, m, type
  <2>3. Gives(F, <<type>>, NodeSet)
    BY <1>3, Gives1
  <2>4. Giving(F, base, NodeSet)
    BY <2>3, NeutralOnes, GivesNone, GivingAccept
  <2> HIDE DEF base
  <2>5. Gives(F, Bracket(<<RhsExpression, base>>), NodeSet)
    BY <1>3, <2>4, Gives2, GivesBracket
  <2>6. Gives(F, <<k>> \o Bracket(<<RhsExpression, base>>) \o <<m>>, Solid)
    BY <2>2, <2>5, GivesFirst, GivesLast
  <2> QED  BY <1>1, <2>1, <2>6, EnterOperand DEF F
<1>6. CASE parse_map_type_expression
  <2> DEFINE k == Expect({Kw("MAP")})
             m == Make(TypeOf("MAP"))
  <2>1. On("parse_map_type_expression") /\ Enter(<<k>> \o Bracket(<<expr>>) \o <<type, m>>)
    BY <1>6 DEF parse_map_type_expression
  <2>2. Giving(F, m, Solid) /\ Giving(F, k, NodeSet)
    BY <1>2, <1>4, Makes
  <2> HIDE DEF k, m, type, expr
  <2>3. Gives(F, Bracket(<<expr>>), NodeSet)
    BY <1>3, Gives1, GivesBracket
  <2>4. Gives(F, <<type, m>>, Solid)
    BY <1>3, <2>2, Gives2
  <2>5. Gives(F, <<k>> \o Bracket(<<expr>>) \o <<type, m>>, Solid)
    BY <2>2, <2>3, <2>4, GivesFirst, GivesThen
  <2> QED  BY <1>1, <2>1, <2>5, EnterOperand DEF F
<1>7. CASE parse_matrix_type_expression
  <2> DEFINE k == Expect({Kw("MATRIX")})
             m == Make(TypeOf("MATRIX"))
             comma == Expect({Op("COMMA")})
  <2>1. On("parse_matrix_type_expression")
        /\ Enter(<<k>> \o Bracket(<<expr, comma, expr>>) \o <<type, m>>)
    BY <1>7 DEF parse_matrix_type_expression
  <2>2. Giving(F, m, Solid) /\ Giving(F, k, NodeSet) /\ Giving(F, comma, NodeSet)
    BY <1>2, <1>4, Makes, NeutralOnes, GivingExpect
  <2> HIDE DEF k, m, type, expr, comma
  <2>3. Gives(F, Bracket(<<expr, comma, expr>>), NodeSet)
    BY <1>3, <2>2, Gives3, GivesBracket
  <2>4. Gives(F, <<type, m>>, Solid)
    BY <1>3, <2>2, Gives2
  <2>5. Gives(F, <<k>> \o Bracket(<<expr, comma, expr>>) \o <<type, m>>, Solid)
    BY <2>2, <2>3, <2>4, GivesFirst, GivesThen
  <2> QED  BY <1>1, <2>1, <2>5, EnterOperand DEF F
<1> QED  BY <1>5, <1>6, <1>7

(* Types of which the bracket was opened before.                           *)
LEMMA ArrayTypeInv ==
  ASSUME IInv,
         \/ parse_multi_pointer_type_expression \/ parse_array_type_expression
         \/ parse_dynamic_array_type_expression
  PROVE  IInv'
<1> DEFINE F == Flags(parser)
           G == Fl(parser.expression_depth + 1, parser.allow_newline, parser.allow_type,
                   parser.allow_in)
           close == Expect({Op("RBRACKET")})
           type == Call("parse_type")
           make(kind) == Make(TypeOf(kind))
           kinds == {"MULTI_POINTER", "ARRAY", "DYNAMIC_ARRAY"}
<1>1. /\ "parse_multi_pointer_type_expression" \in BracketClosers
      /\ "parse_array_type_expression" \in BracketClosers
      /\ "parse_dynamic_array_type_expression" \in BracketClosers
  BY DEF BracketClosers
<1>2. \A kind \in kinds : Giving(F, make(kind), Solid)
  <2>1. kinds \subseteq NodeKinds
    BY DEF NodeKinds
  <2> QED  BY <2>1, Makes
<1>3. Moves(F, G, Deeper(1)) /\ Moves(G, F, Deeper(-1))
  <2>1. TRUE \in BOOLEAN /\ -1 \in Nat \cup {-1}
    OBVIOUS
  <2> QED  BY <2>1, MovesHere, Zenon DEF IInv
<1>4. Giving(F, type, NodeSet) /\ Giving(G, RhsExpression, NodeSet)
  BY Calls
<1> HIDE DEF F, G, type, make
<1>5. ASSUME NEW kind \in kinds
      PROVE  Shuts(F, <<close, type, make(kind)>>, Op("RBRACKET"), Solid)
  <2>1. Gives(F, <<type, make(kind)>>, Solid) /\ Gives(F, << >>, NodeSet)
    BY <1>2, <1>4, Gives2, GivesNone
  <2>2. Shuts(F, <<Expect({Op("RBRACKET")})>> \o <<type, make(kind)>>, Op("RBRACKET"), Solid)
    BY <2>1, Closings, ShutsExpect
  <2>3. <<Expect({Op("RBRACKET")}), type, make(kind)>>
          = <<Expect({Op("RBRACKET")})>> \o <<type, make(kind)>>
    OBVIOUS
  <2> QED  BY <2>2, <2>3
<1>6. \A l : Gives(F, l, NodeSet) =>
              \A kind \in kinds : Shuts(F, l \o <<close, type, make(kind)>>, Op("RBRACKET"), Solid)
  BY <1>5, Closings, ShutsAfter
<1>7. CASE parse_multi_pointer_type_expression
  <2> DEFINE pointer == Expect({Op("POINTER")})
             m == make("MULTI_POINTER")
  <2>1. On("parse_multi_pointer_type_expression") /\ Enter(<<pointer, close, type, m>>)
    BY <1>7 DEF parse_multi_pointer_type_expression, type, make
  <2>2. Gives(F, <<pointer>>, NodeSet)
    BY NeutralOnes, GivingExpect, Gives1
  <2>3. Shuts(F, <<pointer>> \o <<close, type, m>>, Op("RBRACKET"), Solid)
    BY <1>6, <2>2
  <2> HIDE DEF pointer, m, close
  <2>4. <<pointer, close, type, m>> = <<pointer>> \o <<close, type, m>>
    OBVIOUS
  <2> QED  BY <1>1, <2>1, <2>3, <2>4, EnterBracket DEF F
<1>8. CASE parse_array_type_expression
  <2> DEFINE count == <<Deeper(1), RhsExpression, Deeper(-1)>>
             none == <<Expect({Op("QUESTION")})>>
             first == IF Args.count THEN count ELSE none
             m == make("ARRAY")
  <2>1. On("parse_array_type_expression") /\ Enter(first \o <<close, type, m>>)
    BY <1>8 DEF parse_array_type_expression, type, make
  <2>2. Gives(F, none, NodeSet)
    BY NeutralOnes, GivingExpect, Gives1
  <2>3. Gives(F, count, NodeSet)
    BY <1>3, <1>4, Within1
  <2> HIDE DEF none, count
  <2>4. Gives(F, first, NodeSet)
    BY <2>2, <2>3
  <2> HIDE DEF first
  <2>5. Shuts(F, first \o <<close, type, m>>, Op("RBRACKET"), Solid)
    BY <1>6, <2>4
  <2> QED  BY <1>1, <2>1, <2>5, EnterBracket DEF F
<1>9. CASE parse_dynamic_array_type_expression
  <2>1. On("parse_dynamic_array_type_expression") /\ Enter(<<close, type, make("DYNAMIC_ARRAY")>>)
    BY <1>9 DEF parse_dynamic_array_type_expression, type, make
  <2> QED  BY <1>1, <1>5, <2>1, EnterBracket DEF F
<1> QED  BY <1>7, <1>8, <1>9

(* A value that is there, in a list of values.                             *)
LEMMA GivesValue ==
  ASSUME NEW F
  PROVE  Gives(F, <<Call("parse_value"), Inspect("absent expression")>>, NodeSet)
<1> DEFINE call == Call("parse_value")
           what == "absent expression"
           inspect == Inspect(what)
<1>1. Giving(F, call, Expr(F))
  BY ValueGiving
<1>2. \A v \in Expr(F) \cap NodeSet : Present(F, v)
  BY DEF Expr
<1>3. \A O : Task(inspect, St(F, O, Expr(F), Tokens),
                  St(F, O, {v \in Expr(F) : v.kind # "NULL"}, Tokens))
  BY <1>2, CheckRules, Zenon
<1> HIDE DEF call, inspect, what
<1> SUFFICES ASSUME NEW O \in SUBSET Seq(Ones)
             PROVE  Holds(<<call, inspect>>, All(F, O), All(F, O))
  BY DEF Gives, All, call, inspect, what
<1>4. Task(call, All(F, O), St(F, O, Expr(F), Tokens))
  BY <1>1 DEF Giving
<1> DEFINE U == {v \in Expr(F) : v.kind # "NULL"}
<1>5. Task(inspect, St(F, O, Expr(F), Tokens), St(F, O, U, Tokens))
  BY <1>3
<1> HIDE DEF U
<1>6. St(F, O, U, Tokens) \subseteq All(F, O)
  BY AllMono
<1> QED  BY <1>4, <1>5, <1>6, Chain2, HoldsMono

LEMMA Looped4 ==
  ASSUME NEW F, NEW a, NEW b, NEW c, Gives(F, <<a, b>>, NodeSet), Giving(F, c, NodeSet)
  PROVE  Looped(F, <<a, b, c, SeparatorOrBreak>>)
<1>1. Gives(F, <<a, b, c>>, NodeSet)
  BY GivesSnoc3
<1>2. <<a, b, c, SeparatorOrBreak>> = <<a, b, c>> \o <<SeparatorOrBreak>>
  OBVIOUS
<1> QED  BY <1>1, <1>2, LoopedBreak, LoopedThen

LEMMA Looped5 ==
  ASSUME NEW F, NEW a, NEW b, NEW c, NEW d,
         Gives(F, <<a, b>>, NodeSet), Giving(F, c, NodeSet), Giving(F, d, NodeSet)
  PROVE  Looped(F, <<a, b, c, d, SeparatorOrBreak>>)
<1>1. Gives(F, <<a, b, c, d>>, NodeSet)
  BY GivesSnoc3, GivesSnoc4
<1>2. <<a, b, c, d, SeparatorOrBreak>> = <<a, b, c, d>> \o <<SeparatorOrBreak>>
  OBVIOUS
<1> QED  BY <1>1, <1>2, LoopedBreak, LoopedThen

LEMMA GroupInv ==
  ASSUME IInv, parse_procedure_group_expression \/ parse_poly_type_expression PROVE IInv'
<1> DEFINE F == Flags(parser)
           until == Until({Kind("RBRACE"), Kind("EOF")}, <<RhsExpression, SeparatorOrBreak>>)
           open == Expect({Kind("LBRACE")})
           close == Expect({Kind("RBRACE")})
           type == <<Call("parse_type"), Make(TypeOf("POLY"))>>
           const == Expect({Kind("CONST")})
           name == Call("parse_identifier")
<1>1. /\ "parse_procedure_group_expression" \in OperandTasks \ Closers
      /\ "parse_poly_type_expression" \in OperandTasks \ Closers
  BY DEF OperandTasks, Closers, BracketClosers
<1> HIDE DEF F
<1>2. CASE parse_procedure_group_expression
  <2>1. /\ On("parse_procedure_group_expression")
        /\ Enter(<<open, until, close, Make(Expression)>>)
    BY <1>2 DEF parse_procedure_group_expression
  <2>2. Giving(F, RhsExpression, NodeSet)
    BY Calls
  <2>3. Giving(F, until, NodeSet)
    BY <2>2, Looped2, GivingLoop
  <2> HIDE DEF until
  <2>4. Gives(F, <<open, until, close>>, NodeSet)
    BY <2>3, Gives1, InBrackets1
  <2> HIDE DEF open, close
  <2>5. Gives(F, <<open, until, close, Make(Expression)>>, Solid)
    BY <2>4, Makes, GivesSnoc4
  <2> QED  BY <1>1, <2>1, <2>5, EnterOperand DEF F
<1>3. CASE parse_poly_type_expression
  <2>1. /\ On("parse_poly_type_expression")
        /\ Enter(<<const, name, Accept({Op("QUO")}, type, <<Make(PolyName)>>)>>)
    BY <1>3 DEF parse_poly_type_expression
  <2>2. "POLY" \in NodeKinds
    BY DEF NodeKinds
  <2>3. Gives(F, type, Solid) /\ Gives(F, <<Make(PolyName)>>, Solid)
    BY <2>2, Calls, Makes, Gives1, Gives2
  <2>4. Giving(F, const, NodeSet) /\ Giving(F, name, NodeSet)
    BY NeutralOnes, GivingExpect, Calls
  <2> HIDE DEF type, const, name
  <2>5. Giving(F, Accept({Op("QUO")}, type, <<Make(PolyName)>>), Solid)
    BY <2>3, NeutralOnes, GivingAccept
  <2>6. Gives(F, <<const, name, Accept({Op("QUO")}, type, <<Make(PolyName)>>)>>, Solid)
    BY <2>4, <2>5, Gives3
  <2> QED  BY <1>1, <2>1, <2>6, EnterOperand DEF F
<1> QED  BY <1>2, <1>3

LEMMA AlignInv == ASSUME IInv, align PROVE IInv'
<1> DEFINE F == Flags(parser)
           G == Fl(-1, parser.allow_newline, parser.allow_type, parser.allow_in)
           in == Depth(-1)
           out == Depth(parser.expression_depth)
           expr == Lhs("parse_expression", TRUE)
           parens == <<Expect({Op("LPAREN")}), expr, Expect({Op("RPAREN")})>>
           l == IF Args.struct THEN parens ELSE <<expr>>
<1>1. Moves(F, G, in) /\ Moves(G, F, out)
  <2>1. TRUE \in BOOLEAN /\ -1 \in Nat \cup {-1}
    OBVIOUS
  <2> QED  BY <2>1, MovesHere, Zenon DEF IInv
<1>2. Gives(G, <<expr>>, NodeSet)
  BY Calls, Gives1
<1>3. Gives(G, parens, NodeSet)
  BY <1>2, InBrackets1
<1>4. "align" \notin Telling
  BY DEF Telling, OperandTasks, UnaryTasks, ExprTasks, StatementTasks, Closers, BracketClosers
<1>5. On("align") /\ Enter(<<in>> \o l \o <<out>>)
  BY DEF align
<1> HIDE DEF F, G, in, out, expr, parens
<1>6. Gives(G, l, NodeSet)
  BY <1>2, <1>3
<1> HIDE DEF l
<1> QED  BY <1>1, <1>4, <1>5, <1>6, Within, EnterOther DEF F

(* Structures, unions and enumerations.                                    *)
LEMMA HeaderRule ==
  ASSUME NEW F, NEW struct, NEW directives, NEW l, Gives(F, l, NodeSet),
         NEW m, NEW W, Shuts(F, m, Kind("RBRACE"), W)
  PROVE  Gives(F, l \o Header(struct, directives) \o m, W)
<1> DEFINE params == Accept({Op("LPAREN")}, <<FieldList(FALSE), Expect({Op("RPAREN")})>>, << >>)
           other == <<Accept(Dirs(directives), << >>, <<IF struct THEN Fail ELSE Misreport>>)>>
           directive == <<Accept({Dir("ALIGN")}, <<CallWith("align", [struct |-> struct])>>, other)>>
           listed == While({Kind("DIRECTIVE")}, directive)
           where == Accept({Kw("WHERE")}, <<Call("where_clause")>>, << >>)
           open == Expect({Kind("LBRACE")})
           head == <<params, listed, NewlineWithin, where, NewlineWithin>>
<1>1. Giving(F, params, NodeSet)
  <2> DEFINE fields == FieldList(FALSE)
  <2>1. Giving(F, fields, NodeSet) /\ Gives(F, << >>, NodeSet)
    BY Calls, GivesNone
  <2> HIDE DEF fields
  <2>2. Shuts(F, <<fields, Expect({Op("RPAREN")})>>, Op("RPAREN"), NodeSet)
    BY <2>1, ShuttingExpect, Shuts2, Closings
  <2> QED  BY <2>1, <2>2, GivingOpen DEF fields
<1>2. Gives(F, other, NodeSet)
  <2>1. Gives(F, <<IF struct THEN Fail ELSE Misreport>>, NodeSet)
    BY GivingFail, Gives1
  <2> QED  BY <2>1, NeutralOnes, GivesNone, GivingAccept, Gives1
<1> HIDE DEF other, params
<1>3. Gives(F, directive, NodeSet)
  BY <1>2, MoreCalls, NeutralOnes, GivingAccept, Gives1
<1> HIDE DEF directive
<1>4. Giving(F, listed, NodeSet)
  BY <1>3, LoopedGives, GivingLoop
<1>5. Giving(F, where, NodeSet) /\ Giving(F, NewlineWithin, NodeSet)
  BY Calls, NeutralOnes, GivesNone, GivingAccept, Gives1, GivingSemicolon
<1>6. Header(struct, directives) = <<params, listed, NewlineWithin, where, NewlineWithin, open>>
  BY Zenon DEF Header, params, listed, directive, other, where, open
<1> HIDE DEF listed, where
<1>7. Gives(F, head, NodeSet)
  BY <1>1, <1>4, <1>5, Gives5
<1> SUFFICES ASSUME NEW O \in SUBSET Seq(Ones)
             PROVE  Holds(l \o Header(struct, directives) \o m, All(F, O), St(F, O, W, Tokens))
  BY DEF Gives
<1>8. Holds(head, All(F, O), All(F, O)) /\ Holds(l, All(F, O), All(F, O))
  BY <1>7 DEF Gives, All
<1>9. Holds(<<open>>, All(F, O), All(F, With(O, Kind("RBRACE"))))
  BY ExpectOpen, Chain1 DEF All
<1>10. Header(struct, directives) = head \o <<open>>
  <2> HIDE DEF open
  <2> QED  BY <1>6
<1>11. Holds(l \o Header(struct, directives), All(F, O), All(F, With(O, Kind("RBRACE"))))
  BY <1>8, <1>9, <1>10, HoldsConcat
<1> QED  BY <1>11, HoldsConcat DEF Shuts

LEMMA StructureInv ==
  ASSUME IInv, parse_struct_type_expression \/ parse_union_type_expression PROVE IInv'
<1> DEFINE F == Flags(parser)
           keyword(k) == Expect({Kw(k)})
           close == Expect({Kind("RBRACE")})
           make(kind) == Make(TypeOf(kind))
<1>1. /\ "parse_struct_type_expression" \in OperandTasks \ Closers
      /\ "parse_union_type_expression" \in OperandTasks \ Closers
  BY DEF OperandTasks, Closers, BracketClosers
<1>2. \A kind \in {"STRUCT", "UNION"} : Giving(F, make(kind), Solid)
  <2>1. {"STRUCT", "UNION"} \subseteq NodeKinds
    BY DEF NodeKinds
  <2> QED  BY <2>1, Makes
<1>3. \A k : Gives(F, <<keyword(k)>>, NodeSet)
  BY NeutralOnes, GivingExpect, Gives1
<1> HIDE DEF F, keyword, make
<1>4. ASSUME NEW t, Giving(F, t, NodeSet), NEW kind \in {"STRUCT", "UNION"}
      PROVE  Shuts(F, <<t, close, make(kind)>>, Kind("RBRACE"), Solid)
  <2>1. Gives(F, <<t>>, NodeSet) /\ Gives(F, <<make(kind)>>, Solid)
    BY <1>2, <1>4, Gives1
  <2>2. Shuts(F, <<t>> \o <<close>> \o <<make(kind)>>, Kind("RBRACE"), Solid)
    BY <2>1, Closings, ShutsExpect
  <2> HIDE DEF close
  <2>3. <<t, close, make(kind)>> = <<t>> \o <<close>> \o <<make(kind)>>
    BY <1>4
  <2> QED  BY <2>2, <2>3
<1>5. CASE parse_struct_type_expression
  <2> DEFINE header == Header(TRUE, {"PACKED", "RAW_UNION", "NO_COPY"})
             tail == <<FieldList(TRUE), close, make("STRUCT")>>
  <2>1. On("parse_struct_type_expression") /\ Enter(<<keyword("STRUCT")>> \o header \o tail)
    BY <1>5 DEF parse_struct_type_expression, keyword, make
  <2>2. Shuts(F, tail, Kind("RBRACE"), Solid)
    BY <1>4, Calls
  <2> HIDE DEF tail
  <2>3. Gives(F, <<keyword("STRUCT")>> \o header \o tail, Solid)
    BY <1>3, <2>2, HeaderRule
  <2> HIDE DEF header
  <2> QED  BY <1>1, <2>1, <2>3, EnterOperand DEF F
<1>6. CASE parse_union_type_expression
  <2> DEFINE header == Header(FALSE, {"NO_NIL", "SHARED_NIL", "MAYBE"})
             type == Call("parse_type")
             until == Until({Kind("RBRACE"), Kind("EOF")}, <<type, SeparatorOrBreak>>)
             tail == <<until, close, make("UNION")>>
  <2>1. On("parse_union_type_expression") /\ Enter(<<keyword("UNION")>> \o header \o tail)
    BY <1>6 DEF parse_union_type_expression, keyword, make
  <2>2. Giving(F, until, NodeSet)
    BY Calls, Looped2, GivingLoop
  <2> HIDE DEF until
  <2>3. Shuts(F, tail, Kind("RBRACE"), Solid)
    BY <1>4, <2>2
  <2> HIDE DEF tail
  <2>4. Gives(F, <<keyword("UNION")>> \o header \o tail, Solid)
    BY <1>3, <2>3, HeaderRule
  <2> HIDE DEF header
  <2> QED  BY <1>1, <2>1, <2>4, EnterOperand DEF F
<1> QED  BY <1>5, <1>6

LEMMA EnumInv == ASSUME IInv, parse_enum_type_expression PROVE IInv'
<1> DEFINE F == Flags(parser)
           keyword == Expect({Kw("ENUM")})
           type == Call("parse_type")
           base == When({Kind("LBRACE")}, << >>, <<type>>)
           val == Call("parse_value")
           inspect == Inspect("absent expression")
           name == Check({"IDENTIFIER"})
           equal == Accept({EQ}, <<val>>, << >>)
           until == Until({Kind("RBRACE"), Kind("EOF")},
                          <<val, inspect, name, equal, SeparatorOrBreak>>)
           open == Expect({Kind("LBRACE")})
           close == Expect({Kind("RBRACE")})
           make == Make(TypeOf("ENUM"))
<1>1. "parse_enum_type_expression" \in OperandTasks \ Closers
  BY DEF OperandTasks, Closers, BracketClosers
<1>2. "ENUM" \in NodeKinds
  BY DEF NodeKinds
<1>3. On("parse_enum_type_expression")
      /\ Enter(<<keyword, base, NewlineWithin, open, until, close, make>>)
  BY Zenon DEF parse_enum_type_expression
<1>4. Gives(F, <<val, inspect>>, NodeSet)
  BY GivesValue, Zenon
<1> HIDE DEF F, inspect
<1>5. /\ Giving(F, keyword, NodeSet) /\ Giving(F, type, NodeSet) /\ Giving(F, val, NodeSet)
      /\ Giving(F, NewlineWithin, NodeSet) /\ Giving(F, make, Solid) /\ Giving(F, name, NodeSet)
  BY <1>2, NeutralOnes, GivingExpect, Calls, Makes, GivingSemicolon, GivingCheck
<1> HIDE DEF keyword, type, val, make, name
<1>6. Giving(F, base, NodeSet)
  BY <1>5, Gives1, GivesNone, GivingWhen
<1>7. Giving(F, equal, NodeSet)
  BY <1>5, Gives1, NeutralOnes, GivesNone, GivingAccept
<1> HIDE DEF base, equal
<1>8. Giving(F, until, NodeSet)
  BY <1>4, <1>5, <1>7, Looped5, GivingLoop
<1> HIDE DEF until
<1>9. Gives(F, <<open, until, close>>, NodeSet)
  BY <1>8, Gives1, InBrackets1
<1> HIDE DEF open, close
<1>10. Gives(F, <<open, until, close, make>>, Solid)
  BY <1>5, <1>9, GivesSnoc4
<1>11. Gives(F, <<NewlineWithin, open, until, close, make>>, Solid)
  BY <1>5, <1>10, GivesCons5
<1>12. Gives(F, <<keyword, base, NewlineWithin, open, until, close, make>>, Solid)
  BY <1>5, <1>6, <1>11, GivesCons6, GivesCons7
<1> QED  BY <1>1, <1>3, <1>12, EnterOperand DEF F

LEMMA TypesInv == ASSUME IInv, TypeFunctions PROVE IInv'
  BY IdentifierInv, TypeOrIdentifierInv, TypeInv, VariableInv, FieldNamesInv, FieldListInv,
     ProcedureTypeInv, WhereInv, ProcedureInv, BracketTypeInv, PrefixTypeInv, ArrayTypeInv,
     GroupInv, AlignInv, StructureInv, EnumInv
  DEF TypeFunctions

-----------------------------------------------------------------------------
(* The functions of ParseExpressions.  First the operands.                 *)
LEMMA SolidExpr ==
  ASSUME NEW F
  PROVE  Solid \subseteq Expr(F) /\ Solid \subseteq PresentOperand(F) /\ PresentOperand(F) \subseteq Expr(F)
  BY DEF Solid, Operand, PresentOperand, Expr, Present

LEMMA OperandCalls ==
  ASSUME NEW F, NEW args
  PROVE  /\ Giving(F, Call("parse_identifier"), Solid)
         /\ Giving(F, Call("parse_undefined_expression"), Solid)
         /\ Giving(F, Call("parse_directive_call_expression"), Solid)
         /\ Giving(F, Call("parse_call_expression"), Solid)
         /\ Giving(F, Call("parse_compound_literal_expression"), Solid)
         /\ Giving(F, Call("parse_index_expression"), Solid)
         /\ Giving(F, Call("parse_poly_type_expression"), Solid)
         /\ Giving(F, Call("parse_procedure"), Solid)
         /\ Giving(F, Call("parse_procedure_group_expression"), Solid)
         /\ Giving(F, Call("parse_bit_set_type_expression"), Solid)
         /\ Giving(F, Call("parse_typeid_type_expression"), Solid)
         /\ Giving(F, Call("parse_map_type_expression"), Solid)
         /\ Giving(F, Call("parse_matrix_type_expression"), Solid)
         /\ Giving(F, Call("parse_pointer_type_expression"), Solid)
         /\ Giving(F, Call("parse_slice_type_expression"), Solid)
         /\ Giving(F, Call("parse_distinct_type_expression"), Solid)
         /\ Giving(F, Call("parse_struct_type_expression"), Solid)
         /\ Giving(F, Call("parse_union_type_expression"), Solid)
         /\ Giving(F, Call("parse_enum_type_expression"), Solid)
<1> DEFINE names ==
      {"parse_identifier", "parse_undefined_expression", "parse_directive_call_expression",
       "parse_call_expression", "parse_compound_literal_expression", "parse_index_expression",
       "parse_poly_type_expression", "parse_procedure", "parse_procedure_group_expression",
       "parse_bit_set_type_expression", "parse_typeid_type_expression",
       "parse_map_type_expression", "parse_matrix_type_expression",
       "parse_pointer_type_expression", "parse_slice_type_expression",
       "parse_distinct_type_expression", "parse_struct_type_expression",
       "parse_union_type_expression", "parse_enum_type_expression"}
<1>1. \A f \in names : f \in OperandTasks
  BY DEF OperandTasks
<1>2. \A f \in names : f \notin Demanding
  BY DEF Demanding, Fresh, Advancing, Closers, BracketClosers, ValueTasks
<1>3. \A f \in names : Giving(F, Call(f), Solid)
  BY <1>1, <1>2, OperandGiving
<1> QED  BY <1>3

LEMMA ValueInv == ASSUME IInv, parse_value PROVE IInv'
<1> DEFINE F == Flags(parser)
           compound == <<Call("parse_compound_literal_expression")>>
           expr == <<RhsExpression>>
<1>1. On("parse_value") /\ Enter(<<When({Kind("LBRACE")}, compound, expr)>>)
  BY DEF parse_value
<1>2. Gives(F, compound, Expr(F))
  BY OperandCalls, SolidExpr, Gives1, GivesMono
<1>3. Gives(F, expr, Expr(F))
  <2>1. Giving(F, RhsExpression, Expr(F))
    BY ValueGiving DEF RhsExpression
  <2> QED  BY <2>1, Gives1
<1>4. \A t, q : Name(t) = "parse_value" /\ q.flags = F =>
                St(q.flags, q.open, Expr(F), Tokens) \subseteq Upon(t, q)
  BY UponExpr
<1> HIDE DEF compound, expr, F
<1>5. Gives(F, <<When({Kind("LBRACE")}, compound, expr)>>, Expr(F))
  BY <1>2, <1>3, GivingWhen, Gives1
<1> QED  BY <1>1, <1>4, <1>5, EnterGiving DEF F

LEMMA SmallOperandInv ==
  ASSUME IInv,
         \/ parse_directive_call_expression \/ parse_undefined_expression
         \/ parse_implicit_selector_expression
  PROVE  IInv'
<1> DEFINE F == Flags(parser)
           call == Call("parse_call_expression")
           undefined == Expect({Kind("UNDEFINED")})
           period == Expect({Op("PERIOD")})
           name == Call("parse_identifier")
<1>1. /\ "parse_directive_call_expression" \in OperandTasks \ Closers
      /\ "parse_undefined_expression" \in OperandTasks \ Closers
      /\ "parse_implicit_selector_expression" \in UnaryTasks
  BY DEF OperandTasks, UnaryTasks, Closers, BracketClosers
<1>2. /\ Giving(F, call, Solid) /\ Giving(F, undefined, NodeSet) /\ Giving(F, period, NodeSet)
      /\ Giving(F, name, NodeSet) /\ Giving(F, Make(Expression), Solid)
      /\ Giving(F, Make(Selector), Solid)
  BY OperandCalls, NeutralOnes, GivingExpect, Calls, Makes
<1>3. \A t, q : Name(t) = "parse_implicit_selector_expression" /\ q.flags = F =>
                St(q.flags, q.open, PresentOperand(F), Tokens) \subseteq Upon(t, q)
  BY <1>1, UponUnary
<1> HIDE DEF F
<1>4. CASE parse_directive_call_expression
  <2>1. On("parse_directive_call_expression") /\ Enter(<<call>>)
    BY <1>4 DEF parse_directive_call_expression
  <2> HIDE DEF call
  <2> QED  BY <1>1, <1>2, <2>1, Gives1, EnterOperand DEF F
<1>5. CASE parse_undefined_expression
  <2>1. On("parse_undefined_expression") /\ Enter(<<undefined, Make(Expression)>>)
    BY <1>5 DEF parse_undefined_expression
  <2> HIDE DEF undefined
  <2> QED  BY <1>1, <1>2, <2>1, Gives2, EnterOperand DEF F
<1>6. CASE parse_implicit_selector_expression
  <2>1. On("parse_implicit_selector_expression") /\ Enter(<<period, name, Make(Selector)>>)
    BY <1>6 DEF parse_implicit_selector_expression
  <2> HIDE DEF period, name
  <2>2. Gives(F, <<period, name, Make(Selector)>>, PresentOperand(F))
    BY <1>2, Gives3, SolidExpr, GivesMono
  <2> QED  BY <1>3, <2>1, <2>2, EnterGiving DEF F
<1> QED  BY <1>4, <1>5, <1>6

(* Those that advance over the token they are called at.                   *)
LEMMA AdvanceHere ==
  ASSUME Types, ~This(AllBrackets)
  PROVE  Holds(<<Advance>>, Here, All(Flags(parser), Open))
<1> DEFINE A == St(Flags(parser), Open, {value}, {this_token})
           C == All(Flags(parser), Open)
<1>1. Passed(A) \subseteq C
  <2> SUFFICES ASSUME NEW p \in State, NEW q \in A,
                      p = [q EXCEPT !.token = p.token, !.open = {Bracketed(o, q.token) : o \in q.open}]
               PROVE  p \in C
    BY DEF Passed
  <2>1. \A o : Bracketed(o, q.token) = o
    BY Unbracketed DEF St, This
  <2>2. {Bracketed(o, q.token) : o \in q.open} = q.open
    BY <2>1
  <2>3. p = [q EXCEPT !.token = p.token, !.open = q.open]
    BY <2>2
  <2> QED  BY <2>3 DEF St, State, All
<1>2. Advance.do = "advance" /\ "advance" \notin Branching
  BY DEF Advance, Branching
<1>3. SimpleValid(Advance, A, C)
  BY <1>1, <1>2 DEF SimpleValid, Steps
<1>4. \A q \in A : ~q.broken
  BY DEF St
<1> HIDE DEF A, C
<1>5. Task(Advance, A, C)
  BY <1>2, <1>3, <1>4, SimpleTask
<1> QED  BY <1>5, Chain1 DEF Here, A, C

LEMMA AdvancingHere ==
  ASSUME IInv, NEW f \in Advancing, On(f)
  PROVE  ~This(AllBrackets)
<1>1. outcome = "parsing" /\ stack # << >> /\ Now.do \in Steps /\ Name(Now) = f
  BY DEF On, Doing, Name, Steps
<1>2. Pre(Now, Current)
  BY <1>1, StepPre
<1>3. Current.token = this_token
  BY CurrentState DEF IInv
<1> QED  BY <1>1, <1>2, <1>3 DEF Pre, This

LEMMA EnterAdvancing ==
  ASSUME IInv, NEW f \in Advancing, On(f), NEW tasks, Enter(<<Advance>> \o tasks), NEW W,
         Gives(Flags(parser), tasks, W),
         \A t, q : Name(t) = f /\ q.flags = Flags(parser) =>
           St(q.flags, q.open, W, Tokens) \subseteq Upon(t, q)
  PROVE  IInv'
<1>1. Holds(<<Advance>>, Here, All(Flags(parser), Open))
  BY AdvancingHere, AdvanceHere DEF IInv
<1>2. Open \in SUBSET Seq(Ones)
  BY CurrentState DEF IInv
<1>3. Holds(<<Advance>> \o tasks, Here, St(Flags(parser), Open, W, Tokens))
  BY <1>1, <1>2, HoldsConcat DEF Gives
<1> QED  BY <1>3, EnterHolds

LEMMA AdvancingInv ==
  ASSUME IInv, parse_literal_expression \/ parse_cast_expression \/ parse_unary_stem_expression
  PROVE  IInv'
<1> DEFINE F == Flags(parser)
           make == Make(Expression)
           operand == Lhs("parse_unary_expression", Args.lhs)
           parens == <<Expect({Op("LPAREN")}), Call("parse_type"), Expect({Op("RPAREN")})>>
<1>1. /\ "parse_literal_expression" \in Advancing /\ "parse_cast_expression" \in Advancing
      /\ "parse_unary_stem_expression" \in Advancing
      /\ "parse_literal_expression" \in OperandTasks \ Closers
      /\ "parse_cast_expression" \in UnaryTasks /\ "parse_unary_stem_expression" \in UnaryTasks
  BY DEF Advancing, OperandTasks, UnaryTasks, Closers, BracketClosers
<1>2. Giving(F, make, Solid) /\ Giving(F, operand, NodeSet)
  BY Makes, Calls
<1>3. Gives(F, parens, NodeSet)
  BY Calls, Gives1, InBrackets1
<1>4. \A t, q : Name(t) = "parse_literal_expression" /\ q.flags = F =>
                St(q.flags, q.open, Solid, Tokens) \subseteq Upon(t, q)
  BY <1>1, UponOperand
<1>5. \A t, q : Name(t) \in {"parse_cast_expression", "parse_unary_stem_expression"} /\ q.flags = F =>
                St(q.flags, q.open, PresentOperand(F), Tokens) \subseteq Upon(t, q)
  BY <1>1, UponUnary
<1> HIDE DEF F
<1>6. CASE parse_literal_expression
  <2>1. On("parse_literal_expression") /\ Enter(<<Advance, make>>)
    BY <1>6 DEF parse_literal_expression
  <2> HIDE DEF make
  <2>2. <<Advance, make>> = <<Advance>> \o <<make>>
    BY <1>2
  <2>3. Gives(F, <<make>>, Solid)
    BY <1>2, Gives1
  <2> QED  BY <1>1, <1>4, <2>1, <2>2, <2>3, EnterAdvancing DEF F
<1>7. Gives(F, <<operand, make>>, PresentOperand(F))
  BY <1>2, Gives2, SolidExpr, GivesMono
<1>8. CASE parse_cast_expression
  <2> DEFINE type == IF This({Op("AUTO_CAST")}) THEN << >> ELSE parens
  <2>1. On("parse_cast_expression") /\ Enter(<<Advance>> \o type \o <<operand, make>>)
    BY <1>8 DEF parse_cast_expression
  <2> HIDE DEF parens
  <2>2. Gives(F, type, NodeSet)
    BY <1>3, GivesNone
  <2> HIDE DEF type, operand, make
  <2>3. Gives(F, type \o <<operand, make>>, PresentOperand(F))
    BY <1>7, <2>2, GivesThen
  <2>4. <<Advance>> \o type \o <<operand, make>> = <<Advance>> \o (type \o <<operand, make>>)
    <3>1. IsSeq(<<Advance>>) /\ IsSeq(type) /\ IsSeq(<<operand, make>>)
      <4>1. {} \in SUBSET Seq(Ones)
        OBVIOUS
      <4>2. Holds(type, All(F, {}), All(F, {}))
        BY <2>2, <4>1 DEF Gives, All
      <4>3. IsSeq(<<Advance>>) /\ IsSeq(<<operand, make>>)
        <5>1. <<Advance>> \in Seq({Advance}) /\ <<operand, make>> \in Seq({operand, make})
          OBVIOUS
        <5> QED  BY <5>1 DEF IsSeq
      <4> QED  BY <4>2, <4>3, HoldsSeq
    <3> QED  BY <3>1, ConcatAssoc
  <2> QED  BY <1>1, <1>5, <2>1, <2>3, <2>4, EnterAdvancing DEF F
<1>9. CASE parse_unary_stem_expression
  <2>1. On("parse_unary_stem_expression") /\ Enter(<<Advance, operand, make>>)
    BY <1>9 DEF parse_unary_stem_expression
  <2> HIDE DEF make, operand
  <2>2. <<Advance, operand, make>> = <<Advance>> \o <<operand, make>>
    OBVIOUS
  <2> QED  BY <1>1, <1>5, <1>7, <2>1, <2>2, EnterAdvancing DEF F
<1> QED  BY <1>6, <1>8, <1>9

(* The directive before an operand, which applies to what follows it.      *)
LEMMA GivesCheck ==
  ASSUME NEW F, NEW l, NEW V, Gives(F, l, V), NEW kinds
  PROVE  Gives(F, l \o <<Check(kinds)>>, V)
<1> DEFINE t == Check(kinds)
<1>1. SUFFICES ASSUME NEW O \in SUBSET Seq(Ones)
               PROVE  Holds(l \o <<t>>, All(F, O), St(F, O, V, Tokens))
  BY DEF Gives
<1>2. Holds(l, All(F, O), St(F, O, V, Tokens))
  BY DEF Gives
<1>3. Task(t, St(F, O, V, Tokens), St(F, O, {v \in V : v.kind \in kinds}, Tokens))
  BY CheckRules
<1>4. St(F, O, {v \in V : v.kind \in kinds}, Tokens) \subseteq St(F, O, V, Tokens)
  BY DEF St
<1> HIDE DEF t
<1>5. Task(t, St(F, O, V, Tokens), St(F, O, V, Tokens))
  BY <1>3, <1>4, TaskMono
<1> QED  BY <1>2, <1>5, Chain1, HoldsConcat

LEMMA GivesTyped ==
  ASSUME NEW F, NEW kinds
  PROVE  /\ Gives(F, <<Call("parse_type"), Apply("expression of type")>>, Solid)
         /\ Gives(F, <<Call("parse_type"), Check(kinds), Apply("expression of type")>>, Solid)
<1> DEFINE type == Call("parse_type")
           check == Check(kinds)
           of == Apply("expression of type")
<1>1. \A v \in Typed \cap NodeSet : Made("expression of type", v) \in Solid \cap NodeSet
  BY MadeRules, Solids
<1>2. Gives(F, <<type>>, Typed)
  BY ValueGiving, Gives1
<1>3. Gives(F, <<type>> \o <<check>>, Typed)
  BY <1>2, GivesCheck
<1>4. Gives(F, <<type>> \o <<of>>, Solid)
  BY <1>1, <1>2, GivesApply
<1>5. Gives(F, (<<type>> \o <<check>>) \o <<of>>, Solid)
  BY <1>1, <1>3, GivesApply
<1> HIDE DEF type, check, of
<1>6. <<type, of>> = <<type>> \o <<of>> /\ <<type, check>> = <<type>> \o <<check>>
  BY ListJoin2
<1>7. <<type, check, of>> = <<type, check>> \o <<of>>
  BY ListJoin
<1>8. Gives(F, <<type, of>>, Solid) /\ Gives(F, <<type, check, of>>, Solid)
  BY <1>4, <1>5, <1>6, <1>7
<1> QED  BY <1>8 DEF type, check, of

LEMMA GivesDirective ==
  ASSUME NEW F, NEW lhs
  PROVE  Gives(F, <<Lhs("parse_expression", lhs), Apply("directive")>>, Operand)
<1> DEFINE expr == Lhs("parse_expression", lhs)
           closed == Apply("directive")
<1>1. Gives(F, <<expr>>, Expr(F))
  BY ValueGiving, Gives1
<1>2. \A v \in Expr(F) \cap NodeSet : Made("directive", v) \in Operand \cap NodeSet
  BY MadeRules DEF Expr
<1>3. Gives(F, <<expr>> \o <<closed>>, Operand)
  BY <1>1, <1>2, GivesApply
<1> HIDE DEF expr, closed
<1>4. <<expr, closed>> = <<expr>> \o <<closed>>
  BY ListJoin2
<1> QED  BY <1>3, <1>4 DEF expr, closed

LEMMA DirectivePrefixInv == ASSUME IInv, parse_directive_prefix PROVE IInv'
<1> DEFINE F == Flags(parser)
           type == <<Call("parse_type"), Apply("expression of type")>>
           simd == <<Call("parse_type"), Check({"ARRAY"}), Apply("expression of type")>>
           directive == <<Lhs("parse_expression", Args.lhs), Apply("directive")>>
           call == Call("parse_directive_call_expression")
           make == Make(Expression)
           relative == Expect({Dir("RELATIVE")})
           f == Accept(Dirs({"CALLER_LOCATION", "PROCEDURE"}), <<make>>, <<relative, call>> \o type)
           e == Accept(Dirs({"CONFIG", "DEFINED", "LOAD"}), <<call>>, <<f>>)
           d == Accept(Dirs({"PARTIAL", "BOUNDS_CHECK", "NO_BOUNDS_CHECK", "TYPE_ASSERT",
                             "NO_TYPE_ASSERT", "FORCE_INLINE", "FORCE_NO_INLINE"}), directive, <<e>>)
           c == Accept({Dir("SIMD")}, simd, <<d>>)
           b == Accept(Dirs({"TYPE", "SOA", "SPARSE"}), type, <<c>>)
<1>1. On("parse_directive_prefix") /\ Enter(<<b>>)
  BY DEF parse_directive_prefix
<1>2. Gives(F, type, Operand) /\ Gives(F, simd, Operand) /\ Gives(F, directive, Operand)
  <2>1. Gives(F, type, Solid) /\ Gives(F, simd, Solid) /\ Gives(F, directive, Operand)
    BY GivesTyped, GivesDirective
  <2> HIDE DEF type, simd, directive
  <2> QED  BY <2>1, Solids, GivesMono
<1>3. Gives(F, <<call>>, Operand) /\ Gives(F, <<make>>, Operand)
  <2>1. Giving(F, call, Solid) /\ Giving(F, make, Solid)
    BY OperandCalls, Makes
  <2> HIDE DEF call, make
  <2> QED  BY <2>1, Solids, Gives1, GivesMono
<1>4. Gives(F, <<relative, call>>, NodeSet)
  BY NeutralOnes, GivingExpect, Calls, Gives2
<1> HIDE DEF type, simd, directive, call, make, relative, F
<1>5. Gives(F, <<relative, call>> \o type, Operand)
  BY <1>2, <1>4, GivesThen
<1>6. Gives(F, <<f>>, Operand)
  BY <1>3, <1>5, NeutralOnes, GivingAccept, Gives1
<1> HIDE DEF f
<1>7. Gives(F, <<e>>, Operand)
  BY <1>3, <1>6, NeutralOnes, GivingAccept, Gives1
<1> HIDE DEF e
<1>8. Gives(F, <<d>>, Operand)
  BY <1>2, <1>7, NeutralOnes, GivingAccept, Gives1
<1> HIDE DEF d
<1>9. Gives(F, <<c>>, Operand)
  BY <1>2, <1>8, NeutralOnes, GivingAccept, Gives1
<1> HIDE DEF c
<1>10. Gives(F, <<b>>, Operand)
  BY <1>2, <1>9, NeutralOnes, GivingAccept, Gives1
<1> HIDE DEF b
<1>11. \A t, q : Name(t) = "parse_directive_prefix" /\ q.flags = F =>
                St(q.flags, q.open, Operand, Tokens) \subseteq Upon(t, q)
  BY UponOperand
<1> QED  BY <1>1, <1>10, <1>11, EnterGiving DEF F

(* An operand in parentheses, an array type, and a keyword's operand.      *)
LEMMA MaxType ==
  ASSUME NEW d \in Nat \cup {-1}
  PROVE  Max({d, 0}) + 1 \in Nat \cup {-1}
<1>1. \E m \in {d, 0} : \A j \in {d, 0} : m >= j
  BY SMT
<1>2. Max({d, 0}) \in {d, 0} /\ Max({d, 0}) >= 0
  BY <1>1 DEF Max
<1> QED  BY <1>2, SMT

LEMMA GivesParenthesized ==
  ASSUME Types
  PROVE  Gives(Flags(parser), Parenthesized, Operand)
<1> DEFINE F == Flags(parser)
           d == parser.expression_depth
           n == parser.allow_newline
           y == parser.allow_type
           i == parser.allow_in
           m == IF d < 0 THEN FALSE ELSE n
           e == Max({d, 0}) + 1
           G == Fl(e, m, y, i)
           H == Fl(d, m, y, i)
           newline == AllowNewline(m)
           depth == Depth(e)
           back == Set([expression_depth |-> d, allow_newline |-> n])
           closed == Apply("parenthesis")
           open == Expect({Op("LPAREN")})
           close == Expect({Op("RPAREN")})
<1>1. /\ F = Fl(d, n, y, i) /\ d \in Nat \cup {-1} /\ n \in BOOLEAN /\ y \in BOOLEAN
      /\ i \in BOOLEAN /\ m \in BOOLEAN
  BY ParserFlags
<1>2. e \in Nat \cup {-1}
  BY <1>1, MaxType
<1>3. Parenthesized = <<open, newline, depth, RhsExpression, close, back, closed>>
  BY DEF Parenthesized
<1> HIDE DEF d, n, y, i, m, e
<1>4. Moves(F, H, newline) /\ Moves(H, G, depth) /\ Moves(G, F, back)
  <2>1. Moves(Fl(d, n, y, i), H, newline) /\ Moves(H, G, depth)
    BY <1>1, <1>2, MovesRules, ZenonT(60)
  <2>2. Moves(G, Fl(d, n, y, i), back)
    BY <1>1, MovesBoth, ZenonT(60)
  <2> HIDE DEF newline, depth, back, F, G, H
  <2> QED  BY <1>1, <2>1, <2>2
<1>5. SUFFICES ASSUME NEW O \in SUBSET Seq(Ones)
               PROVE  Holds(<<open, newline, depth, RhsExpression, close, back, closed>>, All(F, O),
                            St(F, O, Operand, Tokens))
  BY <1>3 DEF Gives
<1> DEFINE P == With(O, Op("RPAREN"))
<1>6. P \in SUBSET Seq(Ones)
  BY WithOnes, Closings
<1>7. Task(open, All(F, O), All(F, P))
  BY ExpectOpen DEF All
<1>8. /\ Task(newline, All(F, P), All(H, P)) /\ Task(depth, All(H, P), All(G, P))
      /\ Task(back, St(G, O, Expr(G), Tokens), St(F, O, Expr(G), Tokens))
  <2> HIDE DEF newline, depth, back, F, G, H, P
  <2> QED  BY <1>4, <1>6 DEF Moves, All
<1>9. Task(RhsExpression, All(G, P), St(G, P, Expr(G), Tokens))
  <2>1. Giving(G, RhsExpression, Expr(G))
    BY ValueGiving DEF RhsExpression
  <2> HIDE DEF G, P
  <2> QED  BY <1>6, <2>1 DEF Giving
<1>10. Task(close, St(G, P, Expr(G), Tokens), St(G, O, Expr(G), Tokens))
  BY ExpectClose, Closings
<1>11. Task(closed, St(F, O, Expr(G), Tokens), St(F, O, Operand, Tokens))
  <2>1. \A v \in Expr(G) \cap NodeSet : Made("parenthesis", v) \in Operand \cap NodeSet
    BY MadeRules DEF Expr
  <2> HIDE DEF F, G
  <2> QED  BY <2>1, ApplyRule
<1> HIDE DEF open, newline, depth, close, back, closed, F, G, H, P
<1> QED  BY <1>7, <1>8, <1>9, <1>10, <1>11, Chain7

LEMMA GivesBracketType == ASSUME NEW F PROVE Gives(F, BracketType, Operand)
<1> DEFINE one == Op("RBRACKET")
           d == Accept({one}, <<Call("parse_slice_type_expression")>>, <<Array(TRUE)>>)
           c == Accept({Kw("DYNAMIC")}, <<Call("parse_dynamic_array_type_expression")>>, <<d>>)
           b == When({Op("QUESTION")}, <<Array(FALSE)>>, <<c>>)
           a == When({Op("POINTER")}, <<Call("parse_multi_pointer_type_expression")>>, <<b>>)
           open == Expect({Op("LBRACKET")})
<1>1. BracketType = <<open, a>>
  BY DEF BracketType
<1>2. /\ \A k : Shuts(F, <<Array(k)>>, one, Solid)
      /\ Shuts(F, <<Call("parse_dynamic_array_type_expression")>>, one, Solid)
      /\ Shuts(F, <<Call("parse_multi_pointer_type_expression")>>, one, Solid)
  BY ShutsCall DEF BracketClosers, Array
<1>3. Gives(F, <<Call("parse_slice_type_expression")>>, Solid)
  BY OperandCalls, Gives1
<1>4. one \in ClosingBrackets /\ Neutral({Kw("DYNAMIC")})
  BY Closings, NeutralOnes
<1> HIDE DEF one
<1>5. Shuts(F, <<d>>, one, Solid)
  BY <1>2, <1>3, <1>4, ShuttingAccept, Shuts1
<1> HIDE DEF d
<1>6. Shuts(F, <<c>>, one, Solid)
  BY <1>2, <1>4, <1>5, ShuttingAccept, Shuts1
<1> HIDE DEF c
<1>7. Shuts(F, <<b>>, one, Solid)
  BY <1>2, <1>6, ShuttingWhen, Shuts1
<1> HIDE DEF b
<1>8. Shuts(F, <<a>>, Op("RBRACKET"), Solid)
  BY <1>2, <1>7, ShuttingWhen, Shuts1 DEF one
<1> HIDE DEF a
<1>9. Gives(F, <<Expect({Op("LBRACKET")})>> \o <<a>>, Solid)
  BY <1>8, GivesOpen
<1> HIDE DEF open
<1>10. <<open, a>> = <<open>> \o <<a>>
  BY ListJoin2
<1> QED  BY <1>1, <1>9, <1>10, Solids, GivesMono DEF open

LEMMA GivesKeyword ==
  ASSUME NEW F, NEW keyword \in OperandKeywords
  PROVE  Gives(F, KeywordOperand(keyword), Operand)
<1>1. /\ Gives(F, <<Call("parse_distinct_type_expression")>>, Operand)
      /\ Gives(F, <<Call("parse_bit_set_type_expression")>>, Operand)
      /\ Gives(F, <<Call("parse_typeid_type_expression")>>, Operand)
      /\ Gives(F, <<Call("parse_map_type_expression")>>, Operand)
      /\ Gives(F, <<Call("parse_matrix_type_expression")>>, Operand)
      /\ Gives(F, <<Call("parse_struct_type_expression")>>, Operand)
      /\ Gives(F, <<Call("parse_union_type_expression")>>, Operand)
      /\ Gives(F, <<Call("parse_enum_type_expression")>>, Operand)
      /\ Gives(F, <<Call("parse_procedure_group_expression")>>, Operand)
      /\ Gives(F, <<Call("parse_procedure")>>, Operand)
  <2>1. \A t : Giving(F, t, Solid) => Gives(F, <<t>>, Operand)
    BY Solids, Gives1, GivesMono
  <2> QED  BY <2>1, OperandCalls
<1>2. Gives(F, KeywordOperand("PROC"), Operand)
  <2> DEFINE proc == Expect({Kw("PROC")})
             group == <<Call("parse_procedure_group_expression")>>
             procedure == <<Call("parse_procedure")>>
             either == When({Kind("LBRACE")}, group, procedure)
  <2>1. KeywordOperand("PROC") = <<proc, either>>
    BY DEF KeywordOperand
  <2>2. Giving(F, proc, NodeSet)
    BY NeutralOnes, GivingExpect
  <2> HIDE DEF group, procedure
  <2>3. Giving(F, either, Operand)
    BY <1>1, GivingWhen DEF group, procedure
  <2> HIDE DEF proc, either
  <2> QED  BY <2>1, <2>2, <2>3, Gives2
<1>3. Gives(F, KeywordOperand("CONTEXT"), Operand)
  <2> DEFINE context == Expect({Kw("CONTEXT")})
             make == Make(Expression)
  <2>1. KeywordOperand("CONTEXT") = <<context, make>>
    BY DEF KeywordOperand
  <2>2. Giving(F, context, NodeSet) /\ Giving(F, make, Solid)
    BY NeutralOnes, GivingExpect, Makes
  <2> HIDE DEF context, make
  <2> QED  BY <2>1, <2>2, Gives2, Solids, GivesMono
<1>4. keyword \notin {"PROC", "CONTEXT"} =>
        KeywordOperand(keyword) \in
          {<<Call("parse_distinct_type_expression")>>, <<Call("parse_bit_set_type_expression")>>,
           <<Call("parse_typeid_type_expression")>>, <<Call("parse_map_type_expression")>>,
           <<Call("parse_matrix_type_expression")>>, <<Call("parse_struct_type_expression")>>,
           <<Call("parse_union_type_expression")>>, <<Call("parse_enum_type_expression")>>}
  BY DEF KeywordOperand, OperandKeywords
<1> QED  BY <1>1, <1>2, <1>3, <1>4

(* A step from states of this value and token.                             *)
LEMMA StepAt ==
  ASSUME NEW t, t.do \in Steps, Name(t) \notin Closers, NEW F, NEW O, NEW V, NEW T, NEW W, NEW U,
         \A q : q.flags = F /\ q.value \in V /\ q.token \in T =>
           Pre(t, q) /\ Results(t, q) \cap NodeSet \subseteq W /\ Ends(t, q) \cap Tokens \subseteq U
  PROVE  Task(t, St(F, O, V, T), St(F, O, W, U))
<1> SUFFICES ASSUME NEW q \in St(F, O, V, T)
             PROVE  ~q.broken /\ Pre(t, q) /\ Upon(t, q) \subseteq St(F, O, W, U)
  BY StepTask
<1>1. ~q.broken /\ q.flags = F /\ q.open \subseteq O /\ q.value \in V /\ q.token \in T
  BY DEF St
<1>2. OpenAfter(t, q) \subseteq O
  BY <1>1 DEF OpenAfter
<1>3. Pre(t, q) /\ Results(t, q) \cap NodeSet \subseteq W /\ Ends(t, q) \cap Tokens \subseteq U
  BY <1>1
<1>4. Upon(t, q) \subseteq St(F, O, W, U)
  BY <1>1, <1>2, <1>3, StMono DEF Upon
<1> QED  BY <1>1, <1>3, <1>4

LEMMA AdvancingCall ==
  ASSUME IInv, NEW f \in Advancing, ~This(AllBrackets), NEW t, t.do \in Steps, Name(t) = f, NEW W,
         \A q : q.flags = Flags(parser) => Results(t, q) \cap NodeSet \subseteq W
  PROVE  Holds(<<t>>, Here, St(Flags(parser), Open, W, Tokens))
<1> DEFINE F == Flags(parser)
           O == Open
           V == {value}
           T == {this_token}
<1>1. Name(t) \notin Fresh \cup Closers \cup ValueTasks
  BY DEF Advancing, Fresh, Closers, BracketClosers, ValueTasks
<1>2. \A q : q.token \in T => ~Is(q.token, AllBrackets)
  BY DEF This
<1>3. \A q : q.token \in T => Pre(t, q)
  BY <1>1, <1>2 DEF Pre, ValueTasks
<1>4. \A q : Ends(t, q) \cap Tokens \subseteq Tokens
  OBVIOUS
<1> HIDE DEF F, O, V, T
<1>5. Task(t, St(F, O, V, T), St(F, O, W, Tokens))
  BY <1>1, <1>3, <1>4, StepAt DEF F
<1> QED  BY <1>5, Chain1 DEF Here, F, O, V, T

LEMMA OperandInv == ASSUME IInv, parse_operand PROVE IInv'
<1> DEFINE F == Flags(parser)
           identifier == <<Call("parse_identifier")>>
           literal == <<Call("parse_literal_expression")>>
           compound == <<Call("parse_compound_literal_expression")>>
           directive == <<Lhs("parse_directive_prefix", Args.lhs)>>
           poly == <<Call("parse_poly_type_expression")>>
           undefined == <<Call("parse_undefined_expression")>>
           keyword == KeywordOperand(this_token.as)
           pointer == <<Call("parse_pointer_type_expression")>>
           none == <<Make(Absent)>>
           is(l) == Holds(l, Here, St(F, Open, Operand, Tokens))
           tasks == CASE This({Kind("IDENTIFIER")}) -> identifier
                      [] This({Kind("LITERAL")}) -> literal
                      [] This({Kind("LBRACE")}) /\ ~Args.lhs -> compound
                      [] This({Kind("DIRECTIVE")}) -> directive
                      [] This({Kind("CONST")}) -> poly
                      [] This({Kind("UNDEFINED")}) -> undefined
                      [] This({Kind("KEYWORD")}) /\ this_token.as \in OperandKeywords -> keyword
                      [] This({Op("LPAREN")}) -> Parenthesized
                      [] This({Op("POINTER")}) -> pointer
                      [] This({Op("LBRACKET")}) -> BracketType
                      [] OTHER -> none
<1>1. On("parse_operand") /\ Enter(tasks)
  BY DEF parse_operand
<1>2. \A l : Gives(F, l, Operand) => is(l)
  BY HereAny DEF IInv
<1>3. /\ is(identifier) /\ is(compound) /\ is(poly) /\ is(undefined) /\ is(pointer) /\ is(directive)
      /\ is(none)
  <2>1. \A t : Giving(F, t, Solid) => Gives(F, <<t>>, Operand)
    BY Solids, Gives1, GivesMono
  <2>2. /\ Gives(F, identifier, Operand) /\ Gives(F, compound, Operand) /\ Gives(F, poly, Operand)
        /\ Gives(F, undefined, Operand) /\ Gives(F, pointer, Operand)
    BY <2>1, OperandCalls
  <2>3. Gives(F, none, Operand)
    BY Makes, Gives1
  <2>4. Gives(F, directive, Operand)
    <3> DEFINE t == Lhs("parse_directive_prefix", Args.lhs)
    <3>1. t.do \in Steps /\ Name(t) = "parse_directive_prefix"
      BY CallName DEF Lhs
    <3>2. Name(t) \notin Demanding
      BY <3>1 DEF Demanding, Fresh, Advancing, Closers, BracketClosers, ValueTasks
    <3>3. \A q : q.flags = F => Results(t, q) \cap NodeSet \subseteq Operand
      BY <3>1, ResultsOf
    <3> HIDE DEF t, F
    <3>4. Giving(F, t, Operand)
      BY <3>1, <3>2, <3>3, StepGiving
    <3> QED  BY <3>4, Gives1 DEF t
  <2> QED  BY <1>2, <2>2, <2>3, <2>4
<1>4. This({Kind("LITERAL")}) => is(literal)
  <2> SUFFICES ASSUME This({Kind("LITERAL")})
               PROVE  is(literal)
    OBVIOUS
  <2> DEFINE t == Call("parse_literal_expression")
  <2>1. ~This(AllBrackets)
    BY DEF This, Is, AllBrackets, OpeningBrackets, ClosingBrackets, Kind, Op
  <2>2. t.do \in Steps /\ Name(t) = "parse_literal_expression"
    BY CallName
  <2>3. "parse_literal_expression" \in Advancing /\ "parse_literal_expression" \in OperandTasks
    BY DEF Advancing, OperandTasks
  <2>4. \A q : Results(t, q) \cap NodeSet \subseteq Operand
    BY <2>2, <2>3, ResultsOf, Solids
  <2> HIDE DEF t
  <2> QED  BY <2>1, <2>2, <2>3, <2>4, AdvancingCall DEF t
<1>5. this_token.as \in OperandKeywords => is(keyword)
  BY <1>2, GivesKeyword
<1>6. is(Parenthesized) /\ is(BracketType)
  BY <1>2, GivesParenthesized, GivesBracketType DEF IInv
<1> HIDE DEF F, identifier, literal, compound, directive, poly, undefined, keyword, pointer, none, is
<1>7. is(tasks)
  <2>1. /\ This({Kind("IDENTIFIER")}) => this_token.kind = "IDENTIFIER"
        /\ This({Kind("LITERAL")}) => this_token.kind = "LITERAL"
        /\ This({Kind("LBRACE")}) => this_token.kind = "LBRACE"
        /\ This({Kind("DIRECTIVE")}) => this_token.kind = "DIRECTIVE"
        /\ This({Kind("CONST")}) => this_token.kind = "CONST"
        /\ This({Kind("UNDEFINED")}) => this_token.kind = "UNDEFINED"
        /\ This({Kind("KEYWORD")}) => this_token.kind = "KEYWORD"
        /\ \A o \in {"LPAREN", "POINTER", "LBRACKET"} :
             This({Op(o)}) => this_token.kind = "OPERATOR" /\ this_token.as = o
    BY DEF This, Is, Kind, Op
  <2> QED  BY <1>3, <1>4, <1>5, <1>6
<1> HIDE DEF tasks
<1>8. \A t, q : Name(t) = "parse_operand" /\ q.flags = F =>
                St(q.flags, q.open, Operand, Tokens) \subseteq Upon(t, q)
  BY UponOperand
<1> QED  BY <1>1, <1>7, <1>8, EnterHolds DEF F, is

(* The arguments of a call.                                                *)
LEMMA DoingPre ==
  ASSUME IInv, NEW f \in Steps, Doing(f)
  PROVE  /\ Pre(Now, Current) /\ Now.do = f /\ outcome = "parsing" /\ stack # << >>
         /\ f # "call" => Name(Now) = f
         /\ Current.flags = Flags(parser) /\ Current.value = value /\ Current.token = this_token
         /\ Current.open = Open
  BY StepPre, CurrentState DEF Doing, Name, IInv

LEMMA StepNone ==
  ASSUME IInv, NEW f \in Steps \ {"call"}, f \notin Telling, Doing(f), Go(Rest)
  PROVE  IInv'
<1>1. /\ Name(Now) = f /\ Now.do \in Steps /\ outcome = "parsing" /\ stack # << >>
      /\ Current.flags = Flags(parser) /\ Current.open = Open
  BY DoingPre
<1>2. Upon(Now, Current) = All(Flags(parser), Open)
  BY <1>1, UponOther
<1>3. Here \subseteq All(Flags(parser), Open)
  <2>1. value \in NodeSet /\ this_token \in Tokens
    BY DEF IInv, Types
  <2> QED  BY <2>1, StMono DEF Here, All
<1> QED  BY <1>1, <1>2, <1>3, StepEnds

LEMMA GivesArgument ==
  ASSUME NEW F, NEW seen, NEW has
  PROVE  Gives(F, <<RhsExpression, Argument(seen, has)>>, NodeSet)
<1> DEFINE t == Argument(seen, has)
<1>1. t.do = "argument" /\ t.do \in Steps /\ Name(t) = "argument"
  BY DEF Argument, Steps, Name
<1>2. Name(t) \notin Closers \cup Fresh \cup Advancing
  BY <1>1 DEF Closers, BracketClosers, Fresh, Advancing
<1>3. \A q : q.flags = F /\ q.value \in Expr(F) => Pre(t, q)
  BY <1>1, <1>2 DEF Pre
<1>4. Giving(F, RhsExpression, Expr(F))
  BY ValueGiving DEF RhsExpression
<1> HIDE DEF t
<1>5. \A O : Task(t, St(F, O, Expr(F), Tokens), St(F, O, NodeSet, Tokens))
  BY <1>1, <1>2, <1>3, StepAt
<1> QED  BY <1>4, <1>5, Chain2 DEF Gives, Giving, t

LEMMA ArgumentsInv == ASSUME IInv, arguments PROVE IInv'
<1> DEFINE F == Flags(parser)
<1>1. /\ "arguments" \in Steps \ {"call"} /\ "argument" \in Steps \ {"call"}
      /\ "arguments" \notin Telling /\ "argument" \notin Telling
  BY DEF Steps, Telling, OperandTasks, UnaryTasks, ExprTasks, StatementTasks, Closers, BracketClosers
<1>2. CASE Doing("arguments")
  <2> DEFINE ellipsis == Expect({Op("ELLIPSIS")})
             first == <<ellipsis, RhsExpression, Argument(Now.seen, TRUE)>>
             next == <<RhsExpression, Argument(Now.seen, FALSE)>>
  <2>1. \/ Go(Rest) \/ Throw \/ Go(first \o Rest) \/ Go(next \o Rest)
    BY <1>2 DEF arguments, Doing
  <2>2. Giving(F, ellipsis, NodeSet)
    BY NeutralOnes, GivingExpect
  <2>3. Gives(F, first, NodeSet) /\ Gives(F, next, NodeSet)
    BY <2>2, GivesArgument, GivesCons3
  <2> HIDE DEF first, next
  <2> QED  BY <1>1, <1>2, <2>1, <2>3, StepNone, StepOther, ThrowRule
<1>3. CASE Doing("argument")
  <2> DEFINE O == Open
             C == All(F, O)
             named == CASE Now.has -> <<Fail>>
                        [] ~Now.has /\ value.name = "name" -> <<Call("parse_value")>>
                        [] OTHER -> <<Inspect("absent expression"), Fail>>
             other == IF Now.seen THEN <<Fail>> ELSE << >>
             accept == Accept({EQ}, named, other)
             more == Separator(<<Arguments(Now.seen \/ Now.has)>>, << >>)
  <2>1. Go(<<accept>> \o <<more>> \o Rest)
    BY <1>3 DEF arguments, Doing
  <2>2. value \in Expr(F)
    BY <1>1, <1>3, DoingPre DEF Pre
  <2>3. Here \subseteq St(F, O, Expr(F), Tokens)
    <3>1. this_token \in Tokens
      BY DEF IInv, Types
    <3> QED  BY <2>2, <3>1, StMono DEF Here
  <2>4. O \in SUBSET Seq(Ones)
    BY CurrentState DEF IInv
  <2> HIDE DEF F, O
  <2>5. Holds(<<Fail>>, St(F, O, Expr(F), Tokens), C)
    BY FailRules, Chain1
  <2>6. Holds(<<Call("parse_value")>>, St(F, O, Expr(F), Tokens), C)
    <3>1. Gives(F, <<Call("parse_value")>>, NodeSet)
      BY Calls, Gives1
    <3> QED  BY <2>4, <3>1, AllMono, HoldsMono DEF Gives, All
  <2>7. Holds(<<Inspect("absent expression"), Fail>>, St(F, O, Expr(F), Tokens), C)
    <3>1. \A v \in Expr(F) \cap NodeSet : Present(F, v)
      BY DEF Expr
    <3>2. Task(Inspect("absent expression"), St(F, O, Expr(F), Tokens),
               St(F, O, {v \in Expr(F) : v.kind # "NULL"}, Tokens))
      BY <3>1, CheckRules
    <3>3. Task(Fail, St(F, O, {v \in Expr(F) : v.kind # "NULL"}, Tokens), C)
      BY FailRules
    <3> HIDE DEF C
    <3> QED  BY <3>2, <3>3, Chain2
  <2>8. Holds(<< >>, St(F, O, Expr(F), Tokens), C)
    BY AllMono, HoldsEmpty
  <2> HIDE DEF C
  <2>9. Holds(named, St(F, O, Expr(F), Tokens), C)
    <3>1. named \in {<<Fail>>, <<Call("parse_value")>>, <<Inspect("absent expression"), Fail>>}
      OBVIOUS
    <3> QED  BY <2>5, <2>6, <2>7, <3>1
  <2>10. Holds(other, St(F, O, Expr(F), Tokens), C)
    BY <2>5, <2>8
  <2> HIDE DEF named, other
  <2>11. Task(accept, St(F, O, Expr(F), Tokens), C)
    BY <2>9, <2>10, NeutralOnes, AcceptNeutral
  <2>12. Gives(F, <<Arguments(Now.seen \/ Now.has)>>, NodeSet) /\ Gives(F, << >>, NodeSet)
    BY Calls, Gives1, GivesNone
  <2>13. Giving(F, more, NodeSet)
    BY <2>12, GivingSeparator
  <2> HIDE DEF accept, more
  <2>14. Holds(<<accept>>, Here, C)
    BY <2>3, <2>11, Chain1, HoldsMono
  <2>15. Holds(<<more>>, C, St(F, O, NodeSet, Tokens))
    BY <2>4, <2>13, Gives1 DEF Gives, C
  <2>16. Holds(<<accept>> \o <<more>>, Here, St(F, O, NodeSet, Tokens))
    BY <2>14, <2>15, HoldsConcat
  <2>17. \A t, q : Name(t) = "argument" /\ q.flags = F =>
                   St(q.flags, q.open, NodeSet, Tokens) \subseteq Upon(t, q)
    BY <1>1, UponOther DEF All
  <2> QED  BY <1>1, <1>3, <2>1, <2>16, <2>17, StepHolds DEF F, O
<1> QED  BY <1>2, <1>3 DEF arguments

(* Calls, compound literals and indices, between brackets.                 *)
LEMMA Within5 ==
  ASSUME NEW F, NEW G, NEW s, Moves(F, G, s), NEW z, Moves(G, F, z), NEW W,
         NEW a, NEW b, NEW c, NEW d, NEW e, Gives(G, <<a, b, c, d, e>>, W)
  PROVE  Gives(F, <<s, a, b, c, d, e, z>>, W)
<1>1. <<s, a, b, c, d, e, z>> = <<s>> \o <<a, b, c, d, e>> \o <<z>>
  OBVIOUS
<1> QED  BY <1>1, Within

LEMMA CallExpressionInv == ASSUME IInv, parse_call_expression PROVE IInv'
<1> DEFINE F == Flags(parser)
           G == Fl(0, TRUE, parser.allow_type, parser.allow_in)
           in == Set([expression_depth |-> 0, allow_newline |-> TRUE])
           out == Set([expression_depth |-> parser.expression_depth,
                       allow_newline |-> parser.allow_newline])
           open == Expect({Op("LPAREN")})
           close == Expect({Op("RPAREN")})
           list == Arguments(FALSE)
           make == Make(Expression)
<1>1. On("parse_call_expression") /\ Enter(<<in, open, list, close, out, make>>)
  BY Zenon DEF parse_call_expression
<1>2. "parse_call_expression" \in OperandTasks \ Closers
  BY DEF OperandTasks, Closers, BracketClosers
<1>3. Moves(F, G, in) /\ Moves(G, F, out)
  <2>1. TRUE \in BOOLEAN /\ 0 \in Nat \cup {-1}
    OBVIOUS
  <2> QED  BY <2>1, MovesHere, Zenon DEF IInv
<1>4. Gives(G, <<open, list, close>>, NodeSet)
  BY Calls, Gives1, InBrackets1
<1>5. Giving(F, make, Solid)
  BY Makes
<1> HIDE DEF F, G, in, out, open, close, list, make
<1>6. Gives(F, <<in, open, list, close, out>>, NodeSet)
  BY <1>3, <1>4, Within3
<1>7. Gives(F, <<in, open, list, close, out, make>>, Solid)
  BY <1>5, <1>6, GivesSnoc6
<1> QED  BY <1>1, <1>2, <1>7, EnterOperand DEF F

LEMMA ExpectClosingInv == ASSUME IInv, expect_closing PROVE IInv'
<1> DEFINE F == Flags(parser)
           newline == IF parser.allow_newline THEN <<Fail>> ELSE <<Advance>>
           when == When({NEWLINE}, newline, << >>)
           close == Expect({Kind("RBRACE")})
<1>1. On("expect_closing") /\ Enter(<<when, close>>)
  BY DEF expect_closing
<1>2. "expect_closing" \in Closers /\ Closer("expect_closing") = Kind("RBRACE")
  BY DEF Closers, Closer
<1>3. \A t, q : Name(t) = "expect_closing" =>
                St(q.flags, {Front(o) : o \in q.open}, NodeSet, Tokens) \subseteq Upon(t, q)
  BY UponOther DEF All
<1> HIDE DEF F
<1>4. Giving(F, when, NodeSet)
  <2> SUFFICES ASSUME NEW O \in SUBSET Seq(Ones)
               PROVE  Task(when, All(F, O), All(F, O))
    BY DEF Giving, All
  <2>1. Holds(<<Fail>>, St(F, O, NodeSet, At({NEWLINE})), All(F, O))
    BY FailRules, Chain1
  <2>2. Holds(<<Advance>>, St(F, O, NodeSet, At({NEWLINE})), All(F, O))
    BY NeutralOnes, AdvanceRule, Chain1 DEF All
  <2>3. Holds(<< >>, St(F, O, NodeSet, Tokens), All(F, O))
    BY HoldsEmpty DEF All
  <2> QED  BY <2>1, <2>2, <2>3, WhenRule DEF All
<1>5. Shutting(F, close, Kind("RBRACE"), NodeSet)
  BY Closings, ShuttingExpect
<1> HIDE DEF when, close
<1>6. Shuts(F, <<when, close>>, Kind("RBRACE"), NodeSet)
  BY <1>4, <1>5, Closings, Shuts2
<1> QED  BY <1>1, <1>2, <1>3, <1>6, EnterCloser DEF F

LEMMA CompoundInv == ASSUME IInv, parse_compound_literal_expression PROVE IInv'
<1> DEFINE F == Flags(parser)
           G == Fl(0, parser.allow_newline, parser.allow_type, parser.allow_in)
           in == Depth(0)
           out == Depth(parser.expression_depth)
           open == Expect({Kind("LBRACE")})
           named == Accept({EQ}, <<Call("parse_value")>>, << >>)
           until == Until({Kind("RBRACE"), Kind("EOF")},
                          <<Call("parse_value"), Inspect("absent expression"), named, SeparatorOrBreak>>)
           close == Call("expect_closing")
           make == Make(Expression)
<1>1. On("parse_compound_literal_expression") /\ Enter(<<in, open, until, close, out, make>>)
  BY Zenon DEF parse_compound_literal_expression
<1>2. "parse_compound_literal_expression" \in OperandTasks \ Closers
  BY DEF OperandTasks, Closers, BracketClosers
<1>3. Moves(F, G, in) /\ Moves(G, F, out)
  <2>1. TRUE \in BOOLEAN /\ 0 \in Nat \cup {-1}
    OBVIOUS
  <2> QED  BY <2>1, MovesHere, Zenon DEF IInv
<1> HIDE DEF F, G, in, out
<1>4. Giving(G, named, NodeSet)
  BY Calls, Gives1, GivesNone, NeutralOnes, GivingAccept
<1> HIDE DEF named
<1>5. Giving(G, until, NodeSet)
  BY <1>4, GivesValue, Looped4, GivingLoop
<1> HIDE DEF until
<1>6. Shuts(G, <<until, close>>, Kind("RBRACE"), NodeSet)
  BY <1>5, ShutsClosing, Closings, Shuts2
<1>7. Gives(G, <<Expect({Kind("LBRACE")})>> \o <<until, close>>, NodeSet)
  BY <1>6, GivesOpen
<1>8. Giving(F, make, Solid)
  BY Makes
<1> HIDE DEF open, close, make
<1>9. <<open, until, close>> = <<open>> \o <<until, close>>
  BY ListJoin
<1>10. Gives(G, <<open, until, close>>, NodeSet)
  BY <1>7, <1>9 DEF open
<1>11. Gives(F, <<in, open, until, close, out>>, NodeSet)
  BY <1>3, <1>10, Within3
<1>12. Gives(F, <<in, open, until, close, out, make>>, Solid)
  BY <1>8, <1>11, GivesSnoc6
<1> QED  BY <1>1, <1>2, <1>12, EnterOperand DEF F

LEMMA IndexInv == ASSUME IInv, parse_index_expression PROVE IInv'
<1> DEFINE F == Flags(parser)
           G == Fl(parser.expression_depth + 1, parser.allow_newline, parser.allow_type,
                   parser.allow_in)
           in == Deeper(1)
           out == Deeper(-1)
           open == Expect({Op("LBRACKET")})
           close == Expect({Op("RBRACKET")})
           low == When(Ranges \cup {Op("COLON")}, << >>, <<RhsExpression>>)
           range == When(Ranges, <<Fail>>, << >>)
           high == When({Op("RBRACKET"), Kind("EOF")}, << >>, <<RhsExpression>>)
           more == Accept(Ops({"COMMA", "COLON"}), <<high>>, << >>)
           make == Make(Expression)
<1>1. On("parse_index_expression") /\ Enter(<<in, open, low, range, more, close, out, make>>)
  BY Zenon DEF parse_index_expression
<1>2. "parse_index_expression" \in OperandTasks \ Closers
  BY DEF OperandTasks, Closers, BracketClosers
<1>3. Moves(F, G, in) /\ Moves(G, F, out)
  <2>1. TRUE \in BOOLEAN /\ -1 \in Nat \cup {-1}
    OBVIOUS
  <2> QED  BY <2>1, MovesHere, Zenon DEF IInv
<1> HIDE DEF F, G, in, out
<1>4. Gives(G, << >>, NodeSet) /\ Gives(G, <<RhsExpression>>, NodeSet) /\ Gives(G, <<Fail>>, NodeSet)
  BY Calls, Gives1, GivesNone, GivingFail
<1>5. Giving(G, low, NodeSet) /\ Giving(G, range, NodeSet) /\ Giving(G, high, NodeSet)
  BY <1>4, GivingWhen
<1> HIDE DEF high
<1>6. Giving(G, more, NodeSet)
  BY <1>4, <1>5, NeutralOnes, Gives1, GivingAccept
<1> HIDE DEF low, range, more
<1>7. Gives(G, <<low, range, more>>, NodeSet)
  BY <1>5, <1>6, Gives3
<1>8. Gives(G, <<open, low, range, more, close>>, NodeSet)
  BY <1>7, InBrackets3
<1>9. Giving(F, make, Solid)
  BY Makes
<1> HIDE DEF open, close, make
<1>10. Gives(F, <<in, open, low, range, more, close, out>>, NodeSet)
  BY <1>3, <1>8, Within5
<1>11. Gives(F, <<in, open, low, range, more, close, out, make>>, Solid)
  BY <1>9, <1>10, GivesSnoc8
<1> QED  BY <1>1, <1>2, <1>11, EnterOperand DEF F

(* What follows an operand.                                                *)
LEMMA AppendSeq == ASSUME NEW s, IsSeq(s), NEW x PROVE Append(s, x) = s \o <<x>>
<1> PICK S : s \in Seq(S)
  BY DEF IsSeq
<1> DEFINE U == S \cup {x}
<1>1. s \in Seq(U) /\ x \in U
  OBVIOUS
<1> HIDE DEF U
<1> QED  BY <1>1

LEMMA GivesKept ==
  ASSUME NEW F, NEW l, Gives(F, l, Solid), NEW O \in SUBSET Seq(Ones), NEW V, NEW T
  PROVE  Holds(l, St(F, O, V, T), St(F, O, PresentOperand(F), Tokens))
<1>1. Holds(l, All(F, O), St(F, O, Solid, Tokens))
  BY DEF Gives
<1>2. St(F, O, V, T) \subseteq All(F, O)
  BY StMono DEF All
<1>3. St(F, O, Solid, Tokens) \subseteq St(F, O, PresentOperand(F), Tokens)
  BY SolidExpr, StMono
<1> QED  BY <1>1, <1>2, <1>3, HoldsMono

LEMMA PeriodHolds ==
  ASSUME NEW F, NEW O \in SUBSET Seq(Ones)
  PROVE  Holds(PeriodAtom, St(F, O, PresentOperand(F), Tokens), St(F, O, PresentOperand(F), Tokens))
<1> DEFINE V == PresentOperand(F)
           A == St(F, O, V, Tokens)
           make == Make(Expression)
           field == <<Call("parse_identifier"), make>>
           type == <<Call("parse_type"), Expect({Op("RPAREN")}), make>>
           d == When({Kind("OPERATOR")}, << >>, <<Fail>>)
           c == Accept({Op("QUESTION")}, <<make>>, <<d>>)
           b == Accept({Op("LPAREN")}, type, <<c>>)
           a == When({Kind("IDENTIFIER")}, field, <<b>>)
           period == Expect({Op("PERIOD")})
<1>1. PeriodAtom = <<period, a>>
  BY DEF PeriodAtom
<1>2. Gives(F, <<make>>, Solid) /\ Gives(F, field, Solid)
  BY Makes, Calls, Gives1, Gives2
<1>3. Holds(type, St(F, With(O, Op("RPAREN")), V, Tokens), A)
  <2> DEFINE close == Expect({Op("RPAREN")})
             of == Call("parse_type")
  <2>1. Gives(F, <<of>>, NodeSet)
    BY Calls, Gives1
  <2>2. Shuts(F, <<of>> \o <<close>> \o <<make>>, Op("RPAREN"), Solid)
    BY <1>2, <2>1, Closings, ShutsExpect
  <2> HIDE DEF close, of, make
  <2>3. <<of, close>> = <<of>> \o <<close>>
    BY ListJoin2
  <2>4. <<of, close, make>> = <<of, close>> \o <<make>>
    BY ListJoin
  <2>5. Shuts(F, <<of, close, make>>, Op("RPAREN"), Solid)
    BY <2>2, <2>3, <2>4
  <2>6. Holds(<<of, close, make>>, All(F, With(O, Op("RPAREN"))), St(F, O, Solid, Tokens))
    BY <2>5 DEF Shuts
  <2>7. /\ St(F, With(O, Op("RPAREN")), V, Tokens) \subseteq All(F, With(O, Op("RPAREN")))
        /\ St(F, O, Solid, Tokens) \subseteq A
    BY SolidExpr, StMono, AllMono
  <2> HIDE DEF A, V
  <2> QED  BY <2>6, <2>7, HoldsMono DEF of, close
<1>4. \A l, T : Gives(F, l, Solid) => Holds(l, St(F, O, V, T), A)
  BY GivesKept
<1>5. Holds(<< >>, St(F, O, V, At({Kind("OPERATOR")})), A)
  <2>1. St(F, O, V, At({Kind("OPERATOR")})) \subseteq A
    BY StMono DEF At
  <2> QED  BY <2>1, HoldsEmpty
<1>6. Holds(<<Fail>>, A, A)
  BY FailRules, Chain1
<1> HIDE DEF V, make, field, type
<1>7. Task(d, A, A)
  BY <1>5, <1>6, WhenRule
<1> HIDE DEF d
<1>8. Task(c, A, A)
  <2>1. Holds(<<d>>, A, A) /\ Holds(<<make>>, A, A)
    BY <1>2, <1>4, <1>7, Chain1
  <2> QED  BY <2>1, NeutralOnes, AcceptNeutral
<1> HIDE DEF c
<1>9. Task(b, A, A)
  <2>1. Holds(<<c>>, A, A)
    BY <1>8, Chain1
  <2> QED  BY <1>3, <2>1, AcceptOpen
<1> HIDE DEF b
<1>10. Task(a, A, A)
  <2>1. Holds(<<b>>, A, A)
    BY <1>9, Chain1
  <2>2. Holds(field, St(F, O, V, At({Kind("IDENTIFIER")})), A)
    BY <1>2, <1>4
  <2> QED  BY <2>1, <2>2, WhenRule
<1>11. Task(period, A, A)
  BY NeutralOnes, ExpectNeutral
<1> HIDE DEF a, period, A
<1>12. Holds(<<period, a>>, A, A)
  BY <1>10, <1>11, Chain2
<1> QED  BY <1>1, <1>12 DEF A, V

LEMMA AtomHolds ==
  ASSUME IInv, NEW lhs, value \in PresentOperand(Flags(parser))
  PROVE  Holds(Atom(lhs), Here, St(Flags(parser), Open, PresentOperand(Flags(parser)), Tokens))
<1> DEFINE F == Flags(parser)
           C == St(F, Open, PresentOperand(F), Tokens)
           is(l) == Holds(l, Here, C)
           make == Make(Expression)
           call == <<Call("parse_call_expression")>>
           arrow == <<Expect({Op("ARROW")}), Call("parse_identifier"), make>>
           index == <<Call("parse_index_expression")>>
           postfix == <<Advance, make>>
           compound == <<Call("parse_compound_literal_expression")>>
<1>1. Open \in SUBSET Seq(Ones) /\ this_token \in Tokens /\ value \in NodeSet
  BY CurrentState DEF IInv, Types
<1>2. Here \subseteq C
  BY <1>1, StMono DEF Here
<1>3. \A l : Gives(F, l, Solid) => is(l)
  BY <1>1, GivesKept DEF Here
<1>4. is(call) /\ is(index) /\ is(compound)
  BY <1>3, OperandCalls, Gives1
<1>5. is(arrow)
  <2>1. Giving(F, Expect({Op("ARROW")}), NodeSet)
    BY NeutralOnes, GivingExpect
  <2>2. Gives(F, arrow, Solid)
    BY <2>1, Calls, Makes, Gives3
  <2> QED  BY <1>3, <2>2
<1>6. is(PeriodAtom)
  <2>1. Holds(PeriodAtom, C, C)
    BY <1>1, PeriodHolds
  <2> QED  BY <1>2, <2>1, HoldsMono
<1>7. is(<< >>)
  BY <1>2, HoldsEmpty
<1>8. This(Ops({"POINTER", "OR_RETURN"})) => is(postfix)
  <2> SUFFICES ASSUME This(Ops({"POINTER", "OR_RETURN"}))
               PROVE  is(postfix)
    OBVIOUS
  <2>1. ~This(AllBrackets)
    BY DEF This, Is, AllBrackets, OpeningBrackets, ClosingBrackets, Kind, Op, Ops
  <2>2. Holds(<<Advance>>, Here, All(F, Open))
    BY <2>1, AdvanceHere DEF IInv
  <2>3. Gives(F, <<make>>, Solid)
    BY Makes, Gives1
  <2>4. Holds(<<make>>, All(F, Open), C)
    BY <1>1, <2>3, GivesKept DEF All
  <2> HIDE DEF C, F, make
  <2>5. Holds(<<Advance>> \o <<make>>, Here, C)
    BY <2>2, <2>4, HoldsConcat
  <2>6. <<Advance, make>> = <<Advance>> \o <<make>>
    BY ListJoin2
  <2> QED  BY <2>5, <2>6
<1>9. /\ \A o \in {"LPAREN", "PERIOD", "ARROW", "LBRACKET"} :
           This({Op(o)}) => this_token.kind = "OPERATOR" /\ this_token.as = o
      /\ This(Ops({"POINTER", "OR_RETURN"})) =>
           this_token.kind = "OPERATOR" /\ this_token.as \in {"POINTER", "OR_RETURN"}
      /\ This({Kind("LBRACE")}) => this_token.kind = "LBRACE"
  BY DEF This, Is, Kind, Op, Ops
<1>10. Atom(lhs) = CASE This({Op("LPAREN")}) -> call
                     [] This({Op("PERIOD")}) -> PeriodAtom
                     [] This({Op("ARROW")}) -> arrow
                     [] This({Op("LBRACKET")}) -> index
                     [] This(Ops({"POINTER", "OR_RETURN"})) -> postfix
                     [] This({Kind("LBRACE")}) /\ ~lhs /\ parser.expression_depth >= 0 -> compound
                     [] OTHER -> << >>
  BY DEF Atom
<1> HIDE DEF F, C, is, call, arrow, index, postfix, compound
<1>11. is(Atom(lhs))
  BY <1>4, <1>5, <1>6, <1>7, <1>8, <1>9, <1>10
<1> QED  BY <1>11 DEF is, C, F

LEMMA AtomsTask ==
  ASSUME NEW F, NEW lhs, NEW O, NEW V, V \subseteq PresentOperand(F), NEW T
  PROVE  Holds(<<Atoms(lhs)>>, St(F, O, V, T), St(F, O, PresentOperand(F), Tokens))
<1> DEFINE t == Atoms(lhs)
<1>1. t.do = "atoms" /\ Name(t) = "atoms"
  BY DEF Atoms, Name
<1>2. "atoms" \in Steps /\ "atoms" \in UnaryTasks /\ "atoms" \notin Fresh \cup Advancing \cup Closers
  BY DEF Steps, UnaryTasks, Fresh, Advancing, Closers, BracketClosers
<1>3. \A q : q.flags = F /\ q.value \in V => Pre(t, q) /\ Results(t, q) = PresentOperand(F)
  BY <1>1, <1>2, ResultsOf DEF Pre
<1> HIDE DEF t
<1>4. \A q : q.flags = F /\ q.value \in V =>
        Pre(t, q) /\ Results(t, q) \cap NodeSet \subseteq PresentOperand(F) /\ Ends(t, q) \cap Tokens \subseteq Tokens
  BY <1>3
<1>5. Task(t, St(F, O, V, T), St(F, O, PresentOperand(F), Tokens))
  BY <1>1, <1>2, <1>4, StepAt
<1> QED  BY <1>5, Chain1 DEF t

LEMMA AtomsInv == ASSUME IInv, atoms PROVE IInv'
<1> DEFINE F == Flags(parser)
           V == PresentOperand(F)
           C == St(F, Open, V, Tokens)
           list == Atom(Now.lhs)
           again == Atoms(FALSE)
           tasks == IF list = << >> THEN << >> ELSE Append(list, again)
<1>1. Doing("atoms") /\ Go(tasks \o Rest)
  BY DEF atoms
<1>2. "atoms" \in Steps \ {"call"} /\ "atoms" \in UnaryTasks
  BY DEF Steps, UnaryTasks
<1>3. value \in V
  BY <1>1, <1>2, DoingPre DEF Pre
<1>4. Holds(list, Here, C)
  BY <1>3, AtomHolds
<1>5. Holds(<<again>>, C, C)
  BY AtomsTask
<1>6. \A t, q : Name(t) = "atoms" /\ q.flags = F => St(q.flags, q.open, V, Tokens) \subseteq Upon(t, q)
  BY <1>2, UponUnary
<1> HIDE DEF list, again, F, V, C
<1>7. Holds(tasks, Here, C)
  <2>1. CASE list = << >>
    BY <1>4, <2>1
  <2>2. CASE list # << >>
    <3>1. Append(list, again) = list \o <<again>>
      BY <1>4, HoldsSeq, AppendSeq
    <3> QED  BY <1>4, <1>5, <2>2, <3>1, HoldsConcat
  <2> QED  BY <2>1, <2>2
<1> HIDE DEF tasks
<1> QED  BY <1>1, <1>2, <1>6, <1>7, StepHolds DEF C, F

(* An atom, which may be absent in a type.                                 *)
LEMMA OnPre ==
  ASSUME IInv, NEW f, On(f)
  PROVE  /\ Pre(Now, Current) /\ Name(Now) = f /\ Doing("call") /\ Args = Now.args
         /\ Current.flags = Flags(parser) /\ Current.value = value /\ Current.token = this_token
         /\ Current.open = Open
<1>1. Doing("call") /\ Now.do = "call" /\ Name(Now) = f
  BY DEF On, Doing, Name
<1>2. "call" \in Steps
  BY DEF Steps
<1> QED  BY <1>1, <1>2, DoingPre DEF Args

LEMMA AtomExpressionInv == ASSUME IInv, parse_atom_expression PROVE IInv'
<1> DEFINE F == Flags(parser)
           C == St(F, Open, PresentOperand(F), Tokens)
           atom == <<Atoms(Args.lhs)>>
           tasks == CASE value.kind # "NULL" -> atom
                      [] value.kind = "NULL" /\ parser.allow_type -> << >>
                      [] OTHER -> <<Fail>>
<1>1. On("parse_atom_expression") /\ Enter(tasks)
  BY DEF parse_atom_expression
<1>2. "parse_atom_expression" \in UnaryTasks
  BY DEF UnaryTasks
<1>3. value \in Operand
  BY <1>1, OnPre DEF Pre
<1>4. this_token \in Tokens /\ F.allow_type = parser.allow_type
  BY DEF IInv, Types, Flags, Fl
<1>5. value.kind # "NULL" \/ parser.allow_type => value \in PresentOperand(F)
  BY <1>3, <1>4 DEF PresentOperand, Present
<1>6. value \in PresentOperand(F) => Holds(atom, Here, C) /\ Holds(<< >>, Here, C)
  <2> SUFFICES ASSUME value \in PresentOperand(F)
               PROVE  Holds(atom, Here, C) /\ Holds(<< >>, Here, C)
    OBVIOUS
  <2>1. Holds(atom, Here, C)
    BY AtomsTask DEF Here
  <2>2. Here \subseteq C
    BY <1>4, StMono DEF Here
  <2> QED  BY <2>1, <2>2, HoldsEmpty
<1>7. Holds(<<Fail>>, Here, C)
  BY FailRules, Chain1 DEF Here
<1>8. \A t, q : Name(t) = "parse_atom_expression" /\ q.flags = F =>
                St(q.flags, q.open, PresentOperand(F), Tokens) \subseteq Upon(t, q)
  BY <1>2, UponUnary
<1> HIDE DEF atom, F, C
<1>9. Holds(tasks, Here, C)
  BY <1>5, <1>6, <1>7
<1> HIDE DEF tasks
<1> QED  BY <1>1, <1>8, <1>9, EnterHolds DEF C, F

LEMMA UnaryInv == ASSUME IInv, parse_unary_expression PROVE IInv'
<1> DEFINE F == Flags(parser)
           W == PresentOperand(F)
           lhs == Args.lhs
           cast == <<Lhs("parse_cast_expression", lhs)>>
           stem == <<Lhs("parse_unary_stem_expression", lhs)>>
           selector == <<Call("parse_implicit_selector_expression")>>
           operand == <<Lhs("parse_operand", lhs), Lhs("parse_atom_expression", lhs)>>
           is(l) == Holds(l, Here, St(F, Open, W, Tokens))
           casts == {"TRANSMUTE", "AUTO_CAST", "CAST"}
           stems == {"ADD", "SUB", "XOR", "AND", "NOT"}
           tasks == CASE This(Ops(casts)) -> cast
                      [] This(Ops(stems)) -> stem
                      [] This({Op("PERIOD")}) -> selector
                      [] OTHER -> operand
<1>1. On("parse_unary_expression") /\ Enter(tasks)
  BY DEF parse_unary_expression
<1>2. is(selector) /\ is(operand)
  <2>1. Gives(F, selector, W) /\ Gives(F, operand, W)
    BY ValueGiving, Gives1, OperandAtom
  <2> HIDE DEF selector, operand, F
  <2> QED  BY <2>1, HereAny DEF IInv, F
<1>3. \A f \in {"parse_cast_expression", "parse_unary_stem_expression"} :
        ~This(AllBrackets) => is(<<Lhs(f, lhs)>>)
  <2> SUFFICES ASSUME NEW f \in {"parse_cast_expression", "parse_unary_stem_expression"},
                      ~This(AllBrackets)
               PROVE  is(<<Lhs(f, lhs)>>)
    OBVIOUS
  <2> DEFINE t == Lhs(f, lhs)
  <2>1. t.do \in Steps /\ Name(t) = f
    BY CallName DEF Lhs
  <2>2. f \in Advancing /\ f \in UnaryTasks
    BY DEF Advancing, UnaryTasks
  <2>3. \A q : q.flags = F => Results(t, q) \cap NodeSet \subseteq W
    BY <2>1, <2>2, ResultsOf
  <2> HIDE DEF t, F, W
  <2> QED  BY <2>1, <2>2, <2>3, AdvancingCall DEF t, F
<1>4. This(Ops(casts)) => is(cast)
  <2>1. This(Ops(casts)) => ~This(AllBrackets)
    BY DEF This, Is, AllBrackets, OpeningBrackets, ClosingBrackets, Kind, Op, Ops
  <2> QED  BY <1>3, <2>1
<1>5. This(Ops(stems)) => is(stem)
  <2>1. This(Ops(stems)) => ~This(AllBrackets)
    BY DEF This, Is, AllBrackets, OpeningBrackets, ClosingBrackets, Kind, Op, Ops
  <2> QED  BY <1>3, <2>1
<1>6. /\ This(Ops(casts)) => this_token.as \in casts
      /\ This(Ops(stems)) => this_token.as \in stems
      /\ This({Op("PERIOD")}) => this_token.as = "PERIOD"
  BY DEF This, Is, Kind, Op, Ops
<1>7. \A t, q : Name(t) = "parse_unary_expression" /\ q.flags = F =>
                St(q.flags, q.open, W, Tokens) \subseteq Upon(t, q)
  BY UponUnary DEF UnaryTasks
<1> HIDE DEF F, W, lhs, cast, stem, selector, operand, is
<1>8. is(tasks)
  BY <1>2, <1>4, <1>5, <1>6
<1> HIDE DEF tasks
<1> QED  BY <1>1, <1>7, <1>8, EnterHolds DEF F, is

-----------------------------------------------------------------------------
(* Expressions of operators, and the token each ends at.                   *)
Stopping(F, prec) == {token \in Tokens : Stops(F, token, prec)}

LEMMA ExpressionTask ==
  ASSUME NEW F, NEW lhs, NEW O, NEW V, NEW T
  PROVE  /\ Task(Lhs("parse_expression", lhs), St(F, O, V, T), St(F, O, Expr(F), Stopping(F, 1)))
         /\ Task(Lhs("parse_ternary_expression", lhs), St(F, O, V, T),
                 St(F, O, Expr(F), Stopping(F, 1)))
<1> DEFINE names == {"parse_expression", "parse_ternary_expression"}
<1>1. SUFFICES ASSUME NEW f \in names
               PROVE  Task(Lhs(f, lhs), St(F, O, V, T), St(F, O, Expr(F), Stopping(F, 1)))
  OBVIOUS
<1> DEFINE t == Lhs(f, lhs)
<1>2. t.do \in Steps /\ Name(t) = f
  BY CallName DEF Lhs
<1>3. f \notin Demanding /\ f \notin Closers /\ f \in ExprTasks
  BY DEF Demanding, Fresh, Advancing, Closers, BracketClosers, ValueTasks, ExprTasks
<1> HIDE DEF t
<1>4. \A q : q.flags = F =>
        /\ Pre(t, q) /\ Results(t, q) = Expr(F) /\ Ends(t, q) = Stopping(F, 1)
  BY <1>2, <1>3, UndemandingPre, ResultsOf DEF Ends, Stopping
<1>5. \A q : q.flags = F /\ q.value \in V /\ q.token \in T =>
        Pre(t, q) /\ Results(t, q) \cap NodeSet \subseteq Expr(F) /\ Ends(t, q) \cap Tokens \subseteq Stopping(F, 1)
  BY <1>4
<1> QED  BY <1>2, <1>3, <1>5, StepAt DEF t

LEMMA OperandsTask ==
  ASSUME NEW F, NEW lhs, NEW prec \in Nat \ {0}, NEW O, NEW V, NEW T
  PROVE  Task(Operands(lhs, prec), St(F, O, V, T), St(F, O, BinaryExpr(F, prec), Stopping(F, prec)))
<1> DEFINE t == Operands(lhs, prec)
           f == "parse_binary_expression"
<1>1. t.do \in Steps /\ Name(t) = f /\ t.args.prec = prec
  BY CallName DEF Operands
<1>2. f \notin Fresh \cup Advancing \cup Closers
  BY DEF Fresh, Advancing, Closers, BracketClosers
<1> HIDE DEF t
<1>3. ASSUME NEW q, q.flags = F
      PROVE  /\ Pre(t, q) /\ Results(t, q) = BinaryExpr(F, prec) /\ Ends(t, q) = Stopping(F, prec)
  <2>1. Pre(t, q)
    BY <1>1, <1>2 DEF Pre
  <2>2. Results(t, q) = BinaryExpr(F, prec)
    BY <1>1, <1>3 DEF Results, OperandTasks, UnaryTasks, ExprTasks, StatementTasks
  <2>3. Ends(t, q) = Stopping(F, prec)
    BY <1>1, <1>3 DEF Ends, Stopping
  <2> QED  BY <2>1, <2>2, <2>3
<1>4. \A q : q.flags = F /\ q.value \in V /\ q.token \in T =>
        /\ Pre(t, q) /\ Results(t, q) \cap NodeSet \subseteq BinaryExpr(F, prec)
        /\ Ends(t, q) \cap Tokens \subseteq Stopping(F, prec)
  BY <1>3
<1> QED  BY <1>1, <1>2, <1>4, StepAt DEF t

LEMMA EnterUpon ==
  ASSUME IInv, NEW f, On(f), NEW tasks, Enter(tasks), NEW W, NEW U,
         Holds(tasks, Here, St(Flags(parser), Open, W, U)),
         Upon(Now, Current) = St(Flags(parser), Open, W, U)
  PROVE  IInv'
<1>1. Doing("call")
  BY DEF On
<1> QED  BY <1>1, EnterRule

LEMMA TernaryInv == ASSUME IInv, parse_ternary_expression PROVE IInv'
<1> DEFINE F == Flags(parser)
           U == Stopping(F, 1)
           expr == Lhs("parse_expression", Args.lhs)
           colon == Expect({Op("COLON")})
           if == Expect({Kw("IF"), Kw("WHEN")})
           else == Expect({Kw("ELSE")})
           query == Accept({Op("QUESTION")}, <<expr, colon>>, <<if, expr, else>>)
           make == Make(Ternary)
<1>1. On("parse_ternary_expression") /\ Enter(<<query, expr, make>>)
  BY DEF parse_ternary_expression
<1>2. /\ Giving(F, expr, NodeSet) /\ Giving(F, colon, NodeSet) /\ Giving(F, if, NodeSet)
      /\ Giving(F, else, NodeSet)
  BY Calls, NeutralOnes, GivingExpect
<1>3. Task(expr, All(F, Open), St(F, Open, Expr(F), U))
  BY ExpressionTask DEF All
<1>4. Task(make, St(F, Open, Expr(F), U), St(F, Open, {Ternary}, U))
  BY Nodes, MakeRule
<1>5. St(F, Open, {Ternary}, U) \subseteq St(F, Open, Expr(F), U)
  <2>1. Ternary \in Expr(F)
    BY Nodes DEF Expr, Present
  <2> QED  BY <2>1, StMono
<1>6. Upon(Now, Current) = St(F, Open, Expr(F), U)
  <2>1. Name(Now) = "parse_ternary_expression" /\ Current.flags = F /\ Current.open = Open
    BY <1>1, OnPre
  <2> HIDE DEF F
  <2> QED  BY <2>1, UponExpr DEF Stopping
<1> HIDE DEF F, U, expr, colon, if, else, make
<1>7. Gives(F, <<expr, colon>>, NodeSet) /\ Gives(F, <<if, expr, else>>, NodeSet)
  BY <1>2, Gives2, Gives3
<1>8. Giving(F, query, NodeSet)
  BY <1>7, NeutralOnes, GivingAccept
<1>9. Task(query, Here, All(F, Open))
  <2>1. Open \in SUBSET Seq(Ones) /\ value \in NodeSet /\ this_token \in Tokens
    BY CurrentState DEF IInv, Types
  <2>2. Here \subseteq All(F, Open)
    BY <2>1, StMono DEF Here, All, F
  <2>3. Task(query, All(F, Open), All(F, Open))
    BY <1>8, <2>1 DEF Giving, All
  <2> HIDE DEF query
  <2> QED  BY <2>2, <2>3, TaskMono
<1> HIDE DEF query
<1>10. Task(make, St(F, Open, Expr(F), U), St(F, Open, Expr(F), U))
  BY <1>4, <1>5, TaskMono
<1>11. Holds(<<query, expr, make>>, Here, St(F, Open, Expr(F), U))
  BY <1>3, <1>9, <1>10, Chain3
<1> QED  BY <1>1, <1>6, <1>11, EnterUpon DEF F

LEMMA BinaryInv == ASSUME IInv, parse_binary_expression \/ parse_expression PROVE IInv'
<1> DEFINE F == Flags(parser)
<1>1. CASE parse_binary_expression
  <2> DEFINE prec == Args.prec
             U == Stopping(F, prec)
             W == BinaryExpr(F, prec)
             unary == Lhs("parse_unary_expression", Args.lhs)
             t == Operators(Args.lhs, prec)
             V == PresentOperand(F)
  <2>1. On("parse_binary_expression") /\ Enter(<<unary, t>>)
    BY <1>1 DEF parse_binary_expression
  <2>2. Name(Now) = "parse_binary_expression" /\ Current.flags = F /\ Current.open = Open
        /\ Args = Now.args /\ prec \in Nat \ {0}
    BY <2>1, OnPre DEF Pre
  <2>3. Upon(Now, Current) = St(F, Open, W, U)
    <3>1. prec = Now.args.prec
      BY <2>2
    <3> HIDE DEF F, prec
    <3>2. Upon(Now, Current) = St(Current.flags, Current.open, BinaryExpr(Current.flags, Now.args.prec),
                                  Stopping(Current.flags, Now.args.prec))
      BY <2>2, UponExpr DEF Stopping
    <3> QED  BY <2>2, <3>1, <3>2
  <2>4. t.do = "operators" /\ Name(t) = "operators" /\ t.prec = prec
    BY DEF Operators, Name
  <2>5. "operators" \in Steps /\ "operators" \notin Fresh \cup Advancing \cup Closers
    BY DEF Steps, Fresh, Advancing, Closers, BracketClosers
  <2>6. ASSUME NEW v \in V, NEW k PROVE Bare(v, k) /\ v \in BinaryExpr(F, k)
    BY DEF PresentOperand, Operand, Unary, Bare, BinaryExpr, Expr
  <2>7. Task(t, St(F, Open, V, Tokens), St(F, Open, W, U))
    <3> HIDE DEF F, V, prec, t
    <3>1. ASSUME NEW q, q.flags = F, q.value \in V
          PROVE  Pre(t, q) /\ Results(t, q) = W /\ Ends(t, q) = U
      <4>1. Pre(t, q)
        BY <2>2, <2>4, <2>5, <2>6, <3>1 DEF Pre
      <4>2. Results(t, q) = W
        BY <2>4, <3>1 DEF Results, OperandTasks, UnaryTasks, ExprTasks, StatementTasks
      <4>3. Ends(t, q) = U
        BY <2>4, <3>1 DEF Ends, Stopping
      <4> QED  BY <4>1, <4>2, <4>3
    <3> HIDE DEF W, U
    <3>2. \A q : q.flags = F /\ q.value \in V /\ q.token \in Tokens =>
            Pre(t, q) /\ Results(t, q) \cap NodeSet \subseteq W /\ Ends(t, q) \cap Tokens \subseteq U
      BY <3>1
    <3> QED  BY <2>4, <2>5, <3>2, StepAt
  <2>8. Holds(<<unary>>, Here, St(F, Open, V, Tokens))
    <3>1. Gives(F, <<unary>>, V)
      BY ValueGiving, Gives1
    <3> HIDE DEF F, V, unary
    <3> QED  BY <3>1, HereAny DEF IInv, F
  <2> HIDE DEF F, V, W, U, prec, unary, t
  <2>9. Holds(<<unary>> \o <<t>>, Here, St(F, Open, W, U))
    BY <2>7, <2>8, Chain1, HoldsConcat
  <2>10. <<unary, t>> = <<unary>> \o <<t>>
    BY ListJoin2
  <2>11. Holds(<<unary, t>>, Here, St(F, Open, W, U))
    BY <2>9, <2>10
  <2> QED  BY <2>1, <2>3, <2>11, EnterUpon DEF F
<1>2. CASE parse_expression
  <2> DEFINE t == Operands(Args.lhs, 1)
             U == Stopping(F, 1)
  <2>1. On("parse_expression") /\ Enter(<<t>>)
    BY <1>2 DEF parse_expression
  <2>2. Name(Now) = "parse_expression" /\ Current.flags = F /\ Current.open = Open
    BY <2>1, OnPre
  <2>3. Upon(Now, Current) = St(F, Open, Expr(F), U)
    <3> HIDE DEF F
    <3> QED  BY <2>2, UponExpr DEF Stopping
  <2>4. BinaryExpr(F, 1) = Expr(F)
    BY DEF BinaryExpr
  <2>5. Task(t, Here, St(F, Open, BinaryExpr(F, 1), U))
    <3>1. 1 \in Nat \ {0}
      OBVIOUS
    <3> QED  BY <3>1, OperandsTask DEF Here
  <2> HIDE DEF F, t, U
  <2>6. Holds(<<t>>, Here, St(F, Open, Expr(F), U))
    BY <2>4, <2>5, Chain1
  <2> QED  BY <2>1, <2>3, <2>6, EnterUpon DEF F
<1> QED  BY <1>1, <1>2

LEMMA StepValue ==
  ASSUME IInv, NEW f \in Steps, Doing(f), NEW node \in NodeSet, GoWith(Rest, node),
         St(Flags(parser), Open, {node}, {this_token}) \subseteq Upon(Now, Current)
  PROVE  IInv'
<1> DEFINE F == Flags(parser)
<1>1. /\ Now.do = f /\ outcome = "parsing" /\ stack # << >>
      /\ Current.flags = F /\ Current.open = Open /\ Current.token = this_token
  BY DoingPre
<1>2. PICK C : Task(Now, {Current}, C) /\ Holds(Rest, C, Final)
  BY <1>1, HeadRule
<1>3. Upon(Now, Current) \subseteq C
  <2>1. SimpleValid(Now, {Current}, C)
    BY <1>2, TaskSimple
  <2> QED  BY <1>1, <2>1 DEF SimpleValid
<1>4. [Current EXCEPT !.value = node] \in St(F, Open, {node}, {this_token})
  <2>1. Current \in State /\ ~Current.broken
    BY CurrentState DEF IInv
  <2> HIDE DEF F
  <2> QED  BY <1>1, <2>1 DEF St, State
<1>5. Holds(Rest, {[Current EXCEPT !.value = node]}, Final)
  <2>1. {[Current EXCEPT !.value = node]} \subseteq C
    BY <1>3, <1>4
  <2> QED  BY <1>2, <2>1, HoldsMono
<1> QED  BY <1>1, <1>5, GoWithRule

LEMMA JoinInv == ASSUME IInv, Doing("join"), operators PROVE IInv'
<1> DEFINE F == Flags(parser)
           node == Binary(Now.op)
<1>1. IF value.kind = "NULL" THEN Throw ELSE GoWith(Rest, node)
  BY DEF operators, Doing
<1>2. CASE value.kind = "NULL"
  BY <1>1, <1>2, ThrowRule
<1>3. CASE value.kind # "NULL"
  <2>1. "join" \in Steps
    BY DEF Steps
  <2>2. /\ Name(Now) = "join" /\ Pre(Now, Current)
        /\ Current.flags = F /\ Current.open = Open /\ Current.token = this_token
    BY <2>1, DoingPre
  <2>3. Now.op \in NodeOps
    BY <2>2 DEF Pre
  <2>4. node \in NodeSet
    BY <2>3, Nodes
  <2>5. Upon(Now, Current) = St(F, Open, {node}, {this_token})
    BY <2>2, UponExpr
  <2>6. GoWith(Rest, node)
    BY <1>1, <1>3
  <2> HIDE DEF node
  <2> QED  BY <2>1, <2>4, <2>5, <2>6, StepValue
<1> QED  BY <1>2, <1>3

(* The precedences, and the operators that have one.                       *)
LEMMA PrecedenceType ==
  /\ \A op : PRECEDENCE(op) \in 0 .. 7
  /\ \A op \in BracketOps : PRECEDENCE(op) = 0
  /\ PRECEDENCE("QUESTION") = 1
<1>1. ASSUME NEW op PROVE PRECEDENCE(op) \in 0 .. 7
  <2>1. CASE \E prec \in 1 .. 7 : op \in Precedences[prec]
    <3>1. (CHOOSE prec \in 1 .. 7 : op \in Precedences[prec]) \in 1 .. 7
      BY <2>1
    <3> QED  BY <2>1, <3>1 DEF PRECEDENCE
  <2>2. CASE ~ \E prec \in 1 .. 7 : op \in Precedences[prec]
    BY <2>2 DEF PRECEDENCE
  <2> QED  BY <2>1, <2>2
<1>2. ASSUME NEW op \in BracketOps PROVE PRECEDENCE(op) = 0
  <2>1. ASSUME NEW prec \in 1 .. 7 PROVE op \notin Precedences[prec]
    BY DEF Precedences, BracketOps
  <2> QED  BY <2>1 DEF PRECEDENCE
<1>3. PRECEDENCE("QUESTION") = 1
  <2>1. "QUESTION" \in Precedences[1]
    BY DEF Precedences
  <2>2. ASSUME NEW prec \in 1 .. 7, "QUESTION" \in Precedences[prec] PROVE prec = 1
    BY <2>2 DEF Precedences
  <2>3. (CHOOSE prec \in 1 .. 7 : "QUESTION" \in Precedences[prec]) = 1
    BY <2>1, <2>2
  <2> QED  BY <2>1, <2>3 DEF PRECEDENCE
<1> QED  BY <1>1, <1>2, <1>3

LEMMA OperatorTokens ==
  ASSUME NEW F, NEW token
  PROVE  /\ Precedence(F, token) \in 0 .. 7
         /\ Is(token, TernaryKeyword \cup {Op("QUESTION")}) => Precedence(F, token) <= 1
         /\ ~Is(token, TernaryKeyword) /\ Precedence(F, token) > 0 =>
              /\ Precedence(F, token) = PRECEDENCE(token.as) /\ Is(token, {Kind("OPERATOR")})
              /\ ~Is(token, AllBrackets)
<1>1. PRECEDENCE(token.as) \in 0 .. 7
  BY PrecedenceType
<1>2. CASE Is(token, TernaryKeyword)
  BY <1>2 DEF Precedence
<1>3. CASE ~Is(token, TernaryKeyword) /\ Is(token, Ops({"IN", "NOT_IN"})) /\ F.expression_depth < 0 /\ ~F.allow_in
  BY <1>3 DEF Precedence, Is, TernaryKeyword, Kw, Op, Ops, Kind
<1>4. CASE ~Is(token, TernaryKeyword)
           /\ ~(Is(token, Ops({"IN", "NOT_IN"})) /\ F.expression_depth < 0 /\ ~F.allow_in)
  <2>1. Precedence(F, token) = IF Is(token, {Kind("OPERATOR")}) THEN PRECEDENCE(token.as) ELSE 0
    BY <1>4 DEF Precedence
  <2>2. Is(token, TernaryKeyword \cup {Op("QUESTION")}) => Is(token, {Kind("OPERATOR")}) /\ token.as = "QUESTION"
    BY <1>4 DEF Is, TernaryKeyword, Kw, Op, Kind
  <2>3. Is(token, {Kind("OPERATOR")}) /\ PRECEDENCE(token.as) # 0 => ~Is(token, AllBrackets)
    <3> SUFFICES ASSUME Is(token, {Kind("OPERATOR")}), PRECEDENCE(token.as) # 0
                 PROVE  ~Is(token, AllBrackets)
      OBVIOUS
    <3>1. token.as \notin BracketOps
      BY PrecedenceType
    <3>2. token.kind = "OPERATOR"
      BY DEF Is, Kind, BracketOps
    <3> QED  BY <3>1, <3>2 DEF Is, AllBrackets, OpeningBrackets, ClosingBrackets, Op, Kind, BracketOps
  <2> QED  BY <1>1, <2>1, <2>2, <2>3, PrecedenceType
<1> QED  BY <1>2, <1>3, <1>4

(* One more pass of the loop.                                              *)
LEMMA OperatorsTask ==
  ASSUME NEW F, NEW lhs, NEW prec \in Nat \ {0}, NEW O, NEW V, NEW T, V \subseteq BinaryExpr(F, prec),
         \A v \in V : \A token \in T : Stops(F, token, 1) \/ Bare(v, Precedence(F, token))
  PROVE  Task(Operators(lhs, prec), St(F, O, V, T), St(F, O, BinaryExpr(F, prec), Stopping(F, prec)))
<1> DEFINE t == Operators(lhs, prec)
<1>1. t.do = "operators" /\ Name(t) = "operators" /\ t.prec = prec
  BY DEF Operators, Name
<1>2. "operators" \in Steps /\ "operators" \notin Fresh \cup Advancing \cup Closers
  BY DEF Steps, Fresh, Advancing, Closers, BracketClosers
<1> HIDE DEF t
<1>3. ASSUME NEW q, q.flags = F, q.value \in V, q.token \in T
      PROVE  /\ Pre(t, q) /\ Results(t, q) = BinaryExpr(F, prec) /\ Ends(t, q) = Stopping(F, prec)
  <2>1. Pre(t, q)
    <3>1. q.value \in BinaryExpr(F, prec)
      BY <1>3
    <3>2. Stops(F, q.token, 1) \/ Bare(q.value, Precedence(F, q.token))
      BY <1>3
    <3> QED  BY <1>1, <1>2, <1>3, <3>1, <3>2 DEF Pre
  <2>2. Results(t, q) = BinaryExpr(F, prec)
    BY <1>1, <1>3 DEF Results, OperandTasks, UnaryTasks, ExprTasks, StatementTasks
  <2>3. Ends(t, q) = Stopping(F, prec)
    BY <1>1, <1>3 DEF Ends, Stopping
  <2> QED  BY <2>1, <2>2, <2>3
<1>4. \A q : q.flags = F /\ q.value \in V /\ q.token \in T =>
        /\ Pre(t, q) /\ Results(t, q) \cap NodeSet \subseteq BinaryExpr(F, prec)
        /\ Ends(t, q) \cap Tokens \subseteq Stopping(F, prec)
  BY <1>3
<1> QED  BY <1>1, <1>2, <1>4, StepAt DEF t

LEMMA JoinTask ==
  ASSUME NEW F, NEW op \in NodeOps, NEW left, Bare(left, PRECEDENCE(op)), NEW k \in Nat \ {1}, k = PRECEDENCE(op) + 1,
         NEW O, NEW T
  PROVE  Task(Join(op, left), St(F, O, BinaryExpr(F, k), T), St(F, O, {Binary(op)}, T))
<1> DEFINE t == Join(op, left)
           V == BinaryExpr(F, k)
<1>1. t.do = "join" /\ Name(t) = "join" /\ t.op = op /\ t.left = left
  BY DEF Join, Name
<1>2. "join" \in Steps /\ "join" \notin Fresh \cup Advancing \cup Closers
  BY DEF Steps, Fresh, Advancing, Closers, BracketClosers
<1>3. \A v \in V : Bare(v, PRECEDENCE(op) + 1)
  BY DEF BinaryExpr
<1> HIDE DEF t, V
<1>4. ASSUME NEW q, q.flags = F, q.value \in V, q.token \in T
      PROVE  /\ Pre(t, q) /\ Results(t, q) = {Binary(op)} /\ Ends(t, q) = {q.token}
  <2>1. Pre(t, q)
    BY <1>1, <1>2, <1>3, <1>4 DEF Pre
  <2>2. Results(t, q) = {Binary(op)}
    BY <1>1 DEF Results, OperandTasks, UnaryTasks, ExprTasks, StatementTasks
  <2>3. Ends(t, q) = {q.token}
    BY <1>1 DEF Ends
  <2> QED  BY <2>1, <2>2, <2>3
<1>5. \A q : q.flags = F /\ q.value \in V /\ q.token \in T =>
        /\ Pre(t, q) /\ Results(t, q) \cap NodeSet \subseteq {Binary(op)} /\ Ends(t, q) \cap Tokens \subseteq T
  BY <1>4
<1> QED  BY <1>1, <1>2, <1>5, StepAt DEF t, V

LEMMA OperatorsInv == ASSUME IInv, operators PROVE IInv'
<1>1. CASE Doing("join")
  BY <1>1, JoinInv
<1>2. CASE ~Doing("join")
  <2> DEFINE F == Flags(parser)
             prec == Now.prec
             W == BinaryExpr(F, prec)
             U == Stopping(F, prec)
             C == St(F, Open, W, U)
             k == OperatorPrecedence
             ternary == Lhs("parse_ternary_expression", Now.lhs)
             expect == Expect({Kind("OPERATOR")})
             operands == Operands(FALSE, k + 1)
             join == Join(this_token.as, value)
             again == Operators(FALSE, prec)
             chosen == IF This(TernaryKeyword \cup {Op("QUESTION")}) THEN <<ternary>>
                       ELSE <<expect, operands, join>>
             ends == k < prec \/ (This(TernaryKeyword) /\ ~SameLine)
  <2>1. Doing("operators") /\ IF ends THEN Go(Rest) ELSE Go(chosen \o <<again>> \o Rest)
    BY <1>2 DEF operators
  <2>2. "operators" \in Steps
    BY DEF Steps
  <2>3. /\ Name(Now) = "operators" /\ Pre(Now, Current) /\ outcome = "parsing" /\ stack # << >>
        /\ Current.flags = F /\ Current.open = Open /\ Current.token = this_token /\ Now.do \in Steps
        /\ Current.value = value
    BY <2>1, <2>2, DoingPre
  <2>4. /\ prec \in Nat \ {0} /\ value \in W
        /\ Stops(F, this_token, 1) \/ Bare(value, Precedence(F, this_token))
    BY <2>3 DEF Pre
  <2>5. k = Precedence(F, this_token) /\ k \in 0 .. 7
    <3>1. F.expression_depth = parser.expression_depth /\ F.allow_in = parser.allow_in
      BY DEF Flags, Fl
    <3>2. k = Precedence(F, this_token)
      BY <3>1 DEF OperatorPrecedence, Precedence, This
    <3> QED  BY <3>2, OperatorTokens
  <2>6. ends <=> Stops(F, this_token, prec)
    <3> HIDE DEF F, prec, k
    <3>1. SameLine <=> this_token.gap = 0
      BY DEF SameLine
    <3> QED  BY <2>5, <3>1 DEF Stops, This
  <2>7. Upon(Now, Current) = C
    <3> HIDE DEF F
    <3> QED  BY <2>3, UponExpr DEF Stopping
  <2>8. this_token \in Tokens /\ value \in NodeSet /\ Open \in SUBSET Seq(Ones)
    BY CurrentState DEF IInv, Types
  <2> HIDE DEF F, prec, k, W, U, C, ternary, expect, operands, join, again
  <2>9. CASE ends
    <3>1. this_token \in U
      BY <2>6, <2>8, <2>9 DEF U, Stopping
    <3>2. Here \subseteq C
      BY <2>4, <3>1, StMono DEF Here, C, F
    <3> QED  BY <2>1, <2>3, <2>7, <2>9, <3>2, StepEnds
  <2>10. CASE ~ends
    <3>1. ~Stops(F, this_token, prec) /\ k >= prec
      BY <2>4, <2>5, <2>6, <2>10
    <3>2. CASE This(TernaryKeyword \cup {Op("QUESTION")})
      <4>1. prec = 1
        <5>1. Precedence(F, this_token) <= 1
          BY <3>2, OperatorTokens DEF This
        <5> QED  BY <2>4, <2>5, <3>1, <5>1
      <4>2. Expr(F) \subseteq BinaryExpr(F, 1)
        BY DEF BinaryExpr
      <4>3. Task(ternary, Here, St(F, Open, Expr(F), Stopping(F, 1)))
        BY ExpressionTask DEF ternary, Here, F
      <4>4. \A v \in Expr(F) : \A token \in Stopping(F, 1) :
              Stops(F, token, 1) \/ Bare(v, Precedence(F, token))
        BY DEF Stopping
      <4>5. Task(again, St(F, Open, Expr(F), Stopping(F, 1)), C)
        BY <2>4, <4>1, <4>2, <4>4, OperatorsTask DEF again, C, W, U
      <4>6. Holds(<<ternary>> \o <<again>>, Here, C)
        BY <4>3, <4>5, Chain1, HoldsConcat
      <4>7. chosen = <<ternary>>
        BY <3>2
      <4> HIDE DEF chosen
      <4>8. Holds(chosen \o <<again>>, Here, C)
        BY <4>6, <4>7
      <4>9. Go(chosen \o <<again>> \o Rest)
        BY <2>1, <2>10
      <4> QED  BY <2>3, <2>7, <4>8, <4>9, StepRule
    <3>3. CASE ~This(TernaryKeyword \cup {Op("QUESTION")})
      <4> DEFINE op == this_token.as
      <4>1. ~Is(this_token, TernaryKeyword)
        BY <3>3 DEF This, Is
      <4>2. k = PRECEDENCE(op) /\ k > 0 /\ ~This(AllBrackets)
        BY <2>4, <2>5, <3>1, <4>1, OperatorTokens DEF This
      <4>3. op \in NodeOps
        BY <2>8 DEF Tokens, NodeOps
      <4>4. Bare(value, k)
        <5>1. ~Stops(F, this_token, 1)
          BY <2>4, <2>5, <3>1, <4>1 DEF Stops
        <5> QED  BY <2>4, <2>5, <5>1
      <4>5. Task(expect, Here, All(F, Open))
        <5>1. Passed(Seen(Here, {Kind("OPERATOR")})) \subseteq St(F, Open, {value}, Tokens)
          <6>1. ASSUME NEW p \in Passed(Seen(Here, {Kind("OPERATOR")}))
                PROVE  p \in St(F, Open, {value}, Tokens)
            <7>1. PICK q \in Here : p \in State
                    /\ p = [q EXCEPT !.token = p.token, !.open = {Bracketed(o, q.token) : o \in q.open}]
              BY <6>1 DEF Passed, Seen
            <7>2. q \in State /\ q.flags = F /\ q.open \subseteq Open /\ q.value = value
                  /\ q.token = this_token /\ ~q.broken
              BY <7>1 DEF Here, St, F
            <7>3. {Bracketed(o, q.token) : o \in q.open} = q.open
              BY <4>2, <7>2, Unbracketed DEF This
            <7>4. p = [q EXCEPT !.token = p.token, !.open = q.open]
              BY <7>1, <7>3
            <7> QED  BY <7>1, <7>2, <7>4 DEF St, State
          <6> QED  BY <6>1
        <5>2. Task(expect, Here, St(F, Open, {value}, Tokens))
          BY <5>1, ExpectTask DEF Here, F, expect
        <5>3. St(F, Open, {value}, Tokens) \subseteq All(F, Open)
          BY AllMono
        <5> QED  BY <5>2, <5>3, TaskMono
      <4>6. Task(operands, All(F, Open), St(F, Open, BinaryExpr(F, k + 1), Stopping(F, k + 1)))
        <5>1. k + 1 \in Nat \ {0}
          BY <2>5
        <5> QED  BY <5>1, OperandsTask DEF operands, All
      <4>7. Task(join, St(F, Open, BinaryExpr(F, k + 1), Stopping(F, k + 1)),
                 St(F, Open, {Binary(op)}, Stopping(F, k + 1)))
        <5>1. k + 1 \in Nat \ {1} /\ k + 1 = PRECEDENCE(op) + 1
          BY <2>5, <4>2
        <5>2. Bare(value, PRECEDENCE(op))
          BY <4>2, <4>4
        <5> QED  BY <4>3, <5>1, <5>2, JoinTask DEF join
      <4>8. Binary(op) \in W
        <5>1. Binary(op) \in NodeSet /\ Plain(Binary(op)) /\ Binary(op).kind = "BINARY" /\ Binary(op).op = op
          BY <4>3, Nodes DEF Binary, Node
        <5> HIDE DEF op
        <5>2. Bare(Binary(op), prec)
          BY <3>1, <4>2, <5>1 DEF Bare
        <5> QED  BY <5>1, <5>2 DEF W, BinaryExpr, Expr, Present
      <4>9. \A v \in {Binary(op)} : \A token \in Stopping(F, k + 1) :
              Stops(F, token, 1) \/ Bare(v, Precedence(F, token))
        <5> SUFFICES ASSUME NEW token \in Stopping(F, k + 1), ~Stops(F, token, 1)
                     PROVE  Bare(Binary(op), Precedence(F, token))
          OBVIOUS
        <5>1. Precedence(F, token) < k + 1 /\ Precedence(F, token) \in 0 .. 7
          BY OperatorTokens DEF Stopping, Stops
        <5>2. Binary(op).kind = "BINARY" /\ Binary(op).op = op
          BY DEF Binary, Node
        <5> HIDE DEF op
        <5> QED  BY <2>5, <4>2, <5>1, <5>2 DEF Bare
      <4>10. Task(again, St(F, Open, {Binary(op)}, Stopping(F, k + 1)), C)
        <5>1. {Binary(op)} \subseteq BinaryExpr(F, prec)
          BY <4>8 DEF W
        <5> HIDE DEF op
        <5> QED  BY <2>4, <4>9, <5>1, OperatorsTask DEF again, C, W, U
      <4>11. Holds(<<expect, operands, join>> \o <<again>>, Here, C)
        BY <4>5, <4>6, <4>7, <4>10, Chain1, Chain3, HoldsConcat
      <4>12. chosen = <<expect, operands, join>>
        BY <3>3
      <4> HIDE DEF chosen
      <4>13. Holds(chosen \o <<again>>, Here, C)
        BY <4>11, <4>12
      <4>14. Go(chosen \o <<again>> \o Rest)
        BY <2>1, <2>10
      <4> QED  BY <2>3, <2>7, <4>13, <4>14, StepRule
    <3> QED  BY <3>2, <3>3
  <2> QED  BY <2>9, <2>10
<1> QED  BY <1>1, <1>2

-----------------------------------------------------------------------------
(* Tuples.                                                                 *)
LEMMA JoinedTupled ==
  ASSUME NEW F, NEW so_far \in Tupling(F), NEW node \in Expr(F)
  PROVE  Joined(so_far, node) \in Tupled(F) /\ Joined(so_far, node) \in NodeSet
<1> DEFINE sum == Joined(so_far, node)
           of == IF so_far.n = 0 THEN node.kind ELSE so_far.of
           op == IF so_far.n = 0 THEN node.op ELSE so_far.op
           name == IF so_far.name = "name" THEN node.name ELSE so_far.name
           n == so_far.n + 1
<1>1. so_far \in NodeSet /\ node \in NodeSet
  BY DEF Tupling, Expr
<1>2. so_far.n \in Nat /\ n \in Nat /\ n > 0
  BY <1>1 DEF NodeSet
<1>3. of \in NodeKinds /\ op \in NodeOps /\ name \in {"absent", "name", "other"}
  BY <1>1 DEF NodeSet
<1>4. sum = [so_far EXCEPT !.of = of, !.op = op, !.name = name, !.n = n]
  BY <1>1 DEF Joined, NodeSet
<1>5. (node.name = "absent" => F.allow_type) /\ (node.kind = "NULL" => F.allow_type)
  BY Zenon DEF Expr, Plain, Present
<1>6. name = "absent" => F.allow_type
  <2>1. so_far.name = "absent" => F.allow_type
    BY Zenon DEF Tupling
  <2>2. name = node.name \/ name = so_far.name
    OBVIOUS
  <2> HIDE DEF name
  <2> QED  BY <1>5, <2>1, <2>2, Zenon
<1>7. of = "NULL" => F.allow_type
  <2>1. so_far.n > 0 /\ so_far.of = "NULL" => F.allow_type
    BY Zenon DEF Tupling
  <2>2. of = node.kind \/ (so_far.n > 0 /\ of = so_far.of)
    BY <1>2
  <2> HIDE DEF of
  <2> QED  BY <1>5, <2>1, <2>2, Zenon
<1> HIDE DEF of, op, name, n
<1>8. sum \in NodeSet /\ sum.of = of /\ sum.name = name /\ sum.n = n
  BY <1>1, <1>2, <1>3, <1>4 DEF NodeSet
<1> HIDE DEF sum
<1>9. sum.n > 0
  BY <1>2, <1>8
<1> QED  BY <1>6, <1>7, <1>8, <1>9, Zenon DEF sum, Tupled, Tupling

LEMMA TupleTask ==
  ASSUME NEW F, NEW lhs, NEW so_far \in Tupling(F), NEW O, NEW T
  PROVE  Task(Tuple(lhs, so_far), St(F, O, Expr(F), T), St(F, O, Tupled(F), Tokens))
<1> DEFINE t == Tuple(lhs, so_far)
           V == Expr(F)
<1>1. t.do = "tuple" /\ Name(t) = "tuple" /\ t.so_far = so_far
  BY DEF Tuple, Name
<1>2. "tuple" \in Steps /\ "tuple" \notin Fresh \cup Advancing \cup Closers
  BY DEF Steps, Fresh, Advancing, Closers, BracketClosers
<1> HIDE DEF t
<1>3. ASSUME NEW q, q.flags = F, q.value \in V
      PROVE  Pre(t, q) /\ Results(t, q) = Tupled(F) /\ Ends(t, q) = Tokens
  <2>1. Pre(t, q)
    BY <1>1, <1>2, <1>3 DEF Pre
  <2>2. Results(t, q) = Tupled(F)
    BY <1>1, <1>3 DEF Results, OperandTasks, UnaryTasks, ExprTasks, StatementTasks
  <2>3. Ends(t, q) = Tokens
    BY <1>1 DEF Ends
  <2> QED  BY <2>1, <2>2, <2>3
<1>4. \A q : q.flags = F /\ q.value \in V /\ q.token \in T =>
        Pre(t, q) /\ Results(t, q) \cap NodeSet \subseteq Tupled(F) /\ Ends(t, q) \cap Tokens \subseteq Tokens
  BY <1>3
<1> HIDE DEF V
<1>5. Task(t, St(F, O, V, T), St(F, O, Tupled(F), Tokens))
  BY <1>1, <1>2, <1>4, StepAt
<1> QED  BY <1>5 DEF t, V

LEMMA TupleInv == ASSUME IInv, tuple PROVE IInv'
<1> DEFINE F == Flags(parser)
           W == Tupled(F)
           C == St(F, Open, W, Tokens)
           sum == Joined(Now.so_far, value)
           expr == Lhs("parse_expression", Now.lhs)
           t == Tuple(Now.lhs, sum)
<1>1. Doing("tuple") /\ IF This({Op("COMMA")}) THEN Go(<<Advance, expr, t>> \o Rest) ELSE GoWith(Rest, sum)
  BY DEF tuple
<1>2. "tuple" \in Steps
  BY DEF Steps
<1>3. /\ Name(Now) = "tuple" /\ Pre(Now, Current) /\ outcome = "parsing" /\ stack # << >>
      /\ Current.flags = F /\ Current.open = Open /\ Current.value = value /\ Now.do \in Steps
  BY <1>1, <1>2, DoingPre
<1>4. value \in Expr(F) /\ Now.so_far \in Tupling(F)
  BY <1>3 DEF Pre
<1>5. sum \in W /\ sum \in NodeSet
  BY <1>4, JoinedTupled
<1>6. Upon(Now, Current) = C
  <2> HIDE DEF F
  <2> QED  BY <1>3, UponType
<1>7. CASE This({Op("COMMA")})
  <2>1. ~This(AllBrackets)
    BY <1>7 DEF This, Is, AllBrackets, OpeningBrackets, ClosingBrackets, Kind, Op
  <2>2. Holds(<<Advance>>, Here, All(F, Open))
    BY <2>1, AdvanceHere DEF IInv
  <2>3. Task(expr, All(F, Open), St(F, Open, Expr(F), Stopping(F, 1)))
    BY ExpressionTask DEF All
  <2>4. Task(t, St(F, Open, Expr(F), Stopping(F, 1)), C)
    <3>1. sum \in Tupling(F)
      BY <1>5 DEF Tupled
    <3> QED  BY <3>1, TupleTask
  <2> HIDE DEF expr, t, F, W, C
  <2>5. Holds(<<Advance>> \o <<expr, t>>, Here, C)
    BY <2>2, <2>3, <2>4, Chain2, HoldsConcat
  <2>6. <<Advance, expr, t>> = <<Advance>> \o <<expr, t>>
    BY ListJoin
  <2>7. Holds(<<Advance, expr, t>>, Here, C)
    BY <2>5, <2>6
  <2> QED  BY <1>1, <1>3, <1>6, <1>7, <2>7, StepRule
<1>8. CASE ~This({Op("COMMA")})
  <2>1. this_token \in Tokens
    BY DEF IInv, Types
  <2> HIDE DEF sum
  <2>2. St(F, Open, {sum}, {this_token}) \subseteq C
    BY <1>5, <2>1, StMono
  <2> QED  BY <1>1, <1>2, <1>5, <1>6, <1>8, <2>2, StepValue
<1> QED  BY <1>7, <1>8

LEMMA TupleExpressionInv == ASSUME IInv, parse_tuple_expression PROVE IInv'
<1> DEFINE F == Flags(parser)
           n == parser.allow_newline
           G == Fl(parser.expression_depth, TRUE, parser.allow_type, parser.allow_in)
           W == Tupled(F)
           in == AllowNewline(TRUE)
           out == AllowNewline(n)
           expr == Lhs("parse_expression", Args.lhs)
           t == Tuple(Args.lhs, Node("TUPLE", "", "", "name"))
<1>1. On("parse_tuple_expression") /\ Enter(<<in, expr, t, out>>)
  BY Zenon DEF parse_tuple_expression
<1>2. Moves(F, G, in) /\ Moves(G, F, out)
  <2>1. TRUE \in BOOLEAN /\ -1 \in Nat \cup {-1}
    OBVIOUS
  <2> QED  BY <2>1, MovesHere, Zenon DEF IInv
<1>3. Tupled(G) = W
  <2>1. G.allow_type = F.allow_type
    BY DEF Flags, Fl
  <2> HIDE DEF F, G
  <2> QED  BY <2>1 DEF Tupled, Tupling
<1>4. Node("TUPLE", "", "", "name") \in Tupling(G)
  <2>1. "TUPLE" \in NodeKinds /\ "" \in NodeKinds /\ "" \in NodeOps /\ "name" \in {"absent", "name", "other"}
    BY Zenon DEF NodeKinds, NodeOps, Texts
  <2>2. Node("TUPLE", "", "", "name") \in NodeSet /\ Node("TUPLE", "", "", "name").name = "name"
    <3> DEFINE none == ""
    <3>1. none \in NodeKinds /\ none \in NodeOps /\ "TUPLE" \in NodeKinds
      BY <2>1, Zenon
    <3> HIDE DEF none
    <3>2. Node("TUPLE", none, none, "name") \in NodeSet /\ Node("TUPLE", none, none, "name").name = "name"
      BY <3>1, NodeType
    <3> QED  BY <3>2, Zenon DEF none
  <2>3. Node("TUPLE", "", "", "name").n = 0
    BY Zenon DEF Node
  <2> DEFINE node == Node("TUPLE", "", "", "name")
  <2> HIDE DEF node, G
  <2>4. node \in NodeSet /\ node.name = "name" /\ node.n = 0
    BY <2>2, <2>3, Zenon DEF node
  <2>5. node \in Tupling(G)
    BY <2>4 DEF Tupling
  <2> QED  BY <2>5, Zenon DEF node
<1> HIDE DEF F, G, in, out
<1>5. Gives(G, <<expr, t>>, W)
  <2> SUFFICES ASSUME NEW O \in SUBSET Seq(Ones)
               PROVE  Holds(<<expr, t>>, All(G, O), St(G, O, W, Tokens))
    BY Zenon DEF Gives
  <2>1. Task(expr, All(G, O), St(G, O, Expr(G), Stopping(G, 1)))
    BY ExpressionTask DEF All
  <2>2. Task(t, St(G, O, Expr(G), Stopping(G, 1)), St(G, O, W, Tokens))
    BY <1>3, <1>4, TupleTask, Zenon
  <2> HIDE DEF expr, t, W
  <2> QED  BY <2>1, <2>2, Chain2
<1> HIDE DEF expr, t
<1>6. Gives(F, <<in, expr, t, out>>, W)
  BY <1>2, <1>5, Within2
<1>7. \A u, q : Name(u) = "parse_tuple_expression" /\ q.flags = F =>
                St(q.flags, q.open, W, Tokens) \subseteq Upon(u, q)
  BY UponType
<1> HIDE DEF W
<1> QED  BY <1>1, <1>6, <1>7, EnterGiving DEF F

LEMMA ExpressionsInv == ASSUME IInv, ExpressionFunctions PROVE IInv'
  BY ValueInv, SmallOperandInv, AdvancingInv, DirectivePrefixInv, OperandInv, ArgumentsInv,
     CallExpressionInv, ExpectClosingInv, CompoundInv, IndexInv, AtomsInv, AtomExpressionInv,
     UnaryInv, TernaryInv, OperatorsInv, BinaryInv, TupleInv, TupleExpressionInv
  DEF ExpressionFunctions

-----------------------------------------------------------------------------
(* The functions of ParseStatements.  Those that read statements do so at  *)
(* depth 0.                                                                *)
Undemanding ==
  {"parse_if_statement", "parse_when_statement", "parse_for_statement", "parse_return_statement",
   "parse_import_statement", "parse_foreign_import_statement", "parse_using_statement",
   "parse_package_statement", "parse_empty_statement", "parse_body", "parse_do_body",
   "parse_block_statement"}

LEMMA StatementCalls ==
  ASSUME NEW F, NEW f, f \in Undemanding \/ (f \in Fresh /\ F.expression_depth = 0)
  PROVE  Giving(F, Call(f), NodeSet) /\ \A args : Giving(F, CallWith(f, args), NodeSet)
<1>1. f \in Undemanding => f \notin Demanding
  BY DEF Undemanding, Demanding, Fresh, Advancing, Closers, BracketClosers, ValueTasks
<1> QED  BY <1>1, CallGiving

LEMMA Untold ==
  /\ Fresh \cap Telling = {} /\ Undemanding \cap Telling = {}
  /\ {"parse_branch_statement", "for_range", "switch_header"} \cap Telling = {}
<1>1. ASSUME NEW f \in Fresh \cup Undemanding \cup {"parse_branch_statement", "for_range", "switch_header"}
      PROVE  f \notin Telling
  BY DEF Fresh, Undemanding, Telling, OperandTasks, UnaryTasks, ExprTasks, StatementTasks, Closers,
         BracketClosers
<1> QED  BY <1>1

LEMMA GivingStatement ==
  ASSUME NEW F
  PROVE  /\ F.expression_depth = 0 => Giving(F, Call("parse_statement"), NodeSet)
         /\ F.expression_depth = 0 => Giving(F, Call("parse_statement_list"), NodeSet)
         /\ \A kind \in NodeKinds : Giving(F, Make(Statement(kind)), NodeSet)
  BY StatementCalls, Makes DEF Fresh

LEMMA StatementKinds ==
  /\ "BLOCK" \in NodeKinds /\ "DECLARATION" \in NodeKinds /\ "ASSIGNMENT" \in NodeKinds
  /\ "IF" \in NodeKinds /\ "WHEN" \in NodeKinds /\ "FOR" \in NodeKinds /\ "SWITCH" \in NodeKinds
  /\ "DEFER" \in NodeKinds /\ "RETURN" \in NodeKinds /\ "IMPORT" \in NodeKinds
  /\ "FOREIGN_BLOCK" \in NodeKinds /\ "FOREIGN_IMPORT" \in NodeKinds /\ "BRANCH" \in NodeKinds
  /\ "USING" \in NodeKinds /\ "PACKAGE" \in NodeKinds /\ "EMPTY" \in NodeKinds
  BY DEF NodeKinds

LEMMA StatementListInv == ASSUME IInv, parse_statement_list PROVE IInv'
<1> DEFINE F == Flags(parser)
           ends == {Kw("CASE"), Kind("RBRACE"), Kind("EOF")}
           until == Until(ends, <<Call("parse_statement")>>)
<1>1. On("parse_statement_list") /\ Enter(<<until>>)
  BY DEF parse_statement_list
<1>2. "parse_statement_list" \in Fresh /\ "parse_statement_list" \notin Telling
  BY Untold DEF Fresh
<1>3. F.expression_depth = 0
  BY <1>1, <1>2, FreshDepth
<1> HIDE DEF F
<1>4. Looped(F, <<Call("parse_statement")>>)
  BY <1>3, GivingStatement, Gives1, LoopedGives
<1> HIDE DEF ends
<1>5. Gives(F, <<until>>, NodeSet)
  BY <1>4, GivingLoop, Gives1
<1> HIDE DEF until
<1> QED  BY <1>1, <1>2, <1>5, EnterOther DEF F

LEMMA BodyInv == ASSUME IInv, parse_body PROVE IInv'
<1> DEFINE F == Flags(parser)
           d == parser.expression_depth
           n == parser.allow_newline
           G == Fl(0, TRUE, parser.allow_type, parser.allow_in)
           in == Set([expression_depth |-> 0, allow_newline |-> TRUE])
           out == Set([expression_depth |-> d, allow_newline |-> n])
           open == Expect({Kind("LBRACE")})
           close == Expect({Kind("RBRACE")})
           list == Call("parse_statement_list")
           make == Make(Statement("BLOCK"))
<1>1. On("parse_body") /\ Enter(<<in, open, list, close, out, make>>)
  BY Zenon DEF parse_body
<1>2. "parse_body" \notin Telling
  BY Untold DEF Undemanding
<1>3. Moves(F, G, in) /\ Moves(G, F, out)
  <2>1. TRUE \in BOOLEAN /\ 0 \in Nat \cup {-1}
    OBVIOUS
  <2> QED  BY <2>1, MovesHere, Zenon DEF IInv
<1>4. G.expression_depth = 0
  BY Zenon DEF Fl
<1> HIDE DEF F, G, in, out
<1>5. Gives(G, <<list>>, NodeSet)
  BY <1>4, GivingStatement, Gives1
<1> HIDE DEF list
<1>6. Gives(G, <<open, list, close>>, NodeSet)
  BY <1>5, InBrackets1
<1>7. Giving(F, make, NodeSet)
  BY GivingStatement, StatementKinds
<1> HIDE DEF open, close, make
<1>8. Gives(F, <<in, open, list, close, out>>, NodeSet)
  BY <1>3, <1>6, Within3
<1>9. Gives(F, <<in, open, list, close, out, make>>, NodeSet)
  BY <1>7, <1>8, GivesSnoc6
<1> QED  BY <1>1, <1>2, <1>9, EnterOther DEF F

LEMMA BlockInv == ASSUME IInv, parse_block_statement PROVE IInv'
<1> DEFINE F == Flags(parser)
           fails == IF Args.when \/ parser.this_procedure THEN << >> ELSE <<Fail>>
           body == Call("parse_body")
<1>1. On("parse_block_statement") /\ Enter(<<NewlineWithin>> \o fails \o <<body>>)
  BY DEF parse_block_statement
<1>2. "parse_block_statement" \notin Telling
  BY Untold DEF Undemanding
<1>3. Gives(F, <<NewlineWithin>>, NodeSet) /\ Gives(F, fails, NodeSet) /\ Gives(F, <<body>>, NodeSet)
  BY GivingSemicolon, GivingFail, GivesNone, Calls, Gives1
<1> HIDE DEF F, fails, body
<1>4. Gives(F, <<NewlineWithin>> \o fails \o <<body>>, NodeSet)
  BY <1>3, GivesThen
<1> QED  BY <1>1, <1>2, <1>4, EnterOther DEF F

LEMMA DoBodyInv == ASSUME IInv, parse_do_body PROVE IInv'
<1> DEFINE F == Flags(parser)
           d == parser.expression_depth
           n == parser.allow_newline
           G == Fl(0, FALSE, parser.allow_type, parser.allow_in)
           in == Set([expression_depth |-> 0, allow_newline |-> FALSE])
           out == Set([expression_depth |-> d, allow_newline |-> n])
           statement == Call("parse_statement")
           inspect == Inspect("absent statement")
           refuse == Refuse({"BLOCK", "EMPTY"})
           make == Make(Statement("BLOCK"))
<1>1. On("parse_do_body") /\ Enter(<<in, statement, inspect, refuse, out, make>>)
  BY Zenon DEF parse_do_body
<1>2. "parse_do_body" \notin Telling
  BY Untold DEF Undemanding
<1>3. Moves(F, G, in) /\ Moves(G, F, out)
  <2>1. FALSE \in BOOLEAN /\ 0 \in Nat \cup {-1}
    OBVIOUS
  <2> QED  BY <2>1, MovesHere, Zenon DEF IInv
<1>4. G.expression_depth = 0
  BY Zenon DEF Fl
<1> HIDE DEF F, G, in, out
<1>5. Gives(G, <<statement, inspect, refuse>>, NodeSet)
  BY <1>4, GivingStatement, GivingCheck, Gives3
<1>6. Giving(F, make, NodeSet)
  BY GivingStatement, StatementKinds
<1> HIDE DEF statement, inspect, refuse, make
<1>7. Gives(F, <<in, statement, inspect, refuse, out>>, NodeSet)
  BY <1>3, <1>5, Within3
<1>8. Gives(F, <<in, statement, inspect, refuse, out, make>>, NodeSet)
  BY <1>6, <1>7, GivesSnoc6
<1> QED  BY <1>1, <1>2, <1>8, EnterOther DEF F

LEMMA GivingBody ==
  ASSUME NEW F, NEW when
  PROVE  Giving(F, Body(when), NodeSet)
<1>1. Gives(F, <<Call("parse_do_body")>>, NodeSet) /\ Gives(F, <<Block(when)>>, NodeSet)
  BY Calls, Gives1
<1> QED  BY <1>1, NeutralOnes, GivingAccept DEF Body

(* Statements whose value matters.                                         *)
LEMMA StatedMake ==
  ASSUME NEW F, NEW kind \in NodeKinds \ {"EXPRESSION"}
  PROVE  Giving(F, Make(Statement(kind)), Stated(F))
<1>1. Statement(kind) \in NodeSet /\ Statement(kind).kind = kind
  BY Nodes
<1>2. Statement(kind) \in Stated(F) \cap NodeSet
  BY <1>1 DEF Stated
<1> QED  BY <1>2, GivingMake

LEMMA StatedGiving ==
  ASSUME NEW F, NEW args, NEW n, NEW type, NEW constant
  PROVE  /\ Giving(F, CallWith("parse_declaration_statement_tail", args), Stated(F))
         /\ Giving(F, DeclarationType(n), Stated(F))
         /\ Giving(F, DeclarationValues(n, type, constant), Stated(F))
         /\ Giving(F, DeclarationEnd(n, type, constant), Stated(F))
<1> DEFINE names == {"parse_declaration_statement_tail", "declaration_type", "declaration_values",
                     "declaration_end"}
<1>1. \A f \in names : f \notin Demanding /\ f \in StatementTasks
  BY DEF Demanding, Fresh, Advancing, Closers, BracketClosers, ValueTasks, StatementTasks
<1>2. ASSUME NEW t, t.do \in Steps, Name(t) \in names PROVE Giving(F, t, Stated(F))
  <2>1. \A q : q.flags = F => Results(t, q) \cap NodeSet \subseteq Stated(F)
    BY <1>1, <1>2, ResultsOf
  <2> QED  BY <1>1, <1>2, <2>1, StepGiving
<1>3. /\ DeclarationType(n).do = "declaration_type" /\ Name(DeclarationType(n)) = "declaration_type"
      /\ DeclarationValues(n, type, constant).do = "declaration_values"
      /\ Name(DeclarationValues(n, type, constant)) = "declaration_values"
      /\ DeclarationEnd(n, type, constant).do = "declaration_end"
      /\ Name(DeclarationEnd(n, type, constant)) = "declaration_end"
  BY DEF DeclarationType, DeclarationValues, DeclarationEnd, Name
<1>4. {"declaration_type", "declaration_values", "declaration_end"} \subseteq Steps
  BY DEF Steps
<1>5. /\ Name(CallWith("parse_declaration_statement_tail", args)) = "parse_declaration_statement_tail"
      /\ CallWith("parse_declaration_statement_tail", args).do \in Steps
  BY CallName
<1> QED  BY <1>2, <1>3, <1>4, <1>5

LEMMA SimpleGiving ==
  ASSUME NEW F, NEW in, NEW label, label => F.expression_depth = 0
  PROVE  Giving(F, Simple(in, label), Stated(F)) /\ Giving(F, Simple(in, label), NodeSet)
<1> DEFINE t == Simple(in, label)
           f == "parse_simple_statement"
<1>1. t.do \in Steps /\ Name(t) = f /\ t.args.allow_label = label
  <2>1. t.args = [allow_in |-> in, allow_label |-> label]
    BY CallName DEF Simple
  <2> QED  BY <2>1, CallName DEF Simple
<1>2. f \notin Fresh \cup Advancing \cup Closers /\ f \in StatementTasks
  BY DEF Fresh, Advancing, Closers, BracketClosers, StatementTasks
<1> HIDE DEF t
<1>3. ASSUME NEW q, q.flags = F PROVE Pre(t, q) /\ Results(t, q) = Stated(F)
  <2>1. t.args.allow_label => q.flags.expression_depth = 0
    BY <1>1, <1>3
  <2>2. Pre(t, q)
    BY <1>1, <1>2, <2>1 DEF Pre
  <2> QED  BY <1>1, <1>2, <1>3, <2>2, ResultsOf
<1>4. \A q : q.flags = F /\ q.value \in NodeSet /\ q.token \in Tokens =>
        Pre(t, q) /\ Results(t, q) \cap NodeSet \subseteq Stated(F) /\ Ends(t, q) \cap Tokens \subseteq Tokens
  BY <1>3
<1>5. \A O : Task(t, All(F, O), St(F, O, Stated(F), Tokens))
  BY <1>1, <1>2, <1>4, StepAt DEF All
<1>6. Giving(F, t, Stated(F))
  BY <1>5 DEF Giving
<1> QED  BY <1>6, GivingMono DEF t, Stated

(* The end of a function that gives a statement.                           *)
LEMMA EnterStated ==
  ASSUME IInv, NEW f \in StatementTasks, On(f), NEW tasks, Enter(tasks),
         Gives(Flags(parser), tasks, Stated(Flags(parser)))
  PROVE  IInv'
<1>1. \A t, q : Name(t) = f /\ q.flags = Flags(parser) =>
                St(q.flags, q.open, Stated(Flags(parser)), Tokens) \subseteq Upon(t, q)
  BY UponType
<1> QED  BY <1>1, EnterGiving

LEMMA StepStated ==
  ASSUME IInv, NEW f \in StatementTasks \cap (Steps \ {"call"}), Doing(f), NEW tasks, Go(tasks \o Rest),
         Holds(tasks, Here, St(Flags(parser), Open, Stated(Flags(parser)), Tokens))
  PROVE  IInv'
<1>1. \A t, q : Name(t) = f /\ q.flags = Flags(parser) =>
                St(q.flags, q.open, Stated(Flags(parser)), Tokens) \subseteq Upon(t, q)
  BY UponType
<1> QED  BY <1>1, StepHolds

LEMMA DeclarationTypeInv == ASSUME IInv, Doing("declaration_type"), declaration_tail PROVE IInv'
<1> DEFINE F == Flags(parser)
           W == Stated(F)
           type == value.kind # "NULL"
           expr == Lhs("parse_tuple_expression", FALSE)
           constant == This({Op("COLON")})
           end == DeclarationEnd(Now.n, type, 0)
           vals == DeclarationValues(Now.n, type, constant)
           tasks == IF This({EQ, Op("COLON")}) THEN <<Advance, PossibleNewline, expr, vals>> ELSE <<end>>
<1>1. Go(tasks \o Rest)
  BY DEF declaration_tail, Doing
<1>2. "declaration_type" \in StatementTasks \cap (Steps \ {"call"})
  BY DEF StatementTasks, Steps
<1>3. Gives(F, <<PossibleNewline, expr, vals>>, W) /\ Gives(F, <<end>>, W)
  BY StatedGiving, Calls, GivingSemicolon, Gives1, Gives3
<1>4. This({EQ, Op("COLON")}) => ~This(AllBrackets)
  BY DEF This, Is, EQ, AllBrackets, OpeningBrackets, ClosingBrackets, Kind, Op
<1> HIDE DEF F, W, expr, vals, end
<1>5. Holds(tasks, Here, St(F, Open, W, Tokens))
  <2>1. CASE This({EQ, Op("COLON")})
    <3>1. Holds(<<Advance>>, Here, All(F, Open))
      BY <1>4, <2>1, AdvanceHere DEF IInv, F
    <3>2. Open \in SUBSET Seq(Ones)
      BY CurrentState DEF IInv
    <3>3. Holds(<<PossibleNewline, expr, vals>>, All(F, Open), St(F, Open, W, Tokens))
      BY <1>3, <3>2 DEF Gives
    <3>4. Holds(<<Advance>> \o <<PossibleNewline, expr, vals>>, Here, St(F, Open, W, Tokens))
      BY <3>1, <3>3, HoldsConcat
    <3>5. <<Advance, PossibleNewline, expr, vals>> = <<Advance>> \o <<PossibleNewline, expr, vals>>
      BY ListJoin4
    <3> QED  BY <2>1, <3>4, <3>5
  <2>2. CASE ~This({EQ, Op("COLON")})
    <3>1. Holds(<<end>>, Here, St(F, Open, W, Tokens))
      BY <1>3, HereAny DEF IInv, F
    <3> QED  BY <2>2, <3>1
  <2> QED  BY <2>1, <2>2
<1> HIDE DEF tasks
<1> QED  BY <1>1, <1>2, <1>5, StepStated DEF F, W

LEMMA DeclarationEndInv ==
  ASSUME IInv, Doing("declaration_values") \/ Doing("declaration_end"), declaration_tail
  PROVE  IInv'
<1> DEFINE F == Flags(parser)
           W == Stated(F)
<1>1. CASE Doing("declaration_values")
  <2> DEFINE tasks == <<DeclarationEnd(Now.n, Now.type, value.n)>>
  <2>1. Throw \/ Go(tasks \o Rest)
    BY <1>1 DEF declaration_tail, Doing
  <2>2. "declaration_values" \in StatementTasks \cap (Steps \ {"call"})
    BY DEF StatementTasks, Steps
  <2>3. Gives(F, tasks, W)
    BY StatedGiving, Gives1
  <2> HIDE DEF tasks
  <2>4. Holds(tasks, Here, St(F, Open, W, Tokens))
    BY <2>3, HereAny DEF IInv
  <2> QED  BY <1>1, <2>1, <2>2, <2>4, StepStated, ThrowRule
<1>2. CASE Doing("declaration_end")
  <2> DEFINE brace == This({Kind("RBRACE")}) /\ SameLine
             counted == parser.this_procedure \/ Now.values = 0 \/ Now.values = Now.n
             semi == IF parser.expression_depth >= 0 /\ ~brace THEN <<ExpectSemicolon>> ELSE << >>
             make == IF counted THEN <<Make(Statement("DECLARATION"))>> ELSE <<Fail>>
  <2>1. Throw \/ Go(semi \o make \o Rest)
    BY <1>2 DEF declaration_tail, Doing
  <2>2. "declaration_end" \in StatementTasks \cap (Steps \ {"call"})
    BY DEF StatementTasks, Steps
  <2>3. Gives(F, semi, NodeSet) /\ Gives(F, make, W)
    <3>1. "DECLARATION" \in NodeKinds \ {"EXPRESSION"}
      BY StatementKinds
    <3>2. Gives(F, <<Make(Statement("DECLARATION"))>>, W)
      BY <3>1, StatedMake, Gives1
    <3>3. Gives(F, <<ExpectSemicolon>>, NodeSet) /\ Gives(F, << >>, NodeSet) /\ Gives(F, <<Fail>>, W)
      BY GivingSemicolon, Gives1, GivesNone, GivingFail
    <3> QED  BY <3>2, <3>3
  <2> HIDE DEF semi, make, F, W
  <2>4. Gives(F, semi \o make, W)
    BY <2>3, GivesThen
  <2>5. Holds(semi \o make, Here, St(F, Open, W, Tokens))
    BY <2>4, HereAny DEF IInv, F
  <2> QED  BY <1>2, <2>1, <2>2, <2>5, StepStated, ThrowRule DEF F, W
<1> QED  BY <1>1, <1>2

(* What is absent is only looked into in a type.                           *)
LEMMA AbsentHolds ==
  ASSUME NEW F, F.allow_type, NEW O, NEW V, NEW T, NEW C
  PROVE  Holds(<<Make(Absent), Inspect("absent expression")>>, St(F, O, V, T), C)
<1> DEFINE inspect == Inspect("absent expression")
           none == {v \in {Absent} : v.kind # "NULL"}
<1>1. Task(Make(Absent), St(F, O, V, T), St(F, O, {Absent}, T))
  BY Nodes, MakeRule
<1>2. \A v \in {Absent} \cap NodeSet : Present(F, v)
  BY Zenon DEF Present
<1>3. Task(inspect, St(F, O, {Absent}, T), St(F, O, none, T))
  BY <1>2, CheckRules
<1>4. St(F, O, none, T) \subseteq C
  BY Nodes DEF St
<1> HIDE DEF inspect, none
<1>5. Task(inspect, St(F, O, {Absent}, T), C)
  BY <1>3, <1>4, TaskMono
<1>6. Holds(<<Make(Absent), inspect>>, St(F, O, V, T), C)
  BY <1>1, <1>5, Chain2
<1> QED  BY <1>6, Zenon DEF inspect

LEMMA TupledAbsent ==
  ASSUME NEW F, NEW v \in Tupled(F), v.name = "absent" \/ v.of = "NULL"
  PROVE  F.allow_type
<1>1. v \in Tupling(F) /\ v.n > 0
  BY DEF Tupled
<1> QED  BY <1>1, Zenon DEF Tupling

LEMMA DeclarationTask ==
  ASSUME NEW F, NEW O, NEW V, V \subseteq Tupled(F), NEW T
  PROVE  Holds(<<Call("parse_declaration_statement")>>, St(F, O, V, T), St(F, O, Stated(F), Tokens))
<1> DEFINE t == Call("parse_declaration_statement")
           f == "parse_declaration_statement"
<1>1. t.do \in Steps /\ Name(t) = f
  BY CallName
<1>2. f \notin Fresh \cup Advancing \cup Closers /\ f \in StatementTasks
  BY DEF Fresh, Advancing, Closers, BracketClosers, StatementTasks
<1> HIDE DEF t
<1>3. ASSUME NEW q, q.flags = F, q.value \in V PROVE Pre(t, q) /\ Results(t, q) = Stated(F)
  <2>1. q.value \in Tupled(q.flags)
    BY <1>3
  <2>2. Pre(t, q)
    BY <1>1, <1>2, <2>1 DEF Pre
  <2> QED  BY <1>1, <1>2, <1>3, <2>2, ResultsOf
<1>4. \A q : q.flags = F /\ q.value \in V /\ q.token \in T =>
        Pre(t, q) /\ Results(t, q) \cap NodeSet \subseteq Stated(F) /\ Ends(t, q) \cap Tokens \subseteq Tokens
  BY <1>3
<1>5. Task(t, St(F, O, V, T), St(F, O, Stated(F), Tokens))
  BY <1>1, <1>2, <1>4, StepAt
<1> QED  BY <1>5, Chain1 DEF t

LEMMA EnterStatedHolds ==
  ASSUME IInv, NEW f \in StatementTasks, On(f), NEW tasks, Enter(tasks),
         Holds(tasks, Here, St(Flags(parser), Open, Stated(Flags(parser)), Tokens))
  PROVE  IInv'
<1>1. \A t, q : Name(t) = f /\ q.flags = Flags(parser) =>
                St(q.flags, q.open, Stated(Flags(parser)), Tokens) \subseteq Upon(t, q)
  BY UponType
<1> QED  BY <1>1, EnterHolds

LEMMA DeclarationInv ==
  ASSUME IInv, parse_declaration_statement_tail \/ parse_declaration_statement
  PROVE  IInv'
<1> DEFINE F == Flags(parser)
           W == Stated(F)
           C == St(F, Open, W, Tokens)
           type == Call("parse_type_or_identifier")
           declared == <<CallWith("parse_declaration_statement_tail", [n |-> value.n])>>
           absent == <<Make(Absent), Inspect("absent expression")>>
           tasks == CASE value.name = "name" -> declared
                      [] value.name = "absent" -> absent
                      [] OTHER -> <<Fail>>
<1>1. CASE parse_declaration_statement_tail
  <2> DEFINE t == DeclarationType(Args.n)
  <2>1. On("parse_declaration_statement_tail") /\ Enter(<<type, t>>)
    BY <1>1 DEF parse_declaration_statement_tail
  <2>2. "parse_declaration_statement_tail" \in StatementTasks
    BY DEF StatementTasks
  <2>3. Gives(F, <<type, t>>, W)
    BY Calls, StatedGiving, Gives2
  <2> HIDE DEF type, t
  <2> QED  BY <2>1, <2>2, <2>3, EnterStated
<1>2. CASE parse_declaration_statement
  <2>1. On("parse_declaration_statement") /\ Enter(tasks)
    BY <1>2 DEF parse_declaration_statement
  <2>2. "parse_declaration_statement" \in StatementTasks
    BY DEF StatementTasks
  <2>3. value \in Tupled(F)
    BY <2>1, OnPre DEF Pre
  <2>4. Holds(declared, Here, C)
    <3>1. Gives(F, declared, W)
      BY StatedGiving, Gives1
    <3> HIDE DEF declared
    <3> QED  BY <3>1, HereAny DEF IInv
  <2>5. value.name = "absent" => Holds(absent, Here, C)
    BY <2>3, TupledAbsent, AbsentHolds DEF Here
  <2>6. Holds(<<Fail>>, Here, C)
    BY FailRules, Chain1 DEF Here
  <2> HIDE DEF F, W, C, declared, absent
  <2>7. Holds(tasks, Here, C)
    BY <2>4, <2>5, <2>6
  <2> HIDE DEF tasks
  <2> QED  BY <2>1, <2>2, <2>7, EnterStatedHolds DEF C, F, W
<1> QED  BY <1>1, <1>2

LEMMA AssignmentInv == ASSUME IInv, parse_assignment_statement PROVE IInv'
<1> DEFINE F == Flags(parser)
           W == Stated(F)
           expr == Lhs("parse_tuple_expression", FALSE)
           make == Make(Statement("ASSIGNMENT"))
           f == "parse_assignment_statement"
<1>1. On(f) /\ (Enter(<<Advance, expr, make>>) \/ Enter(<<Fail>>))
  BY DEF parse_assignment_statement
<1>2. f \in StatementTasks /\ f \in Advancing
  BY DEF StatementTasks, Advancing
<1>3. CASE Enter(<<Fail>>)
  <2>1. Gives(F, <<Fail>>, W)
    BY GivingFail
  <2> QED  BY <1>1, <1>2, <1>3, <2>1, EnterStated
<1>4. CASE Enter(<<Advance, expr, make>>)
  <2>1. "ASSIGNMENT" \in NodeKinds \ {"EXPRESSION"}
    BY StatementKinds
  <2>2. Gives(F, <<expr, make>>, W)
    BY <2>1, Calls, StatedMake, Gives2
  <2>3. \A t, q : Name(t) = f /\ q.flags = F => St(q.flags, q.open, W, Tokens) \subseteq Upon(t, q)
    BY <1>2, UponType
  <2> HIDE DEF expr, make, F, W
  <2>4. Enter(<<Advance>> \o <<expr, make>>)
    <3>1. <<Advance, expr, make>> = <<Advance>> \o <<expr, make>>
      BY ListJoin
    <3> QED  BY <1>4, <3>1
  <2> QED  BY <1>1, <1>2, <2>2, <2>3, <2>4, EnterAdvancing DEF F
<1> QED  BY <1>1, <1>3, <1>4

(* What comes after the tuple on the left-hand side, and after a colon.    *)
LEMMA AfterPre ==
  ASSUME IInv, NEW f \in {"after_tuple", "after_colon"}, Doing(f)
  PROVE  /\ value \in Tupled(Flags(parser)) /\ (Now.allow_label => Flags(parser).expression_depth = 0)
         /\ f \in StatementTasks \cap (Steps \ {"call"})
<1>1. f \in StatementTasks \cap (Steps \ {"call"})
  BY DEF StatementTasks, Steps
<1>2. Pre(Now, Current) /\ Name(Now) = f /\ Current.flags = Flags(parser) /\ Current.value = value
  BY <1>1, DoingPre
<1>3. Now.allow_label => Flags(parser).expression_depth = 0
  BY <1>2 DEF Pre
<1> QED  BY <1>1, <1>2, <1>3 DEF Pre

LEMMA AfterTask ==
  ASSUME NEW F, NEW O, NEW V, V \subseteq Tupled(F), NEW T, NEW t,
         t.do \in {"after_tuple", "after_colon"}, t.allow_label => F.expression_depth = 0
  PROVE  Task(t, St(F, O, V, T), St(F, O, Stated(F), Tokens))
<1>1. t.do \in Steps /\ Name(t) = t.do
  BY DEF Steps, Name
<1>2. t.do \notin Fresh \cup Advancing \cup Closers /\ t.do \in StatementTasks
  BY DEF Fresh, Advancing, Closers, BracketClosers, StatementTasks
<1>3. ASSUME NEW q, q.flags = F, q.value \in V PROVE Pre(t, q) /\ Results(t, q) = Stated(F)
  <2>1. q.value \in Tupled(q.flags)
    BY <1>3
  <2>2. t.allow_label => q.flags.expression_depth = 0
    BY <1>3
  <2>3. Pre(t, q)
    BY <1>1, <1>2, <2>1, <2>2 DEF Pre
  <2> QED  BY <1>1, <1>2, <1>3, <2>3, ResultsOf
<1>4. \A q : q.flags = F /\ q.value \in V /\ q.token \in T =>
        Pre(t, q) /\ Results(t, q) \cap NodeSet \subseteq Stated(F) /\ Ends(t, q) \cap Tokens \subseteq Tokens
  BY <1>3
<1> QED  BY <1>1, <1>2, <1>4, StepAt

LEMMA InHolds ==
  ASSUME IInv, This({Op("IN")})
  PROVE  Holds(<<AllowIn(FALSE), Advance, Lhs("parse_expression", TRUE), Make(Binary("IN")),
                 Apply("expression statement"), AllowIn(parser.allow_in)>>,
               Here, St(Flags(parser), Open, Stated(Flags(parser)), Tokens))
<1> DEFINE F == Flags(parser)
           d == parser.expression_depth
           n == parser.allow_newline
           y == parser.allow_type
           i == parser.allow_in
           G == Fl(d, n, y, FALSE)
           W == {v \in NodeSet : v.of = "BINARY"}
           in == AllowIn(FALSE)
           out == AllowIn(i)
           expr == Lhs("parse_expression", TRUE)
           make == Make(Binary("IN"))
           apply == Apply("expression statement")
           T == At({Op("IN")})
<1>1. Open \in SUBSET Seq(Ones) /\ this_token \in T /\ value \in NodeSet
  BY CurrentState DEF IInv, Types, At, This
<1>2. Task(in, Here, St(G, Open, {value}, {this_token}))
  <2>1. F = Fl(d, n, y, i) /\ FALSE \in BOOLEAN /\ d \in Nat \cup {-1} /\ n \in BOOLEAN /\ y \in BOOLEAN
    BY ParserFlags DEF IInv
  <2> QED  BY <2>1, SetRules, Zenon DEF Here
<1>3. Task(Advance, St(G, Open, {value}, {this_token}), All(G, Open))
  <2> HIDE DEF G, T
  <2>1. Neutral({Op("IN")})
    BY DEF Neutral, BracketOps, Op
  <2>2. Task(Advance, St(G, Open, {value}, {this_token}), St(G, Open, {value}, Tokens))
    BY <1>1, <2>1, AdvanceRule DEF T
  <2>3. St(G, Open, {value}, Tokens) \subseteq All(G, Open)
    BY AllMono
  <2> QED  BY <2>2, <2>3, TaskMono
<1>4. Binary("IN") \in NodeSet /\ Binary("IN").kind = "BINARY"
  BY Nodes DEF NodeOps
<1>5. Gives(G, <<expr, make, apply>>, W)
  <2> HIDE DEF G, expr
  <2>1. Giving(G, expr, NodeSet)
    BY Calls DEF expr
  <2>2. Giving(G, make, {Binary("IN")})
    BY <1>4, GivingMake
  <2>3. Gives(G, <<expr, make>>, {Binary("IN")})
    BY <2>1, <2>2, Gives2
  <2>4. \A v \in {Binary("IN")} \cap NodeSet : Made("expression statement", v) \in W \cap NodeSet
    BY <1>4, MadeRules
  <2> HIDE DEF W, make
  <2>5. Gives(G, <<expr, make>> \o <<apply>>, W)
    BY <2>3, <2>4, GivesApply
  <2>6. <<expr, make, apply>> = <<expr, make>> \o <<apply>>
    BY ListJoin
  <2> QED  BY <2>5, <2>6
<1>6. Task(out, St(G, Open, W, Tokens), St(F, Open, W, Tokens))
  <2>1. F = Fl(d, n, y, i) /\ i \in BOOLEAN /\ d \in Nat \cup {-1} /\ n \in BOOLEAN /\ y \in BOOLEAN
    BY ParserFlags DEF IInv
  <2> QED  BY <2>1, SetRules, Zenon
<1>7. St(F, Open, W, Tokens) \subseteq St(F, Open, Stated(F), Tokens)
  <2>1. W \cap NodeSet \subseteq Stated(F)
    BY DEF Stated
  <2> HIDE DEF W, F
  <2> QED  BY <2>1, AllMono
<1> HIDE DEF F, G, W, in, out, expr, make, apply
<1>8. Holds(<<expr, make, apply>>, All(G, Open), St(G, Open, W, Tokens))
  BY <1>1, <1>5 DEF Gives
<1>9. Holds(<<in, Advance>> \o <<expr, make, apply>> \o <<out>>, Here, St(F, Open, W, Tokens))
  BY <1>2, <1>3, <1>6, <1>8, Chain1, Chain2, HoldsConcat
<1>10. <<in, Advance, expr, make, apply, out>> = <<in, Advance>> \o <<expr, make, apply>> \o <<out>>
  OBVIOUS
<1>11. Holds(<<in, Advance, expr, make, apply, out>>, Here, St(F, Open, Stated(F), Tokens))
  BY <1>7, <1>9, <1>10, HoldsMono
<1> QED  BY <1>11, Zenon DEF F, in, out, expr, make, apply

LEMMA SingleHolds ==
  ASSUME IInv, value \in Tupled(Flags(parser))
  PROVE  Holds(<<Make(Node(value.of, "", value.op, "other")), Apply("expression statement")>>, Here,
               St(Flags(parser), Open, Stated(Flags(parser)), Tokens))
<1> DEFINE F == Flags(parser)
           none == ""
           node == Node(value.of, none, value.op, "other")
           apply == Apply("expression statement")
<1>1. value \in NodeSet /\ this_token \in Tokens
  BY DEF IInv, Types
<1>2. value.of \in NodeKinds /\ value.op \in NodeOps /\ none \in NodeOps /\ none \in NodeKinds
      /\ "other" \in {"absent", "name", "other"}
  BY <1>1 DEF NodeSet, NodeKinds, NodeOps, Texts
<1> HIDE DEF none
<1>3. node \in NodeSet /\ node.kind = value.of
  BY <1>2, NodeType
<1>4. Made("expression statement", node) \in NodeSet /\ Made("expression statement", node).of = value.of
  BY <1>3, MadeRules
<1>5. value.of = "NULL" => F.allow_type
  BY TupledAbsent
<1> HIDE DEF F
<1>6. Made("expression statement", node) \in Stated(F)
  BY <1>4, <1>5, Zenon DEF Stated
<1>7. Task(Make(node), Here, St(F, Open, {node}, {this_token}))
  BY <1>3, MakeRule DEF Here, F
<1>8. \A v \in {node} \cap NodeSet : Made("expression statement", v) \in Stated(F) \cap NodeSet
  BY <1>4, <1>6
<1>9. Task(apply, St(F, Open, {node}, {this_token}), St(F, Open, Stated(F), {this_token}))
  BY <1>8, ApplyRule
<1>10. St(F, Open, Stated(F), {this_token}) \subseteq St(F, Open, Stated(F), Tokens)
  BY <1>1, StMono
<1> HIDE DEF node, apply
<1>11. Holds(<<Make(node), apply>>, Here, St(F, Open, Stated(F), {this_token}))
  BY <1>7, <1>9, Chain2
<1>12. Holds(<<Make(node), apply>>, Here, St(F, Open, Stated(F), Tokens))
  BY <1>10, <1>11, HoldsMono
<1> QED  BY <1>12, Zenon DEF node, apply, none, F

LEMMA AfterTupleInv == ASSUME IInv, Doing("after_tuple"), after_tuple PROVE IInv'
<1> DEFINE F == Flags(parser)
           W == Stated(F)
           is(l) == Holds(l, Here, St(F, Open, W, Tokens))
           assign == <<Call("parse_assignment_statement")>>
           in == <<AllowIn(FALSE), Advance, Lhs("parse_expression", TRUE), Make(Binary("IN")),
                   Apply("expression statement"), AllowIn(parser.allow_in)>>
           colon == <<Advance, AfterColon(Now.allow_label)>>
           single == <<Make(Node(value.of, "", value.op, "other")), Apply("expression statement")>>
           tasks == CASE This({Kind("ASSIGNMENT")}) -> assign
                      [] This({Op("IN")}) /\ Now.allow_in -> in
                      [] This({Op("COLON")}) -> colon
                      [] OTHER -> IF value.n = 1 THEN single ELSE <<Fail>>
<1>1. Go(tasks \o Rest)
  <2>1. ~Doing("after_colon")
    BY DEF Doing
  <2> QED  BY <2>1, Zenon DEF after_tuple
<1>2. /\ value \in Tupled(F) /\ (Now.allow_label => F.expression_depth = 0)
      /\ "after_tuple" \in StatementTasks \cap (Steps \ {"call"})
  BY AfterPre
<1>3. This({Kind("ASSIGNMENT")}) => is(assign)
  <2> SUFFICES ASSUME This({Kind("ASSIGNMENT")})
               PROVE  is(assign)
    OBVIOUS
  <2> DEFINE f == "parse_assignment_statement"
             t == Call(f)
  <2>1. ~This(AllBrackets)
    BY DEF This, Is, AllBrackets, OpeningBrackets, ClosingBrackets, Kind, Op
  <2>2. t.do \in Steps /\ Name(t) = f /\ f \in Advancing /\ f \in StatementTasks
    BY CallName DEF Advancing, StatementTasks
  <2>3. \A q : q.flags = F => Results(t, q) \cap NodeSet \subseteq W
    BY <2>2, ResultsOf
  <2> HIDE DEF t, W
  <2>4. Holds(<<t>>, Here, St(F, Open, W, Tokens))
    BY <2>1, <2>2, <2>3, AdvancingCall
  <2> QED  BY <2>4 DEF t
<1>4. This({Op("IN")}) => is(in)
  BY InHolds
<1>5. This({Op("COLON")}) => is(colon)
  <2> SUFFICES ASSUME This({Op("COLON")})
               PROVE  is(colon)
    OBVIOUS
  <2> DEFINE t == AfterColon(Now.allow_label)
             T == At({Op("COLON")})
  <2>1. {this_token} \subseteq T
    BY DEF IInv, Types, At, This
  <2>2. Task(Advance, Here, St(F, Open, {value}, Tokens))
    BY <2>1, NeutralOnes, AdvanceRule DEF Here
  <2>3. t.do \in {"after_tuple", "after_colon"} /\ t.allow_label = Now.allow_label
    BY DEF AfterColon
  <2> HIDE DEF t
  <2>4. t.allow_label => F.expression_depth = 0
    BY <1>2, <2>3
  <2>5. {value} \subseteq Tupled(F)
    BY <1>2
  <2> HIDE DEF F, W
  <2>6. Task(t, St(F, Open, {value}, Tokens), St(F, Open, W, Tokens))
    BY <2>3, <2>4, <2>5, AfterTask DEF W
  <2>7. Holds(<<Advance, t>>, Here, St(F, Open, W, Tokens))
    BY <2>2, <2>6, Chain2
  <2> QED  BY <2>7, Zenon DEF t
<1>6. is(single)
  BY <1>2, SingleHolds
<1>7. is(<<Fail>>)
  BY FailRules, Chain1 DEF Here
<1>8. /\ This({Kind("ASSIGNMENT")}) => this_token.kind = "ASSIGNMENT"
      /\ This({Op("IN")}) => this_token.kind = "OPERATOR" /\ this_token.as = "IN"
      /\ This({Op("COLON")}) => this_token.kind = "OPERATOR" /\ this_token.as = "COLON"
  BY DEF This, Is, Kind, Op
<1> HIDE DEF F, W, is, assign, in, colon, single
<1>9. is(tasks)
  BY <1>3, <1>4, <1>5, <1>6, <1>7, <1>8
<1> HIDE DEF tasks
<1> QED  BY <1>1, <1>2, <1>9, StepStated DEF is, F, W

LEMMA AfterColonInv == ASSUME IInv, Doing("after_colon"), after_tuple PROVE IInv'
<1> DEFINE F == Flags(parser)
           W == Stated(F)
           is(l) == Holds(l, Here, St(F, Open, W, Tokens))
           kinds == {"BLOCK", "IF", "FOR", "SWITCH"}
           labelled == <<Call("parse_statement"), Check(kinds)>>
           absent == <<Make(Absent), Inspect("absent expression")>>
           declared == <<Call("parse_declaration_statement")>>
           label == Now.allow_label /\ value.n = 1 /\ This(Labelled)
           tasks == IF label
                    THEN (CASE value.of = "IDENTIFIER" -> labelled
                            [] value.of = "NULL" -> absent
                            [] OTHER -> <<Fail>>)
                    ELSE declared
<1>1. Go(tasks \o Rest)
  <2>1. ~Doing("after_tuple")
    BY DEF Doing
  <2> QED  BY <2>1, Zenon DEF after_tuple
<1>2. /\ value \in Tupled(F) /\ (Now.allow_label => F.expression_depth = 0)
      /\ "after_colon" \in StatementTasks \cap (Steps \ {"call"})
  BY AfterPre
<1>3. label => is(labelled)
  <2> SUFFICES ASSUME label
               PROVE  is(labelled)
    OBVIOUS
  <2>1. F.expression_depth = 0
    BY <1>2
  <2>2. Giving(F, Call("parse_statement"), NodeSet)
    BY <2>1, GivingStatement
  <2>3. {v \in NodeSet : v.kind \in kinds} \cap NodeSet \subseteq W
    BY DEF Stated
  <2>4. Giving(F, Check(kinds), W)
    BY <2>3, GivingCheck, GivingMono
  <2>5. Gives(F, labelled, W)
    BY <2>2, <2>4, Gives2
  <2> HIDE DEF labelled, W
  <2> QED  BY <2>5, HereAny DEF IInv
<1>4. value.of = "NULL" => is(absent)
  BY <1>2, TupledAbsent, AbsentHolds DEF Here
<1>5. is(declared)
  <2>1. {value} \subseteq Tupled(F)
    BY <1>2
  <2> QED  BY <2>1, DeclarationTask DEF Here
<1>6. is(<<Fail>>)
  BY FailRules, Chain1 DEF Here
<1> HIDE DEF F, W, is, labelled, absent, declared, label
<1>7. is(tasks)
  BY <1>3, <1>4, <1>5, <1>6
<1> HIDE DEF tasks
<1> QED  BY <1>1, <1>2, <1>7, StepStated DEF is, F, W

LEMMA SimpleStatementInv ==
  ASSUME IInv, parse_simple_statement \/ parse_basic_simple_statement
  PROVE  IInv'
<1> DEFINE F == Flags(parser)
<1>1. CASE parse_simple_statement
  <2> DEFINE expr == Lhs("parse_tuple_expression", TRUE)
             t == AfterTuple(Args.allow_in, Args.allow_label)
             V == Tupled(F)
  <2>1. On("parse_simple_statement") /\ Enter(<<expr, t>>)
    BY <1>1 DEF parse_simple_statement
  <2>2. "parse_simple_statement" \in StatementTasks
    BY DEF StatementTasks
  <2>3. Args.allow_label => F.expression_depth = 0
    BY <2>1, OnPre DEF Pre
  <2>4. t.do \in {"after_tuple", "after_colon"} /\ t.allow_label = Args.allow_label
    BY DEF AfterTuple
  <2>5. Holds(<<expr>>, Here, St(F, Open, V, Tokens))
    <3>1. Gives(F, <<expr>>, V)
      BY ValueGiving, Gives1
    <3> HIDE DEF expr, V
    <3> QED  BY <3>1, HereAny DEF IInv
  <2> HIDE DEF expr, t
  <2>6. t.allow_label => F.expression_depth = 0
    BY <2>3, <2>4
  <2> HIDE DEF F
  <2>7. Task(t, St(F, Open, V, Tokens), St(F, Open, Stated(F), Tokens))
    BY <2>4, <2>6, AfterTask
  <2> HIDE DEF V
  <2>8. Holds(<<expr>> \o <<t>>, Here, St(F, Open, Stated(F), Tokens))
    BY <2>5, <2>7, Chain1, HoldsConcat
  <2>9. <<expr, t>> = <<expr>> \o <<t>>
    BY ListJoin2
  <2>10. Holds(<<expr, t>>, Here, St(F, Open, Stated(F), Tokens))
    BY <2>8, <2>9
  <2> QED  BY <2>1, <2>2, <2>10, EnterStatedHolds DEF F
<1>2. CASE parse_basic_simple_statement
  <2> DEFINE t == Simple(FALSE, TRUE)
  <2>1. On("parse_basic_simple_statement") /\ Enter(<<t, ExpectSemicolon>>)
    BY <1>2 DEF parse_basic_simple_statement
  <2>2. "parse_basic_simple_statement" \in Fresh /\ "parse_basic_simple_statement" \notin Telling
    BY Untold DEF Fresh
  <2>3. F.expression_depth = 0
    BY <2>1, <2>2, FreshDepth
  <2> HIDE DEF F
  <2>4. Gives(F, <<t, ExpectSemicolon>>, NodeSet)
    BY <2>3, SimpleGiving, GivingSemicolon, Gives2
  <2> HIDE DEF t
  <2> QED  BY <2>1, <2>2, <2>4, EnterOther DEF F
<1> QED  BY <1>1, <1>2

-----------------------------------------------------------------------------
(* Statements with a header, which is read at depth -1.                    *)
LEMMA SimpleIn ==
  ASSUME NEW F, NEW in
  PROVE  Giving(F, Simple(in, FALSE), Stated(F)) /\ Giving(F, Simple(in, FALSE), NodeSet)
<1>1. FALSE => F.expression_depth = 0
  OBVIOUS
<1> QED  BY <1>1, SimpleGiving

LEMMA GivesCondition == ASSUME NEW F PROVE Gives(F, Condition, NodeSet)
<1> DEFINE check == Check({"EXPRESSION"})
<1>1. Gives(F, <<check>>, NodeSet)
  BY GivingCheck, Gives1
<1>2. \A v \in NodeSet \cap NodeSet : Made("condition", v) \in NodeSet \cap NodeSet
  BY MadeRules
<1> HIDE DEF check
<1>3. Gives(F, <<check>> \o <<Apply("condition")>>, NodeSet)
  BY <1>1, <1>2, GivesApply
<1>4. Condition = <<check, Apply("condition")>>
  BY DEF Condition, check
<1>5. <<check, Apply("condition")>> = <<check>> \o <<Apply("condition")>>
  BY ListJoin2
<1> QED  BY <1>3, <1>4, <1>5

LEMMA GivesHeader ==
  ASSUME NEW F, NEW in
  PROVE  Gives(F, <<Simple(in, FALSE), ControlSeparator(<<RhsExpression>>, Condition)>>, NodeSet)
<1>1. Gives(F, <<RhsExpression>>, NodeSet)
  BY Calls, Gives1
<1>2. Giving(F, ControlSeparator(<<RhsExpression>>, Condition), NodeSet)
  BY <1>1, GivesCondition, GivingSeparator
<1> QED  BY <1>2, SimpleIn, Gives2

(* The other branch.                                                       *)
Otherwise(f, kind, when) ==
  Accept({Kw("ELSE")},
    <<When({Kw(kind)}, <<Call(f)>>,
      <<When({Kind("LBRACE")}, <<Block(when)>>, <<Expect({Kw("DO")}), Call("parse_do_body")>>)>>)>>,
    << >>)

LEMMA GivingOtherwise ==
  ASSUME NEW F, NEW f \in Undemanding, NEW kind, NEW when
  PROVE  Giving(F, Otherwise(f, kind, when), NodeSet)
<1> DEFINE brace == When({Kind("LBRACE")}, <<Block(when)>>, <<Expect({Kw("DO")}), Call("parse_do_body")>>)
           again == When({Kw(kind)}, <<Call(f)>>, <<brace>>)
<1>1. Giving(F, Expect({Kw("DO")}), NodeSet)
  BY NeutralOnes, GivingExpect
<1>2. Gives(F, <<Expect({Kw("DO")}), Call("parse_do_body")>>, NodeSet) /\ Gives(F, <<Block(when)>>, NodeSet)
  BY <1>1, Calls, Gives1, Gives2
<1>3. Gives(F, <<brace>>, NodeSet)
  BY <1>2, GivingWhen, Gives1
<1>4. Gives(F, <<Call(f)>>, NodeSet) /\ Gives(F, << >>, NodeSet)
  BY StatementCalls, Gives1, GivesNone
<1> HIDE DEF brace
<1>5. Gives(F, <<again>>, NodeSet)
  BY <1>3, <1>4, GivingWhen, Gives1
<1> HIDE DEF again
<1>6. Giving(F, Accept({Kw("ELSE")}, <<again>>, << >>), NodeSet)
  BY <1>4, <1>5, NeutralOnes, GivingAccept
<1> QED  BY <1>6, Zenon DEF Otherwise, again, brace

LEMMA List9 ==
  ASSUME NEW a, NEW b, NEW c, NEW d, NEW e, NEW f, NEW g, NEW h, NEW i
  PROVE  <<a, b, c, d, e, f, g, h, i>> = <<a>> \o <<b, c, d>> \o <<e, f, g, h, i>>
  OBVIOUS

LEMMA List10 ==
  ASSUME NEW a, NEW b, NEW c, NEW d, NEW e, NEW f, NEW g, NEW h, NEW i, NEW j
  PROVE  <<a, b, c, d, e, f, g, h, i, j>> = <<a>> \o <<b, c, d, e>> \o <<f, g, h, i, j>>
  OBVIOUS

LEMMA IfInv == ASSUME IInv, parse_if_statement PROVE IInv'
<1> DEFINE F == Flags(parser)
           d == parser.expression_depth
           i == parser.allow_in
           G == Fl(-1, parser.allow_newline, parser.allow_type, TRUE)
           if == Expect({Kw("IF")})
           in == Set([expression_depth |-> -1, allow_in |-> TRUE])
           out == Set([expression_depth |-> d, allow_in |-> i])
           simple == Simple(FALSE, FALSE)
           control == ControlSeparator(<<RhsExpression>>, Condition)
           refuse == Refuse({"NULL"})
           body == Body(FALSE)
           else == Otherwise("parse_if_statement", "IF", FALSE)
           make == Make(Statement("IF"))
           line == NewlineWithin
<1>1. On("parse_if_statement")
      /\ Enter(<<if, in, simple, control, out, refuse, body, line, else, make>>)
  BY Zenon DEF parse_if_statement, Otherwise
<1>2. "parse_if_statement" \notin Telling
  BY Untold DEF Undemanding
<1>3. Moves(F, G, in) /\ Moves(G, F, out)
  <2>1. TRUE \in BOOLEAN /\ -1 \in Nat \cup {-1}
    OBVIOUS
  <2> QED  BY <2>1, MovesHere, Zenon DEF IInv
<1> HIDE DEF F, G, in, out
<1>4. Gives(G, <<simple, control>>, NodeSet)
  BY GivesHeader
<1>5. /\ Gives(F, <<if>>, NodeSet) /\ Giving(F, refuse, NodeSet) /\ Giving(F, body, NodeSet)
      /\ Giving(F, line, NodeSet) /\ Giving(F, make, NodeSet)
  BY NeutralOnes, GivingExpect, Gives1, GivingCheck, GivingBody, GivingSemicolon, GivingStatement,
     StatementKinds
<1>6. Giving(F, else, NodeSet)
  BY GivingOtherwise DEF Undemanding
<1> HIDE DEF if, simple, control, refuse, body, else, make, line
<1>7. Gives(F, <<in, simple, control, out>>, NodeSet)
  BY <1>3, <1>4, Within2
<1>8. Gives(F, <<refuse, body, line, else, make>>, NodeSet)
  BY <1>5, <1>6, Gives5
<1>9. Gives(F, <<if>> \o <<in, simple, control, out>> \o <<refuse, body, line, else, make>>, NodeSet)
  BY <1>5, <1>7, <1>8, GivesThen
<1>10. Gives(F, <<if, in, simple, control, out, refuse, body, line, else, make>>, NodeSet)
  <2>1. <<if, in, simple, control, out, refuse, body, line, else, make>>
          = <<if>> \o <<in, simple, control, out>> \o <<refuse, body, line, else, make>>
    BY List10
  <2> QED  BY <1>9, <2>1
<1> QED  BY <1>1, <1>2, <1>10, EnterOther DEF F

LEMMA WhenInv == ASSUME IInv, parse_when_statement PROVE IInv'
<1> DEFINE F == Flags(parser)
           d == parser.expression_depth
           G == Fl(-1, parser.allow_newline, parser.allow_type, parser.allow_in)
           when == Expect({Kw("WHEN")})
           in == Depth(-1)
           out == Depth(d)
           refuse == Refuse({"NULL"})
           body == Body(TRUE)
           else == Otherwise("parse_when_statement", "WHEN", TRUE)
           make == Make(Statement("WHEN"))
           line == NewlineWithin
           rhs == RhsExpression
<1>1. On("parse_when_statement")
      /\ Enter(<<when, in, rhs, out, refuse, body, line, else, make>>)
  BY Zenon DEF parse_when_statement, Otherwise
<1>2. "parse_when_statement" \notin Telling
  BY Untold DEF Undemanding
<1>3. Moves(F, G, in) /\ Moves(G, F, out)
  <2>1. TRUE \in BOOLEAN /\ -1 \in Nat \cup {-1}
    OBVIOUS
  <2> QED  BY <2>1, MovesHere, Zenon DEF IInv
<1> HIDE DEF F, G, in, out
<1>4. Giving(G, rhs, NodeSet)
  BY Calls
<1>5. /\ Gives(F, <<when>>, NodeSet) /\ Giving(F, refuse, NodeSet) /\ Giving(F, body, NodeSet)
      /\ Giving(F, line, NodeSet) /\ Giving(F, make, NodeSet)
  BY NeutralOnes, GivingExpect, Gives1, GivingCheck, GivingBody, GivingSemicolon, GivingStatement,
     StatementKinds
<1>6. Giving(F, else, NodeSet)
  BY GivingOtherwise DEF Undemanding
<1> HIDE DEF when, refuse, body, else, make, line, rhs
<1>7. Gives(F, <<in, rhs, out>>, NodeSet)
  BY <1>3, <1>4, Within1
<1>8. Gives(F, <<refuse, body, line, else, make>>, NodeSet)
  BY <1>5, <1>6, Gives5
<1>9. Gives(F, <<when>> \o <<in, rhs, out>> \o <<refuse, body, line, else, make>>, NodeSet)
  BY <1>5, <1>7, <1>8, GivesThen
<1>10. Gives(F, <<when, in, rhs, out, refuse, body, line, else, make>>, NodeSet)
  <2>1. <<when, in, rhs, out, refuse, body, line, else, make>>
          = <<when>> \o <<in, rhs, out>> \o <<refuse, body, line, else, make>>
    BY List9
  <2> QED  BY <1>9, <2>1
<1> QED  BY <1>1, <1>2, <1>10, EnterOther DEF F

LEMMA GivingClauses == ASSUME NEW F PROVE Giving(F, ForClauses, NodeSet)
<1> DEFINE simple == Simple(FALSE, FALSE)
           missing == When(BodyStart, <<Fail>>, << >>)
           condition == When({Kind("SEMICOLON")}, << >>, <<simple>> \o Condition)
           semicolon == ExpectSemicolon
           post == When(BodyStart, << >>, <<simple>>)
<1>1. Giving(F, simple, NodeSet)
  BY SimpleIn
<1>2. ForClauses = ControlSeparator(<<missing, condition, semicolon, post>>, << >>)
  BY Zenon DEF ForClauses
<1> HIDE DEF simple
<1>3. Gives(F, <<simple>>, NodeSet) /\ Gives(F, << >>, NodeSet) /\ Gives(F, <<Fail>>, NodeSet)
  BY <1>1, Gives1, GivesNone, GivingFail
<1>4. Gives(F, <<simple>> \o Condition, NodeSet)
  BY <1>3, GivesCondition, GivesThen
<1>5. /\ Giving(F, missing, NodeSet) /\ Giving(F, condition, NodeSet)
      /\ Giving(F, post, NodeSet) /\ Giving(F, semicolon, NodeSet)
  BY <1>3, <1>4, GivingWhen, GivingSemicolon
<1> HIDE DEF missing, condition, semicolon, post
<1>6. Gives(F, <<missing, condition, semicolon, post>>, NodeSet)
  BY <1>5, Gives4
<1> QED  BY <1>2, <1>3, <1>6, GivingSeparator

LEMMA GivesRange ==
  ASSUME NEW F
  PROVE  Gives(F, <<Simple(TRUE, FALSE), [do |-> "for_range"]>>, NodeSet)
<1> DEFINE s == Simple(TRUE, FALSE)
           t == [do |-> "for_range"]
<1>1. Giving(F, s, Stated(F))
  BY SimpleIn
<1>2. t.do \in Steps /\ Name(t) = "for_range"
  BY DEF Steps, Name
<1>3. "for_range" \notin Fresh \cup Advancing \cup Closers
  BY DEF Fresh, Advancing, Closers, BracketClosers
<1> HIDE DEF s, t
<1>4. ASSUME NEW q, q.flags = F, q.value \in Stated(F) PROVE Pre(t, q)
  <2>1. q.value \in Stated(q.flags)
    BY <1>4
  <2> QED  BY <1>2, <1>3, <2>1 DEF Pre
<1>5. \A q : q.flags = F /\ q.value \in Stated(F) /\ q.token \in Tokens =>
        Pre(t, q) /\ Results(t, q) \cap NodeSet \subseteq NodeSet /\ Ends(t, q) \cap Tokens \subseteq Tokens
  BY <1>4
<1> SUFFICES ASSUME NEW O \in SUBSET Seq(Ones)
             PROVE  Holds(<<s, t>>, All(F, O), All(F, O))
  BY DEF Gives, All, s, t
<1>6. Task(t, St(F, O, Stated(F), Tokens), St(F, O, NodeSet, Tokens))
  BY <1>2, <1>3, <1>5, StepAt
<1>7. Task(s, All(F, O), St(F, O, Stated(F), Tokens))
  BY <1>1 DEF Giving
<1> QED  BY <1>6, <1>7, Chain2 DEF All

LEMMA RangeInv == ASSUME IInv, for_range PROVE IInv'
<1> DEFINE F == Flags(parser)
           tasks == IF value.kind = "EXPRESSION" /\ value.op = "IN" THEN << >> ELSE <<ForClauses>>
<1>1. Doing("for_range") /\ "for_range" \in Steps \ {"call"} /\ "for_range" \notin Telling
  BY Untold DEF for_range, Steps
<1>2. value \in Stated(F)
  BY <1>1, DoingPre DEF Pre
<1>3. CASE value.kind = "EXPRESSION" /\ value.of = "NULL"
  <2>1. End("absent expression")
    BY <1>3, Zenon DEF for_range
  <2>2. F.allow_type = parser.allow_type
    BY Zenon DEF Flags, Fl
  <2>3. parser.allow_type
    BY <1>2, <1>3, <2>2, Zenon DEF Stated
  <2>4. "absent expression" \in Outcomes \ {"parsing"} /\ "absent expression" # "accepted"
    BY DEF Outcomes
  <2> QED  BY <2>1, <2>3, <2>4, EndRule, Zenon
<1>4. CASE ~(value.kind = "EXPRESSION" /\ value.of = "NULL")
  <2>1. Go(tasks \o Rest)
    BY <1>4, Zenon DEF for_range
  <2> HIDE DEF F
  <2>2. Gives(F, tasks, NodeSet)
    BY GivingClauses, GivesNone, Gives1
  <2> HIDE DEF tasks
  <2> QED  BY <1>1, <2>1, <2>2, StepOther DEF F
<1> QED  BY <1>3, <1>4

LEMMA ForInv == ASSUME IInv, parse_for_statement PROVE IInv'
<1> DEFINE F == Flags(parser)
           d == parser.expression_depth
           G == Fl(-1, parser.allow_newline, parser.allow_type, parser.allow_in)
           for == Expect({Kw("FOR")})
           in == Depth(-1)
           out == Depth(d)
           range == <<Simple(TRUE, FALSE), [do |-> "for_range"]>>
           clauses == When({Kind("SEMICOLON")}, <<ForClauses>>, range)
           header == When({Op("IN")}, <<Fail>>, <<clauses>>)
           within == <<in, header, out>>
           when == When(BodyStart, << >>, within)
           body == Body(FALSE)
           make == Make(Statement("FOR"))
<1>1. On("parse_for_statement") /\ Enter(<<for, when, body, make>>)
  BY Zenon DEF parse_for_statement
<1>2. "parse_for_statement" \notin Telling
  BY Untold DEF Undemanding
<1>3. Moves(F, G, in) /\ Moves(G, F, out)
  <2>1. TRUE \in BOOLEAN /\ -1 \in Nat \cup {-1}
    OBVIOUS
  <2> QED  BY <2>1, MovesHere, Zenon DEF IInv
<1> HIDE DEF F, G, in, out
<1>4. Gives(G, range, NodeSet) /\ Gives(G, <<ForClauses>>, NodeSet) /\ Gives(G, <<Fail>>, NodeSet)
  BY GivesRange, GivingClauses, GivingFail, Gives1
<1> HIDE DEF range
<1>5. Gives(G, <<clauses>>, NodeSet)
  BY <1>4, GivingWhen, Gives1
<1> HIDE DEF clauses
<1>6. Giving(G, header, NodeSet)
  BY <1>4, <1>5, GivingWhen
<1> HIDE DEF header
<1>7. Gives(F, within, NodeSet)
  BY <1>3, <1>6, Within1
<1> HIDE DEF within
<1>8. Giving(F, when, NodeSet)
  BY <1>7, GivesNone, GivingWhen
<1>9. Giving(F, for, NodeSet) /\ Giving(F, body, NodeSet) /\ Giving(F, make, NodeSet)
  BY NeutralOnes, GivingExpect, GivingBody, GivingStatement, StatementKinds
<1> HIDE DEF for, when, body, make
<1>10. Gives(F, <<for, when, body, make>>, NodeSet)
  BY <1>8, <1>9, Gives4
<1> QED  BY <1>1, <1>2, <1>10, EnterOther DEF F

LEMMA CaseInv == ASSUME IInv, parse_case_clause PROVE IInv'
<1> DEFINE F == Flags(parser)
           i == parser.allow_in
           j == ~Args.type
           G == Fl(parser.expression_depth, parser.allow_newline, parser.allow_type, j)
           case == Expect({Kw("CASE")})
           in == AllowIn(j)
           out == AllowIn(i)
           when == When({Op("COLON")}, << >>, <<Lhs("parse_tuple_expression", FALSE)>>)
           colon == Expect({Op("COLON")})
           list == Call("parse_statement_list")
<1>1. On("parse_case_clause") /\ Enter(<<case, in, when, out, colon, list>>)
  BY Zenon DEF parse_case_clause
<1>2. "parse_case_clause" \in Fresh /\ "parse_case_clause" \notin Telling
  BY Untold DEF Fresh
<1>3. F.expression_depth = 0
  BY <1>1, <1>2, FreshDepth
<1>4. Moves(F, G, in) /\ Moves(G, F, out)
  <2>1. j \in BOOLEAN /\ 0 \in Nat \cup {-1} /\ TRUE \in BOOLEAN
    OBVIOUS
  <2> QED  BY <2>1, MovesHere, Zenon DEF IInv
<1> HIDE DEF F, G, in, out
<1>5. Giving(G, when, NodeSet)
  BY Calls, GivesNone, Gives1, GivingWhen
<1>6. Giving(F, case, NodeSet) /\ Giving(F, colon, NodeSet) /\ Giving(F, list, NodeSet)
  BY <1>3, NeutralOnes, GivingExpect, GivingStatement
<1> HIDE DEF case, when, colon, list
<1>7. Gives(F, <<in, when, out>>, NodeSet)
  BY <1>4, <1>5, Within1
<1>8. Gives(F, <<in, when, out>> \o <<colon, list>>, NodeSet)
  BY <1>6, <1>7, Gives2, GivesThen
<1>9. <<in, when, out, colon, list>> = <<in, when, out>> \o <<colon, list>>
  BY ListJoin5
<1>10. Gives(F, <<case, in, when, out, colon, list>>, NodeSet)
  BY <1>6, <1>8, <1>9, GivesCons6
<1> QED  BY <1>1, <1>2, <1>10, EnterOther DEF F

LEMMA SwitchHeaderInv == ASSUME IInv, switch_header PROVE IInv'
<1> DEFINE F == Flags(parser)
           condition == <<Apply("condition")>>
           absent == <<ExpectSemicolon, Make(Absent)>>
           control == <<ControlSeparator(<<RhsExpression>>, absent)>>
           tasks == IF value.kind = "EXPRESSION" THEN condition ELSE control
<1>1. Doing("switch_header") /\ Go(tasks \o Rest)
  BY Zenon DEF switch_header
<1>2. "switch_header" \in Steps \ {"call"} /\ "switch_header" \notin Telling
  BY Untold DEF Steps
<1> HIDE DEF F
<1>3. Gives(F, condition, NodeSet)
  <2>1. \A v \in NodeSet \cap NodeSet : Made("condition", v) \in NodeSet \cap NodeSet
    BY MadeRules
  <2>2. Gives(F, << >> \o <<Apply("condition")>>, NodeSet)
    BY <2>1, GivesNone, GivesApply
  <2>3. << >> \o <<Apply("condition")>> = <<Apply("condition")>>
    OBVIOUS
  <2> QED  BY <2>2, <2>3
<1>4. Gives(F, absent, NodeSet) /\ Gives(F, <<RhsExpression>>, NodeSet)
  BY GivingSemicolon, Makes, Calls, Gives1, Gives2
<1> HIDE DEF condition, absent
<1>5. Gives(F, control, NodeSet)
  BY <1>4, GivingSeparator, Gives1
<1> HIDE DEF control
<1>6. Gives(F, tasks, NodeSet)
  BY <1>3, <1>5
<1> HIDE DEF tasks
<1> QED  BY <1>1, <1>2, <1>6, StepOther DEF F

LEMMA SwitchClausesInv == ASSUME IInv, switch_clauses PROVE IInv'
<1> DEFINE F == Flags(parser)
           type == value.kind = "BINARY" /\ value.op = "IN"
           newline == PossibleNewline
           open == Expect({Kind("LBRACE")})
           case == CallWith("parse_case_clause", [type |-> type])
           while == While({Kw("CASE")}, <<case>>)
           close == Expect({Kind("RBRACE")})
           make == Make(Statement("SWITCH"))
<1>1. Doing("switch_clauses") /\ Go(<<newline, open, while, close, make>> \o Rest)
  BY Zenon DEF switch_clauses
<1>2. /\ "switch_clauses" \in Steps \ {"call"} /\ "switch_clauses" \notin Telling
      /\ "switch_clauses" \in Fresh /\ "parse_case_clause" \in Fresh
  BY Untold DEF Steps, Fresh
<1>3. F.expression_depth = 0
  BY <1>1, <1>2, DoingPre DEF Pre
<1> HIDE DEF F, type
<1>4. Gives(F, <<case>>, NodeSet)
  BY <1>2, <1>3, StatementCalls, Gives1
<1> HIDE DEF case
<1>5. Gives(F, <<while>>, NodeSet)
  BY <1>4, LoopedGives, GivingLoop, Gives1
<1> HIDE DEF while
<1>6. Gives(F, <<open, while, close>>, NodeSet)
  BY <1>5, InBrackets1
<1>7. Giving(F, newline, NodeSet) /\ Giving(F, make, NodeSet)
  BY GivingSemicolon, GivingStatement, StatementKinds
<1> HIDE DEF newline, open, close, make
<1>8. Gives(F, <<open, while, close, make>>, NodeSet)
  BY <1>6, <1>7, GivesSnoc4
<1>9. Gives(F, <<newline, open, while, close, make>>, NodeSet)
  BY <1>7, <1>8, GivesCons5
<1> QED  BY <1>1, <1>2, <1>9, StepOther DEF F

LEMMA GivingSwitch ==
  ASSUME NEW F
  PROVE  /\ Giving(F, [do |-> "switch_header"], NodeSet)
         /\ F.expression_depth = 0 => Giving(F, [do |-> "switch_clauses"], NodeSet)
<1> DEFINE s == [do |-> "switch_header"]
           t == [do |-> "switch_clauses"]
<1>1. s.do \in Steps /\ Name(s) = "switch_header" /\ t.do \in Steps /\ Name(t) = "switch_clauses"
  BY DEF Steps, Name
<1>2. "switch_header" \notin Demanding /\ "switch_clauses" \in Fresh
  BY DEF Demanding, Fresh, Advancing, Closers, BracketClosers, ValueTasks
<1>3. \A u, q : Results(u, q) \cap NodeSet \subseteq NodeSet
  OBVIOUS
<1> HIDE DEF s, t
<1>4. Giving(F, s, NodeSet) /\ (F.expression_depth = 0 => Giving(F, t, NodeSet))
  BY <1>1, <1>2, <1>3, StepGiving
<1> QED  BY <1>4 DEF s, t

LEMMA SwitchInv == ASSUME IInv, parse_switch_statement PROVE IInv'
<1> DEFINE F == Flags(parser)
           d == parser.expression_depth
           G == Fl(-1, parser.allow_newline, parser.allow_type, parser.allow_in)
           switch == Expect({Kw("SWITCH")})
           in == Depth(-1)
           out == Depth(d)
           simple == Simple(TRUE, FALSE)
           header == [do |-> "switch_header"]
           within == <<in, simple, header, out>>
           absent == <<Make(Absent)>>
           when == When({Kind("LBRACE")}, absent, within)
           clauses == [do |-> "switch_clauses"]
<1>1. On("parse_switch_statement") /\ Enter(<<switch, when, clauses>>)
  BY Zenon DEF parse_switch_statement
<1>2. "parse_switch_statement" \in Fresh /\ "parse_switch_statement" \notin Telling
  BY Untold DEF Fresh
<1>3. F.expression_depth = 0
  BY <1>1, <1>2, FreshDepth
<1>4. Moves(F, G, in) /\ Moves(G, F, out)
  <2>1. TRUE \in BOOLEAN /\ -1 \in Nat \cup {-1}
    OBVIOUS
  <2> QED  BY <2>1, MovesHere, Zenon DEF IInv
<1> HIDE DEF F, G, in, out
<1>5. Gives(G, <<simple, header>>, NodeSet)
  BY SimpleIn, GivingSwitch, Gives2
<1> HIDE DEF simple, header
<1>6. Gives(F, within, NodeSet)
  BY <1>4, <1>5, Within2
<1>7. Gives(F, absent, NodeSet)
  BY Makes, Gives1
<1> HIDE DEF within, absent
<1>8. Giving(F, when, NodeSet)
  BY <1>6, <1>7, GivingWhen
<1>9. Giving(F, switch, NodeSet) /\ Giving(F, clauses, NodeSet)
  BY <1>3, NeutralOnes, GivingExpect, GivingSwitch
<1> HIDE DEF switch, when, clauses
<1>10. Gives(F, <<switch, when, clauses>>, NodeSet)
  BY <1>8, <1>9, Gives3
<1> QED  BY <1>1, <1>2, <1>10, EnterOther DEF F

LEMMA DeferInv == ASSUME IInv, parse_defer_statement PROVE IInv'
<1> DEFINE F == Flags(parser)
           defer == Expect({Kw("DEFER")})
           statement == Call("parse_statement")
           make == Make(Statement("DEFER"))
<1>1. On("parse_defer_statement") /\ Enter(<<defer, statement, make>>)
  BY Zenon DEF parse_defer_statement
<1>2. "parse_defer_statement" \in Fresh /\ "parse_defer_statement" \notin Telling
  BY Untold DEF Fresh
<1>3. F.expression_depth = 0
  BY <1>1, <1>2, FreshDepth
<1> HIDE DEF F
<1>4. Giving(F, defer, NodeSet) /\ Giving(F, statement, NodeSet) /\ Giving(F, make, NodeSet)
  BY <1>3, NeutralOnes, GivingExpect, GivingStatement, StatementKinds
<1> HIDE DEF defer, statement, make
<1>5. Gives(F, <<defer, statement, make>>, NodeSet)
  BY <1>4, Gives3
<1> QED  BY <1>1, <1>2, <1>5, EnterOther DEF F

LEMMA ReturnInv == ASSUME IInv, parse_return_statement PROVE IInv'
<1> DEFINE F == Flags(parser)
           return == Expect({Kw("RETURN")})
           fails == IF parser.expression_depth > 0 THEN <<Fail>> ELSE << >>
           ends == {Kind("SEMICOLON"), Kind("RBRACE"), Kind("EOF")}
           until == Until(ends, <<RhsExpression, CommaOrBreak>>)
           semicolon == ExpectSemicolon
           make == Make(Statement("RETURN"))
<1>1. On("parse_return_statement") /\ Enter(<<return>> \o fails \o <<until, semicolon, make>>)
  BY Zenon DEF parse_return_statement
<1>2. "parse_return_statement" \notin Telling
  BY Untold DEF Undemanding
<1> HIDE DEF F, ends
<1>3. Looped(F, <<RhsExpression, CommaOrBreak>>)
  BY Calls, Looped2
<1>4. Giving(F, until, NodeSet)
  BY <1>3, GivingLoop
<1>5. /\ Gives(F, <<return>>, NodeSet) /\ Gives(F, fails, NodeSet)
      /\ Giving(F, semicolon, NodeSet) /\ Giving(F, make, NodeSet)
  BY NeutralOnes, GivingExpect, Gives1, GivingFail, GivesNone, GivingSemicolon, GivingStatement,
     StatementKinds
<1> HIDE DEF return, fails, until, semicolon, make
<1>6. Gives(F, <<return>> \o fails \o <<until, semicolon, make>>, NodeSet)
  BY <1>4, <1>5, Gives3, GivesThen
<1> QED  BY <1>1, <1>2, <1>6, EnterOther DEF F

-----------------------------------------------------------------------------
(* Imports, foreign things and the other statements.                       *)
LEMMA GivingName == ASSUME NEW F PROVE Giving(F, OptionalName, NodeSet)
  BY Calls, Gives1, GivesNone, GivingWhen DEF OptionalName

LEMMA ImportInv ==
  ASSUME IInv, parse_import_statement \/ parse_package_statement \/ parse_empty_statement
  PROVE  IInv'
<1> DEFINE F == Flags(parser)
           import == Expect({Kw("IMPORT")})
           package == Expect({Kw("PACKAGE")})
           name == Expect({Kind("IDENTIFIER")})
           optional == Optional({Kind("IDENTIFIER")})
           path == Expect({StringLiteral})
           semicolon == ExpectSemicolon
           make(kind) == Make(Statement(kind))
<1>1. /\ Giving(F, import, NodeSet) /\ Giving(F, package, NodeSet) /\ Giving(F, name, NodeSet)
      /\ Giving(F, optional, NodeSet) /\ Giving(F, path, NodeSet) /\ Giving(F, semicolon, NodeSet)
      /\ \A kind \in {"IMPORT", "PACKAGE", "EMPTY"} : Giving(F, make(kind), NodeSet)
  BY NeutralOnes, GivingExpect, GivingOptional, GivingSemicolon, GivingStatement, StatementKinds
<1>2. /\ "parse_import_statement" \notin Telling /\ "parse_package_statement" \notin Telling
      /\ "parse_empty_statement" \notin Telling
  BY Untold DEF Undemanding
<1>3. CASE parse_import_statement
  <2>1. /\ On("parse_import_statement")
        /\ Enter(<<import, optional, path, semicolon, make("IMPORT")>>)
    BY <1>3, Zenon DEF parse_import_statement
  <2> HIDE DEF F, import, optional, path, semicolon, make
  <2>2. Gives(F, <<import, optional, path, semicolon, make("IMPORT")>>, NodeSet)
    BY <1>1, Gives5
  <2> QED  BY <1>2, <2>1, <2>2, EnterOther DEF F
<1>4. CASE parse_package_statement
  <2>1. On("parse_package_statement") /\ Enter(<<package, name, make("PACKAGE")>>)
    BY <1>4, Zenon DEF parse_package_statement
  <2> HIDE DEF F, package, name, make
  <2>2. Gives(F, <<package, name, make("PACKAGE")>>, NodeSet)
    BY <1>1, Gives3
  <2> QED  BY <1>2, <2>1, <2>2, EnterOther DEF F
<1>5. CASE parse_empty_statement
  <2>1. On("parse_empty_statement") /\ Enter(<<semicolon, make("EMPTY")>>)
    BY <1>5, Zenon DEF parse_empty_statement
  <2> HIDE DEF F, semicolon, make
  <2>2. Gives(F, <<semicolon, make("EMPTY")>>, NodeSet)
    BY <1>1, Gives2
  <2> QED  BY <1>2, <2>1, <2>2, EnterOther DEF F
<1> QED  BY <1>3, <1>4, <1>5

LEMMA ForeignBlockInv == ASSUME IInv, parse_foreign_block_statement PROVE IInv'
<1> DEFINE F == Flags(parser)
           name == OptionalName
           line == NewlineWithin
           open == Expect({Kind("LBRACE")})
           until == Until({Kind("RBRACE"), Kind("EOF")}, <<Call("parse_statement")>>)
           close == Expect({Kind("RBRACE")})
           semicolon == ExpectSemicolon
           make == Make(Statement("FOREIGN_BLOCK"))
<1>1. On("parse_foreign_block_statement") /\ Enter(<<name, line, open, until, close, semicolon, make>>)
  BY Zenon DEF parse_foreign_block_statement
<1>2. "parse_foreign_block_statement" \in Fresh /\ "parse_foreign_block_statement" \notin Telling
  BY Untold DEF Fresh
<1>3. F.expression_depth = 0
  BY <1>1, <1>2, FreshDepth
<1> HIDE DEF F
<1>4. Looped(F, <<Call("parse_statement")>>)
  BY <1>3, GivingStatement, Gives1, LoopedGives
<1>5. Gives(F, <<until>>, NodeSet)
  BY <1>4, GivingLoop, Gives1
<1> HIDE DEF until
<1>6. Gives(F, <<open, until, close>>, NodeSet)
  BY <1>5, InBrackets1
<1>7. /\ Giving(F, name, NodeSet) /\ Giving(F, line, NodeSet) /\ Giving(F, semicolon, NodeSet)
      /\ Giving(F, make, NodeSet)
  BY GivingName, GivingSemicolon, GivingStatement, StatementKinds
<1> HIDE DEF name, line, open, close, semicolon, make
<1>8. Gives(F, <<open, until, close, semicolon>>, NodeSet)
  BY <1>6, <1>7, GivesSnoc4
<1>9. Gives(F, <<open, until, close, semicolon, make>>, NodeSet)
  BY <1>7, <1>8, GivesSnoc5
<1>10. Gives(F, <<line, open, until, close, semicolon, make>>, NodeSet)
  BY <1>7, <1>9, GivesCons6
<1>11. Gives(F, <<name, line, open, until, close, semicolon, make>>, NodeSet)
  BY <1>7, <1>10, GivesCons7
<1> QED  BY <1>1, <1>2, <1>11, EnterOther DEF F

LEMMA ForeignImportInv == ASSUME IInv, parse_foreign_import_statement PROVE IInv'
<1> DEFINE F == Flags(parser)
           import == Expect({Kw("IMPORT")})
           optional == Optional({Kind("IDENTIFIER")})
           path == Expect({StringLiteral})
           until == Until({Kind("RBRACE"), Kind("EOF")}, <<path, SeparatorOrBreak>>)
           paths == <<until, Call("expect_closing")>>
           accept == Accept({Kind("LBRACE")}, paths, <<path>>)
           make == Make(Statement("FOREIGN_IMPORT"))
<1>1. On("parse_foreign_import_statement") /\ Enter(<<import, optional, accept, make>>)
  BY Zenon DEF parse_foreign_import_statement
<1>2. "parse_foreign_import_statement" \notin Telling
  BY Untold DEF Undemanding
<1> HIDE DEF F
<1>3. /\ Giving(F, import, NodeSet) /\ Giving(F, optional, NodeSet) /\ Giving(F, path, NodeSet)
      /\ Giving(F, make, NodeSet)
  BY NeutralOnes, GivingExpect, GivingOptional, GivingStatement, StatementKinds
<1> HIDE DEF import, optional, path, make
<1>4. Giving(F, until, NodeSet)
  BY <1>3, Looped2, GivingLoop
<1> HIDE DEF until
<1>5. Shuts(F, paths, Kind("RBRACE"), NodeSet) /\ Gives(F, <<path>>, NodeSet)
  BY <1>3, <1>4, ShutsClosing, Closings, Shuts2, Gives1
<1> HIDE DEF paths
<1>6. Giving(F, accept, NodeSet)
  BY <1>5, GivingOpen
<1> HIDE DEF accept
<1>7. Gives(F, <<import, optional, accept, make>>, NodeSet)
  BY <1>3, <1>6, Gives4
<1> QED  BY <1>1, <1>2, <1>7, EnterOther DEF F

LEMMA ForeignInv == ASSUME IInv, parse_foreign_declaration_statement PROVE IInv'
<1> DEFINE F == Flags(parser)
           foreign == Expect({Kw("FOREIGN")})
           block == <<Call("parse_foreign_block_statement")>>
           import == <<Call("parse_foreign_import_statement")>>
           none == <<Make(Absent)>>
           other == When({Kw("IMPORT")}, import, none)
           when == When({Kind("IDENTIFIER"), Kind("LBRACE")}, block, <<other>>)
<1>1. On("parse_foreign_declaration_statement") /\ Enter(<<foreign, when>>)
  BY Zenon DEF parse_foreign_declaration_statement
<1>2. /\ "parse_foreign_declaration_statement" \in Fresh
      /\ "parse_foreign_declaration_statement" \notin Telling
      /\ "parse_foreign_block_statement" \in Fresh
  BY Untold DEF Fresh
<1>3. F.expression_depth = 0
  BY <1>1, <1>2, FreshDepth
<1> HIDE DEF F
<1>4. Gives(F, block, NodeSet) /\ Gives(F, import, NodeSet) /\ Gives(F, none, NodeSet)
  BY <1>2, <1>3, StatementCalls, MoreCalls, Makes, Gives1
<1> HIDE DEF block, import, none
<1>5. Gives(F, <<other>>, NodeSet)
  BY <1>4, GivingWhen, Gives1
<1> HIDE DEF other
<1>6. Giving(F, foreign, NodeSet) /\ Giving(F, when, NodeSet)
  BY <1>4, <1>5, GivingWhen, NeutralOnes, GivingExpect
<1> HIDE DEF foreign, when
<1>7. Gives(F, <<foreign, when>>, NodeSet)
  BY <1>6, Gives2
<1> QED  BY <1>1, <1>2, <1>7, EnterOther DEF F

LEMMA BranchInv == ASSUME IInv, parse_branch_statement PROVE IInv'
<1> DEFINE F == Flags(parser)
           f == "parse_branch_statement"
           name == OptionalName
           make == Make(Statement("BRANCH"))
<1>1. On(f) /\ Enter(<<Advance, name, make>>)
  BY Zenon DEF parse_branch_statement
<1>2. f \in Advancing /\ f \notin Telling
  BY Untold DEF Advancing
<1>3. \A t, q : Name(t) = f /\ q.flags = F => St(q.flags, q.open, NodeSet, Tokens) \subseteq Upon(t, q)
  BY <1>2, UponOther DEF All
<1> HIDE DEF F, f
<1>4. Giving(F, name, NodeSet) /\ Giving(F, make, NodeSet)
  BY GivingName, GivingStatement, StatementKinds
<1> HIDE DEF name, make
<1>5. Gives(F, <<name, make>>, NodeSet)
  BY <1>4, Gives2
<1>6. <<Advance, name, make>> = <<Advance>> \o <<name, make>>
  BY ListJoin
<1>7. Enter(<<Advance>> \o <<name, make>>)
  BY <1>1, <1>6
<1> QED  BY <1>1, <1>2, <1>3, <1>5, <1>7, EnterAdvancing DEF F

LEMMA UsingInv == ASSUME IInv, parse_using_statement PROVE IInv'
<1> DEFINE F == Flags(parser)
           using == Expect({Kw("USING")})
           import == <<Call("parse_import_statement")>>
           using_tuple == Lhs("parse_tuple_expression", FALSE)
           declared == <<Call("parse_declaration_statement")>>
           end == <<ExpectSemicolon, Make(Statement("USING"))>>
           accept == Accept({Op("COLON")}, declared, end)
           when == When({Kw("IMPORT")}, import, <<using_tuple, accept>>)
<1>1. On("parse_using_statement") /\ Enter(<<using, when>>)
  BY Zenon DEF parse_using_statement
<1>2. "parse_using_statement" \notin Telling
  BY Untold DEF Undemanding
<1> HIDE DEF F
<1>3. Giving(F, using_tuple, Tupled(F)) /\ Gives(F, import, NodeSet) /\ Gives(F, end, NodeSet)
  BY ValueGiving, MoreCalls, GivingSemicolon, GivingStatement, StatementKinds, Gives1, Gives2
<1> HIDE DEF using_tuple, import, end
<1>4. Gives(F, <<using_tuple, accept>>, NodeSet)
  <2> SUFFICES ASSUME NEW O \in SUBSET Seq(Ones)
               PROVE  Holds(<<using_tuple, accept>>, All(F, O), All(F, O))
    BY DEF Gives, All
  <2>1. Task(using_tuple, All(F, O), St(F, O, Tupled(F), Tokens))
    BY <1>3 DEF Giving
  <2>2. Holds(declared, St(F, O, Tupled(F), Tokens), All(F, O))
    BY DeclarationTask, AllMono, HoldsMono
  <2>3. Holds(end, St(F, O, Tupled(F), Tokens), All(F, O))
    BY <1>3, AllMono, HoldsMono DEF Gives, All
  <2>4. Neutral({Op("COLON")})
    BY NeutralOnes
  <2> HIDE DEF declared
  <2>5. Task(accept, St(F, O, Tupled(F), Tokens), All(F, O))
    BY <2>2, <2>3, <2>4, AcceptNeutral
  <2> QED  BY <2>1, <2>5, Chain2
<1> HIDE DEF accept
<1>5. Giving(F, using, NodeSet) /\ Giving(F, when, NodeSet)
  BY <1>3, <1>4, GivingWhen, NeutralOnes, GivingExpect
<1> HIDE DEF using, when
<1>6. Gives(F, <<using, when>>, NodeSet)
  BY <1>5, Gives2
<1> QED  BY <1>1, <1>2, <1>6, EnterOther DEF F

LEMMA DirectiveStatementInv == ASSUME IInv, parse_directive_for_statement PROVE IInv'
<1> DEFINE F == Flags(parser)
           f == "parse_directive_for_statement"
           what == "expression statement"
           call == Call("parse_directive_call_expression")
           apply == Apply(what)
           directives == Dirs({"ASSERT", "PANIC", "LOAD"})
           expect == Expect(StatementDirectives)
           other == <<expect, Call("parse_statement")>>
           accept == Accept(directives, <<call, apply>>, other)
<1>1. On(f) /\ Enter(<<accept>>)
  BY Zenon DEF parse_directive_for_statement
<1>2. f \in Fresh /\ f \notin Telling
  BY Untold DEF Fresh
<1>3. F.expression_depth = 0
  BY <1>1, <1>2, FreshDepth
<1>4. \A v \in NodeSet \cap NodeSet : Made(what, v) \in NodeSet \cap NodeSet
  BY MadeRules
<1>5. Neutral(directives) /\ Neutral(StatementDirectives)
  BY NeutralOnes DEF StatementDirectives
<1> HIDE DEF F, what, directives
<1>6. Gives(F, <<call, apply>>, NodeSet)
  <2>1. Gives(F, <<call>>, NodeSet)
    BY Calls, Gives1
  <2> HIDE DEF call
  <2>2. Gives(F, <<call>> \o <<apply>>, NodeSet)
    BY <1>4, <2>1, GivesApply
  <2>3. <<call, apply>> = <<call>> \o <<apply>>
    BY ListJoin2
  <2> QED  BY <2>2, <2>3
<1>7. Giving(F, expect, NodeSet)
  BY <1>5, GivingExpect
<1> HIDE DEF expect
<1>8. Gives(F, other, NodeSet)
  BY <1>3, <1>7, GivingStatement, Gives2
<1> HIDE DEF call, apply, other
<1>9. Gives(F, <<accept>>, NodeSet)
  BY <1>5, <1>6, <1>8, GivingAccept, Gives1
<1> HIDE DEF accept, f
<1> QED  BY <1>1, <1>2, <1>9, EnterOther DEF F

LEMMA AttributesInv == ASSUME IInv, parse_attributes_for_statement PROVE IInv'
<1> DEFINE F == Flags(parser)
           G == Fl(parser.expression_depth + 1, parser.allow_newline, parser.allow_type, parser.allow_in)
           f == "parse_attributes_for_statement"
           attribute == Expect({Kind("ATTRIBUTE")})
           name == Call("parse_identifier")
           open == Expect({Op("LPAREN")})
           close == Expect({Op("RPAREN")})
           named == Accept({EQ}, <<Call("parse_value")>>, << >>)
           ends == {Op("RPAREN"), Kind("EOF")}
           until == Until(ends, <<name, named, SeparatorOrBreak>>)
           in == Deeper(1)
           out == Deeper(-1)
           many == <<open, in, until, out, close>>
           when == When({Kind("IDENTIFIER")}, <<name>>, many)
           newline == PossibleNewline
           statement == Call("parse_statement")
           inspect == Inspect("absent statement")
           check == Check({"DECLARATION", "FOREIGN_BLOCK", "FOREIGN_IMPORT"})
<1>1. On(f) /\ Enter(<<attribute, when, newline, statement, inspect, check>>)
  BY Zenon DEF parse_attributes_for_statement
<1>2. f \in Fresh /\ f \notin Telling
  BY Untold DEF Fresh
<1>3. F.expression_depth = 0
  BY <1>1, <1>2, FreshDepth
<1>4. Moves(F, G, in) /\ Moves(G, F, out)
  <2>1. parser.expression_depth \in Nat \cup {-1}
    BY DEF IInv, Types, ParserFields
  <2> QED  BY <2>1, MovesDeeper, Zenon DEF Flags
<1> HIDE DEF F, G, in, out, ends, f
<1>5. Giving(G, name, NodeSet) /\ Giving(G, named, NodeSet) /\ Gives(F, <<name>>, NodeSet)
  BY Calls, Gives1, GivesNone, NeutralOnes, GivingAccept
<1> HIDE DEF name, named
<1>6. Giving(G, until, NodeSet)
  BY <1>5, Looped3, GivingLoop
<1> HIDE DEF until
<1>7. Gives(F, <<in, until, out>>, NodeSet)
  BY <1>4, <1>6, Within1
<1>8. Gives(F, many, NodeSet)
  BY <1>7, InBrackets3
<1> HIDE DEF open, close, many
<1>9. /\ Giving(F, attribute, NodeSet) /\ Giving(F, when, NodeSet) /\ Giving(F, newline, NodeSet)
      /\ Giving(F, statement, NodeSet) /\ Giving(F, inspect, NodeSet) /\ Giving(F, check, NodeSet)
  BY <1>3, <1>5, <1>8, NeutralOnes, GivingExpect, GivingWhen, GivingSemicolon, GivingStatement,
     GivingCheck
<1> HIDE DEF attribute, when, newline, statement, inspect, check
<1>10. Gives(F, <<when, newline, statement, inspect, check>>, NodeSet)
  BY <1>9, Gives5
<1>11. Gives(F, <<attribute, when, newline, statement, inspect, check>>, NodeSet)
  BY <1>9, <1>10, GivesCons6
<1> QED  BY <1>1, <1>2, <1>11, EnterOther DEF F

(* Each keyword that a statement starts with.                              *)
LEMMA KeywordStatements ==
  ASSUME NEW keyword \in StatementKeywords
  PROVE  KeywordStatement(keyword) \in
           Fresh \cup {"parse_if_statement", "parse_when_statement", "parse_import_statement",
                       "parse_for_statement", "parse_return_statement", "parse_branch_statement",
                       "parse_using_statement", "parse_package_statement"}
<1>1. /\ keyword = "FOREIGN" => KeywordStatement(keyword) = "parse_foreign_declaration_statement"
      /\ keyword = "IF" => KeywordStatement(keyword) = "parse_if_statement"
      /\ keyword = "WHEN" => KeywordStatement(keyword) = "parse_when_statement"
      /\ keyword = "IMPORT" => KeywordStatement(keyword) = "parse_import_statement"
      /\ keyword = "FOR" => KeywordStatement(keyword) = "parse_for_statement"
      /\ keyword = "SWITCH" => KeywordStatement(keyword) = "parse_switch_statement"
      /\ keyword = "DEFER" => KeywordStatement(keyword) = "parse_defer_statement"
      /\ keyword = "RETURN" => KeywordStatement(keyword) = "parse_return_statement"
  BY DEF KeywordStatement
<1>2. /\ keyword \in {"BREAK", "CONTINUE", "FALLTHROUGH"} =>
           KeywordStatement(keyword) = "parse_branch_statement"
      /\ keyword = "USING" => KeywordStatement(keyword) = "parse_using_statement"
      /\ keyword = "PACKAGE" => KeywordStatement(keyword) = "parse_package_statement"
      /\ keyword \in {"CONTEXT", "PROC"} => KeywordStatement(keyword) = "parse_basic_simple_statement"
  BY DEF KeywordStatement
<1> HIDE DEF KeywordStatement
<1>3. /\ "parse_foreign_declaration_statement" \in Fresh /\ "parse_switch_statement" \in Fresh
      /\ "parse_defer_statement" \in Fresh /\ "parse_basic_simple_statement" \in Fresh
  BY DEF Fresh
<1> QED  BY <1>1, <1>2, <1>3 DEF StatementKeywords

LEMMA KeywordHolds ==
  ASSUME IInv, Flags(parser).expression_depth = 0, This({Kind("KEYWORD")}),
         this_token.as \in StatementKeywords
  PROVE  Holds(<<Call(KeywordStatement(this_token.as))>>, Here, All(Flags(parser), Open))
<1> DEFINE f == KeywordStatement(this_token.as)
           t == Call(f)
<1>1. f \in Fresh \cup Undemanding \cup {"parse_branch_statement"}
  BY KeywordStatements DEF Undemanding
<1>2. t.do \in Steps /\ Name(t) = f
  BY CallName
<1>3. ~This(AllBrackets)
  BY DEF This, Is, Kind, Op, AllBrackets, OpeningBrackets, ClosingBrackets
<1> HIDE DEF f
<1>4. ASSUME f \in Fresh \cup Undemanding PROVE Holds(<<t>>, Here, All(Flags(parser), Open))
  <2>1. Gives(Flags(parser), <<t>>, NodeSet)
    BY <1>4, StatementCalls, Gives1
  <2> HIDE DEF t
  <2> QED  BY <2>1, HereAny DEF IInv, All
<1>5. ASSUME f = "parse_branch_statement" PROVE Holds(<<t>>, Here, All(Flags(parser), Open))
  <2>1. f \in Advancing /\ \A q : Results(t, q) \cap NodeSet \subseteq NodeSet
    BY <1>5 DEF Advancing
  <2> HIDE DEF t
  <2> QED  BY <1>2, <1>3, <2>1, AdvancingCall DEF All
<1>6. Holds(<<t>>, Here, All(Flags(parser), Open))
  BY <1>1, <1>4, <1>5
<1> QED  BY <1>6 DEF f

LEMMA StatementInv == ASSUME IInv, parse_statement PROVE IInv'
<1> DEFINE F == Flags(parser)
           f == "parse_statement"
           simple == <<Call("parse_basic_simple_statement")>>
           keyword == <<Call(KeywordStatement(this_token.as))>>
           attributes == <<Call("parse_attributes_for_statement")>>
           directive == <<Call("parse_directive_for_statement")>>
           block == <<Block(FALSE)>>
           empty == <<Call("parse_empty_statement")>>
           none == <<Fail>>
           is(l) == Holds(l, Here, All(F, Open))
           tasks ==
             CASE This(SimpleStart) -> simple
               [] This({Kind("KEYWORD")}) /\ this_token.as \in StatementKeywords -> keyword
               [] This({Kind("ATTRIBUTE")}) -> attributes
               [] This({Kind("DIRECTIVE")}) -> directive
               [] This({Kind("LBRACE")}) -> block
               [] This({Kind("SEMICOLON")}) -> empty
               [] OTHER -> none
<1>1. On(f) /\ Enter(tasks)
  BY DEF parse_statement
<1>2. f \in Fresh /\ f \notin Telling
  BY Untold DEF Fresh
<1>3. F.expression_depth = 0
  BY <1>1, <1>2, FreshDepth
<1>4. ASSUME NEW l, Gives(F, l, NodeSet) PROVE is(l)
  BY <1>4, HereAny DEF IInv, All
<1>5. is(simple) /\ is(attributes) /\ is(directive) /\ is(empty) /\ is(block) /\ is(none)
  <2>1. /\ "parse_basic_simple_statement" \in Fresh /\ "parse_attributes_for_statement" \in Fresh
        /\ "parse_directive_for_statement" \in Fresh /\ "parse_empty_statement" \in Undemanding
    BY DEF Fresh, Undemanding
  <2>2. /\ Gives(F, simple, NodeSet) /\ Gives(F, attributes, NodeSet) /\ Gives(F, directive, NodeSet)
        /\ Gives(F, empty, NodeSet)
    BY <1>3, <2>1, StatementCalls, Gives1
  <2>3. Gives(F, block, NodeSet) /\ Gives(F, none, NodeSet)
    BY Calls, GivingFail, Gives1
  <2> HIDE DEF F, is, simple, attributes, directive, empty, block, none
  <2> QED  BY <1>4, <2>2, <2>3
<1>6. This({Kind("KEYWORD")}) /\ this_token.as \in StatementKeywords => is(keyword)
  BY <1>3, KeywordHolds
<1>7. /\ This(SimpleStart) => this_token.kind \in {"LITERAL", "IDENTIFIER", "OPERATOR"}
      /\ This({Kind("KEYWORD")}) => this_token.kind = "KEYWORD"
      /\ This({Kind("ATTRIBUTE")}) => this_token.kind = "ATTRIBUTE"
      /\ This({Kind("DIRECTIVE")}) => this_token.kind = "DIRECTIVE"
      /\ This({Kind("LBRACE")}) => this_token.kind = "LBRACE"
      /\ This({Kind("SEMICOLON")}) => this_token.kind = "SEMICOLON"
  BY DEF This, Is, Kind, Op, Ops, SimpleStart
<1> HIDE DEF F, is, simple, keyword, attributes, directive, empty, block, none
<1>8. is(tasks)
  BY <1>5, <1>6, <1>7
<1> HIDE DEF tasks
<1>9. \A t, q : Name(t) = f /\ q.flags = F => St(q.flags, q.open, NodeSet, Tokens) \subseteq Upon(t, q)
  BY <1>2, UponOther DEF All
<1> HIDE DEF f
<1> QED  BY <1>1, <1>8, <1>9, EnterHolds DEF F, is, All

LEMMA StatementsInv == ASSUME IInv, StatementFunctions PROVE IInv'
<1>1. ASSUME declaration_tail PROVE IInv'
  <2>1. Doing("declaration_type") \/ Doing("declaration_values") \/ Doing("declaration_end")
    BY <1>1 DEF declaration_tail
  <2> QED  BY <1>1, <2>1, DeclarationTypeInv, DeclarationEndInv
<1>2. ASSUME after_tuple PROVE IInv'
  <2>1. Doing("after_tuple") \/ Doing("after_colon")
    BY <1>2 DEF after_tuple
  <2> QED  BY <1>2, <2>1, AfterTupleInv, AfterColonInv
<1> QED
  BY <1>1, <1>2, StatementListInv, BodyInv, BlockInv, DoBodyInv, DeclarationInv, AssignmentInv,
     SimpleStatementInv, IfInv, WhenInv, RangeInv, ForInv, CaseInv, SwitchHeaderInv,
     SwitchClausesInv, SwitchInv, DeferInv, ReturnInv, ImportInv, ForeignBlockInv,
     ForeignImportInv, ForeignInv, BranchInv, UsingInv, DirectiveStatementInv, AttributesInv,
     StatementInv
  DEF StatementFunctions

-----------------------------------------------------------------------------
(* The invariant holds at the start, where parse() has all its work to do, *)
(* and of every step.                                                      *)
LEMMA StartTypes == ASSUME Init PROVE Types
<1> DEFINE b == FALSE
<1>1. parser \in ParserFields
  <2>1. parser = [expression_depth |-> 0, allow_newline |-> b, allow_type |-> b, allow_in |-> b,
                  this_procedure |-> b]
    BY DEF Init
  <2>2. b \in BOOLEAN
    OBVIOUS
  <2> HIDE DEF b
  <2> QED  BY <2>1, <2>2 DEF ParserFields
<1>2. value \in NodeSet
  BY Nodes DEF Init
<1>3. this_token \in Tokens /\ peek \in Seq(Tokens)
  <2>1. this_token = TOKEN_NIL /\ peek = << >>
    BY DEF Init, ReaderInit
  <2>2. TOKEN_NIL \in Tokens
    BY DEF TOKEN_NIL, Token, Tokens, KINDS, Texts
  <2> QED  BY <2>1, <2>2
<1>4. source \in Sources
  <2>1. source \in [prefix : Seq(Tokens), alphabet : SUBSET (KINDS \X Texts),
                    gaps : SUBSET (0 .. 2), budget : Nat]
    BY ScenarioAssumption DEF Init, ReaderInit
  <2> QED  BY <2>1 DEF Sources
<1>5. brackets \in Seq(Ones) /\ lenient \in BOOLEAN /\ outcome \in Outcomes
  <2>1. brackets \in Seq(Ones) /\ lenient \in BOOLEAN
    <3>1. brackets = << >>
      BY Zenon DEF Init
    <3>2. lenient \in BOOLEAN
      BY Zenon DEF Init
    <3>3. brackets \in Seq(Ones)
      BY <3>1
    <3> QED  BY <3>2, <3>3
  <2>2. outcome \in Outcomes
    BY Zenon DEF Init, Outcomes
  <2> QED  BY <2>1, <2>2
<1> QED  BY <1>1, <1>2, <1>3, <1>4, <1>5 DEF Types

LEMMA StartHolds == ASSUME Init PROVE IInv
<1> DEFINE F == Flags(parser)
           until == Until({Kind("EOF")}, <<Call("parse_statement"), Inspect("absent statement")>>)
<1>1. Types
  BY StartTypes
<1>2. stack = <<Advance, until>> /\ brackets = << >> /\ lenient = FALSE /\ outcome = "parsing"
      /\ this_token = TOKEN_NIL
  BY Zenon DEF Init, ReaderInit
<1>3. F.expression_depth = 0
  BY Zenon DEF Init, Flags, Fl
<1>4. ~This(AllBrackets)
  BY <1>2 DEF This, Is, Kind, Op, AllBrackets, OpeningBrackets, ClosingBrackets, TOKEN_NIL, Token
<1>5. Holds(<<Advance>>, Here, All(F, Open))
  BY <1>1, <1>4, AdvanceHere
<1> HIDE DEF F
<1>6. Gives(F, <<until>>, NodeSet)
  <2>1. Looped(F, <<Call("parse_statement"), Inspect("absent statement")>>)
    BY <1>3, GivingStatement, GivingCheck, Gives2, LoopedGives
  <2> QED  BY <2>1, GivingLoop, Gives1
<1>7. Open \in SUBSET Seq(Ones) /\ Current \in Here
  BY <1>1, CurrentState
<1> HIDE DEF until
<1>8. Holds(<<Advance>> \o <<until>>, Here, All(F, Open))
  BY <1>5, <1>6, <1>7, HoldsConcat DEF Gives, All
<1>9. <<Advance, until>> = <<Advance>> \o <<until>>
  BY ListJoin2
<1>10. {Current} \subseteq Here /\ All(F, Open) \subseteq Final
  <2>1. Open \subseteq {<< >>}
    BY <1>2 DEF Open
  <2> QED  BY <1>7, <2>1 DEF All, St, Final
<1>11. Holds(stack, {Current}, Final)
  <2>1. Holds(<<Advance>> \o <<until>>, {Current}, Final)
    BY <1>8, <1>10, HoldsMono
  <2>2. Holds(<<Advance, until>>, {Current}, Final)
    BY <1>9, <2>1
  <2> QED  BY <1>2, <2>2
<1> QED  BY <1>1, <1>2, <1>11 DEF IInv, StackInv, BracketsMatched, AbsentOnlyInTypes

LEMMA StutterInv == ASSUME IInv, UNCHANGED parserVars PROVE IInv'
<1>1. /\ source' = source /\ peek' = peek /\ this_token' = this_token /\ parser' = parser
      /\ stack' = stack /\ value' = value /\ outcome' = outcome /\ brackets' = brackets
      /\ lenient' = lenient
  BY DEF parserVars, readerVars, machineVars
<1>2. Types' /\ (BracketsMatched /\ AbsentOnlyInTypes)'
  BY <1>1 DEF IInv, Types, BracketsMatched, AbsentOnlyInTypes
<1>3. Current' = Current
  BY <1>1 DEF Current, Open
<1>4. StackInv'
  BY <1>1, <1>3 DEF IInv, StackInv
<1> QED  BY <1>2, <1>4 DEF IInv

LEMMA NextInv == ASSUME IInv, Next PROVE IInv'
  BY AcceptedInv, MachineInv, TypesInv, ExpressionsInv, StatementsInv DEF Next

(* In every state the rest of the stack leads, without a task that finds   *)
(* what it cannot work with, to an end at which nothing is open.           *)
THEOREM StackLeadsToEnd == Spec => []IInv
<1>1. Init => IInv
  BY StartHolds
<1>2. IInv /\ [Next]_parserVars => IInv'
  BY NextInv, StutterInv
<1> QED  BY <1>1, <1>2, PTL DEF Spec

LEMMA Restored == ASSUME IInv, Doing("leave") PROVE FlagsRestored
<1>1. outcome = "parsing" /\ stack # << >> /\ Now.do = "leave"
  BY DEF Doing
<1> PICK C : Task(Now, {Current}, C)
  BY <1>1, HeadRule
<1>2. SimpleValid(Now, {Current}, C)
  BY TaskSimple
<1>3. Flags(parser) = Flags(Now.entered)
  BY <1>1, <1>2, CurrentState DEF SimpleValid, IInv
<1>4. /\ parser.expression_depth = Now.entered.expression_depth
      /\ parser.allow_newline = Now.entered.allow_newline
      /\ parser.allow_type = Now.entered.allow_type
      /\ parser.allow_in = Now.entered.allow_in
  BY <1>3, Zenon DEF Flags, Fl
<1>5. DOMAIN parser = {"expression_depth", "allow_newline", "allow_type", "allow_in", "this_procedure"}
  BY DEF IInv, Types, ParserFields
<1> QED  BY <1>4, <1>5 DEF FlagsRestored

LEMMA TypesOK == ASSUME IInv PROVE TypeOK
<1>1. parser.expression_depth \in Nat \cup {-1} /\ parser.this_procedure \in BOOLEAN
      /\ parser.allow_newline \in BOOLEAN /\ parser.allow_type \in BOOLEAN
      /\ parser.allow_in \in BOOLEAN
  BY DEF IInv, Types, ParserFields
<1>2. DOMAIN value = DOMAIN Absent
  <2>1. value \in NodeSet /\ Absent \in NodeSet
    BY Nodes DEF IInv, Types
  <2> HIDE DEF Absent
  <2> QED  BY <2>1 DEF NodeSet
<1>3. outcome \in Outcomes /\ lenient \in BOOLEAN /\ peek \in Seq(Tokens)
  BY DEF IInv, Types
<1> QED  BY <1>1, <1>2, <1>3 DEF TypeOK

(* The fields of the parser have their shape, and whatever a parse         *)
(* function sets in them it has taken back on each of its ways out.        *)
THEOREM FieldsRestored == Spec => []ParserInv
<1>1. IInv => ParserInv
  BY TypesOK, Restored DEF ParserInv, FlagsRestored
<1> QED  BY <1>1, StackLeadsToEnd, PTL

(* No statement is parsed at the depth of an expression around it.         *)
THEOREM StatementsAtDepth0 == Spec => []StatementsFresh
<1>1. IInv => StatementsFresh
  BY FreshDepth DEF StatementsFresh, Fresh
<1> QED  BY <1>1, StackLeadsToEnd, PTL

(* Each operator joins operands that bind tighter than it does.            *)
THEOREM OperandsBindTighter == Spec => []PrecedenceKept
<1>1. IInv => PrecedenceKept
  <2> SUFFICES ASSUME IInv, Doing("join")
               PROVE  Bare(Now.left, PRECEDENCE(Now.op)) /\ Bare(value, PRECEDENCE(Now.op) + 1)
    BY DEF PrecedenceKept
  <2>1. "join" \in Steps /\ "join" # "call"
    BY DEF Steps
  <2> QED  BY <2>1, DoingPre DEF Pre
<1> QED  BY <1>1, StackLeadsToEnd, PTL

(* In a file that is accepted each bracket was closed by one of its kind.  *)
THEOREM BracketsClosed == Spec => []BracketsMatched
<1>1. IInv => BracketsMatched
  BY DEF IInv
<1> QED  BY <1>1, StackLeadsToEnd, PTL

(* An expression that is absent is looked into only while types are        *)
(* parsed.                                                                 *)
THEOREM AbsentInTypes == Spec => []AbsentOnlyInTypes
<1>1. IInv => AbsentOnlyInTypes
  BY DEF IInv
<1> QED  BY <1>1, StackLeadsToEnd, PTL
=============================================================================
