------------------------------- MODULE MCC99 -------------------------------
(* Builds for C99: what is declared at the top, and what bodies may hold.   *)
EXTENDS C99

name(n) == [kind |-> "IDENTIFIER", name |-> n]
number == [kind |-> "LITERAL", string |-> FALSE]
text == [kind |-> "LITERAL", string |-> TRUE]
call(f, arguments) == [kind |-> "CALL", operand |-> name(f), arguments |-> arguments]
index(e) == [kind |-> "INDEX", operand |-> e, lhs |-> number, multi |-> FALSE]
binary(lhs, op, rhs) == [kind |-> "BINARY", op |-> op, lhs |-> lhs, rhs |-> rhs]
tuple(operands) == [kind |-> "TUPLE", operands |-> operands]
ternary == [kind |-> "TERNARY"]
literal(type) == [kind |-> "COMPOUND_LITERAL", type |-> type, named |-> TRUE, operands |-> <<number>>]

declare(n, type, value) ==
  [kind |-> "DECLARATION", names |-> 1, values |-> 1, name |-> n, type |-> type, value |-> value]
local(n, type) == declare(n, type, number)
copy(n, value) == declare(n, NoType, value)
param(n, type) == [name |-> n, type |-> type]
procedure(n, params, results) ==
  declare(n, NoType, [kind |-> "PROCEDURE", params |-> params, results |-> results,
                      arrow |-> TRUE, body |-> TRUE])
struct(n, fields) ==
  declare(n, NoType, [kind |-> "TYPE", type |-> <<"STRUCT", "{">>, plain |-> TRUE, fields |-> fields])
enum(n) == declare(n, NoType, [kind |-> "TYPE", type |-> <<"ENUM", "u8">>])
constant(n, value) == copy(n, value)

if(cond, elif) == [kind |-> "IF", init |-> FALSE, cond |-> cond, elif |-> elif]
block == [kind |-> "BLOCK"]
for(n, limit) ==
  [kind |-> "FOR", init |-> FALSE, post |-> FALSE,
   cond |-> binary(tuple(<<name(n)>>), "IN", binary(number, "RANGEHALF", limit))]
while == [kind |-> "FOR", init |-> FALSE, post |-> FALSE, cond |-> name("x")]
switch(e) == [kind |-> "SWITCH", init |-> FALSE, has_cond |-> TRUE, cond |-> e]
return(results) == [kind |-> "RETURN", results |-> results]
set(lhs, rhs) == [kind |-> "ASSIGNMENT", op |-> "EQ", lhs |-> <<lhs>>, rhs |-> <<rhs>>]
expression(e) == [kind |-> "EXPRESSION", expression |-> e]
branch(b) == [kind |-> "BRANCH", branch |-> b]

u8 == <<"u8">>
u32 == <<"u32">>
Build(declarations, body, budget) ==
  [declarations |-> declarations, body |-> body, labels |-> {<< >>, <<number>>}, budget |-> budget]
One(body, budget) == Build(<<procedure("f", <<param("x", u32)>>, <<u32>>)>>, body, budget)
x == name("x")
y == name("y")

(* Two procedures that call each other, types and a constant, in any       *)
(* order of the files.                                                     *)
Declared ==
  {<<procedure("f", << >>, <<u8>>), constant("k", call("u32", <<number>>)),
     struct("s", <<u8, <<"t">>>>), struct("t", <<u8>>), procedure("g", <<param("k", u8)>>, << >>)>>}
Orders == {[i \in DOMAIN d |-> d[p[i]]] : d \in Declared, p \in Permutations(1 .. 5)}
Calls == {expression(call("f", << >>)), expression(call("g", <<name("k")>>)), copy("v", literal(<<"s">>))}

Odd == {enum("e"), constant("k", ternary), constant("k", name("e")), [constant("k", number) EXCEPT !.names = 2],
        constant("k", text), struct("s", <<u8, <<"POINTER", "t">>>>),
        procedure("g", <<param("p", <<"MULTI_POINTER", "u8">>), param("q", <<"SLICE", "u8">>)>>, <<u8, u8>>),
        [procedure("g", << >>, << >>) EXCEPT !.value.arrow = FALSE],
        [procedure("g", << >>, << >>) EXCEPT !.value.body = FALSE]}

Values == {copy("y", x), copy("y", index(x)), copy("y", binary(x, "ADD", y)), copy("y", binary(x, "LT", number)),
           copy("y", call("u8", <<x>>)), copy("y", call("f", <<x>>)), copy("y", text),
           copy("x", name("k")), copy("y", ternary), local("x", u8)}

Scopes == {
  One({local("x", u8), copy("y", x), if(y, TRUE), block}, 5),
  One({local("x", u8), copy("y", x), for("x", y), for("y", x), block}, 5),
  One({local("x", u8), copy("y", x), switch(x), for("i", x)}, 5),
  Build(<<procedure("f", <<param("x", u32)>>, <<u32>>), procedure("g", <<param("y", u8)>>, <<u8>>)>>,
        {local("x", u8), copy("y", x), for("x", number), block}, 5)}

Many == [i \in 1 .. 6 |-> param(ToString(i), u32)]  \* one parameter too many

MCScenario ==
  {Build(d, Calls, 3) : d \in Orders}
  \cup {Build(<<procedure("f", <<param("x", u32)>>, <<u32>>), odd>>, {}, 0) : odd \in Odd}
  \cup {Build(<<constant("k", call("u8", <<number>>)), procedure("f", <<param("x", u32)>>, <<u32>>)>>, Values, 3)}
  \cup {One({set(x, number), return(<<x>>), return(<<x, x>>), return(<< >>), expression(call("f", <<x>>)),
              branch("BREAK"), branch("FALLTHROUGH"), while, for("i", x), [kind |-> "DEFER"]}, 3)}
  \cup {Build([i \in 1 .. 6 |-> constant(ToString(i), call("u8", <<number>>))], {}, 0)}  \* one symbol too many
  \cup {Build(<<procedure("f", Many, <<u32>>)>>, {if(name("6"), FALSE), block, copy("y", x)}, 2)}
  \cup Scopes

(* The expressions of the scenarios and those within them.                 *)
RECURSIVE Within(_)
Within(e) == {e} \cup UNION {Within(Operands(e)[i]) : i \in 1 .. Len(Operands(e))}

Of(s) ==
  CASE s.kind = "DECLARATION" -> {s.value}
    [] s.kind \in {"IF", "SWITCH"} -> {s.cond}
    [] s.kind = "FOR" /\ s.cond.kind = "BINARY" -> {s.cond.rhs.lhs, s.cond.rhs.rhs}
    [] s.kind = "RETURN" -> ToSet(s.results)
    [] s.kind = "ASSIGNMENT" -> ToSet(s.lhs) \cup ToSet(s.rhs)
    [] s.kind = "EXPRESSION" -> {s.expression}
    [] OTHER -> {}

MCExpression ==
  UNION {Within(e) : e \in UNION {UNION {Of(s) : s \in scenario.body \cup ToSet(scenario.declarations)}
                                  \cup UNION {ToSet(labels) : labels \in scenario.labels} :
                                  scenario \in MCScenario}}
=============================================================================
