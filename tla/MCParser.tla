------------------------------ MODULE MCParser ------------------------------
(* Files for Parser: each begins with a prefix and goes on freely.         *)
EXTENDS Parser

id == <<"IDENTIFIER", "">>
int == <<"LITERAL", "INTEGER">>
lbrace == <<"LBRACE", "">>
rbrace == <<"RBRACE", "">>
semi == <<"SEMICOLON", "">>
poly == <<"CONST", "">>
undefined == <<"UNDEFINED", "">>
attribute == <<"ATTRIBUTE", "">>
comment == <<"COMMENT", "">>
lparen == Op("LPAREN")
rparen == Op("RPAREN")
lbracket == Op("LBRACKET")
rbracket == Op("RBRACKET")
colon == Op("COLON")
comma == Op("COMMA")
period == Op("PERIOD")

Gapped(prefix, gaps, alphabet, budget) ==
  [prefix |-> [i \in 1 .. Len(prefix) |-> Token(prefix[i][1], prefix[i][2], 0)],
   gaps |-> gaps, alphabet |-> alphabet, budget |-> budget]
File(prefix, alphabet, budget) == Gapped(prefix, {0}, alphabet, budget)

constant == <<id, colon, colon>>
body == constant \o <<Kw("PROC"), lparen, rparen, lbrace>>

Expressions == {
  File(constant, {id, Op("ADD"), Op("MUL"), lparen, rparen, Op("QUESTION"), colon, Kw("IF"), Kw("ELSE")}, 4),
  File(constant, {id, Op("ADD"), Op("MUL"), Op("QUESTION"), colon, lparen}, 5),
  File(constant, {id, Op("CMPOR"), Op("CMPEQ"), Op("IN"), Op("ELLIPSIS"), Op("SUB")}, 5),
  File(constant \o <<id>>, {id, lparen, rparen, lbracket, rbracket, period, comma, colon, Op("ELLIPSIS")}, 4),
  File(constant \o <<id, lparen>>, {id, rparen, comma, EQ, Op("ELLIPSIS"), period, lbrace, rbrace}, 4),
  File(constant \o <<id>>, {id, lbrace, rbrace, comma, EQ, Op("POINTER"), Op("ARROW"), Op("OR_RETURN")}, 4),
  File(constant, {id, Op("NOT"), Op("CAST"), Op("AUTO_CAST"), lparen, rparen, int, period, Kw("CONTEXT"), undefined}, 3),
  File(constant \o <<id, Op("MUL"), Dir("PARTIAL")>>, {id, Op("ADD"), Op("CMPOR"), lparen, rparen}, 4),
  Gapped(constant \o <<lparen>>, 0 .. 1, {id, comment, Op("ADD"), rparen, lbrace, Kw("IF"), Kw("ELSE")}, 3)}

Types == {
  File(<<id, colon>>, {id, int, lbracket, rbracket, Op("POINTER"), Op("QUESTION"), Kw("DYNAMIC"), poly, Op("QUO")}, 4),
  File(<<id, colon>>, {id, lbracket, rbracket, Kw("MAP"), Kw("BIT_SET"), Kw("TYPEID"), Kw("DISTINCT"), semi}, 4),
  File(<<id, colon, Kw("MATRIX"), lbracket>>, {id, lbracket, rbracket, comma}, 5),
  File(<<id, colon, Kw("BIT_SET"), lbracket, id>>, {id, semi, rbracket, comma}, 4),
  File(<<id, colon, lbracket>>, {id, int, Op("IN"), Op("ADD"), rbracket, Kw("DYNAMIC"), colon}, 4),
  File(constant, Dirs({"TYPE", "SIMD", "PARTIAL", "CONFIG", "PROCEDURE", "RELATIVE", "ASSERT"})
                 \cup {id, lbracket, rbracket, lparen, rparen}, 3),
  File(constant \o <<Dir("SIMD")>>, {id, lbracket, rbracket, int}, 4),
  File(<<id, colon, Kw("ENUM")>>, {id, lbrace, rbrace, comma, EQ, int, Op("ADD")}, 5),
  File(constant \o <<Kw("UNION")>>,
    {id, lbrace, rbrace, comma, Kw("WHERE"), Dir("ALIGN"), Dir("NO_NIL"), Dir("PACKED"), lparen, rparen}, 4),
  File(constant \o <<Kw("STRUCT")>>,
    {id, lbrace, rbrace, colon, Kw("WHERE"), Dir("ALIGN"), Dir("PACKED"), lparen, rparen}, 4),
  File(constant \o <<Kw("STRUCT"), Dir("ALIGN"), lparen>>, {id, lbrace, rbrace, colon, Kw("WHERE"), rparen}, 5)}

Procedures == {
  File(constant \o <<Kw("PROC"), lparen>>,
    {id, comma, colon, EQ, StringLiteral, rparen, Op("ELLIPSIS"), poly, Kw("TYPEID"), Kw("USING")}, 3),
  File(constant \o <<Kw("PROC"), lparen, id, comma, id, colon, id, comma>>,
    {id, comma, colon, EQ, StringLiteral, rparen, Dir("ANY_INT")}, 5),
  File(constant \o <<Kw("STRUCT"), lbrace, id>>,
    {id, comma, colon, StringLiteral, rbrace, Dir("SUBTYPE"), Kw("TYPEID"), Op("QUO")}, 5),
  File(constant \o <<Kw("PROC")>>,
    {id, StringLiteral, lparen, rparen, lbrace, rbrace, comma, Op("ARROW"), Op("NOT"),
     Kw("WHERE"), undefined, Dir("NO_BOUNDS_CHECK")}, 4),
  File(<<id, colon, Kw("PROC"), lparen, rparen, lbrace>>,
    {id, rbrace, EQ, comma, lparen, rparen, lbrace, Kw("FOR")}, 3)}

Statements == {
  File(body, {id, Kw("IF"), Kw("ELSE"), Kw("DO"), lbrace, rbrace, semi, EQ, colon, comma}, 4),
  File(body \o <<Kw("IF"), id>>, {id, semi, Kw("ELSE"), Kw("IF"), Kw("DO"), lbrace, rbrace}, 5),
  Gapped(body \o <<Kw("IF"), id, lbrace, rbrace>>, 0 .. 2, {id, comment, Kw("ELSE"), lbrace, rbrace}, 3),
  File(body \o <<Kw("FOR")>>, {id, Op("IN"), semi, lbrace, rbrace, Kw("DO"), comma, EQ}, 5),
  File(body \o <<Kw("SWITCH"), id>>, {id, Op("IN"), lbrace, rbrace, Kw("CASE"), colon, semi, EQ}, 5),
  File(body, {id, Kw("RETURN"), Kw("DEFER"), Kw("BREAK"), Kw("USING"), comma, semi, rbrace, lparen, rparen}, 3),
  File(<< >>, {id, Kw("IMPORT"), Kw("FOREIGN"), Kw("PACKAGE"), Kw("USING"), StringLiteral, lbrace, rbrace, comma}, 5),
  File(<< >>, {id, attribute, lparen, rparen, EQ, comma, colon, Kw("FOREIGN"), Kw("IMPORT"), StringLiteral}, 4),
  File(<<attribute, lparen, id>>, {id, rparen, EQ, colon, StringLiteral}, 6),
  File(<< >>, {id, Kw("WHEN"), Kw("ELSE"), Kw("DO"), lbrace, rbrace, Dir("ASSERT"), Dir("PARTIAL"), lparen, rparen}, 4),
  File(body \o <<Kw("IF"), id, lparen, Kw("PROC"), lparen, rparen, lbrace>>,
    {id, Kw("FOR"), Op("IN"), lbrace, rbrace, rparen}, 5)}

(* Comments where the parser looks ahead, once or twice for a token.       *)
Peeks == {
  Gapped(body \o <<Kw("IF"), id>>, 0 .. 1, {id, comment, semi, lbrace, rbrace}, 5),
  File(body \o <<Kw("SWITCH"), id>>, {id, comment, semi, lbrace, rbrace, Kw("CASE")}, 5),
  File(constant \o <<id, lparen>>, {id, comment, comma, lbrace, rparen}, 5)}

(* A loop in the body of a procedure that is written in a condition.       *)
MCForInBody ==
  {File(body \o <<Kw("IF"), id, lparen, Kw("PROC"), lparen, rparen, lbrace>>,
     {id, Kw("FOR"), Op("IN"), Op("RANGEHALF"), lbrace, rbrace, rparen}, 5)}

MCScenario == Expressions \cup Types \cup Procedures \cup Statements \cup Peeks
=============================================================================
