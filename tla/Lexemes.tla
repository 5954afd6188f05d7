------------------------------- MODULE Lexemes -------------------------------
(***************************************************************************)
(* The tables of lexemes.h that lexer.c and parser.c are generated from:   *)
(* the spellings of operators and assignments and the tokens after which a *)
(* newline ends a statement.  A spelling is a sequence of runes.           *)
(***************************************************************************)

(* OPERATOR rows whose NAMED column is false: ENUM and MATCH.              *)
OperatorMatch == [
  NOT       |-> <<"!">>,             POINTER   |-> <<"^">>,
  ARROW     |-> <<"-", ">">>,        LPAREN    |-> <<"(">>,
  RPAREN    |-> <<")">>,             LBRACKET  |-> <<"[">>,
  RBRACKET  |-> <<"]">>,             COLON     |-> <<":">>,
  PERIOD    |-> <<".">>,             COMMA     |-> <<",">>,
  QUESTION  |-> <<"?">>,             ELLIPSIS  |-> <<".", ".">>,
  RANGEFULL |-> <<".", ".", "=">>,   RANGEHALF |-> <<".", ".", "<">>,
  CMPOR     |-> <<"|", "|">>,        CMPAND    |-> <<"&", "&">>,
  CMPEQ     |-> <<"=", "=">>,        NOTEQ     |-> <<"!", "=">>,
  LT        |-> <<"<">>,             GT        |-> <<">">>,
  LTEQ      |-> <<"<", "=">>,        GTEQ      |-> <<">", "=">>,
  ADD       |-> <<"+">>,             SUB       |-> <<"-">>,
  OR        |-> <<"|">>,             XOR       |-> <<"~">>,
  QUO       |-> <<"/">>,             MUL       |-> <<"*">>,
  MOD       |-> <<"%">>,             MODMOD    |-> <<"%", "%">>,
  AND       |-> <<"&">>,             ANDNOT    |-> <<"&", "~">>,
  SHL       |-> <<"<", "<">>,        SHR       |-> <<">", ">">>]

(* ASSIGNMENT rows: ENUM and the spelling in the comment beside it.        *)
AssignmentMatch == [
  EQ     |-> <<"=">>,            ADD    |-> <<"+", "=">>,
  SUB    |-> <<"-", "=">>,       MUL    |-> <<"*", "=">>,
  QUO    |-> <<"/", "=">>,       MOD    |-> <<"%", "=">>,
  REM    |-> <<"%", "%", "=">>,  AND    |-> <<"&", "=">>,
  OR     |-> <<"|", "=">>,       XOR    |-> <<"~", "=">>,
  ANDNOT |-> <<"&", "~", "=">>,  SHL    |-> <<"<", "<", "=">>,
  SHR    |-> <<">", ">", "=">>,  CMPAND |-> <<"&", "&", "=">>,
  CMPOR  |-> <<"|", "|", "=">>]

(* The ASI columns: a newline after one of these is a semicolon.           *)
FaultyKIND_ASI == {"IDENTIFIER", "LITERAL", "RBRACE", "UNDEFINED", "SEMICOLON"}  \* a mutant

KIND_ASI == {"IDENTIFIER", "LITERAL", "RBRACE", "UNDEFINED"}

OPERATOR_ASI == {"POINTER", "RPAREN", "RBRACKET", "OR_RETURN", "QUESTION"}

KEYWORD_ASI == {"TYPEID", "BREAK", "CONTINUE", "FALLTHROUGH", "RETURN"}

EndsStatement(kind, as) ==
  CASE kind = "OPERATOR" -> as \in OPERATOR_ASI
    [] kind = "KEYWORD" -> as \in KEYWORD_ASI
    [] OTHER -> kind \in KIND_ASI
=============================================================================
