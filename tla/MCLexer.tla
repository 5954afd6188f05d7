------------------------------- MODULE MCLexer -------------------------------
(* Sources for Lexer: all short strings over small alphabets.              *)
EXTENDS Lexer

(* Letters make keywords and operators of one rune here.                   *)
MCKeyword == <<"r">> :> "RETURN" @@ <<"d">> :> "DO"
MCNamed == <<"o">> :> "OR_RETURN" @@ <<"i">> :> "IN"
MCDirective == <<"s">> :> "SIMD"

Strings(alphabet, n) == UNION {[1 .. m -> alphabet] : m \in 1 .. n}

(* Operators, assignments and what begins like one of them.                *)
Operators == Strings({"=", "<", ">", "&", "|", "~", "%", "-", "+", "!", "/", "*", "."}, 3)

(* Statements, their ends, comments and line continuations.                *)
Lines == Strings({"a", ")", "/", "*", "\\", " ", "\n"}, 4)

Words == Strings({"r", "d", "o", "i", "#", "s", "\n", "}"}, 3)

Literals == Strings({"'", "\\", "x", "0", ".", "e"}, 4)

MCInput == Operators \cup Lines \cup Words \cup Literals
=============================================================================
