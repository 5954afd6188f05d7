-------------------------------- MODULE Lexer --------------------------------
(***************************************************************************)
(* lexer.c: the input is scanned one token at a time; lexer_peek scans     *)
(* ahead and keeps what it scanned in a queue that lexer_next empties      *)
(* first.  Whether a newline is a token depends on the token before it     *)
(* (asi).                                                                  *)
(*                                                                         *)
(* A rune is a string of one character, and a position is the index of one *)
(* in the input: here is where lexer->rune is.  How a keyword, a named     *)
(* operator or a directive is spelled is a constant.  Only the ASCII runes *)
(* that the scanner tells apart are modelled, not UTF-8 and the byte 0.    *)
(***************************************************************************)
EXTENDS Integers, SequencesExt, Lexemes

CONSTANTS
  Input,      \* the sources that may be lexed
  Keyword,    \* the keyword each spelling of one stands for
  Named,      \* the operator each spelling of a named one stands for
  Directive,  \* the directive each spelling of one stands for
  MaxPeek     \* bound: no lexer_peek while this many tokens are in the queue

RUNE_EOF == "end of file"

ASSUME LexerAssumption ==
  /\ \A source \in Input :
       /\ source \in Seq(STRING) /\ source # << >>
       /\ \A p \in 1 .. Len(source) : source[p] # RUNE_EOF
  /\ \A s \in DOMAIN Named : Named[s] \notin DOMAIN OperatorMatch
  /\ MaxPeek \in Nat

VARIABLES
  input,      \* the source's runes
  here,       \* the position of lexer->rune
  asi,        \* a newline would be a semicolon
  peek,       \* the queue of tokens scanned by lexer_peek
  delivered,  \* history: the tokens lexer_next returned
  result,     \* what the last lexer_peek returned, or None
  thrown      \* LEX_ERROR was reached: the throw leaves the lexer for good

lexerVars == <<input, here, asi, peek, delivered, result, thrown>>

None == [kind |-> "NONE"]

Grave == "grave accent"
Quote == {"'", "\"", Grave}
Newline == "\n"
Blank == {" ", "\t", "\r"}
Digits == <<"0", "1", "2", "3", "4", "5", "6", "7", "8", "9", "a", "b", "c", "d", "e", "f">>
Digit == {Digits[i] : i \in 1 .. 10}
Letter == {"a", "b", "c", "d", "e", "f", "g", "h", "i", "j", "k", "l", "m", "n", "o", "p", "q",
           "r", "s", "t", "u", "v", "w", "x", "y", "z", "E", "U", "_"}

End == Len(input) + 1

At(p) == IF p < End THEN input[p] ELSE RUNE_EOF

(* Where n calls of advancel get to from p: never beyond the end.          *)
Advance(p, n) == Min({p + n, End})

SkipWhile(p, runes) == Min({q \in p .. End : At(q) \notin runes})

SkipUntil(p, rune) == Min({q \in p .. End : At(q) \in {rune, RUNE_EOF}})

Runes(p, q) == SubSeq(input, p, q - 1)

Begins(s, p) == p + Len(s) <= End /\ Runes(p, p + Len(s)) = s

(* A token is its kind, what it is of that kind, and where it begins and   *)
(* ends.  The kind ERROR stands for LEX_ERROR, which throws.               *)
Plain == ""
Token(kind, as, p, q) == [kind |-> kind, as |-> as, from |-> p, to |-> q]
Error(p) == Token("ERROR", Plain, p, p)

-----------------------------------------------------------------------------
(* Words, directives and numbers.                                          *)
Word(p) ==
  LET q == SkipWhile(p, Letter \cup Digit)
      s == Runes(p, q)
  IN CASE s \in DOMAIN Named -> Token("OPERATOR", Named[s], p, q)
       [] s \in DOMAIN Keyword -> Token("KEYWORD", Keyword[s], p, q)
       [] OTHER -> Token("IDENTIFIER", Plain, p, q)

Pound(p) ==
  LET q == SkipWhile(p + 1, Letter)
      s == Runes(p + 1, q)
  IN IF s \in DOMAIN Directive THEN Token("DIRECTIVE", Directive[s], p, q) ELSE Error(p)

Base == [b |-> 2, o |-> 8, d |-> 10, z |-> 12, x |-> 16, h |-> 16]

(* scan: the digits of a base, and underscores.                            *)
Scan(p, base) ==
  LET digits == {Digits[i] : i \in 1 .. base} \cup (IF base > 14 THEN {"E"} ELSE {})
  IN SkipWhile(p, digits \cup {"_"})

Whole(p) ==
  IF At(p) = "0" /\ At(p + 1) \in DOMAIN Base
  THEN Scan(Scan(p + 2, Base[At(p + 1)]), 10)
  ELSE Scan(p, 10)

(* Mutant: the period before the digits is not taken back into the token.  *)
FaultyFraction(p) ==
  IF At(p) = "." THEN Token("LITERAL", "FLOAT", p + 1, Scan(p + 1, 10))
  ELSE Token("LITERAL", "INTEGER", p, Whole(p))

(* Mutant: any period goes on with the number.                             *)
FaultyRange(p) ==
  LET whole == Whole(p)
      fraction == IF At(whole) = "." THEN Scan(whole + 1, 10) ELSE whole
  IN Token("LITERAL", IF fraction # whole THEN "FLOAT" ELSE "INTEGER", p, fraction)

(* The parts of a number that begins with a digit or a period.  After the  *)
(* whole part a second period makes it a range and ends the number.        *)
Numeric(p) ==
  LET range == At(p) # "." /\ At(Whole(p)) = "." /\ At(Whole(p) + 1) = "."
      whole == IF At(p) = "." THEN p ELSE Whole(p)
      fraction == IF At(whole) = "." THEN Scan(whole + 1, 10) ELSE whole
      sign == IF At(fraction + 1) \in {"+", "-"} THEN 2 ELSE 1
      exponent == IF At(fraction) \in {"e", "E"} THEN Scan(fraction + sign, 10) ELSE fraction
      unit == IF At(exponent) \in {"i", "j", "k"} THEN exponent + 1 ELSE exponent
  IN CASE range -> Token("LITERAL", "INTEGER", p, whole)
       [] ~range /\ unit # exponent -> Token("LITERAL", "IMAGINARY", p, unit)
       [] ~range /\ unit = exponent /\ exponent # whole -> Token("LITERAL", "FLOAT", p, unit)
       [] OTHER -> Token("LITERAL", "INTEGER", p, unit)

-----------------------------------------------------------------------------
(* Literals in quotes.  Escape is how many runes scan_escape skips from    *)
(* the one after the backslash on, whatever they are.                      *)
Escape ==
  [r \in {"a", "b", "e", "f", "n", "r", "t", "v", "\\", "'", "\"", "x", "u", "U"} \cup Digit |->
     CASE r \in Digit \cup {"x"} -> 3
       [] r = "u" -> 5
       [] r = "U" -> 9
       [] OTHER -> 1]

(* The position after the closing quote, 0 if LEX_ERROR comes first.       *)
Closing(quote, p) ==
  LET close[q \in 1 .. End] ==
        CASE At(q) \in {Newline, RUNE_EOF} -> 0
          [] At(q) = quote -> q + 1
          [] At(q) = "\\" /\ quote # Grave ->
               IF At(q + 1) \in DOMAIN Escape THEN close[Advance(q + 1, Escape[At(q + 1)])] ELSE 0
          [] OTHER -> close[q + 1]
  IN close[p]

Quoted(p) ==
  LET q == Closing(At(p), p + 1)
      as == IF At(p) = "'" THEN "RUNE" ELSE "STRING"
  IN IF q = 0 THEN Error(p) ELSE Token("LITERAL", as, p, q)

(* The position after a block comment with depth of them open, 0 if the    *)
(* file ends first.                                                        *)
CommentEnd(p) ==
  LET end[at \in (1 .. End) \X Nat] ==
        LET q == at[1]
            depth == at[2]
        IN CASE depth = 0 -> q
             [] depth > 0 /\ At(q) = RUNE_EOF -> 0
             [] depth > 0 /\ At(q) = "/" /\ At(q + 1) = "*" -> end[<<q + 2, depth + 1>>]
             [] depth > 0 /\ At(q) = "*" /\ At(q + 1) = "/" -> end[<<q + 2, depth - 1>>]
             [] OTHER -> end[<<q + 1, depth>>]
  IN end[<<p, 1>>]

Comment(p) ==
  LET end == IF At(p + 1) = "/" THEN SkipUntil(p, Newline) ELSE CommentEnd(p + 2)
  IN IF end = 0 THEN Token("EOF", Plain, p, End) ELSE Token("COMMENT", Plain, p, end)

-----------------------------------------------------------------------------
(* The switch on punctuation, case by case: the runes, the kind and what   *)
(* it is of that kind.  The cases are closed under prefixes, so that the   *)
(* one the nested switches end in is the longest that the input begins.    *)
Operator(s, as) == <<s, "OPERATOR", as>>
Assignment(s, as) == <<s, "ASSIGNMENT", as>>
Other(s, kind) == <<s, kind, Plain>>

Separators ==
  {Other(<<"{">>, "LBRACE"), Other(<<"}">>, "RBRACE"), Other(<<";">>, "SEMICOLON"),
   Operator(<<",">>, "COMMA")}

Marks ==
  {Other(<<"@">>, "ATTRIBUTE"), Other(<<"$">>, "CONST"),
   Operator(<<"?">>, "QUESTION"), Operator(<<"^">>, "POINTER"), Operator(<<":">>, "COLON"),
   Operator(<<"(">>, "LPAREN"), Operator(<<")">>, "RPAREN"),
   Operator(<<"[">>, "LBRACKET"), Operator(<<"]">>, "RBRACKET")}

Factors ==
  {Operator(<<"%">>, "MOD"), Assignment(<<"%", "=">>, "QUO"),
   Operator(<<"%", "%">>, "MODMOD"), Assignment(<<"%", "%", "=">>, "REM"),
   Operator(<<"*">>, "MUL"), Assignment(<<"*", "=">>, "MUL")}

Equals ==
  {Assignment(<<"=">>, "EQ"), Operator(<<"=", "=">>, "CMPEQ"),
   Operator(<<"~">>, "XOR"), Assignment(<<"~", "=">>, "XOR"),
   Operator(<<"!">>, "NOT"), Operator(<<"!", "=">>, "NOTEQ")}

Signs ==
  {Operator(<<"+">>, "ADD"), Assignment(<<"+", "=">>, "ADD"), Other(<<"+", "+">>, "ERROR"),
   Operator(<<"-">>, "SUB"), Assignment(<<"-", "=">>, "SUB"), Other(<<"-", "-">>, "ERROR"),
   Other(<<"-", "-", "-">>, "UNDEFINED"), Operator(<<"-", ">">>, "ARROW")}

Slash ==
  {Operator(<<"/">>, "QUO"), Assignment(<<"/", "=">>, "QUO")}

Angles ==
  {Operator(<<"<">>, "LT"), Operator(<<"<", "=">>, "LTEQ"),
   Operator(<<"<", "<">>, "SHL"), Assignment(<<"<", "<", "=">>, "SHL"),
   Operator(<<">">>, "GT"), Operator(<<">", "=">>, "GTEQ"),
   Operator(<<">", ">">>, "SHR"), Assignment(<<">", ">", "=">>, "SHR")}

Logic ==
  {Operator(<<"&">>, "AND"), Assignment(<<"&", "=">>, "AND"),
   Operator(<<"&", "~">>, "ANDNOT"), Assignment(<<"&", "~", "=">>, "ANDNOT"),
   Operator(<<"&", "&">>, "CMPAND"), Assignment(<<"&", "&", "=">>, "AND"),
   Operator(<<"|">>, "OR"), Assignment(<<"|", "=">>, "OR"),
   Operator(<<"|", "|">>, "CMPOR"), Assignment(<<"|", "|", "=">>, "CMPOR")}

(* Mutant: the half-open range is forgotten.                               *)
FaultyPeriods ==
  {Operator(<<".">>, "PERIOD"), Operator(<<".", ".">>, "ELLIPSIS"),
   Operator(<<".", ".", "=">>, "RANGEFULL")}

Periods ==
  {Operator(<<".">>, "PERIOD"), Operator(<<".", ".">>, "ELLIPSIS"),
   Operator(<<".", ".", "<">>, "RANGEHALF"), Operator(<<".", ".", "=">>, "RANGEFULL")}

Switch ==
  UNION {Separators, Marks, Factors, Equals, Signs, Slash, Angles, Logic, Periods}

Cases(p) == {c \in Switch : Begins(c[1], p)}

Longest(cases) == CHOOSE c \in cases : \A d \in cases : Len(d[1]) <= Len(c[1])

Punctuation(p) ==
  LET longest == Longest(Cases(p))
  IN IF Cases(p) = {} THEN Error(p)
     ELSE Token(longest[2], longest[3], p, p + Len(longest[1]))

-----------------------------------------------------------------------------
(* Mutant: a line continuation leaves asi as it was.                       *)
FaultyStart(p, newline) ==
  LET blank == IF newline THEN Blank ELSE Blank \cup {Newline}
  IN <<SkipWhile(p, blank \cup {"\\"}), newline>>

(* The position lexer_tokenize scans a token from, and asi there: a line   *)
(* continuation clears asi and starts over, newlines now being blank.      *)
Start(p, newline) ==
  LET q == SkipWhile(p, IF newline THEN Blank ELSE Blank \cup {Newline})
  IN IF At(q) = "\\"
     THEN <<SkipWhile(q, Blank \cup {Newline, "\\"}), FALSE>>
     ELSE <<q, newline>>

EndOfFile(p, newline) ==
  IF newline THEN Token("SEMICOLON", Newline, p, p) ELSE Token("EOF", Plain, p, p)

Tokenize(from, newline) ==
  LET p == Start(from, newline)[1]
  IN CASE At(p) = RUNE_EOF -> EndOfFile(p, Start(from, newline)[2])
       [] At(p) = Newline -> Token("SEMICOLON", Newline, p, p + 1)
       [] At(p) \in Letter -> Word(p)
       [] At(p) \in Digit -> Numeric(p)
       [] At(p) = "." /\ At(p + 1) \in Digit -> Numeric(p)
       [] At(p) \in Quote -> Quoted(p)
       [] At(p) = "#" -> Pound(p)
       [] At(p) = "/" /\ At(p + 1) \in {"/", "*"} -> Comment(p)
       [] OTHER -> Punctuation(p)
-----------------------------------------------------------------------------
Init ==
  /\ input \in Input
  /\ here = 1
  /\ asi = FALSE
  /\ peek = << >>
  /\ delivered = << >>
  /\ result = None
  /\ thrown = FALSE

(* lexer_raw_next.                                                         *)
RawNext(token) ==
  /\ here' = token.to
  /\ asi' = EndsStatement(token.kind, token.as)

(* The parser stops calling at the end of the file.                        *)
Ended == delivered # << >> /\ Last(delivered).kind = "EOF"

Throw(token) ==
  /\ token.kind = "ERROR"
  /\ thrown' = TRUE
  /\ UNCHANGED <<input, here, asi, peek, delivered, result>>

(* Mutant: the token that was scanned last is taken off the queue.         *)
FaultyLexerNextQueued ==
  /\ ~thrown /\ ~Ended /\ peek # << >>
  /\ delivered' = Append(delivered, Last(peek))
  /\ peek' = Front(peek)
  /\ result' = None
  /\ UNCHANGED <<input, here, asi, thrown>>

LexerNextQueued ==
  /\ ~thrown /\ ~Ended /\ peek # << >>
  /\ delivered' = Append(delivered, Head(peek))
  /\ peek' = Tail(peek)
  /\ result' = None
  /\ UNCHANGED <<input, here, asi, thrown>>

LexerNextScanned ==
  /\ ~thrown /\ ~Ended /\ peek = << >>
  /\ LET token == Tokenize(here, asi)
     IN \/ Throw(token)
        \/ /\ token.kind # "ERROR"
           /\ RawNext(token)
           /\ delivered' = Append(delivered, token)
           /\ result' = None
           /\ UNCHANGED <<input, peek, thrown>>

(* lexer_peek scans a token whatever the queue holds, and returns the one  *)
(* that was last in the queue, or the new one if there was none.           *)
LexerPeek ==
  /\ ~thrown /\ ~Ended /\ Len(peek) < MaxPeek
  /\ LET token == Tokenize(here, asi)
     IN \/ Throw(token)
        \/ /\ token.kind # "ERROR"
           /\ RawNext(token)
           /\ peek' = Append(peek, token)
           /\ result' = IF peek = << >> THEN token ELSE Last(peek)
           /\ UNCHANGED <<input, delivered, thrown>>

LexerNext == LexerNextQueued \/ LexerNextScanned
Next == LexerNext \/ LexerPeek

Spec == Init /\ [][Next]_lexerVars

-----------------------------------------------------------------------------
Position == 1 .. End
TokenKind == KIND_ASI \cup {"EOF", "COMMENT", "OPERATOR", "KEYWORD", "ASSIGNMENT", "DIRECTIVE",
                            "ATTRIBUTE", "CONST", "SEMICOLON", "LBRACE"}

IsToken(token) ==
  /\ DOMAIN token = {"kind", "as", "from", "to"}
  /\ token.kind \in TokenKind
  /\ token.from \in Position
  /\ token.to \in token.from .. End

(* The shape of the state.                                                 *)
TypeOK ==
  /\ here \in Position
  /\ asi \in BOOLEAN /\ thrown \in BOOLEAN
  /\ \A i \in 1 .. Len(peek) : IsToken(peek[i])
  /\ \A i \in 1 .. Len(delivered) : IsToken(delivered[i])
  /\ result = None \/ IsToken(result)

(* All that was scanned, in the order lexer_next gives it out.             *)
Scanned == delivered \o peek

(* The first n tokens of the source, each scanned from where the one       *)
(* before it ended: what lexer_next alone returns, without a look ahead.   *)
Stream(n) ==
  LET stream[i \in 0 .. n] ==
        IF i = 0 THEN << >>
        ELSE LET before == stream[i - 1]
                 token == IF i = 1 THEN Tokenize(1, FALSE)
                          ELSE Tokenize(Last(before).to,
                                        EndsStatement(Last(before).kind, Last(before).as))
             IN Append(before, token)
  IN stream[n]

(* Looking ahead changes nothing: however often lexer_peek is called in    *)
(* between, lexer_next returns the tokens in the order of the source, each *)
(* once, and newlines are or are not tokens as if it had not been called.  *)
(* What lexer_peek itself returns is PeekedIsNext's matter, in Parser.     *)
PeekInvisible == Scanned = Stream(Len(Scanned))

Gap(a, b) == {input[p] : p \in a.to .. b.from - 1}

IsNewline(token) == token.kind = "SEMICOLON" /\ token.as = Newline

(* A newline is a token just where a token that may end a statement is     *)
(* before it on its line and no backslash continues that line; a comment   *)
(* in between takes its place and the newline is none (lexer.c:363, 794).  *)
NewlinesSeparate ==
  \A i \in 2 .. Len(Scanned) :
    LET a == Scanned[i - 1]
        b == Scanned[i]
        ends == EndsStatement(a.kind, a.as) /\ "\\" \notin Gap(a, b)
    IN /\ IsNewline(b) => ends
       /\ Newline \in Gap(a, b) => ~ends

(* Every rune is in one token or between two, where there are only blanks, *)
(* newlines and line continuations: the lexer drops and repeats nothing.   *)
NothingDropped ==
  \A i \in 1 .. Len(Scanned) :
    LET a == IF i = 1 THEN Token("EOF", Plain, 1, 1) ELSE Scanned[i - 1]
    IN /\ a.to <= Scanned[i].from
       /\ Gap(a, Scanned[i]) \subseteq Blank \cup {Newline, "\\"}

(* The tokens have their shape and cover the source.                       *)
TokensInv == TypeOK /\ NothingDropped

(* Every token has a rune of its own but the last two, the newline that    *)
(* ends the last statement and the end of the file: the parser gets to the *)
(* end after so many calls at most.                                        *)
Progress == Len(delivered) <= Len(input) + 2

(* The dots of a range that follows a number stay with the range: no       *)
(* number ends in a period that another follows (lexer.c:252).             *)
RangeKept ==
  \A i \in 1 .. Len(Scanned) :
    Scanned[i].kind = "LITERAL" /\ Scanned[i].as \in {"INTEGER", "FLOAT"} =>
      ~Begins(<<".", ".">>, Scanned[i].to - 1)

Spelling == Range(OperatorMatch) \cup Range(AssignmentMatch)

(* Two texts that the scanner and the table disagree on: see               *)
(* AssignmentsSpelled.                                                     *)
Disputed == {<<"%", "=">>, <<"&", "&", "=">>}

(* The switch of lexer_tokenize against the table of lexemes.h: what it    *)
(* takes for an operator or an assignment is spelled like it, and no       *)
(* longer one begins in the same place.  Of which assignment the disputed  *)
(* texts are it says nothing.                                              *)
LongestMatch ==
  \A i \in 1 .. Len(Scanned) :
    LET token == Scanned[i]
        text == Runes(token.from, token.to)
    IN /\ token.kind = "OPERATOR" /\ token.as \in DOMAIN OperatorMatch =>
            text = OperatorMatch[token.as]
       /\ token.kind = "ASSIGNMENT" /\ text \notin Disputed =>
            text = AssignmentMatch[token.as]
       /\ token.kind \in {"OPERATOR", "ASSIGNMENT"} =>
            \A s \in Spelling : Begins(s, token.from) => Len(s) <= Len(text)

(* Every assignment is scanned from the text that lexemes.h writes beside  *)
(* it.                                                                     *)
AssignmentsSpelled ==
  \A i \in 1 .. Len(Scanned) :
    Scanned[i].kind = "ASSIGNMENT" =>
      Runes(Scanned[i].from, Scanned[i].to) = AssignmentMatch[Scanned[i].as]
=============================================================================
