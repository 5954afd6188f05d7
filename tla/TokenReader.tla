---------------------------- MODULE TokenReader ----------------------------
(***************************************************************************)
(* What parser.c reads its tokens with: the lexer's queue of tokens that   *)
(* were scanned ahead, the token being parsed and the one before it.       *)
(*                                                                         *)
(* The source is not written out: the lexer, which Lexer models, is taken  *)
(* for any stream of tokens that lexer.c can give, one token at a time.  A *)
(* scenario fixes how the stream begins, and bounds how it goes on.        *)
(***************************************************************************)
EXTENDS Integers, SequencesExt, Lexemes

CONSTANT Scenario  \* records of prefix, alphabet, gaps and budget

VARIABLES
  source,      \* what is left of the scenario
  scanned,     \* the token the lexer scanned last: a newline after it may be one
  peek,        \* lexer->peek: the tokens scanned but not delivered
  this_token,
  last_token

readerVars == <<source, scanned, peek, this_token, last_token>>

(* A token is its kind, what it is of that kind (of a semicolon, its       *)
(* string) and on how many lines more than the token before it it is.      *)
Token(kind, as, gap) == [kind |-> kind, as |-> as, gap |-> gap]

TOKEN_NIL == Token("INVALID", "", 0)
Newline == "\n"
NewlineToken == Token("SEMICOLON", Newline, 0)
EndToken(gap) == Token("EOF", "", gap)

is_newline(token) == token.kind = "SEMICOLON" /\ token.as = Newline

(* The KIND rows of lexemes.h; and what is in a token, of which the        *)
(* provers are told that these two texts are strings.                      *)
KINDS ==
  {"INVALID", "EOF", "COMMENT", "IDENTIFIER", "LITERAL", "OPERATOR", "KEYWORD", "ASSIGNMENT",
   "DIRECTIVE", "ATTRIBUTE", "CONST", "SEMICOLON", "LBRACE", "RBRACE", "UNDEFINED"}
Texts == STRING \cup {"", Newline}
Tokens == [kind : KINDS, as : Texts, gap : 0 .. 2]

ASSUME ScenarioAssumption ==
  \A s \in Scenario :
    /\ s \in [prefix : Seq(Tokens), alphabet : SUBSET (KINDS \X Texts),
             gaps : SUBSET (0 .. 2), budget : Nat]
    /\ \A i \in 1 .. Len(s.prefix) :  \* a stream that the lexer can give
         /\ s.prefix[i].kind \notin {"EOF", "INVALID"}
         /\ i > 1 /\ is_newline(s.prefix[i]) =>
              EndsStatement(s.prefix[i - 1].kind, s.prefix[i - 1].as)
         /\ i > 1 /\ is_newline(s.prefix[i - 1]) => s.prefix[i].gap > 0

(* A newline is a token after one that may end a statement, and else a     *)
(* gap before the next.  A backslash may still continue the line (gap 1).  *)
Gaps ==
  IF is_newline(scanned) THEN {1} \cup (source.gaps \cap {2}) ELSE {0} \cup (source.gaps \cap {1})

Free ==
  IF source.budget = 0 THEN {}
  ELSE {Token(t[1], t[2], gap) : t \in source.alphabet, gap \in Gaps}

(* The tokens lexer_tokenize may scan next.                                *)
Scannable ==
  CASE source.prefix # << >> -> {Head(source.prefix)}
    [] scanned.kind = "EOF" -> {EndToken(0)}
    [] OTHER -> Free \cup (IF EndsStatement(scanned.kind, scanned.as)
                           THEN {NewlineToken}
                           ELSE {EndToken(IF is_newline(scanned) THEN 1 ELSE 0)})

Scan(token) ==
  /\ scanned' = token
  /\ source' = IF source.prefix # << >>
               THEN [source EXCEPT !.prefix = Tail(@)]
               ELSE IF token.kind = "EOF" \/ is_newline(token) THEN source
               ELSE [source EXCEPT !.budget = @ - 1]

ReaderInit ==
  /\ source \in Scenario
  /\ scanned = TOKEN_NIL
  /\ peek = << >>
  /\ this_token = TOKEN_NIL
  /\ last_token = TOKEN_NIL

(* lexer_next: the first token of the queue, or else the next one scanned. *)
Deliverable == IF peek # << >> THEN {Head(peek)} ELSE Scannable

LexerNext(token) ==
  IF peek # << >>
  THEN peek' = Tail(peek) /\ UNCHANGED <<source, scanned>>
  ELSE Scan(token) /\ UNCHANGED peek

(* lexer_peek scans a token whatever the queue holds, and returns the one  *)
(* that was last in the queue, or the new one if there was none.           *)
LexerPeek(token) ==
  /\ Scan(token)
  /\ peek' = Append(peek, token)
  /\ UNCHANGED <<this_token, last_token>>

(* Mutant: the token that was scanned is returned, whatever the queue has. *)
FaultyPeeked(token) == token

Peeked(token) == IF peek = << >> THEN token ELSE Last(peek)

(* On how many more lines than this_token the token is that was peeked.    *)
PeekedGap(token) ==
  IF peek = << >> THEN token.gap
  ELSE FoldSeq(LAMBDA t, sum : Min({2, sum + t.gap}), 0, peek)
=============================================================================
