------------------------------ MODULE LexerProofs ------------------------------
(***************************************************************************)
(* Theorems about Lexer, for every source and every table of words, however*)
(* far the parser looks ahead.                                             *)
(***************************************************************************)
EXTENDS Lexer, TLAPS, WellFoundedInduction, SequenceTheorems

-----------------------------------------------------------------------------
(* A source does not change, and with it what is scanned from a position.  *)

(* The runes are where they were.                                          *)
LEMMA SameAt ==
  ASSUME input' = input
  PROVE  /\ End' = End
         /\ \A p : At(p)' = At(p)
         /\ \A p, n : Advance(p, n)' = Advance(p, n)
         /\ \A p, q : Runes(p, q)' = Runes(p, q)
<1>1. End' = End
  BY DEF End
<1> QED  BY <1>1 DEF At, Advance, Runes

(* What begins at p is the same.                                           *)
LEMMA SameBegins ==
  ASSUME input' = input, NEW s, NEW p
  PROVE  Begins(s, p)' = Begins(s, p)
BY SameAt DEF Begins

(* And so is where a run of runes ends.                                    *)
LEMMA SameSkip ==
  ASSUME input' = input, NEW p, NEW runes
  PROVE  SkipWhile(p, runes)' = SkipWhile(p, runes) /\ SkipUntil(p, runes)' = SkipUntil(p, runes)
<1>1. \A q : At(q)' = At(q)
  BY SameAt
<1>2. {q \in p .. End : At(q) \notin runes}' = {q \in p .. End : At(q) \notin runes}
  BY <1>1, SameAt
<1>3. {q \in p .. End : At(q) \in {runes, RUNE_EOF}}' = {q \in p .. End : At(q) \in {runes, RUNE_EOF}}
  BY <1>1, SameAt
<1> QED  BY <1>2, <1>3 DEF SkipWhile, SkipUntil

(* A word and a directive at p.                                            *)
LEMMA SameWords ==
  ASSUME input' = input, NEW p
  PROVE  Word(p)' = Word(p) /\ Pound(p)' = Pound(p)
BY SameAt, SameSkip DEF Word, Pound

(* A whole number at p.                                                    *)
LEMMA SameScan ==
  ASSUME input' = input, NEW p
  PROVE  /\ \A base : Scan(p, base)' = Scan(p, base)
         /\ Whole(p)' = Whole(p)
<1>1. \A q, base : Scan(q, base)' = Scan(q, base)
  BY SameSkip DEF Scan
<1> QED  BY <1>1, SameAt DEF Whole

(* A number at p.                                                          *)
LEMMA SameNumeric ==
  ASSUME input' = input, NEW p
  PROVE  Numeric(p)' = Numeric(p)
<1>1. \A q : Whole(q)' = Whole(q) /\ At(q)' = At(q) /\ \A base : Scan(q, base)' = Scan(q, base)
  BY SameScan, SameAt
<1> QED  BY <1>1 DEF Numeric

(* Where a literal in quotes ends.                                         *)
LEMMA SameClosing ==
  ASSUME input' = input, NEW quote, NEW p
  PROVE  Closing(quote, p)' = Closing(quote, p)
BY DEF Closing, At, Advance, End

(* A literal in quotes at p.                                               *)
LEMMA SameQuoted ==
  ASSUME input' = input, NEW p
  PROVE  Quoted(p)' = Quoted(p)
<1>1. \A q : At(q)' = At(q) /\ \A quote : Closing(quote, q)' = Closing(quote, q)
  BY SameAt, SameClosing
<1> QED  BY <1>1 DEF Quoted

(* Where a block comment ends.                                             *)
LEMMA SameCommentEnd ==
  ASSUME input' = input, NEW p
  PROVE  CommentEnd(p)' = CommentEnd(p)
BY DEF CommentEnd, At, End

(* A comment at p.                                                         *)
LEMMA SameComment ==
  ASSUME input' = input, NEW p
  PROVE  Comment(p)' = Comment(p)
<1>1. /\ \A q : At(q)' = At(q) /\ CommentEnd(q)' = CommentEnd(q) /\ \A rune : SkipUntil(q, rune)' = SkipUntil(q, rune)
      /\ End' = End
  BY SameAt, SameCommentEnd, SameSkip
<1> QED  BY <1>1 DEF Comment

(* Punctuation at p.                                                       *)
LEMMA SamePunctuation ==
  ASSUME input' = input, NEW p
  PROVE  Punctuation(p)' = Punctuation(p)
<1>1. Cases(p)' = Cases(p)
  BY SameBegins DEF Cases, Switch
<1> QED  BY <1>1 DEF Punctuation

(* Where the token after p begins.                                         *)
LEMMA SameStart ==
  ASSUME input' = input, NEW p, NEW b
  PROVE  Start(p, b)' = Start(p, b)
BY SameAt, SameSkip DEF Start

(* The token after p.                                                      *)
LEMMA SameTokenize ==
  ASSUME input' = input, NEW p, NEW b
  PROVE  Tokenize(p, b)' = Tokenize(p, b)
<1>1. \A q : /\ At(q)' = At(q) /\ Word(q)' = Word(q) /\ Pound(q)' = Pound(q) /\ Numeric(q)' = Numeric(q)
             /\ Quoted(q)' = Quoted(q) /\ Comment(q)' = Comment(q) /\ Punctuation(q)' = Punctuation(q)
  BY SameAt, SameWords, SameNumeric, SameQuoted, SameComment, SamePunctuation
<1>2. Start(p, b)' = Start(p, b)
  BY SameStart
<1> QED  BY <1>1, <1>2 DEF Tokenize

-----------------------------------------------------------------------------
(* Positions and runs of runes.                                            *)

SourceInv ==
  /\ input \in Seq(STRING) /\ input # << >>
  /\ \A p \in 1 .. Len(input) : input[p] # RUNE_EOF

(* A set of natural numbers has a least element.                           *)
LEMMA Least ==
  ASSUME NEW T \in SUBSET Nat, T # {}
  PROVE  Min(T) \in T /\ \A y \in T : Min(T) <= y
<1>1. IsWellFoundedOn(OpToRel(<, Nat), Nat)
  BY NatLessThanWellFounded
<1>2. PICK x \in T : \A y \in T : <<y, x>> \notin OpToRel(<, Nat)
  BY <1>1, WFMin
<1>3. \A y \in T : ~(y < x)
  BY <1>2 DEF OpToRel
<1>4. \A y \in T : y \in Nat /\ x \in Nat
  OBVIOUS
<1>5. \A y \in T : x <= y
  BY <1>3, <1>4
<1> QED  BY <1>5 DEF Min

(* The end of the source is the one position with no rune.                 *)
LEMMA EndFacts ==
  ASSUME SourceInv
  PROVE  /\ End \in Nat /\ End >= 2 /\ Len(input) = End - 1
         /\ \A p \in Nat \ {0} : At(p) = RUNE_EOF <=> p >= End
         /\ \A p \in Nat \ {0} : p < End => At(p) = input[p]
<1>1. Len(input) \in Nat /\ Len(input) # 0
  BY EmptySeq, LenProperties DEF SourceInv
<1> QED  BY <1>1 DEF End, At, SourceInv

(* A run of runes ends at the first one that does not belong to it.        *)
LEMMA SkipFacts ==
  ASSUME SourceInv, NEW p \in 1 .. End, NEW runes, RUNE_EOF \notin runes
  PROVE  /\ SkipWhile(p, runes) \in p .. End
         /\ At(SkipWhile(p, runes)) \notin runes
         /\ \A q \in p .. SkipWhile(p, runes) - 1 : At(q) \in runes
<1> DEFINE T == {q \in p .. End : At(q) \notin runes}
<1>1. End \in Nat /\ At(End) = RUNE_EOF
  BY EndFacts
<1>2. T \in SUBSET Nat /\ End \in T
  BY <1>1
<1>3. Min(T) \in T /\ \A y \in T : Min(T) <= y
  BY <1>2, Least
<1>4. SkipWhile(p, runes) = Min(T)
  BY DEF SkipWhile
<1> HIDE DEF T
<1>5. PICK m : m = Min(T)
  OBVIOUS
<1>6. m \in p .. End /\ At(m) \notin runes /\ \A y \in T : m <= y
  BY <1>3, <1>5 DEF T
<1>7. \A q \in p .. m - 1 : At(q) \in runes
  <2> SUFFICES ASSUME NEW q \in p .. m - 1, At(q) \notin runes  PROVE FALSE
    OBVIOUS
  <2>1. q \in p .. End /\ ~(m <= q)
    BY <1>1, <1>6
  <2> QED  BY <2>1, <1>6 DEF T
<1> QED  BY <1>4, <1>5, <1>6, <1>7

(* A search ends at the first rune it looks for, or at the end.            *)
LEMMA UntilFacts ==
  ASSUME SourceInv, NEW p \in 1 .. End, NEW rune
  PROVE  /\ SkipUntil(p, rune) \in p .. End
         /\ At(SkipUntil(p, rune)) \in {rune, RUNE_EOF}
         /\ \A q \in p .. SkipUntil(p, rune) - 1 : At(q) # rune
<1> DEFINE T == {q \in p .. End : At(q) \in {rune, RUNE_EOF}}
<1>1. End \in Nat /\ At(End) = RUNE_EOF
  BY EndFacts
<1>2. T \in SUBSET Nat /\ End \in T
  BY <1>1
<1>3. Min(T) \in T /\ \A y \in T : Min(T) <= y
  BY <1>2, Least
<1>4. SkipUntil(p, rune) = Min(T)
  BY DEF SkipUntil
<1> HIDE DEF T
<1>5. PICK m : m = Min(T)
  OBVIOUS
<1>6. m \in p .. End /\ At(m) \in {rune, RUNE_EOF} /\ \A y \in T : m <= y
  BY <1>3, <1>5 DEF T
<1>7. \A q \in p .. m - 1 : At(q) # rune
  <2> SUFFICES ASSUME NEW q \in p .. m - 1, At(q) = rune  PROVE FALSE
    OBVIOUS
  <2>1. q \in p .. End /\ ~(m <= q)
    BY <1>1, <1>6
  <2> QED  BY <2>1, <1>6 DEF T
<1> QED  BY <1>4, <1>5, <1>6, <1>7

(* The runes of a token are those of its positions.                        *)
LEMMA RunesFacts ==
  ASSUME SourceInv, NEW p \in 1 .. End, NEW q \in p .. End
  PROVE  /\ Runes(p, q) \in Seq(STRING) /\ Len(Runes(p, q)) = q - p
         /\ \A i \in 1 .. q - p : Runes(p, q)[i] = At(p + i - 1)
<1>1. End \in Nat /\ Len(input) = End - 1 /\ \A r \in Nat \ {0} : r < End => At(r) = input[r]
  BY EndFacts
<1>2. p \in Int /\ q - 1 \in Int /\ \A i \in p .. q - 1 : i \in 1 .. Len(input)
  BY <1>1
<1>3. \A i \in p .. q - 1 : input[i] \in STRING
  BY <1>2, ElementOfSeq DEF SourceInv
<1>4. /\ SubSeq(input, p, q - 1) \in Seq(STRING)
      /\ Len(SubSeq(input, p, q - 1)) = IF p <= q - 1 THEN q - 1 - p + 1 ELSE 0
      /\ \A i \in 1 .. q - 1 - p + 1 : SubSeq(input, p, q - 1)[i] = input[p + i - 1]
  BY <1>2, <1>3, SubSeqProperties
<1>5. Len(SubSeq(input, p, q - 1)) = q - p
  BY <1>1, <1>4
<1>6. \A i \in 1 .. q - p : SubSeq(input, p, q - 1)[i] = At(p + i - 1)
  <2> TAKE i \in 1 .. q - p
  <2>1. i \in 1 .. q - 1 - p + 1 /\ p + i - 1 \in Nat \ {0} /\ p + i - 1 < End
    BY <1>1
  <2> QED  BY <2>1, <1>1, <1>4
<1> QED  BY <1>4, <1>5, <1>6 DEF Runes

-----------------------------------------------------------------------------
(* Numbers.                                                                *)

(* No digit is a period, or the end of the file.                           *)
LEMMA DigitsFacts ==
  /\ \A i \in 1 .. 16 : Digits[i] # RUNE_EOF /\ Digits[i] # "."
  /\ \A i \in 1 .. 10 : Digits[i] \in Digit
  /\ RUNE_EOF \notin Digit /\ "." \notin Digit /\ RUNE_EOF \notin Letter
<1>1. Digits \in [1 .. 16 -> {"0", "1", "2", "3", "4", "5", "6", "7", "8", "9", "a", "b", "c", "d", "e", "f"}]
  BY DEF Digits
<1>2. \A i \in 1 .. 16 : Digits[i] # RUNE_EOF /\ Digits[i] # "."
  BY <1>1 DEF RUNE_EOF
<1>3. \A i \in 1 .. 10 : i \in 1 .. 16
  OBVIOUS
<1>4. RUNE_EOF \notin Letter
  BY DEF RUNE_EOF, Letter
<1> QED  BY <1>2, <1>3, <1>4 DEF Digit

(* The digits of a number are none of them periods.                        *)
LEMMA ScanFacts ==
  ASSUME SourceInv, NEW p \in 1 .. End, NEW base \in 1 .. 16
  PROVE  /\ Scan(p, base) \in p .. End
         /\ \A q \in p .. Scan(p, base) - 1 : At(q) # "."
         /\ base >= 10 /\ At(p) \in Digit => Scan(p, base) > p
<1> DEFINE digits == {Digits[i] : i \in 1 .. base} \cup (IF base > 14 THEN {"E"} ELSE {})
<1>1. \A i \in 1 .. base : i \in 1 .. 16
  OBVIOUS
<1>2. RUNE_EOF \notin digits \cup {"_"} /\ "." \notin digits \cup {"_"}
  BY <1>1, DigitsFacts DEF RUNE_EOF
<1>3. base >= 10 => Digit \subseteq digits
  BY DEF Digit
<1>4. Scan(p, base) = SkipWhile(p, digits \cup {"_"})
  BY DEF Scan
<1> HIDE DEF digits
<1>5. PICK stop : stop = SkipWhile(p, digits \cup {"_"})
  OBVIOUS
<1>6. stop \in p .. End /\ At(stop) \notin digits \cup {"_"} /\ \A r \in p .. stop - 1 : At(r) \in digits \cup {"_"}
  BY <1>2, <1>5, SkipFacts
<1>7. base >= 10 /\ At(p) \in Digit => stop # p
  BY <1>3, <1>6
<1>8. End \in Nat
  BY EndFacts
<1>9. stop \in p .. End
  BY <1>6
<1>10. stop \in Int /\ p \in Int
  BY <1>8, <1>9
<1>11. \A r \in p .. stop - 1 : At(r) # "."
  BY <1>2, <1>6
<1>12. base >= 10 /\ At(p) \in Digit => stop > p
  BY <1>7, <1>10, <1>9
<1> QED  BY <1>4, <1>5, <1>11, <1>12, <1>9

(* The bases that a number is written in.                                  *)
LEMMA BaseFacts ==
  /\ RUNE_EOF \notin DOMAIN Base /\ "." \notin DOMAIN Base
  /\ \A r \in DOMAIN Base : Base[r] \in 1 .. 16
BY DEF Base, RUNE_EOF

(* The whole part of a number has a rune and no period in it.              *)
LEMMA WholeFacts ==
  ASSUME SourceInv, NEW p \in 1 .. End, At(p) \in Digit
  PROVE  /\ Whole(p) \in p + 1 .. End
         /\ \A q \in p .. Whole(p) - 1 : At(q) # "."
<1>0. End \in Nat /\ p < End /\ \A r \in Nat \ {0} : At(r) = RUNE_EOF <=> r >= End
  BY EndFacts, DigitsFacts
<1>1. CASE At(p) = "0" /\ At(p + 1) \in DOMAIN Base
  <2> DEFINE a == Scan(p + 2, Base[At(p + 1)])
  <2>1. Whole(p) = Scan(a, 10)
    BY <1>1 DEF Whole
  <2>2. p + 2 \in 1 .. End /\ At(p + 1) # "." /\ At(p) # "."
    BY <1>0, <1>1, BaseFacts
  <2>3. Base[At(p + 1)] \in 1 .. 16
    BY <1>1, BaseFacts
  <2>4. a \in p + 2 .. End /\ \A q \in p + 2 .. a - 1 : At(q) # "."
    BY <2>2, <2>3, ScanFacts
  <2> HIDE DEF a
  <2>5. PICK b : b = Scan(a, 10)
    OBVIOUS
  <2>6. a \in 1 .. End /\ 10 \in 1 .. 16
    BY <2>2, <2>4
  <2>7. Scan(a, 10) \in a .. End /\ \A q \in a .. Scan(a, 10) - 1 : At(q) # "."
    BY <2>6, ScanFacts
  <2>8. b \in a .. End /\ \A q \in a .. b - 1 : At(q) # "."
    BY <2>5, <2>7
  <2>9. \A q \in p .. b - 1 : q = p \/ q = p + 1 \/ q \in p + 2 .. a - 1 \/ q \in a .. b - 1
    BY <1>0, <2>4, <2>8
  <2>10. \A q \in p .. b - 1 : At(q) # "."
    BY <2>2, <2>4, <2>8, <2>9
  <2>11. b \in p + 1 .. End
    BY <1>0, <2>4, <2>8
  <2> QED  BY <2>1, <2>5, <2>10, <2>11
<1>2. CASE ~(At(p) = "0" /\ At(p + 1) \in DOMAIN Base)
  <2>1. Whole(p) = Scan(p, 10)
    BY <1>2 DEF Whole
  <2>2. 10 \in 1 .. 16 /\ 10 >= 10
    OBVIOUS
  <2>3. /\ Scan(p, 10) \in p .. End
        /\ \A q \in p .. Scan(p, 10) - 1 : At(q) # "."
        /\ Scan(p, 10) > p
    BY <2>2, ScanFacts
  <2> QED  BY <1>0, <2>1, <2>3
<1> QED  BY <1>1, <1>2

(* A number has a rune at least, and a period ends it only when it is the  *)
(* fraction's and none follows.                                            *)
LEMMA NumericFacts ==
  ASSUME SourceInv, NEW p \in 1 .. End,
         At(p) \in Digit \/ (At(p) = "." /\ At(p + 1) \in Digit)
  PROVE  \E as \in {"INTEGER", "FLOAT", "IMAGINARY"}, q \in p + 1 .. End :
           /\ Numeric(p) = Token("LITERAL", as, p, q)
           /\ as # "IMAGINARY" => ~(At(q - 1) = "." /\ At(q) = ".")
<1> DEFINE range == At(p) # "." /\ At(Whole(p)) = "." /\ At(Whole(p) + 1) = "."
           whole == IF At(p) = "." THEN p ELSE Whole(p)
           fraction == IF At(whole) = "." THEN Scan(whole + 1, 10) ELSE whole
           sign == IF At(fraction + 1) \in {"+", "-"} THEN 2 ELSE 1
           exponent == IF At(fraction) \in {"e", "E"} THEN Scan(fraction + sign, 10) ELSE fraction
           unit == IF At(exponent) \in {"i", "j", "k"} THEN exponent + 1 ELSE exponent
           numeric == CASE range -> Token("LITERAL", "INTEGER", p, whole)
                        [] ~range /\ unit # exponent -> Token("LITERAL", "IMAGINARY", p, unit)
                        [] ~range /\ unit = exponent /\ exponent # whole -> Token("LITERAL", "FLOAT", p, unit)
                        [] OTHER -> Token("LITERAL", "INTEGER", p, unit)
<1>0. Numeric(p) = numeric
  BY DEF Numeric
<1>1. End \in Nat /\ \A r \in Nat \ {0} : At(r) = RUNE_EOF <=> r >= End
  BY EndFacts
<1>2. \A r \in Nat \ {0} : At(r) \in Digit \cup {".", "e", "E", "+", "-", "i", "j", "k"} => r < End
  <2>1. RUNE_EOF \notin Digit \cup {".", "e", "E", "+", "-", "i", "j", "k"}
    BY DigitsFacts DEF RUNE_EOF
  <2> QED  BY <1>1, <2>1
<1>3. 10 \in 1 .. 16 /\ 10 >= 10
  OBVIOUS
<1>4. /\ At(p) # "." => At(p) \in Digit
      /\ At(p) = "." => At(p + 1) \in Digit /\ At(p + 1) # "."
  BY DigitsFacts
<1>5. /\ whole \in p .. End
      /\ At(p) # "." => whole > p /\ At(whole - 1) # "."
      /\ At(p) = "." => whole = p
      /\ At(p) # "." => whole = Whole(p)
  <2>1. CASE At(p) = "."
    BY <2>1, <1>1
  <2>2. CASE At(p) # "."
    <3>1. Whole(p) \in p + 1 .. End /\ \A q \in p .. Whole(p) - 1 : At(q) # "."
      BY <2>2, <1>4, WholeFacts
    <3>2. Whole(p) - 1 \in p .. Whole(p) - 1 /\ Whole(p) \in p .. End /\ Whole(p) > p
      BY <1>1, <3>1
    <3> QED  BY <2>2, <3>1, <3>2
  <2> QED  BY <2>1, <2>2
<1> HIDE DEF whole
<1>6. /\ fraction \in p .. End /\ fraction > p
      /\ fraction >= whole
      /\ ~range => ~(At(fraction - 1) = "." /\ At(fraction) = ".")
      /\ fraction = whole => At(whole) # "."
  <2>1. CASE At(whole) # "."
    <3>1. fraction = whole /\ At(p) # "."
      BY <2>1, <1>5
    <3> QED  BY <1>1, <1>5, <2>1, <3>1
  <2>2. CASE At(whole) = "."
    <3>1. whole + 1 \in 1 .. End
      BY <1>1, <1>2, <1>5, <2>2
    <3>2. /\ Scan(whole + 1, 10) \in whole + 1 .. End
          /\ \A q \in whole + 1 .. Scan(whole + 1, 10) - 1 : At(q) # "."
      BY <1>3, <3>1, ScanFacts
    <3>3. PICK f : f = Scan(whole + 1, 10)
      OBVIOUS
    <3>4. fraction = f
      BY <2>2, <3>3
    <3>5. f \in whole + 1 .. End /\ \A q \in whole + 1 .. f - 1 : At(q) # "."
      BY <3>2, <3>3
    <3>6. f > whole + 1 => f - 1 \in whole + 1 .. f - 1
      BY <3>5, <1>5
    <3>7. f = whole + 1 /\ ~range => At(f) # "."
      BY <1>4, <1>5, <2>2
    <3>8. f \in p .. End /\ f > p /\ f >= whole /\ f # whole /\ (f > whole + 1 \/ f = whole + 1)
      BY <1>1, <1>5, <3>5
    <3> QED  BY <3>4, <3>5, <3>6, <3>7, <3>8
  <2> QED  BY <2>1, <2>2
<1> HIDE DEF fraction
<1>7. /\ exponent \in p .. End /\ exponent > p
      /\ exponent >= fraction
      /\ ~range => ~(At(exponent - 1) = "." /\ At(exponent) = ".")
  <2>1. CASE At(fraction) \notin {"e", "E"}
    BY <2>1, <1>6
  <2>2. CASE At(fraction) \in {"e", "E"}
    <3>1. fraction < End /\ fraction \in Nat \ {0}
      BY <1>1, <1>2, <1>6, <2>2
    <3>2. sign \in {1, 2} /\ (sign = 2 => fraction + 1 < End /\ At(fraction + 1) \in {"+", "-"})
      BY <1>2, <3>1
    <3> HIDE DEF sign
    <3>3. fraction + sign \in 1 .. End
      BY <1>1, <3>1, <3>2
    <3>4. /\ Scan(fraction + sign, 10) \in fraction + sign .. End
          /\ \A q \in fraction + sign .. Scan(fraction + sign, 10) - 1 : At(q) # "."
      BY <1>3, <3>3, ScanFacts
    <3>5. PICK e : e = Scan(fraction + sign, 10)
      OBVIOUS
    <3>6. e \in fraction + sign .. End /\ \A q \in fraction + sign .. e - 1 : At(q) # "."
      BY <3>4, <3>5
    <3>7. e - 1 = fraction \/ (sign = 2 /\ e - 1 = fraction + 1) \/ e - 1 \in fraction + sign .. e - 1
      BY <3>1, <3>2, <3>6
    <3>8. At(e - 1) # "."
      BY <2>2, <3>2, <3>6, <3>7
    <3>9. exponent = e
      BY <2>2, <3>5
    <3>10. e \in p .. End /\ e > p /\ e >= fraction
      BY <1>1, <1>6, <3>1, <3>2, <3>6
    <3> QED  BY <3>8, <3>9, <3>10
  <2> QED  BY <2>1, <2>2
<1> HIDE DEF exponent
<1>8. unit \in p + 1 .. End /\ (unit # exponent => unit = exponent + 1)
  BY <1>1, <1>2, <1>7
<1> HIDE DEF unit
<1>9. CASE range
  <2>1. Numeric(p) = Token("LITERAL", "INTEGER", p, whole)
    BY <1>0, <1>9
  <2>2. whole \in p + 1 .. End /\ At(whole - 1) # "."
    BY <1>1, <1>5, <1>9
  <2> QED  BY <2>1, <2>2
<1>10. CASE ~range /\ unit # exponent
  <2>1. Numeric(p) = Token("LITERAL", "IMAGINARY", p, unit)
    BY <1>0, <1>10
  <2> QED  BY <2>1, <1>8
<1>11. CASE ~range /\ unit = exponent
  <2>1. \/ Numeric(p) = Token("LITERAL", "FLOAT", p, unit)
        \/ Numeric(p) = Token("LITERAL", "INTEGER", p, unit)
    BY <1>0, <1>11
  <2> QED  BY <2>1, <1>7, <1>8, <1>11
<1> QED  BY <1>9, <1>10, <1>11

-----------------------------------------------------------------------------
(* Literals in quotes and block comments, which the model finds the end of *)
(* by recursion over the positions.                                        *)

(* f is what jump makes it while it jumps to a point of a higher rank, and *)
(* what base makes it elsewhere.                                           *)
Follows(f, S, rank, jump, base) ==
  \A x \in S : f[x] = IF jump[x] \in S /\ rank[x] < rank[jump[x]] THEN f[jump[x]] ELSE base[x]

(* There is such a function.                                               *)
LEMMA RecursionExists ==
  ASSUME NEW S, NEW n \in Nat, NEW rank \in [S -> 0 .. n], NEW jump, NEW base
  PROVE  \E f : Follows(f, S, rank, jump, base)
<1> DEFINE on(x) == jump[x] \in S /\ rank[x] < rank[jump[x]]
           Fits(f, k) == \A x \in S : rank[x] >= k => f[x] = IF on(x) THEN f[jump[x]] ELSE base[x]
           T == {k \in 0 .. n + 1 : \E f : Fits(f, k)}
<1>1. \A x \in S : rank[x] \in 0 .. n
  OBVIOUS
<1>2. n + 1 \in T
  <2>1. \A x \in S : ~(rank[x] >= n + 1)
    BY <1>1
  <2>2. \A f : Fits(f, n + 1)
    BY <2>1
  <2> QED  BY <2>2
<1>3. T \in SUBSET Nat
  OBVIOUS
<1>4. Min(T) \in T /\ \A y \in T : Min(T) <= y
  BY <1>2, <1>3, Least
<1>5. PICK k : k = Min(T)
  OBVIOUS
<1>6. k \in 0 .. n + 1 /\ (\E f : Fits(f, k)) /\ \A y \in T : k <= y
  BY <1>4, <1>5
<1>7. PICK f : Fits(f, k)
  BY <1>6
<1>8. k = 0
  <2> SUFFICES ASSUME k # 0  PROVE FALSE
    OBVIOUS
  <2>1. k - 1 \in 0 .. n + 1 /\ ~(k <= k - 1)
    BY <1>6
  <2> DEFINE g == [x \in S |-> IF rank[x] >= k THEN f[x] ELSE IF on(x) THEN f[jump[x]] ELSE base[x]]
  <2>2. \A x \in S : rank[x] >= k => g[x] = f[x]
    OBVIOUS
  <2>3. \A x \in S : rank[x] >= k - 1 /\ on(x) => rank[jump[x]] >= k
    BY <1>1, <1>6
  <2>4. \A x \in S : rank[x] >= k - 1 /\ on(x) => g[jump[x]] = f[jump[x]]
    BY <2>2, <2>3
  <2>5. \A x \in S : g[x] = IF on(x) THEN f[jump[x]] ELSE base[x]
    BY <1>7
  <2> HIDE DEF g
  <2>6. ASSUME NEW x \in S, rank[x] >= k - 1  PROVE g[x] = IF on(x) THEN g[jump[x]] ELSE base[x]
    BY <2>4, <2>5, <2>6
  <2>7. Fits(g, k - 1)
    BY <2>6
  <2>8. k - 1 \in T
    BY <2>1, <2>7
  <2> QED  BY <1>6, <2>1, <2>8
<1>9. \A x \in S : f[x] = IF on(x) THEN f[jump[x]] ELSE base[x]
  BY <1>1, <1>7, <1>8
<1> QED  BY <1>9 DEF Follows

(* Where it stops it gives 0 or a value of the point's rank at least, so   *)
(* that it does everywhere.                                                *)
LEMMA RecursionBound ==
  ASSUME NEW S, NEW n \in Nat, NEW rank \in [S -> 0 .. n], NEW jump, NEW base, NEW f,
         Follows(f, S, rank, jump, base),
         \A x \in S : base[x] = 0 \/ base[x] \in rank[x] .. n
  PROVE  \A x \in S : f[x] = 0 \/ f[x] \in rank[x] .. n
<1> DEFINE good(x) == f[x] = 0 \/ f[x] \in rank[x] .. n
           T == {k \in 0 .. n : \E x \in S : ~good(x) /\ rank[x] = n - k}
<1> SUFFICES ASSUME NEW x \in S, ~good(x)  PROVE FALSE
  OBVIOUS
<1>1. \A y \in S : rank[y] \in 0 .. n
  OBVIOUS
<1>2. n - rank[x] \in T
  BY <1>1
<1>3. T \in SUBSET Nat
  OBVIOUS
<1>4. Min(T) \in T /\ \A y \in T : Min(T) <= y
  BY <1>2, <1>3, Least
<1>5. PICK k : k = Min(T)
  OBVIOUS
<1>6. k \in 0 .. n /\ (\E y \in S : ~good(y) /\ rank[y] = n - k) /\ \A y \in T : k <= y
  BY <1>4, <1>5
<1>7. PICK y \in S : ~good(y) /\ rank[y] = n - k
  BY <1>6
<1>8. CASE jump[y] \in S /\ rank[y] < rank[jump[y]]
  <2>1. f[y] = f[jump[y]]
    BY <1>8 DEF Follows
  <2>2. n - rank[jump[y]] \in 0 .. n /\ ~(k <= n - rank[jump[y]]) /\ rank[jump[y]] = n - (n - rank[jump[y]])
    BY <1>1, <1>6, <1>7, <1>8
  <2>3. good(jump[y])
    BY <1>6, <1>8, <2>2
  <2>4. rank[y] \in 0 .. n /\ rank[jump[y]] \in 0 .. n
    BY <1>1, <1>8
  <2>5. f[y] = 0 \/ f[y] \in rank[jump[y]] .. n
    BY <2>1, <2>3
  <2> HIDE DEF good
  <2>6. f[y] = 0 \/ f[y] \in rank[y] .. n
    BY <1>8, <2>4, <2>5
  <2> QED  BY <1>7, <2>6 DEF good
<1>9. CASE ~(jump[y] \in S /\ rank[y] < rank[jump[y]])
  <2>1. f[y] = base[y]
    BY <1>9 DEF Follows
  <2> QED  BY <1>7, <2>1
<1> QED  BY <1>8, <1>9

(* Advancing gets ahead, not beyond the end.                               *)
LEMMA AdvanceFacts ==
  ASSUME SourceInv, NEW p \in 1 .. End, NEW n \in Nat \ {0}, p < End
  PROVE  Advance(p, n) \in p + 1 .. End
<1>1. End \in Nat
  BY EndFacts
<1>2. {p + n, End} \in SUBSET Nat /\ {p + n, End} # {}
  BY <1>1
<1>3. Min({p + n, End}) \in {p + n, End} /\ \A y \in {p + n, End} : Min({p + n, End}) <= y
  BY <1>2, Least
<1>4. PICK m : m = Min({p + n, End})
  OBVIOUS
<1>5. m \in {p + n, End} /\ m <= End
  BY <1>3, <1>4
<1>6. m \in p + 1 .. End
  BY <1>1, <1>5
<1> QED  BY <1>4, <1>6 DEF Advance

(* An escape is followed by a rune at least.                               *)
LEMMA EscapeFacts ==
  /\ RUNE_EOF \notin DOMAIN Escape
  /\ \A r \in DOMAIN Escape : Escape[r] \in Nat \ {0}
<1>1. RUNE_EOF \notin DOMAIN Escape
  BY DigitsFacts DEF Escape, RUNE_EOF
<1>2. ASSUME NEW r \in DOMAIN Escape  PROVE Escape[r] \in {1, 3, 5, 9}
  <2>1. Escape[r] = CASE r \in Digit \cup {"x"} -> 3
                      [] r = "u" -> 5
                      [] r = "U" -> 9
                      [] OTHER -> 1
    BY <1>2 DEF Escape
  <2>2. CASE r \in Digit \cup {"x"}
    BY <2>1, <2>2
  <2>3. CASE r \notin Digit \cup {"x"}
    BY <2>1, <2>3
  <2> QED  BY <2>2, <2>3
<1> QED  BY <1>1, <1>2

(* A literal in quotes ends after the position it is looked for from.      *)
LEMMA ClosingFacts ==
  ASSUME SourceInv, NEW quote \in Quote, NEW p \in 1 .. End
  PROVE  Closing(quote, p) = 0 \/ Closing(quote, p) \in p .. End
<1> DEFINE S == 1 .. End
           rank == [q \in S |-> q]
           escape(q) == IF At(q + 1) \in DOMAIN Escape THEN Advance(q + 1, Escape[At(q + 1)]) ELSE 0
           jump == [q \in S |-> IF At(q) \in {Newline, RUNE_EOF, quote} THEN 0
                                ELSE IF At(q) = "\\" /\ quote # Grave THEN escape(q) ELSE q + 1]
           base == [q \in S |-> IF At(q) = quote THEN q + 1 ELSE 0]
           arms(f, q) == CASE At(q) \in {Newline, RUNE_EOF} -> 0
                           [] At(q) = quote -> q + 1
                           [] At(q) = "\\" /\ quote # Grave ->
                                IF At(q + 1) \in DOMAIN Escape
                                THEN f[Advance(q + 1, Escape[At(q + 1)])] ELSE 0
                           [] OTHER -> f[q + 1]
           step(f, q) == IF jump[q] \in S /\ rank[q] < rank[jump[q]] THEN f[jump[q]] ELSE base[q]
<1>1. End \in Nat /\ End >= 2 /\ \A r \in Nat \ {0} : At(r) = RUNE_EOF <=> r >= End
  BY EndFacts
<1>2. quote # Newline /\ quote # RUNE_EOF /\ quote # "\\" /\ Newline # RUNE_EOF /\ Newline # "\\" /\ RUNE_EOF # "\\"
  BY DEF Newline, RUNE_EOF, Grave, Quote
<1>3. ASSUME NEW f, NEW q \in S  PROVE arms(f, q) = step(f, q)
  <2>1. CASE At(q) \in {Newline, RUNE_EOF}
    <3>1. arms(f, q) = 0
      BY <2>1, <1>2
    <3>2. jump[q] = 0 /\ base[q] = 0
      BY <2>1, <1>2
    <3>3. jump[q] \notin S
      BY <3>2
    <3> QED  BY <3>1, <3>2, <3>3
  <2>2. CASE At(q) = quote
    <3>1. arms(f, q) = q + 1
      BY <2>2, <1>2
    <3>2. jump[q] = 0 /\ base[q] = q + 1
      BY <2>2, <1>2
    <3>3. jump[q] \notin S
      BY <3>2
    <3> QED  BY <3>1, <3>2, <3>3
  <2>3. CASE At(q) \notin {Newline, RUNE_EOF, quote} /\ At(q) = "\\" /\ quote # Grave
    <3>1. arms(f, q) = IF At(q + 1) \in DOMAIN Escape
                       THEN f[Advance(q + 1, Escape[At(q + 1)])] ELSE 0
      BY <2>3, <1>2
    <3>2. jump[q] = escape(q) /\ base[q] = 0
      BY <2>3, <1>2
    <3>3. CASE At(q + 1) \notin DOMAIN Escape
      BY <3>1, <3>2, <3>3
    <3>4. CASE At(q + 1) \in DOMAIN Escape
      <4>1. q + 1 \in 1 .. End /\ q + 1 < End /\ Escape[At(q + 1)] \in Nat \ {0}
        BY <1>1, <3>4, EscapeFacts
      <4>2. Advance(q + 1, Escape[At(q + 1)]) \in q + 1 + 1 .. End
        BY <4>1, AdvanceFacts
      <4>3. PICK r : r = Advance(q + 1, Escape[At(q + 1)])
        OBVIOUS
      <4>4. jump[q] = r /\ arms(f, q) = f[r]
        BY <3>1, <3>2, <3>4, <4>3
      <4>5. r \in S /\ q < r
        BY <1>1, <4>1, <4>2, <4>3
      <4> HIDE DEF jump, base, arms
      <4> QED  BY <4>4, <4>5
    <3> QED  BY <3>3, <3>4
  <2>4. CASE At(q) \notin {Newline, RUNE_EOF, quote} /\ ~(At(q) = "\\" /\ quote # Grave)
    <3>1. arms(f, q) = f[q + 1]
      BY <2>4, <1>2
    <3>2. jump[q] = q + 1
      BY <2>4
    <3>3. q + 1 \in S /\ q < q + 1
      BY <1>1, <2>4
    <3> HIDE DEF jump, base, arms
    <3> QED  BY <3>1, <3>2, <3>3
  <2> QED  BY <2>1, <2>2, <2>3, <2>4
<1>4. rank \in [S -> 0 .. End]
  BY <1>1
<1>5. \A q \in S : base[q] = 0 \/ base[q] \in rank[q] .. End
  BY <1>1, <1>2
<1>6. End \in Nat
  BY <1>1
<1> HIDE DEF S, rank, jump, base, arms
<1>7. \E f : Follows(f, S, rank, jump, base)
  BY <1>6, <1>4, RecursionExists
<1>8. PICK f : \A q \in S : f[q] = step(f, q)
  BY <1>7 DEF Follows
<1> DEFINE g == [q \in S |-> f[q]]
<1>9. g = [q \in S |-> g[q]] /\ \A q \in S : g[q] = step(g, q)
  BY <1>8
<1> HIDE DEF g
<1>10. \A q \in S : g[q] = arms(g, q)
  BY <1>3, <1>9
<1>11. g = [q \in S |-> arms(g, q)]
  BY <1>9, <1>10
<1> DEFINE close == CHOOSE h : h = [q \in S |-> arms(h, q)]
<1>12. close = [q \in S |-> arms(close, q)]
  BY <1>11
<1>13. Closing(quote, p) = close[p]
  BY DEF Closing, arms, S
<1> HIDE DEF close
<1>14. \A q \in S : close[q] = step(close, q)
  BY <1>3, <1>12
<1>15. Follows(close, S, rank, jump, base)
  BY <1>14 DEF Follows
<1>16. \A q \in S : close[q] = 0 \/ close[q] \in rank[q] .. End
  BY <1>6, <1>4, <1>5, <1>15, RecursionBound
<1>17. close[p] = 0 \/ close[p] \in p .. End
  BY <1>16 DEF rank, S
<1> QED  BY <1>13, <1>17

(* A literal in quotes ends after it begins.                               *)
LEMMA QuotedFacts ==
  ASSUME SourceInv, NEW p \in 1 .. End, At(p) \in Quote
  PROVE  \/ Quoted(p) = Error(p)
         \/ \E as \in {"RUNE", "STRING"}, q \in p + 1 .. End : Quoted(p) = Token("LITERAL", as, p, q)
<1>0. RUNE_EOF \notin Quote
  BY DEF RUNE_EOF, Quote, Grave
<1>1. End \in Nat /\ p < End
  BY <1>0, EndFacts
<1>2. p + 1 \in 1 .. End
  BY <1>1
<1>3. PICK q : q = Closing(At(p), p + 1)
  OBVIOUS
<1>4. q = 0 \/ q \in p + 1 .. End
  BY <1>2, <1>3, ClosingFacts
<1> QED  BY <1>3, <1>4 DEF Quoted

(* A block comment ends after the position it is looked for from.          *)
LEMMA CommentEndFacts ==
  ASSUME SourceInv, NEW p \in 1 .. End
  PROVE  CommentEnd(p) = 0 \/ CommentEnd(p) \in p .. End
<1> DEFINE S == (1 .. End) \X Nat
           opens(x) == x[2] > 0 /\ At(x[1]) = "/" /\ At(x[1] + 1) = "*"
           closes(x) == x[2] > 0 /\ At(x[1]) = "*" /\ At(x[1] + 1) = "/"
           rank == [x \in S |-> x[1]]
           jump == [x \in S |-> IF x[2] = 0 \/ At(x[1]) = RUNE_EOF THEN <<0, 0>>
                                ELSE IF opens(x) THEN <<x[1] + 2, x[2] + 1>>
                                ELSE IF closes(x) THEN <<x[1] + 2, x[2] - 1>> ELSE <<x[1] + 1, x[2]>>]
           base == [x \in S |-> IF x[2] = 0 THEN x[1] ELSE 0]
           arms(f, at) ==
             CASE at[2] = 0 -> at[1]
               [] at[2] > 0 /\ At(at[1]) = RUNE_EOF -> 0
               [] at[2] > 0 /\ At(at[1]) = "/" /\ At(at[1] + 1) = "*" -> f[<<at[1] + 2, at[2] + 1>>]
               [] at[2] > 0 /\ At(at[1]) = "*" /\ At(at[1] + 1) = "/" -> f[<<at[1] + 2, at[2] - 1>>]
               [] OTHER -> f[<<at[1] + 1, at[2]>>]
           step(f, x) == IF jump[x] \in S /\ rank[x] < rank[jump[x]] THEN f[jump[x]] ELSE base[x]
<1>0. End \in Nat
  BY EndFacts
<1>1. End >= 2 /\ \A r \in Nat \ {0} : At(r) = RUNE_EOF <=> r >= End
  BY EndFacts
<1>2. RUNE_EOF # "/" /\ RUNE_EOF # "*"
  BY DEF RUNE_EOF
<1>3. ASSUME NEW f, NEW q \in 1 .. End, NEW depth \in Nat
      PROVE  arms(f, <<q, depth>>) = step(f, <<q, depth>>)
  <2> DEFINE x == <<q, depth>>
  <2>0. x \in S /\ x[1] = q /\ x[2] = depth /\ rank[x] = q
    OBVIOUS
  <2>1. CASE depth = 0
    <3>1. arms(f, x) = q
      BY <2>1
    <3>2. jump[x] = <<0, 0>> /\ base[x] = q
      BY <2>0, <2>1
    <3>3. <<0, 0>> \notin S
      OBVIOUS
    <3> HIDE DEF jump, base, arms, S, x
    <3> QED  BY <3>1, <3>2, <3>3 DEF x
  <2>2. CASE depth > 0 /\ At(q) = RUNE_EOF
    <3>1. arms(f, x) = 0
      BY <2>2, <1>2
    <3>2. jump[x] = <<0, 0>> /\ base[x] = 0
      BY <2>0, <2>2
    <3>3. <<0, 0>> \notin S
      OBVIOUS
    <3> HIDE DEF jump, base, arms, S, x
    <3> QED  BY <3>1, <3>2, <3>3 DEF x
  <2>3. ASSUME depth > 0, At(q) # RUNE_EOF, NEW k \in 1 .. 2, NEW d \in Nat, q + k \in 1 .. End,
               arms(f, x) = f[<<q + k, d>>], jump[x] = <<q + k, d>>
        PROVE  arms(f, <<q, depth>>) = step(f, <<q, depth>>)
    <3>1. jump[x] \in S /\ rank[jump[x]] = q + k
      BY <2>3
    <3>2. rank[x] < rank[jump[x]]
      BY <2>0, <3>1
    <3> HIDE DEF jump, base, arms, S, rank
    <3> QED  BY <2>3, <3>1, <3>2
  <2>4. CASE depth > 0 /\ At(q) # RUNE_EOF
    <3>1. q < End
      BY <1>0, <1>1, <2>4
    <3>2. CASE At(q) = "/" /\ At(q + 1) = "*"
      <4>1. q + 2 \in 1 .. End /\ depth + 1 \in Nat
        BY <1>0, <1>1, <1>2, <3>1, <3>2
      <4>2. arms(f, x) = f[<<q + 2, depth + 1>>]
        BY <2>4, <3>2
      <4>3. jump[x] = <<q + 2, depth + 1>>
        BY <2>0, <2>4, <3>2
      <4> HIDE DEF jump, base, arms, S, rank, step
      <4> QED  BY <2>3, <2>4, <4>1, <4>2, <4>3
    <3>3. CASE At(q) = "*" /\ At(q + 1) = "/"
      <4>1. q + 2 \in 1 .. End /\ depth - 1 \in Nat
        BY <1>0, <1>1, <1>2, <2>4, <3>1, <3>3
      <4>2. arms(f, x) = f[<<q + 2, depth - 1>>]
        BY <2>4, <3>3
      <4>3. jump[x] = <<q + 2, depth - 1>>
        BY <2>0, <2>4, <3>3
      <4> HIDE DEF jump, base, arms, S, rank, step
      <4> QED  BY <2>3, <2>4, <4>1, <4>2, <4>3
    <3>4. CASE ~(At(q) = "/" /\ At(q + 1) = "*") /\ ~(At(q) = "*" /\ At(q + 1) = "/")
      <4>1. q + 1 \in 1 .. End
        BY <1>0, <3>1
      <4>2. arms(f, x) = f[<<q + 1, depth>>]
        BY <2>4, <3>4
      <4>3. jump[x] = <<q + 1, depth>>
        BY <2>0, <2>4, <3>4
      <4> HIDE DEF jump, base, arms, S, rank, step
      <4> QED  BY <2>3, <2>4, <4>1, <4>2, <4>3
    <3> QED  BY <3>2, <3>3, <3>4
  <2>5. depth = 0 \/ depth > 0
    OBVIOUS
  <2> QED  BY <2>1, <2>2, <2>4, <2>5
<1>4. rank \in [S -> 0 .. End]
  BY <1>0
<1>5. \A x \in S : base[x] = 0 \/ base[x] \in rank[x] .. End
  BY <1>0
<1> HIDE DEF rank, jump, base, arms
<1>6. \E f : Follows(f, S, rank, jump, base)
  BY <1>0, <1>4, RecursionExists
<1>7. PICK f : \A x \in S : f[x] = step(f, x)
  BY <1>6 DEF Follows
<1> DEFINE g == [x \in S |-> f[x]]
<1>8. g = [x \in S |-> g[x]] /\ \A x \in S : g[x] = step(g, x)
  BY <1>7
<1> HIDE DEF g
<1>9. ASSUME NEW h, NEW x \in S  PROVE arms(h, x) = step(h, x)
  <2>1. PICK q \in 1 .. End, depth \in Nat : x = <<q, depth>>
    OBVIOUS
  <2> QED  BY <1>3, <2>1
<1>10. g = [x \in S |-> arms(g, x)]
  BY <1>8, <1>9
<1> DEFINE end == CHOOSE h : h = [x \in S |-> arms(h, x)]
<1>11. end = [x \in S |-> arms(end, x)]
  BY <1>10
<1>12. CommentEnd(p) = end[<<p, 1>>]
  BY DEF CommentEnd, arms
<1> HIDE DEF end
<1>13. \A x \in S : end[x] = step(end, x)
  BY <1>9, <1>11
<1>14. Follows(end, S, rank, jump, base)
  BY <1>13 DEF Follows
<1> HIDE DEF S
<1>15. \A x \in S : end[x] = 0 \/ end[x] \in rank[x] .. End
  BY <1>0, <1>4, <1>5, <1>14, RecursionBound
<1>16. <<p, 1>> \in S /\ rank[<<p, 1>>] = p
  BY DEF S, rank
<1> QED  BY <1>12, <1>15, <1>16

-----------------------------------------------------------------------------
(* The switch on punctuation.                                              *)

CaseKind == {"LBRACE", "RBRACE", "SEMICOLON", "ATTRIBUTE", "CONST", "UNDEFINED",
             "OPERATOR", "ASSIGNMENT", "ERROR"}

IsText(s) == Len(s) \in 1 .. 3 /\ s[1] \notin Letter

CaseShape(c) ==
  /\ IsText(c[1])
  /\ c[2] \in CaseKind
  /\ c[2] = "SEMICOLON" => c[3] = Plain

(* The parts of a case.                                                    *)
LEMMA RowFacts ==
  \A s, kind, as :
    /\ Operator(s, as)[1] = s /\ Operator(s, as)[2] = "OPERATOR" /\ Operator(s, as)[3] = as
    /\ Assignment(s, as)[1] = s /\ Assignment(s, as)[2] = "ASSIGNMENT" /\ Assignment(s, as)[3] = as
    /\ Other(s, kind)[1] = s /\ Other(s, kind)[2] = kind /\ Other(s, kind)[3] = Plain
BY DEF Operator, Assignment, Other

(* What makes a case of each sort well shaped.                             *)
LEMMA RowShape ==
  /\ \A s, as : IsText(s) => CaseShape(Operator(s, as)) /\ CaseShape(Assignment(s, as))
  /\ \A s, kind : IsText(s) /\ kind \in CaseKind => CaseShape(Other(s, kind))
<1>1. "OPERATOR" \in CaseKind /\ "ASSIGNMENT" \in CaseKind
  BY DEF CaseKind
<1> QED  BY <1>1, RowFacts DEF CaseShape

(* Every case of the switch is.                                            *)
LEMMA SwitchShape == \A c \in Switch : CaseShape(c)
<1> DEFINE mark(r) == r \notin Letter
<1>1. \A a, b, c : mark(a) => IsText(<<a>>) /\ IsText(<<a, b>>) /\ IsText(<<a, b, c>>)
  BY DEF IsText
<1>2. /\ mark("{") /\ mark("}") /\ mark(";") /\ mark(",") /\ mark("@") /\ mark("$") /\ mark("?") /\ mark("^")
      /\ mark(":") /\ mark("(") /\ mark(")") /\ mark("[") /\ mark("]") /\ mark("%") /\ mark("*") /\ mark("=")
      /\ mark("~") /\ mark("!") /\ mark("+") /\ mark("-") /\ mark("/") /\ mark("<") /\ mark(">") /\ mark("&")
      /\ mark("|") /\ mark(".")
  BY Zenon DEF Letter
<1> HIDE DEF mark
<1>3. /\ "LBRACE" \in CaseKind /\ "RBRACE" \in CaseKind /\ "SEMICOLON" \in CaseKind /\ "ATTRIBUTE" \in CaseKind
      /\ "CONST" \in CaseKind /\ "UNDEFINED" \in CaseKind /\ "ERROR" \in CaseKind
  BY DEF CaseKind
<1>4. \A c \in Separators : CaseShape(c)
  BY <1>1, <1>2, <1>3, RowShape, Zenon DEF Separators
<1>5. \A c \in Marks : CaseShape(c)
  BY <1>1, <1>2, <1>3, RowShape, Zenon DEF Marks
<1>6. \A c \in Factors : CaseShape(c)
  BY <1>1, <1>2, <1>3, RowShape, Zenon DEF Factors
<1>7. \A c \in Equals : CaseShape(c)
  BY <1>1, <1>2, <1>3, RowShape, Zenon DEF Equals
<1>8. \A c \in Signs : CaseShape(c)
  BY <1>1, <1>2, <1>3, RowShape, Zenon DEF Signs
<1>9. \A c \in Slash : CaseShape(c)
  BY <1>1, <1>2, <1>3, RowShape, Zenon DEF Slash
<1>10. \A c \in Angles : CaseShape(c)
  BY <1>1, <1>2, <1>3, RowShape, Zenon DEF Angles
<1>11. \A c \in Logic : CaseShape(c)
  BY <1>1, <1>2, <1>3, RowShape, Zenon DEF Logic
<1>12. \A c \in Periods : CaseShape(c)
  BY <1>1, <1>2, <1>3, RowShape, Zenon DEF Periods
<1> QED  BY <1>4, <1>5, <1>6, <1>7, <1>8, <1>9, <1>10, <1>11, <1>12, Zenon DEF Switch

(* It takes the longest case that the input begins with.                   *)
LEMMA PunctuationFacts ==
  ASSUME SourceInv, NEW p \in 1 .. End
  PROVE  \/ Punctuation(p) = Error(p)
         \/ \E c \in Switch :
              /\ Begins(c[1], p) /\ p + Len(c[1]) \in p + 1 .. End
              /\ \A d \in Switch : Begins(d[1], p) => Len(d[1]) <= Len(c[1])
              /\ Punctuation(p) = Token(c[2], c[3], p, p + Len(c[1]))
<1>1. CASE Cases(p) = {}
  BY <1>1 DEF Punctuation
<1>2. CASE Cases(p) # {}
  <2>1. \A c \in Cases(p) : Len(c[1]) \in 1 .. 3
    BY SwitchShape DEF Cases, CaseShape, IsText
  <2>2. ASSUME NEW c \in Cases(p)  PROVE Len(c[1]) <= 3
    <3>1. PICK n : n = Len(c[1])
      OBVIOUS
    <3>2. n \in 1 .. 3
      BY <2>1, <3>1
    <3>3. n <= 3
      BY <3>2
    <3> QED  BY <3>1, <3>3
  <2>3. \E c \in Cases(p) : \A d \in Cases(p) : Len(d[1]) <= Len(c[1])
    <3>1. CASE \E c \in Cases(p) : Len(c[1]) = 3
      BY <2>1, <2>2, <3>1
    <3>2. CASE (\A c \in Cases(p) : Len(c[1]) # 3) /\ \E c \in Cases(p) : Len(c[1]) = 2
      <4>1. \A c \in Cases(p) : Len(c[1]) <= 2
        BY <2>1, <3>2
      <4> QED  BY <3>2, <4>1
    <3>3. CASE \A c \in Cases(p) : Len(c[1]) # 3 /\ Len(c[1]) # 2
      <4>1. \A c \in Cases(p) : Len(c[1]) = 1
        BY <2>1, <3>3
      <4>2. \A c, d \in Cases(p) : Len(d[1]) <= Len(c[1])
        BY <4>1
      <4> QED  BY <1>2, <4>2
    <3> QED  BY <3>1, <3>2, <3>3
  <2>4. PICK c : c = Longest(Cases(p))
    OBVIOUS
  <2>5. c \in Cases(p) /\ \A d \in Cases(p) : Len(d[1]) <= Len(c[1])
    BY <2>3, <2>4 DEF Longest
  <2>6. Punctuation(p) = Token(c[2], c[3], p, p + Len(c[1]))
    BY <1>2, <2>4 DEF Punctuation
  <2>7. c \in Switch /\ Begins(c[1], p) /\ \A d \in Switch : Begins(d[1], p) => Len(d[1]) <= Len(c[1])
    BY <2>5 DEF Cases
  <2>8. p + Len(c[1]) \in p + 1 .. End
    BY <2>1, <2>5, <2>7, EndFacts DEF Begins
  <2> QED  BY <2>6, <2>7, <2>8
<1> QED  BY <1>1, <1>2

-----------------------------------------------------------------------------
(* Words, directives and comments.                                         *)

(* A word ends after it begins.                                            *)
LEMMA WordFacts ==
  ASSUME SourceInv, NEW p \in 1 .. End, At(p) \in Letter
  PROVE  \E q \in p + 1 .. End :
           \/ Word(p) = Token("IDENTIFIER", Plain, p, q)
           \/ \E as : Word(p) = Token("KEYWORD", as, p, q)
           \/ \E s \in DOMAIN Named : Word(p) = Token("OPERATOR", Named[s], p, q)
<1>1. RUNE_EOF \notin Letter \cup Digit
  BY DigitsFacts
<1>2. PICK q : q = SkipWhile(p, Letter \cup Digit)
  OBVIOUS
<1>3. q \in p .. End /\ At(q) \notin Letter \cup Digit
  BY <1>1, <1>2, SkipFacts
<1>4. q \in p + 1 .. End
  <2>1. q # p /\ End \in Nat
    BY <1>3, EndFacts
  <2> QED  BY <1>3, <2>1
<1>5. PICK s : s = Runes(p, q)
  OBVIOUS
<1>6. Word(p) = CASE s \in DOMAIN Named -> Token("OPERATOR", Named[s], p, q)
                  [] s \in DOMAIN Keyword -> Token("KEYWORD", Keyword[s], p, q)
                  [] OTHER -> Token("IDENTIFIER", Plain, p, q)
  BY <1>2, <1>5 DEF Word
<1>7. \/ s \in DOMAIN Named /\ Word(p) = Token("OPERATOR", Named[s], p, q)
      \/ Word(p) = Token("KEYWORD", Keyword[s], p, q)
      \/ Word(p) = Token("IDENTIFIER", Plain, p, q)
  BY <1>6
<1> QED  BY <1>4, <1>7

(* A directive ends after it begins.                                       *)
LEMMA PoundFacts ==
  ASSUME SourceInv, NEW p \in 1 .. End, p < End
  PROVE  \/ Pound(p) = Error(p)
         \/ \E q \in p + 1 .. End : \E as : Pound(p) = Token("DIRECTIVE", as, p, q)
<1>1. RUNE_EOF \notin Letter /\ p + 1 \in 1 .. End
  BY DigitsFacts, EndFacts
<1>2. PICK q : q = SkipWhile(p + 1, Letter)
  OBVIOUS
<1>3. q \in p + 1 .. End
  BY <1>1, <1>2, SkipFacts
<1> QED  BY <1>2, <1>3 DEF Pound

(* A comment ends after it begins, or the file ends in it.                 *)
LEMMA CommentFacts ==
  ASSUME SourceInv, NEW p \in 1 .. End, At(p) = "/", At(p + 1) \in {"/", "*"}
  PROVE  \/ Comment(p) = Token("EOF", Plain, p, End)
         \/ \E q \in p + 1 .. End : Comment(p) = Token("COMMENT", Plain, p, q)
<1>1. RUNE_EOF # "/" /\ RUNE_EOF # "*" /\ Newline # "/"
  BY DEF RUNE_EOF, Newline
<1>2. p + 2 \in 1 .. End
  <2>1. End \in Nat /\ \A r \in Nat \ {0} : At(r) = RUNE_EOF <=> r >= End
    BY EndFacts
  <2> QED  BY <1>1, <2>1
<1>3. PICK q : q = IF At(p + 1) = "/" THEN SkipUntil(p, Newline) ELSE CommentEnd(p + 2)
  OBVIOUS
<1>4. q = 0 \/ q \in p + 1 .. End
  <2>1. CASE At(p + 1) = "/"
    <3>1. q \in p .. End /\ At(q) \in {Newline, RUNE_EOF}
      BY <1>3, <2>1, UntilFacts
    <3>2. q # p /\ End \in Nat
      BY <1>1, <3>1, EndFacts
    <3> QED  BY <3>1, <3>2
  <2>2. CASE At(p + 1) # "/"
    <3>1. q = 0 \/ q \in p + 2 .. End
      BY <1>2, <1>3, <2>2, CommentEndFacts
    <3> QED  BY <1>2, <3>1, EndFacts
  <2> QED  BY <2>1, <2>2
<1>5. Comment(p) = IF q = 0 THEN Token("EOF", Plain, p, End) ELSE Token("COMMENT", Plain, p, q)
  BY <1>3 DEF Comment
<1> QED  BY <1>4, <1>5

-----------------------------------------------------------------------------
(* Where a token begins.  Newlines still count there only if they did and  *)
(* nothing but blanks was skipped.                                         *)
LEMMA StartFacts ==
  ASSUME SourceInv, NEW p \in 1 .. End, NEW newline \in BOOLEAN
  PROVE  \E s \in p .. End, counts \in BOOLEAN :
           /\ Start(p, newline) = <<s, counts>>
           /\ \A q \in p .. s - 1 : At(q) \in Blank \cup {Newline, "\\"}
           /\ counts => newline /\ \A q \in p .. s - 1 : At(q) \in Blank
           /\ ~counts => At(s) # Newline /\ (~newline \/ \E q \in p .. s - 1 : At(q) = "\\")
<1>1. RUNE_EOF \notin Blank \cup {Newline, "\\"} /\ Newline # "\\"
  BY DEF RUNE_EOF, Blank, Newline
<1>2. PICK q : q = SkipWhile(p, IF newline THEN Blank ELSE Blank \cup {Newline})
  OBVIOUS
<1>3. /\ q \in p .. End
      /\ newline => At(q) \notin Blank /\ \A r \in p .. q - 1 : At(r) \in Blank
      /\ ~newline => At(q) # Newline /\ \A r \in p .. q - 1 : At(r) \in Blank \cup {Newline}
  <2>1. CASE newline
    BY <1>1, <1>2, <2>1, SkipFacts
  <2>2. CASE ~newline
    BY <1>1, <1>2, <2>2, SkipFacts
  <2> QED  BY <2>1, <2>2
<1>4. End \in Nat
  BY EndFacts
<1>5. CASE At(q) # "\\"
  <2>1. Start(p, newline) = <<q, newline>>
    BY <1>2, <1>5 DEF Start
  <2> QED  BY <1>3, <2>1
<1>6. CASE At(q) = "\\"
  <2>1. PICK s : s = SkipWhile(q, Blank \cup {Newline, "\\"})
    OBVIOUS
  <2>2. Start(p, newline) = <<s, FALSE>>
    BY <1>2, <1>6, <2>1 DEF Start
  <2>3. q \in 1 .. End
    BY <1>3, <1>4
  <2>4. /\ s \in q .. End /\ At(s) \notin Blank \cup {Newline, "\\"}
        /\ \A r \in q .. s - 1 : At(r) \in Blank \cup {Newline, "\\"}
    BY <1>1, <2>1, <2>3, SkipFacts
  <2>5. s # q
    BY <1>6, <2>4
  <2>6. s \in p .. End /\ q \in p .. s - 1 /\ \A r \in p .. s - 1 : r \in p .. q - 1 \/ r \in q .. s - 1
    BY <1>3, <1>4, <2>4, <2>5
  <2>7. \A r \in p .. s - 1 : At(r) \in Blank \cup {Newline, "\\"}
    BY <1>3, <2>4, <2>6
  <2> QED  BY <1>6, <2>2, <2>4, <2>6, <2>7
<1> QED  BY <1>5, <1>6

-----------------------------------------------------------------------------
(* The switch and the tables of lexemes.h.                                 *)

OperatorFits(s, as) == s = OperatorMatch[as]
AssignmentFits(s, as) == s \in Disputed \/ s = AssignmentMatch[as]

CaseSpelled(c) ==
  /\ c[2] = "OPERATOR" => OperatorFits(c[1], c[3])
  /\ c[2] = "ASSIGNMENT" => AssignmentFits(c[1], c[3])

(* What makes a case of each sort spelled as the tables have it.           *)
LEMMA RowSpelled ==
  /\ \A s, as : OperatorFits(s, as) => CaseSpelled(Operator(s, as))
  /\ \A s, as : AssignmentFits(s, as) => CaseSpelled(Assignment(s, as))
  /\ \A s, kind : kind # "OPERATOR" /\ kind # "ASSIGNMENT" => CaseSpelled(Other(s, kind))
BY RowFacts DEF CaseSpelled

(* The spellings of the operators in lexemes.h.                            *)
LEMMA OperatorTable ==
  /\ OperatorFits(<<"!">>, "NOT") /\ OperatorFits(<<"^">>, "POINTER")
  /\ OperatorFits(<<"-", ">">>, "ARROW") /\ OperatorFits(<<"(">>, "LPAREN")
  /\ OperatorFits(<<")">>, "RPAREN") /\ OperatorFits(<<"[">>, "LBRACKET")
  /\ OperatorFits(<<"]">>, "RBRACKET") /\ OperatorFits(<<":">>, "COLON")
  /\ OperatorFits(<<".">>, "PERIOD") /\ OperatorFits(<<",">>, "COMMA")
  /\ OperatorFits(<<"?">>, "QUESTION") /\ OperatorFits(<<".", ".">>, "ELLIPSIS")
  /\ OperatorFits(<<".", ".", "=">>, "RANGEFULL") /\ OperatorFits(<<".", ".", "<">>, "RANGEHALF")
  /\ OperatorFits(<<"|", "|">>, "CMPOR") /\ OperatorFits(<<"&", "&">>, "CMPAND")
  /\ OperatorFits(<<"=", "=">>, "CMPEQ") /\ OperatorFits(<<"!", "=">>, "NOTEQ")
  /\ OperatorFits(<<"<">>, "LT") /\ OperatorFits(<<">">>, "GT") /\ OperatorFits(<<"<", "=">>, "LTEQ")
  /\ OperatorFits(<<">", "=">>, "GTEQ") /\ OperatorFits(<<"+">>, "ADD") /\ OperatorFits(<<"-">>, "SUB")
  /\ OperatorFits(<<"|">>, "OR") /\ OperatorFits(<<"~">>, "XOR") /\ OperatorFits(<<"/">>, "QUO")
  /\ OperatorFits(<<"*">>, "MUL") /\ OperatorFits(<<"%">>, "MOD")
  /\ OperatorFits(<<"%", "%">>, "MODMOD") /\ OperatorFits(<<"&">>, "AND")
  /\ OperatorFits(<<"&", "~">>, "ANDNOT") /\ OperatorFits(<<"<", "<">>, "SHL")
  /\ OperatorFits(<<">", ">">>, "SHR")
BY DEF OperatorFits, OperatorMatch

(* The spellings of the assignments that the switch has.                   *)
LEMMA AssignmentTable ==
  /\ AssignmentFits(<<"%", "=">>, "QUO") /\ AssignmentFits(<<"%", "%", "=">>, "REM")
  /\ AssignmentFits(<<"*", "=">>, "MUL") /\ AssignmentFits(<<"=">>, "EQ")
  /\ AssignmentFits(<<"~", "=">>, "XOR") /\ AssignmentFits(<<"+", "=">>, "ADD")
  /\ AssignmentFits(<<"-", "=">>, "SUB") /\ AssignmentFits(<<"/", "=">>, "QUO")
  /\ AssignmentFits(<<"<", "<", "=">>, "SHL") /\ AssignmentFits(<<">", ">", "=">>, "SHR")
  /\ AssignmentFits(<<"&", "=">>, "AND") /\ AssignmentFits(<<"&", "~", "=">>, "ANDNOT")
  /\ AssignmentFits(<<"&", "&", "=">>, "AND") /\ AssignmentFits(<<"|", "=">>, "OR")
  /\ AssignmentFits(<<"|", "|", "=">>, "CMPOR")
BY DEF AssignmentFits, AssignmentMatch, Disputed

(* Every case of the switch is spelled so.                                 *)
LEMMA SwitchSpelled == \A c \in Switch : CaseSpelled(c)
<1>1. \A c \in Separators : CaseSpelled(c)
  BY RowSpelled, OperatorTable, AssignmentTable, Zenon DEF Separators
<1>2. \A c \in Marks : CaseSpelled(c)
  BY RowSpelled, OperatorTable, AssignmentTable, Zenon DEF Marks
<1>3. \A c \in Factors : CaseSpelled(c)
  BY RowSpelled, OperatorTable, AssignmentTable, Zenon DEF Factors
<1>4. \A c \in Equals : CaseSpelled(c)
  BY RowSpelled, OperatorTable, AssignmentTable, Zenon DEF Equals
<1>5. \A c \in Signs : CaseSpelled(c)
  BY RowSpelled, OperatorTable, AssignmentTable, Zenon DEF Signs
<1>6. \A c \in Slash : CaseSpelled(c)
  BY RowSpelled, OperatorTable, AssignmentTable, Zenon DEF Slash
<1>7. \A c \in Angles : CaseSpelled(c)
  BY RowSpelled, OperatorTable, AssignmentTable, Zenon DEF Angles
<1>8. \A c \in Logic : CaseSpelled(c)
  BY RowSpelled, OperatorTable, AssignmentTable, Zenon DEF Logic
<1>9. \A c \in Periods : CaseSpelled(c)
  BY RowSpelled, OperatorTable, AssignmentTable, Zenon DEF Periods
<1> QED  BY <1>1, <1>2, <1>3, <1>4, <1>5, <1>6, <1>7, <1>8, <1>9, Zenon DEF Switch

(* Every spelling of the tables is a case of the switch, and none begins   *)
(* like a word.                                                            *)
InSwitch(s) == \E c \in Switch : c[1] = s
OperatorIn(as) == InSwitch(OperatorMatch[as])
AssignmentIn(as) == InSwitch(AssignmentMatch[as])

(* What makes a spelling a case of the switch.                             *)
LEMMA RowIn ==
  /\ \A s, as : Operator(s, as) \in Switch /\ OperatorFits(s, as) => OperatorIn(as)
  /\ \A s, as, row : Assignment(s, row) \in Switch /\ s = AssignmentMatch[as] => AssignmentIn(as)
BY RowFacts DEF InSwitch, OperatorIn, AssignmentIn, OperatorFits

(* Every spelling of the tables is a case of the switch.                   *)
LEMMA SpellingInSwitch == \A s \in Spelling : InSwitch(s)
<1>1. /\ OperatorIn("COMMA")
  <2>1. \A c \in Separators : c \in Switch
    BY Zenon DEF Switch
  <2> QED  BY <2>1, RowIn, OperatorTable, Zenon DEF Separators
<1>2. /\ OperatorIn("QUESTION") /\ OperatorIn("POINTER") /\ OperatorIn("COLON") /\ OperatorIn("LPAREN")
      /\ OperatorIn("RPAREN") /\ OperatorIn("LBRACKET") /\ OperatorIn("RBRACKET")
  <2>1. \A c \in Marks : c \in Switch
    BY Zenon DEF Switch
  <2> QED  BY <2>1, RowIn, OperatorTable, Zenon DEF Marks
<1>3. /\ OperatorIn("MOD") /\ OperatorIn("MODMOD") /\ OperatorIn("MUL")
  <2>1. \A c \in Factors : c \in Switch
    BY Zenon DEF Switch
  <2> QED  BY <2>1, RowIn, OperatorTable, Zenon DEF Factors
<1>4. /\ OperatorIn("CMPEQ") /\ OperatorIn("XOR") /\ OperatorIn("NOT") /\ OperatorIn("NOTEQ")
  <2>1. \A c \in Equals : c \in Switch
    BY Zenon DEF Switch
  <2> QED  BY <2>1, RowIn, OperatorTable, Zenon DEF Equals
<1>5. /\ OperatorIn("ADD") /\ OperatorIn("SUB") /\ OperatorIn("ARROW")
  <2>1. \A c \in Signs : c \in Switch
    BY Zenon DEF Switch
  <2> QED  BY <2>1, RowIn, OperatorTable, Zenon DEF Signs
<1>6. /\ OperatorIn("QUO")
  <2>1. \A c \in Slash : c \in Switch
    BY Zenon DEF Switch
  <2> QED  BY <2>1, RowIn, OperatorTable, Zenon DEF Slash
<1>7. /\ OperatorIn("LT") /\ OperatorIn("LTEQ") /\ OperatorIn("SHL") /\ OperatorIn("GT")
      /\ OperatorIn("GTEQ") /\ OperatorIn("SHR")
  <2>1. \A c \in Angles : c \in Switch
    BY Zenon DEF Switch
  <2> QED  BY <2>1, RowIn, OperatorTable, Zenon DEF Angles
<1>8. /\ OperatorIn("AND") /\ OperatorIn("ANDNOT") /\ OperatorIn("CMPAND") /\ OperatorIn("OR")
      /\ OperatorIn("CMPOR")
  <2>1. \A c \in Logic : c \in Switch
    BY Zenon DEF Switch
  <2> QED  BY <2>1, RowIn, OperatorTable, Zenon DEF Logic
<1>9. /\ OperatorIn("PERIOD") /\ OperatorIn("ELLIPSIS") /\ OperatorIn("RANGEHALF")
      /\ OperatorIn("RANGEFULL")
  <2>1. \A c \in Periods : c \in Switch
    BY Zenon DEF Switch
  <2> QED  BY <2>1, RowIn, OperatorTable, Zenon DEF Periods
<1>10. \A as \in DOMAIN OperatorMatch : OperatorIn(as)
  BY <1>1, <1>2, <1>3, <1>4, <1>5, <1>6, <1>7, <1>8, <1>9, Zenon DEF OperatorMatch
<1>11. /\ AssignmentIn("MUL") /\ AssignmentIn("MOD") /\ AssignmentIn("REM")
  <2>1. \A c \in Factors : c \in Switch
    BY Zenon DEF Switch
  <2>2. /\ <<"*", "=">> = AssignmentMatch["MUL"] /\ <<"%", "=">> = AssignmentMatch["MOD"]
        /\ <<"%", "%", "=">> = AssignmentMatch["REM"]
    BY DEF AssignmentMatch
  <2> QED  BY <2>1, <2>2, RowIn, Zenon DEF Factors
<1>12. /\ AssignmentIn("EQ") /\ AssignmentIn("XOR")
  <2>1. \A c \in Equals : c \in Switch
    BY Zenon DEF Switch
  <2>2. /\ <<"=">> = AssignmentMatch["EQ"] /\ <<"~", "=">> = AssignmentMatch["XOR"]
    BY DEF AssignmentMatch
  <2> QED  BY <2>1, <2>2, RowIn, Zenon DEF Equals
<1>13. /\ AssignmentIn("ADD") /\ AssignmentIn("SUB")
  <2>1. \A c \in Signs : c \in Switch
    BY Zenon DEF Switch
  <2>2. /\ <<"+", "=">> = AssignmentMatch["ADD"] /\ <<"-", "=">> = AssignmentMatch["SUB"]
    BY DEF AssignmentMatch
  <2> QED  BY <2>1, <2>2, RowIn, Zenon DEF Signs
<1>14. /\ AssignmentIn("QUO")
  <2>1. \A c \in Slash : c \in Switch
    BY Zenon DEF Switch
  <2>2. /\ <<"/", "=">> = AssignmentMatch["QUO"]
    BY DEF AssignmentMatch
  <2> QED  BY <2>1, <2>2, RowIn, Zenon DEF Slash
<1>15. /\ AssignmentIn("SHL") /\ AssignmentIn("SHR")
  <2>1. \A c \in Angles : c \in Switch
    BY Zenon DEF Switch
  <2>2. /\ <<"<", "<", "=">> = AssignmentMatch["SHL"] /\ <<">", ">", "=">> = AssignmentMatch["SHR"]
    BY DEF AssignmentMatch
  <2> QED  BY <2>1, <2>2, RowIn, Zenon DEF Angles
<1>16. /\ AssignmentIn("AND") /\ AssignmentIn("OR") /\ AssignmentIn("ANDNOT") /\ AssignmentIn("CMPAND")
      /\ AssignmentIn("CMPOR")
  <2>1. \A c \in Logic : c \in Switch
    BY Zenon DEF Switch
  <2>2. /\ <<"&", "=">> = AssignmentMatch["AND"] /\ <<"|", "=">> = AssignmentMatch["OR"]
        /\ <<"&", "~", "=">> = AssignmentMatch["ANDNOT"]
        /\ <<"&", "&", "=">> = AssignmentMatch["CMPAND"]
        /\ <<"|", "|", "=">> = AssignmentMatch["CMPOR"]
    BY DEF AssignmentMatch
  <2> QED  BY <2>1, <2>2, RowIn, Zenon DEF Logic
<1>17. \A as \in DOMAIN AssignmentMatch : AssignmentIn(as)
  BY <1>11, <1>12, <1>13, <1>14, <1>15, <1>16, Zenon DEF AssignmentMatch
<1> QED  BY <1>10, <1>17 DEF Spelling, Range, OperatorIn, AssignmentIn

-----------------------------------------------------------------------------
(* What lexer_tokenize scans.                                              *)

(* The token is spelled as the tables have it, and no longer spelling      *)
(* begins in the same place.                                               *)
TextFits(token) ==
  LET text == Runes(token.from, token.to)
  IN /\ token.kind = "OPERATOR" /\ token.as \in DOMAIN OperatorMatch =>
          text = OperatorMatch[token.as]
     /\ token.kind = "ASSIGNMENT" /\ text \notin Disputed =>
          text = AssignmentMatch[token.as]
     /\ token.kind \in {"OPERATOR", "ASSIGNMENT"} =>
          \A s \in Spelling : Begins(s, token.from) => Len(s) <= Len(text)

(* A token scanned from p, newlines counting there or not.                 *)
ScannedFrom(token, p, counts) ==
  /\ token = Token(token.kind, token.as, p, token.to)
  /\ token.kind \in TokenKind
  /\ token.to \in p .. End
  /\ IsNewline(token) => counts
  /\ token.to > p \/ token.kind = "EOF" \/ (IsNewline(token) /\ p = End)
  /\ token.kind = "EOF" => token.to = End
  /\ token.kind = "LITERAL" /\ token.as \in {"INTEGER", "FLOAT"} =>
       ~(At(token.to - 1) = "." /\ At(token.to) = ".")
  /\ TextFits(token)

(* The fields of a token.                                                  *)
LEMMA TokenFields ==
  ASSUME NEW kind, NEW as, NEW p, NEW q
  PROVE  /\ Token(kind, as, p, q).kind = kind
         /\ Token(kind, as, p, q).as = as
         /\ Token(kind, as, p, q).from = p
         /\ Token(kind, as, p, q).to = q
BY DEF Token

(* For most of the tokens there is little to show.                         *)
LEMMA OtherToken ==
  ASSUME SourceInv, NEW p \in 1 .. End, NEW q \in p + 1 .. End, NEW counts, NEW as,
         NEW kind \in TokenKind \ {"EOF", "OPERATOR", "ASSIGNMENT"},
         kind = "SEMICOLON" /\ as = Newline => counts,
         kind = "LITERAL" /\ as \in {"INTEGER", "FLOAT"} => ~(At(q - 1) = "." /\ At(q) = ".")
  PROVE  ScannedFrom(Token(kind, as, p, q), p, counts)
<1>1. PICK token : token = Token(kind, as, p, q)
  OBVIOUS
<1>2. token.kind = kind /\ token.as = as /\ token.from = p /\ token.to = q
  BY <1>1 DEF Token
<1>3. TextFits(token)
  BY <1>2 DEF TextFits
<1>4. q \in p .. End /\ q > p
  BY EndFacts
<1>5. token.to > p /\ token.to \in p .. End
  BY <1>2, <1>4
<1> QED  BY <1>1, <1>2, <1>3, <1>5 DEF ScannedFrom, IsNewline

(* A word is no operator of the tables: they begin with no letter.         *)
LEMMA WordScanned ==
  ASSUME SourceInv, NEW p \in 1 .. End, At(p) \in Letter, NEW counts
  PROVE  ScannedFrom(Word(p), p, counts)
<1>0. {"IDENTIFIER", "KEYWORD"} \subseteq TokenKind \ {"EOF", "OPERATOR", "ASSIGNMENT"} /\ "OPERATOR" \in TokenKind
  BY DEF TokenKind, KIND_ASI
<1>1. PICK q \in p + 1 .. End :
        \/ Word(p) = Token("IDENTIFIER", Plain, p, q)
        \/ \E as : Word(p) = Token("KEYWORD", as, p, q)
        \/ \E s \in DOMAIN Named : Word(p) = Token("OPERATOR", Named[s], p, q)
  BY WordFacts
<1>2. CASE Word(p) = Token("IDENTIFIER", Plain, p, q)
  BY <1>0, <1>2, OtherToken
<1>3. CASE \E as : Word(p) = Token("KEYWORD", as, p, q)
  <2>1. PICK as : Word(p) = Token("KEYWORD", as, p, q)
    BY <1>3
  <2> QED  BY <1>0, <2>1, OtherToken
<1>4. CASE \E s \in DOMAIN Named : Word(p) = Token("OPERATOR", Named[s], p, q)
  <2>1. PICK s \in DOMAIN Named : Word(p) = Token("OPERATOR", Named[s], p, q)
    BY <1>4
  <2>2. PICK token : token = Word(p)
    OBVIOUS
  <2>3. token.kind = "OPERATOR" /\ token.as = Named[s] /\ token.from = p /\ token.to = q
    BY <2>1, <2>2, TokenFields
  <2>4. Named[s] \notin DOMAIN OperatorMatch
    BY LexerAssumption
  <2>5. ASSUME NEW t \in Spelling, Begins(t, p)  PROVE FALSE
    <3>1. PICK c \in Switch : c[1] = t
      BY SpellingInSwitch DEF InSwitch
    <3>2. Len(t) \in 1 .. 3 /\ t[1] \notin Letter
      BY <3>1, SwitchShape DEF CaseShape, IsText
    <3>3. PICK n : n = Len(t)
      OBVIOUS
    <3>4. n \in 1 .. 3 /\ p + n <= End /\ Runes(p, p + n) = t
      BY <2>5, <3>2, <3>3 DEF Begins
    <3>5. p + n \in p .. End /\ 1 \in 1 .. (p + n) - p /\ p + 1 - 1 = p
      BY <3>4, EndFacts
    <3>6. Runes(p, p + n)[1] = At(p + 1 - 1)
      BY <3>5, RunesFacts
    <3> QED  BY <3>2, <3>4, <3>5, <3>6
  <2>6. TextFits(token)
    BY <2>3, <2>4, <2>5 DEF TextFits
  <2>7. q \in p .. End /\ q > p
    BY EndFacts
  <2>8. token.to > p /\ token.to \in p .. End
    BY <2>3, <2>7
  <2>9. ScannedFrom(token, p, counts)
    BY <1>0, <2>1, <2>2, <2>3, <2>6, <2>8 DEF ScannedFrom, IsNewline
  <2> QED  BY <2>2, <2>9
<1> QED  BY <1>1, <1>2, <1>3, <1>4

(* Punctuation is spelled as the tables have it.                           *)
LEMMA PunctuationScanned ==
  ASSUME SourceInv, NEW p \in 1 .. End, Punctuation(p).kind # "ERROR", NEW counts
  PROVE  ScannedFrom(Punctuation(p), p, counts)
<1>0. CaseKind \ {"ERROR"} \subseteq TokenKind /\ "EOF" \notin CaseKind /\ "LITERAL" \notin CaseKind
  BY DEF CaseKind, TokenKind, KIND_ASI
<1>1. Error(p).kind = "ERROR"
  BY TokenFields DEF Error
<1>2. PICK c \in Switch :
        /\ Begins(c[1], p) /\ p + Len(c[1]) \in p + 1 .. End
        /\ \A d \in Switch : Begins(d[1], p) => Len(d[1]) <= Len(c[1])
        /\ Punctuation(p) = Token(c[2], c[3], p, p + Len(c[1]))
  BY <1>1, PunctuationFacts
<1>3. PICK token : token = Punctuation(p)
  OBVIOUS
<1>4. PICK kind, as, text : kind = c[2] /\ as = c[3] /\ text = c[1]
  OBVIOUS
<1>5. PICK q : q = p + Len(text)
  OBVIOUS
<1>6. token = Token(kind, as, p, q)
  BY <1>2, <1>3, <1>4, <1>5
<1>7. token.kind = kind /\ token.as = as /\ token.from = p /\ token.to = q
  BY <1>6 DEF Token
<1>8. kind \in CaseKind \ {"ERROR"} /\ (kind = "SEMICOLON" => as = Plain)
  BY <1>3, <1>4, <1>7, SwitchShape DEF CaseShape
<1>9. Runes(p, q) = text
  BY <1>2, <1>4, <1>5 DEF Begins
<1>10. /\ kind = "OPERATOR" => text = OperatorMatch[as]
       /\ kind = "ASSIGNMENT" /\ text \notin Disputed => text = AssignmentMatch[as]
  BY <1>4, SwitchSpelled DEF CaseSpelled, OperatorFits, AssignmentFits
<1>11. \A s \in Spelling : Begins(s, p) => Len(s) <= Len(text)
  BY <1>2, <1>4, SpellingInSwitch DEF InSwitch
<1>12. TextFits(token)
  BY <1>7, <1>9, <1>10, <1>11 DEF TextFits
<1>13. q \in p + 1 .. End
  BY <1>2, <1>4, <1>5
<1>14. q \in p .. End /\ q > p
  BY <1>13, EndFacts
<1>15. token.to > p /\ token.to \in p .. End
  BY <1>7, <1>14
<1>16. Plain # Newline
  BY DEF Plain, Newline
<1>17. ScannedFrom(token, p, counts)
  BY <1>0, <1>6, <1>7, <1>8, <1>12, <1>15, <1>16 DEF ScannedFrom, IsNewline
<1> QED  BY <1>3, <1>17

(* The cases of lexer_tokenize.                                            *)
ScanAt(p, counts) ==
  CASE At(p) = RUNE_EOF -> EndOfFile(p, counts)
    [] At(p) = Newline -> Token("SEMICOLON", Newline, p, p + 1)
    [] At(p) \in Letter -> Word(p)
    [] At(p) \in Digit -> Numeric(p)
    [] At(p) = "." /\ At(p + 1) \in Digit -> Numeric(p)
    [] At(p) \in Quote -> Quoted(p)
    [] At(p) = "#" -> Pound(p)
    [] At(p) = "/" /\ At(p + 1) \in {"/", "*"} -> Comment(p)
    [] OTHER -> Punctuation(p)

(* No rune makes two of the cases.                                         *)
LEMMA CasesDisjoint ==
  /\ RUNE_EOF # Newline /\ {RUNE_EOF, Newline} \cap (Letter \cup Digit \cup Quote \cup {".", "#", "/"}) = {}
  /\ \A r \in Letter : r \notin Digit /\ r \notin Quote /\ r \notin {".", "#", "/"}
  /\ \A r \in Digit : r \notin Quote /\ r \notin {".", "#", "/"}
  /\ \A r \in Quote : r \notin {".", "#", "/"}
<1>1. Digit \subseteq {"0", "1", "2", "3", "4", "5", "6", "7", "8", "9"}
  <2>1. \A i \in 1 .. 10 : i = 1 \/ i = 2 \/ i = 3 \/ i = 4 \/ i = 5 \/ i = 6 \/ i = 7 \/ i = 8 \/ i = 9 \/ i = 10
    OBVIOUS
  <2>2. /\ Digits[1] = "0" /\ Digits[2] = "1" /\ Digits[3] = "2" /\ Digits[4] = "3" /\ Digits[5] = "4"
        /\ Digits[6] = "5" /\ Digits[7] = "6" /\ Digits[8] = "7" /\ Digits[9] = "8" /\ Digits[10] = "9"
    BY DEF Digits
  <2>3. \A i \in 1 .. 10 : Digits[i] \in {"0", "1", "2", "3", "4", "5", "6", "7", "8", "9"}
    BY <2>1, <2>2, Zenon
  <2> QED  BY <2>3 DEF Digit
<1>2. RUNE_EOF # Newline /\ {RUNE_EOF, Newline} \cap (Letter \cup Digit \cup Quote \cup {".", "#", "/"}) = {}
  BY <1>1, Zenon DEF RUNE_EOF, Newline, Letter, Quote, Grave
<1>3. \A r \in Letter : r \notin Digit /\ r \notin Quote /\ r \notin {".", "#", "/"}
  BY <1>1, Zenon DEF Letter, Quote, Grave
<1>4. \A r \in Digit : r \notin Quote /\ r \notin {".", "#", "/"}
  BY <1>1, Zenon DEF Quote, Grave
<1>5. \A r \in Quote : r \notin {".", "#", "/"}
  BY Zenon DEF Quote, Grave
<1> QED  BY <1>2, <1>3, <1>4, <1>5

(* Whatever case applies gives a token of its own.                         *)
LEMMA ScanAtFacts ==
  ASSUME SourceInv, NEW p \in 1 .. End, NEW counts \in BOOLEAN, ~counts => At(p) # Newline,
         ScanAt(p, counts).kind # "ERROR"
  PROVE  ScannedFrom(ScanAt(p, counts), p, counts)
<1>0. /\ {"SEMICOLON", "LITERAL", "DIRECTIVE", "COMMENT"} \subseteq TokenKind \ {"EOF", "OPERATOR", "ASSIGNMENT"}
      /\ "EOF" \in TokenKind /\ "SEMICOLON" \in TokenKind
  BY DEF TokenKind, KIND_ASI
<1>1. End \in Nat /\ \A r \in Nat \ {0} : At(r) = RUNE_EOF <=> r >= End
  BY EndFacts
<1>2. Error(p).kind = "ERROR"
  BY TokenFields DEF Error
<1>3. CASE At(p) = RUNE_EOF
  <2>1. ScanAt(p, counts) = EndOfFile(p, counts)
    BY <1>3, CasesDisjoint DEF ScanAt
  <2>2. p = End
    BY <1>1, <1>3
  <2>3. CASE counts
    <3>1. PICK token : token = Token("SEMICOLON", Newline, p, p)
      OBVIOUS
    <3>2. token.kind = "SEMICOLON" /\ token.as = Newline /\ token.from = p /\ token.to = p
      BY <3>1 DEF Token
    <3>3. ScanAt(p, counts) = token
      BY <2>1, <2>3, <3>1 DEF EndOfFile
    <3>4. TextFits(token)
      BY <3>2 DEF TextFits
    <3>5. ScannedFrom(token, p, counts)
      BY <1>0, <1>1, <2>2, <2>3, <3>1, <3>2, <3>4 DEF ScannedFrom, IsNewline
    <3> QED  BY <3>3, <3>5
  <2>4. CASE ~counts
    <3>1. PICK token : token = Token("EOF", Plain, p, p)
      OBVIOUS
    <3>2. token.kind = "EOF" /\ token.as = Plain /\ token.from = p /\ token.to = p
      BY <3>1 DEF Token
    <3>3. ScanAt(p, counts) = token
      BY <2>1, <2>4, <3>1 DEF EndOfFile
    <3>4. TextFits(token)
      BY <3>2 DEF TextFits
    <3>5. ScannedFrom(token, p, counts)
      BY <1>0, <1>1, <2>2, <3>1, <3>2, <3>4 DEF ScannedFrom, IsNewline
    <3> QED  BY <3>3, <3>5
  <2> QED  BY <2>3, <2>4
<1>4. CASE At(p) # RUNE_EOF
  <2>0. p < End /\ p + 1 \in p + 1 .. End
    BY <1>1, <1>4
  <2>1. CASE At(p) = Newline
    <3>1. ScanAt(p, counts) = Token("SEMICOLON", Newline, p, p + 1)
      BY <2>1, CasesDisjoint DEF ScanAt
    <3> QED  BY <1>0, <2>0, <2>1, <3>1, OtherToken
  <2>2. CASE At(p) \in Letter
    <3>1. ScanAt(p, counts) = Word(p)
      BY <2>2, CasesDisjoint DEF ScanAt
    <3> QED  BY <2>2, <3>1, WordScanned
  <2>3. CASE At(p) \in Digit \/ (At(p) = "." /\ At(p + 1) \in Digit)
    <3>1. ScanAt(p, counts) = Numeric(p)
      BY <2>3, CasesDisjoint DEF ScanAt
    <3>2. PICK as \in {"INTEGER", "FLOAT", "IMAGINARY"}, q \in p + 1 .. End :
            /\ Numeric(p) = Token("LITERAL", as, p, q)
            /\ as # "IMAGINARY" => ~(At(q - 1) = "." /\ At(q) = ".")
      BY <2>3, NumericFacts
    <3> QED  BY <1>0, <3>1, <3>2, OtherToken
  <2>4. CASE At(p) \in Quote
    <3>1. ScanAt(p, counts) = Quoted(p)
      BY <2>4, CasesDisjoint DEF ScanAt
    <3>2. PICK as \in {"RUNE", "STRING"}, q \in p + 1 .. End : Quoted(p) = Token("LITERAL", as, p, q)
      BY <1>2, <2>4, <3>1, QuotedFacts
    <3> QED  BY <1>0, <3>1, <3>2, OtherToken
  <2>5. CASE At(p) = "#"
    <3>1. ScanAt(p, counts) = Pound(p)
      BY <2>5, CasesDisjoint DEF ScanAt
    <3>2. PICK q \in p + 1 .. End : \E as : Pound(p) = Token("DIRECTIVE", as, p, q)
      BY <1>2, <2>0, <3>1, PoundFacts
    <3> QED  BY <1>0, <3>1, <3>2, OtherToken
  <2>6. CASE At(p) = "/" /\ At(p + 1) \in {"/", "*"}
    <3>1. ScanAt(p, counts) = Comment(p)
      BY <2>6, CasesDisjoint DEF ScanAt
    <3>2. \/ Comment(p) = Token("EOF", Plain, p, End)
          \/ \E q \in p + 1 .. End : Comment(p) = Token("COMMENT", Plain, p, q)
      BY <2>6, CommentFacts
    <3>3. CASE Comment(p) = Token("EOF", Plain, p, End)
      <4>1. PICK token : token = Token("EOF", Plain, p, End)
        OBVIOUS
      <4>2. token.kind = "EOF" /\ token.as = Plain /\ token.from = p /\ token.to = End
        BY <4>1 DEF Token
      <4>3. TextFits(token)
        BY <4>2 DEF TextFits
      <4>4. End \in p .. End
        BY <1>1
      <4>5. ScannedFrom(token, p, counts)
        BY <1>0, <4>1, <4>2, <4>3, <4>4 DEF ScannedFrom, IsNewline
      <4> QED  BY <3>1, <3>3, <4>1, <4>5
    <3>4. CASE \E q \in p + 1 .. End : Comment(p) = Token("COMMENT", Plain, p, q)
      BY <1>0, <3>1, <3>4, OtherToken
    <3> QED  BY <3>2, <3>3, <3>4
  <2>7. CASE /\ At(p) # Newline /\ At(p) \notin Letter /\ At(p) \notin Digit
             /\ ~(At(p) = "." /\ At(p + 1) \in Digit)
             /\ At(p) \notin Quote /\ At(p) # "#"
             /\ ~(At(p) = "/" /\ At(p + 1) \in {"/", "*"})
    <3>1. ScanAt(p, counts) = Punctuation(p)
      BY <1>4, <2>7 DEF ScanAt
    <3> QED  BY <3>1, PunctuationScanned
  <2> QED  BY <2>1, <2>2, <2>3, <2>4, <2>5, <2>6, <2>7
<1> QED  BY <1>3, <1>4

(* A token scanned after p, where newlines counted or not: what lies       *)
(* between is blank, or makes newlines count no more.                      *)
ScannedAfter(token, p, newline) ==
  /\ token.from \in p .. End
  /\ \A q \in p .. token.from - 1 : At(q) \in Blank \cup {Newline, "\\"}
  /\ \E counts \in BOOLEAN :
       /\ ScannedFrom(token, token.from, counts)
       /\ counts => newline /\ \A q \in p .. token.from - 1 : At(q) \in Blank
       /\ ~counts => ~newline \/ \E q \in p .. token.from - 1 : At(q) = "\\"

(* So does lexer_tokenize, after what it skips.                            *)
LEMMA TokenizeFacts ==
  ASSUME SourceInv, NEW p \in 1 .. End, NEW newline \in BOOLEAN, Tokenize(p, newline).kind # "ERROR"
  PROVE  ScannedAfter(Tokenize(p, newline), p, newline)
<1>1. PICK s \in p .. End, counts \in BOOLEAN :
        /\ Start(p, newline) = <<s, counts>>
        /\ \A q \in p .. s - 1 : At(q) \in Blank \cup {Newline, "\\"}
        /\ counts => newline /\ \A q \in p .. s - 1 : At(q) \in Blank
        /\ ~counts => At(s) # Newline /\ (~newline \/ \E q \in p .. s - 1 : At(q) = "\\")
  BY StartFacts
<1>2. Start(p, newline)[1] = s /\ Start(p, newline)[2] = counts
  BY <1>1
<1>3. Tokenize(p, newline) = ScanAt(s, counts)
  BY <1>2 DEF Tokenize, ScanAt
<1>4. PICK token : token = Tokenize(p, newline)
  OBVIOUS
<1>5. s \in 1 .. End
  BY EndFacts
<1>6. ScannedFrom(token, s, counts)
  BY <1>1, <1>3, <1>4, <1>5, ScanAtFacts
<1>7. token.from = s
  BY <1>6 DEF ScannedFrom, Token
<1>8. ScannedAfter(token, p, newline)
  BY <1>1, <1>6, <1>7 DEF ScannedAfter
<1> QED  BY <1>4, <1>8

-----------------------------------------------------------------------------
(* The inductive invariant.  After(s, i) is where the token after the i-th *)
(* of s is scanned from, and Counting(s, i) is asi there.                  *)
Tokens == {Tokenize(p, newline) : p \in Position, newline \in BOOLEAN}

After(s, i) == IF i = 0 THEN 1 ELSE s[i].to

Counting(s, i) == IF i = 0 THEN FALSE ELSE EndsStatement(s[i].kind, s[i].as)

(* The tokens of s are scanned one after the other.                        *)
Chained(s) ==
  /\ s \in Seq(Tokens)
  /\ \A i \in 1 .. Len(s) :
       /\ s[i] = Tokenize(After(s, i - 1), Counting(s, i - 1))
       /\ s[i].kind # "ERROR"
       /\ s[i].to \in Position

(* lexer_next and lexer_peek share one chain, whose end is the lexer's.    *)
Chain ==
  /\ delivered \in Seq(Tokens) /\ peek \in Seq(Tokens)
  /\ Chained(Scanned)
  /\ here = After(Scanned, Len(Scanned)) /\ asi = Counting(Scanned, Len(Scanned))

(* The last lexer_peek returned a token in the queue.                      *)
Peeked == result = None \/ \E i \in 1 .. Len(peek) : result = peek[i]

(* Each token of s has taken a rune, but a newline at the end, after which *)
(* newlines do not count and only the end of the file is to come.          *)
Taken(s) ==
  \/ Len(s) + 1 <= After(s, Len(s))
  \/ After(s, Len(s)) = End /\ ~Counting(s, Len(s)) /\ Len(s) <= End

Spent == Len(delivered) <= End + 1 /\ (Ended \/ Taken(delivered))

LexInv == SourceInv /\ thrown \in BOOLEAN /\ Chain /\ Peeked /\ Spent

(* asi is a flag.                                                          *)
LEMMA EndsStatementBoolean ==
  ASSUME NEW kind, NEW as
  PROVE  EndsStatement(kind, as) \in BOOLEAN
<1>1. CASE kind = "OPERATOR"
  BY <1>1 DEF EndsStatement
<1>2. CASE kind = "KEYWORD"
  BY <1>2 DEF EndsStatement
<1>3. CASE kind \notin {"OPERATOR", "KEYWORD"}
  <2>1. kind # "OPERATOR" /\ kind # "KEYWORD"
    BY <1>3
  <2>2. EndsStatement(kind, as) = (kind \in KIND_ASI)
    BY <2>1 DEF EndsStatement
  <2> QED  BY <2>2
<1> QED  BY <1>1, <1>2, <1>3

(* Where a chain ends a token can be scanned.                              *)
LEMMA ChainEnd ==
  ASSUME SourceInv, NEW s, Chained(s), NEW i \in 0 .. Len(s)
  PROVE  After(s, i) \in Position /\ Counting(s, i) \in BOOLEAN
<1>1. Len(s) \in Nat
  BY LenProperties DEF Chained
<1>2. CASE i = 0
  BY <1>2, EndFacts DEF After, Counting, Position
<1>3. CASE i # 0
  <2>1. i \in 1 .. Len(s)
    BY <1>1, <1>3
  <2> QED  BY <1>3, <2>1, EndsStatementBoolean DEF After, Counting, Chained
<1> QED  BY <1>2, <1>3

(* A token ends within the source.                                         *)
LEMMA TokenizeTo ==
  ASSUME SourceInv, NEW p \in Position, NEW newline \in BOOLEAN, Tokenize(p, newline).kind # "ERROR"
  PROVE  Tokenize(p, newline).to \in Position
<1>1. PICK token : token = Tokenize(p, newline)
  OBVIOUS
<1>2. p \in 1 .. End
  BY DEF Position
<1>3. ScannedAfter(token, p, newline)
  BY <1>1, <1>2, TokenizeFacts
<1>4. token.from \in p .. End /\ token.to \in token.from .. End
  BY <1>3 DEF ScannedAfter, ScannedFrom
<1>5. token.to \in Position
  BY <1>2, <1>4, EndFacts DEF Position
<1> QED  BY <1>1, <1>5

(* The next token goes on with the chain.                                  *)
LEMMA AppendChained ==
  ASSUME SourceInv, NEW s, Chained(s), NEW token,
         token = Tokenize(After(s, Len(s)), Counting(s, Len(s))), token.kind # "ERROR"
  PROVE  /\ token \in Tokens
         /\ Chained(Append(s, token))
         /\ After(Append(s, token), Len(Append(s, token))) = token.to
         /\ Counting(Append(s, token), Len(Append(s, token))) = EndsStatement(token.kind, token.as)
<1>1. s \in Seq(Tokens) /\ Len(s) \in Nat
  BY LenProperties DEF Chained
<1>2. After(s, Len(s)) \in Position /\ Counting(s, Len(s)) \in BOOLEAN
  BY <1>1, ChainEnd
<1>3. token \in Tokens
  BY <1>2 DEF Tokens
<1>4. PICK t : t = Append(s, token)
  OBVIOUS
<1>5. t \in Seq(Tokens) /\ Len(t) = Len(s) + 1 /\ (\A i \in 1 .. Len(s) : t[i] = s[i]) /\ t[Len(s) + 1] = token
  BY <1>1, <1>3, <1>4, AppendProperties
<1>6. \A i \in 0 .. Len(s) : After(t, i) = After(s, i) /\ Counting(t, i) = Counting(s, i)
  <2> TAKE i \in 0 .. Len(s)
  <2>1. CASE i = 0
    BY <2>1 DEF After, Counting
  <2>2. CASE i # 0
    <3>1. i \in 1 .. Len(s)
      BY <1>1, <2>2
    <3>2. t[i] = s[i]
      BY <1>5, <3>1
    <3> QED  BY <2>2, <3>2 DEF After, Counting
  <2> QED  BY <2>1, <2>2
<1>7. ASSUME NEW i \in 1 .. Len(t)
      PROVE  /\ t[i] = Tokenize(After(t, i - 1), Counting(t, i - 1))
             /\ t[i].kind # "ERROR" /\ t[i].to \in Position
  <2>1. CASE i <= Len(s)
    <3>1. i \in 1 .. Len(s) /\ i - 1 \in 0 .. Len(s)
      BY <1>1, <2>1
    <3>2. t[i] = s[i]
      BY <1>5, <3>1
    <3>3. After(t, i - 1) = After(s, i - 1) /\ Counting(t, i - 1) = Counting(s, i - 1)
      BY <1>6, <3>1
    <3>4. s[i] = Tokenize(After(s, i - 1), Counting(s, i - 1)) /\ s[i].kind # "ERROR" /\ s[i].to \in Position
      BY <3>1 DEF Chained
    <3> QED  BY <3>2, <3>3, <3>4
  <2>2. CASE ~(i <= Len(s))
    <3>1. i = Len(s) + 1 /\ i - 1 = Len(s) /\ Len(s) \in 0 .. Len(s)
      BY <1>1, <1>5, <2>2
    <3>2. t[i] = token
      BY <1>5, <3>1
    <3>3. After(t, i - 1) = After(s, Len(s)) /\ Counting(t, i - 1) = Counting(s, Len(s))
      BY <1>6, <3>1
    <3>4. token.to \in Position
      BY <1>2, TokenizeTo
    <3> QED  BY <3>2, <3>3, <3>4
  <2> QED  BY <2>1, <2>2
<1>8. Chained(t)
  BY <1>5, <1>7 DEF Chained
<1>9. After(t, Len(t)) = token.to /\ Counting(t, Len(t)) = EndsStatement(token.kind, token.as)
  <2>1. Len(t) # 0 /\ t[Len(t)] = token
    BY <1>1, <1>5
  <2> QED  BY <2>1 DEF After, Counting
<1> QED  BY <1>3, <1>4, <1>8, <1>9

(* And takes a rune, or newlines count no more at the end.                 *)
LEMMA AppendTaken ==
  ASSUME SourceInv, NEW s, Chained(s), Taken(s), NEW token,
         token = Tokenize(After(s, Len(s)), Counting(s, Len(s))), token.kind # "ERROR"
  PROVE  /\ Len(Append(s, token)) <= End + 1
         /\ token.kind = "EOF" \/ Taken(Append(s, token))
<1>1. s \in Seq(Tokens) /\ Len(s) \in Nat
  BY LenProperties DEF Chained
<1>2. PICK p, newline, n : p = After(s, Len(s)) /\ newline = Counting(s, Len(s)) /\ n = Len(s)
  OBVIOUS
<1>3. p \in 1 .. End /\ newline \in BOOLEAN /\ n \in Nat /\ End \in Nat
  BY <1>1, <1>2, ChainEnd, EndFacts DEF Position
<1>4. n + 1 <= p \/ (p = End /\ ~newline /\ n <= End)
  BY <1>2 DEF Taken
<1>5. PICK t : t = Append(s, token)
  OBVIOUS
<1>6. PICK q, ends : q = token.to /\ ends = EndsStatement(token.kind, token.as)
  OBVIOUS
<1>7. Len(t) = n + 1 /\ After(t, Len(t)) = q /\ Counting(t, Len(t)) = ends
  <2>1. token \in Tokens
    BY AppendChained
  <2>2. Len(t) = n + 1
    BY <1>1, <1>2, <1>5, <2>1, AppendProperties
  <2>3. After(t, Len(t)) = q /\ Counting(t, Len(t)) = ends
    BY <1>5, <1>6, AppendChained
  <2> QED  BY <2>2, <2>3
<1>8. ScannedAfter(token, p, newline)
  BY <1>2, <1>3, TokenizeFacts
<1>9. PICK r : r = token.from
  OBVIOUS
<1>10. PICK counts \in BOOLEAN : ScannedFrom(token, r, counts) /\ (counts => newline)
  BY <1>8, <1>9 DEF ScannedAfter
<1>11. r \in p .. End /\ q \in r .. End
  BY <1>6, <1>8, <1>9, <1>10 DEF ScannedAfter, ScannedFrom
<1>12. n + 1 <= End + 1
  BY <1>3, <1>4
<1>13. CASE token.kind = "EOF"
  BY <1>5, <1>7, <1>12, <1>13
<1>14. CASE q > r
  <2>1. n + 2 <= q
    BY <1>3, <1>4, <1>11, <1>14
  <2>2. Taken(t)
    BY <1>3, <1>7, <2>1 DEF Taken
  <2> QED  BY <1>5, <1>7, <1>12, <2>2
<1>15. CASE IsNewline(token) /\ r = End
  <2>1. newline
    BY <1>10, <1>15 DEF ScannedFrom
  <2>2. n + 1 <= End /\ q = End
    BY <1>3, <1>4, <1>11, <1>15, <2>1
  <2>3. ~ends
    BY <1>6, <1>15 DEF IsNewline, EndsStatement, KIND_ASI
  <2>4. Taken(t)
    BY <1>7, <2>2, <2>3 DEF Taken
  <2> QED  BY <1>5, <1>7, <1>12, <2>4
<1> QED  BY <1>6, <1>10, <1>13, <1>14, <1>15 DEF ScannedFrom

-----------------------------------------------------------------------------
(* The invariant is inductive.                                             *)

(* A source does not change, nor does a chain of its tokens.               *)
LEMMA SameSource ==
  ASSUME input' = input
  PROVE  /\ SourceInv => SourceInv'
         /\ End' = End /\ Position' = Position /\ Tokens' = Tokens
         /\ \A s : Chained(s)' = Chained(s) /\ Taken(s)' = Taken(s)
<1>1. End' = End /\ Position' = Position
  BY SameAt DEF Position
<1>2. \A p, newline : Tokenize(p, newline)' = Tokenize(p, newline)
  BY SameTokenize
<1>3. Tokens' = Tokens
  BY <1>1, <1>2 DEF Tokens
<1>4. \A s : Chained(s)' = Chained(s)
  BY <1>1, <1>2, <1>3 DEF Chained, After, Counting
<1>5. \A s : Taken(s)' = Taken(s)
  BY <1>1 DEF Taken, After, Counting
<1>6. SourceInv => SourceInv'
  BY DEF SourceInv
<1> QED  BY <1>1, <1>3, <1>4, <1>5, <1>6

(* What was delivered is a chain, which the queue goes on with.            *)
LEMMA DeliveredChained ==
  ASSUME LexInv
  PROVE  /\ Chained(delivered)
         /\ peek # << >> => /\ Head(peek) \in Tokens
                            /\ Head(peek) = Tokenize(After(delivered, Len(delivered)),
                                                     Counting(delivered, Len(delivered)))
                            /\ Head(peek).kind # "ERROR"
<1>1. PICK d, k, s : d = delivered /\ k = peek /\ s = Scanned
  OBVIOUS
<1>2. d \in Seq(Tokens) /\ k \in Seq(Tokens) /\ Chained(s) /\ s = d \o k
  BY <1>1 DEF LexInv, Chain, Scanned
<1>3. Len(d) \in Nat /\ Len(k) \in Nat
  BY <1>2, LenProperties
<1>4. /\ Len(s) = Len(d) + Len(k)
      /\ \A i \in 1 .. Len(d) + Len(k) : s[i] = IF i <= Len(d) THEN d[i] ELSE k[i - Len(d)]
  BY <1>2, ConcatProperties
<1>5. \A i \in 1 .. Len(d) : i \in 1 .. Len(s) /\ s[i] = d[i]
  BY <1>3, <1>4
<1>6. \A i \in 0 .. Len(d) : After(s, i) = After(d, i) /\ Counting(s, i) = Counting(d, i)
  <2> TAKE i \in 0 .. Len(d)
  <2>1. CASE i = 0
    BY <2>1 DEF After, Counting
  <2>2. CASE i # 0
    <3>1. i \in 1 .. Len(d)
      BY <1>3, <2>2
    <3>2. s[i] = d[i]
      BY <1>5, <3>1
    <3> QED  BY <2>2, <3>2 DEF After, Counting
  <2> QED  BY <2>1, <2>2
<1>7. ASSUME NEW i \in 1 .. Len(d)
      PROVE  /\ d[i] = Tokenize(After(d, i - 1), Counting(d, i - 1))
             /\ d[i].kind # "ERROR" /\ d[i].to \in Position
  <2>1. i \in 1 .. Len(s) /\ s[i] = d[i] /\ i - 1 \in 0 .. Len(d)
    BY <1>3, <1>5
  <2>2. After(s, i - 1) = After(d, i - 1) /\ Counting(s, i - 1) = Counting(d, i - 1)
    BY <1>6, <2>1
  <2>3. s[i] = Tokenize(After(s, i - 1), Counting(s, i - 1)) /\ s[i].kind # "ERROR" /\ s[i].to \in Position
    BY <1>2, <2>1 DEF Chained
  <2> QED  BY <2>1, <2>2, <2>3
<1>8. Chained(d)
  BY <1>2, <1>7 DEF Chained
<1>9. ASSUME k # << >>
      PROVE  /\ Head(k) \in Tokens
             /\ Head(k) = Tokenize(After(d, Len(d)), Counting(d, Len(d)))
             /\ Head(k).kind # "ERROR"
  <2>1. Head(k) \in Tokens /\ Head(k) = k[1]
    BY <1>2, <1>9, HeadTailProperties
  <2>2. Len(k) \in Nat \ {0}
    BY <1>2, <1>9, EmptySeq
  <2>3. PICK n : n = Len(d) + 1
    OBVIOUS
  <2>4. n \in 1 .. Len(s) /\ s[n] = k[1] /\ n - 1 = Len(d) /\ Len(d) \in 0 .. Len(d)
    BY <1>3, <1>4, <2>2, <2>3
  <2>5. s[n] = Tokenize(After(s, n - 1), Counting(s, n - 1)) /\ s[n].kind # "ERROR"
    BY <1>2, <2>4 DEF Chained
  <2>6. After(s, n - 1) = After(d, Len(d)) /\ Counting(s, n - 1) = Counting(d, Len(d))
    BY <1>6, <2>4
  <2> QED  BY <2>1, <2>4, <2>5, <2>6
<1> QED  BY <1>1, <1>8, <1>9

(* What lexer_next delivers next has taken a rune, or ends the file.       *)
LEMMA DeliverSpent ==
  ASSUME LexInv, ~Ended, input' = input, NEW token,
         token = Tokenize(After(delivered, Len(delivered)), Counting(delivered, Len(delivered))),
         token.kind # "ERROR", delivered' = Append(delivered, token)
  PROVE  Spent'
<1>1. PICK d, t : d = delivered /\ t = delivered'
  OBVIOUS
<1>2. SourceInv /\ Chained(d) /\ Taken(d)
  BY <1>1, DeliveredChained DEF LexInv, Spent
<1>3. t = Append(d, token)
  BY <1>1
<1>4. Len(t) <= End + 1 /\ (token.kind = "EOF" \/ Taken(t))
  BY <1>1, <1>2, <1>3, AppendTaken
<1>5. token \in Tokens /\ d \in Seq(Tokens)
  BY <1>1, <1>2, AppendChained DEF Chained
<1>6. t # << >> /\ Len(t) = Len(d) + 1 /\ t[Len(d) + 1] = token
  BY <1>3, <1>5, AppendProperties
<1>7. Taken(t)' = Taken(t) /\ End' = End
  BY SameSource
<1>8. token.kind = "EOF" => Ended'
  BY <1>1, <1>6 DEF Ended, Last
<1>9. Taken(t) => Taken(delivered)'
  BY <1>1, <1>7 DEF Taken, After, Counting
<1> QED  BY <1>1, <1>4, <1>7, <1>8, <1>9 DEF Spent

(* A token that was scanned, whether lexer_next returns it or lexer_peek   *)
(* queues it.                                                              *)
LEMMA ScanChain ==
  ASSUME LexInv, input' = input, NEW token, token = Tokenize(here, asi), token.kind # "ERROR",
         RawNext(token), Scanned' = Append(Scanned, token),
         delivered' \in Seq(Tokens), peek' \in Seq(Tokens)
  PROVE  Chain'
<1>1. PICK s, t : s = Scanned /\ t = Scanned'
  OBVIOUS
<1>2. SourceInv /\ Chained(s) /\ token = Tokenize(After(s, Len(s)), Counting(s, Len(s)))
  BY <1>1 DEF LexInv, Chain
<1>3. t = Append(s, token)
  BY <1>1
<1>4. Chained(t) /\ After(t, Len(t)) = token.to /\ Counting(t, Len(t)) = EndsStatement(token.kind, token.as)
  BY <1>2, <1>3, AppendChained
<1>5. Chained(t)'
  BY <1>4, SameSource
<1>6. Chained(Scanned)'
  BY <1>1, <1>5, SameSource
<1>7. here' = After(t, Len(t)) /\ asi' = Counting(t, Len(t))
  BY <1>4 DEF RawNext
<1>8. here' = After(Scanned, Len(Scanned))' /\ asi' = Counting(Scanned, Len(Scanned))'
  BY <1>1, <1>7 DEF After, Counting
<1>9. Tokens' = Tokens
  BY SameSource
<1> QED  BY <1>6, <1>8, <1>9 DEF Chain

(* The lexer begins with no token scanned.                                 *)
LEMMA LexInit ==
  ASSUME Init
  PROVE  LexInv
<1>1. SourceInv
  BY LexerAssumption DEF Init, SourceInv
<1>2. End \in Nat /\ End >= 2
  BY <1>1, EndFacts
<1>3. PICK s : s = Scanned
  OBVIOUS
<1>4. delivered \in Seq(Tokens) /\ peek \in Seq(Tokens) /\ s \in Seq(Tokens) /\ s = << >>
  <2>1. << >> \in Seq(Tokens)
    BY EmptySeq
  <2> QED  BY <1>3, <2>1, ConcatEmptySeq DEF Init, Scanned
<1>5. Len(s) = 0 /\ Len(delivered) = 0
  BY <1>4, EmptySeq DEF Init
<1>6. Chained(s)
  BY <1>4, <1>5 DEF Chained
<1>7. here = After(s, Len(s)) /\ asi = Counting(s, Len(s))
  BY <1>5 DEF Init, After, Counting
<1>8. Chain
  BY <1>3, <1>4, <1>6, <1>7 DEF Chain
<1>9. Spent
  BY <1>2, <1>5 DEF Spent, Taken, After
<1> QED  BY <1>1, <1>8, <1>9 DEF LexInv, Init, Peeked

(* A throw leaves the lexer where it was.                                  *)
LEMMA LexStays ==
  ASSUME LexInv, thrown' \in BOOLEAN, UNCHANGED <<input, here, asi, peek, delivered, result>>
  PROVE  LexInv'
<1>1. SourceInv' /\ End' = End /\ Tokens' = Tokens
  BY SameSource DEF LexInv
<1>2. PICK s, d : s = Scanned /\ d = delivered
  OBVIOUS
<1>3. s = Scanned' /\ d = delivered'
  BY <1>2 DEF Scanned
<1>4. Chained(s)' = Chained(s) /\ Taken(d)' = Taken(d)
  BY SameSource
<1>5. Chained(Scanned)' = Chained(Scanned) /\ Taken(delivered)' = Taken(delivered)
  BY <1>2, <1>3, <1>4
<1>6. Chain'
  <2>1. /\ delivered' \in Seq(Tokens') /\ peek' \in Seq(Tokens')
        /\ Chained(Scanned)'
        /\ here' = After(Scanned, Len(Scanned)) /\ asi' = Counting(Scanned, Len(Scanned))
    BY <1>1, <1>5 DEF LexInv, Chain
  <2> QED  BY <1>2, <1>3, <2>1 DEF Chain, After, Counting
<1>7. Spent'
  BY <1>1, <1>5 DEF LexInv, Spent, Ended
<1> QED  BY <1>1, <1>6, <1>7 DEF LexInv, Peeked

(* lexer_next takes the first token of the queue.                          *)
LEMMA QueuedStep ==
  ASSUME LexInv, LexerNextQueued
  PROVE  LexInv'
<1>1. SourceInv' /\ Tokens' = Tokens /\ peek # << >> /\ ~Ended
  BY SameSource DEF LexInv, LexerNextQueued
<1>2. PICK d, k, d2, k2 : d = delivered /\ k = peek /\ d2 = delivered' /\ k2 = peek'
  OBVIOUS
<1>3. d \in Seq(Tokens) /\ k \in Seq(Tokens) /\ k # << >>
  BY <1>1, <1>2 DEF LexInv, Chain
<1>4. PICK token : token = Head(k)
  OBVIOUS
<1>5. /\ token \in Tokens /\ token.kind # "ERROR"
      /\ token = Tokenize(After(delivered, Len(delivered)), Counting(delivered, Len(delivered)))
  BY <1>1, <1>2, <1>4, DeliveredChained
<1>6. d2 = Append(d, token) /\ k2 = Tail(k)
  BY <1>2, <1>4 DEF LexerNextQueued
<1>7. /\ d2 \in Seq(Tokens) /\ Len(d2) = Len(d) + 1
      /\ (\A i \in 1 .. Len(d) : d2[i] = d[i]) /\ d2[Len(d) + 1] = token
  BY <1>3, <1>5, <1>6, AppendProperties
<1>8. /\ k2 \in Seq(Tokens) /\ Len(k2) = Len(k) - 1 /\ token = k[1]
      /\ \A i \in 1 .. Len(k2) : k2[i] = k[i + 1]
  BY <1>3, <1>4, <1>6, HeadTailProperties
<1>9. Len(d) \in Nat /\ Len(k) \in Nat /\ Len(k2) \in Nat /\ Len(k) # 0
  BY <1>3, <1>8, LenProperties, EmptySeq
<1>10. d2 \o k2 = d \o k
  <2>1. /\ d \o k \in Seq(Tokens) /\ Len(d \o k) = Len(d) + Len(k)
        /\ \A i \in 1 .. Len(d) + Len(k) : (d \o k)[i] = IF i <= Len(d) THEN d[i] ELSE k[i - Len(d)]
    BY <1>3, ConcatProperties
  <2>2. /\ d2 \o k2 \in Seq(Tokens) /\ Len(d2 \o k2) = Len(d2) + Len(k2)
        /\ \A i \in 1 .. Len(d2) + Len(k2) : (d2 \o k2)[i] = IF i <= Len(d2) THEN d2[i] ELSE k2[i - Len(d2)]
    BY <1>7, <1>8, ConcatProperties
  <2>3. Len(d2) + Len(k2) = Len(d) + Len(k)
    BY <1>7, <1>8, <1>9
  <2>4. ASSUME NEW i \in 1 .. Len(d) + Len(k)
        PROVE  (IF i <= Len(d2) THEN d2[i] ELSE k2[i - Len(d2)]) = IF i <= Len(d) THEN d[i] ELSE k[i - Len(d)]
    <3>1. CASE i <= Len(d)
      <4>1. i <= Len(d2) /\ i \in 1 .. Len(d)
        BY <1>7, <1>9, <3>1
      <4> QED  BY <1>7, <3>1, <4>1
    <3>2. CASE i = Len(d) + 1
      <4>1. i <= Len(d2) /\ ~(i <= Len(d)) /\ i - Len(d) = 1
        BY <1>7, <1>9, <3>2
      <4> QED  BY <1>7, <1>8, <3>2, <4>1
    <3>3. CASE i > Len(d) + 1
      <4>1. /\ ~(i <= Len(d2)) /\ ~(i <= Len(d)) /\ i - Len(d2) \in 1 .. Len(k2)
            /\ i - Len(d2) + 1 = i - Len(d)
        BY <1>7, <1>8, <1>9, <3>3
      <4> QED  BY <1>8, <4>1
    <3> QED  BY <1>9, <3>1, <3>2, <3>3
  <2>5. \A i \in 1 .. Len(d2 \o k2) : (d2 \o k2)[i] = (d \o k)[i]
    BY <2>1, <2>2, <2>3, <2>4
  <2> QED  BY <2>1, <2>2, <2>3, <2>5, SeqEqual
<1>11. Scanned' = Scanned
  BY <1>2, <1>10 DEF Scanned
<1>12. Chain'
  <2>1. PICK s : s = Scanned
    OBVIOUS
  <2>2. Chained(s)' = Chained(s)
    BY SameSource DEF LexerNextQueued
  <2>3. Chained(Scanned)' = Chained(Scanned)
    BY <1>11, <2>1, <2>2
  <2>4. Chained(Scanned)' /\ here = After(s, Len(s)) /\ asi = Counting(s, Len(s))
    BY <2>1, <2>3 DEF LexInv, Chain
  <2>5. here' = After(Scanned, Len(Scanned))' /\ asi' = Counting(Scanned, Len(Scanned))'
    BY <1>11, <2>1, <2>4 DEF LexerNextQueued, After, Counting
  <2> QED  BY <1>1, <1>2, <1>7, <1>8, <2>4, <2>5 DEF Chain
<1>13. Spent'
  BY <1>1, <1>2, <1>5, <1>6, DeliverSpent DEF LexerNextQueued
<1> QED  BY <1>1, <1>12, <1>13 DEF LexInv, LexerNextQueued, Peeked

(* lexer_next scans a token when the queue is empty.                       *)
LEMMA ScannedStep ==
  ASSUME LexInv, LexerNextScanned
  PROVE  LexInv'
<1>1. PICK token : token = Tokenize(here, asi)
  OBVIOUS
<1>2. CASE Throw(token)
  BY <1>2, LexStays DEF Throw
<1>3. CASE /\ token.kind # "ERROR"
           /\ RawNext(token)
           /\ delivered' = Append(delivered, token)
           /\ result' = None
           /\ UNCHANGED <<input, peek, thrown>>
  <2>1. SourceInv' /\ Tokens' = Tokens
    BY <1>3, SameSource DEF LexInv
  <2>2. peek = << >> /\ ~Ended
    BY DEF LexerNextScanned
  <2>3. PICK d : d = delivered
    OBVIOUS
  <2>4. d \in Seq(Tokens) /\ Scanned = d
    BY <2>2, <2>3, ConcatEmptySeq DEF LexInv, Chain, Scanned
  <2>5. token = Tokenize(After(d, Len(d)), Counting(d, Len(d))) /\ Chained(d)
    BY <1>1, <2>4 DEF LexInv, Chain
  <2>6. token \in Tokens
    BY <1>3, <2>5, AppendChained DEF LexInv
  <2>7. Append(d, token) \in Seq(Tokens)
    BY <2>4, <2>6, AppendProperties
  <2>8. delivered' \in Seq(Tokens) /\ peek' \in Seq(Tokens)
    BY <1>3, <2>3, <2>7 DEF LexInv, Chain
  <2>9. Scanned' = Append(Scanned, token)
    BY <1>3, <2>2, <2>3, <2>4, <2>7, ConcatEmptySeq DEF Scanned
  <2>10. Chain'
    BY <1>1, <1>3, <2>8, <2>9, ScanChain
  <2>11. Spent'
    BY <1>3, <2>2, <2>3, <2>5, DeliverSpent
  <2> QED  BY <1>3, <2>1, <2>10, <2>11 DEF LexInv, Peeked
<1> QED  BY <1>1, <1>2, <1>3 DEF LexerNextScanned

(* lexer_peek scans a token and queues it.                                 *)
LEMMA PeekStep ==
  ASSUME LexInv, LexerPeek
  PROVE  LexInv'
<1>1. PICK token : token = Tokenize(here, asi)
  OBVIOUS
<1>2. CASE Throw(token)
  BY <1>2, LexStays DEF Throw
<1>3. CASE /\ token.kind # "ERROR"
           /\ RawNext(token)
           /\ peek' = Append(peek, token)
           /\ result' = IF peek = << >> THEN token ELSE Last(peek)
           /\ UNCHANGED <<input, delivered, thrown>>
  <2>1. SourceInv' /\ Tokens' = Tokens /\ End' = End
    BY <1>3, SameSource DEF LexInv
  <2>2. PICK d, k, k2 : d = delivered /\ k = peek /\ k2 = peek'
    OBVIOUS
  <2>3. d \in Seq(Tokens) /\ k \in Seq(Tokens)
    BY <2>2 DEF LexInv, Chain
  <2>4. PICK s : s = Scanned
    OBVIOUS
  <2>5. token = Tokenize(After(s, Len(s)), Counting(s, Len(s))) /\ Chained(s)
    BY <1>1, <2>4 DEF LexInv, Chain
  <2>6. token \in Tokens
    BY <1>3, <2>5, AppendChained DEF LexInv
  <2>7. /\ k2 = Append(k, token) /\ k2 \in Seq(Tokens) /\ Len(k2) = Len(k) + 1
        /\ (\A i \in 1 .. Len(k) : k2[i] = k[i]) /\ k2[Len(k) + 1] = token
    BY <1>3, <2>2, <2>3, <2>6, AppendProperties
  <2>8. Len(k) \in Nat /\ (k = << >> <=> Len(k) = 0)
    BY <2>3, LenProperties, EmptySeq
  <2>9. Scanned' = Append(Scanned, token)
    <3>1. <<token>> \in Seq(Tokens)
      BY <2>6
    <3>2. d \o Append(k, token) = Append(d \o k, token)
      <4>1. Append(k, token) = k \o <<token>>
        BY <2>3, <2>6, AppendIsConcat
      <4>2. d \o k \in Seq(Tokens)
        BY <2>3, ConcatProperties
      <4>3. Append(d \o k, token) = (d \o k) \o <<token>>
        BY <2>6, <4>2, AppendIsConcat
      <4> QED  BY <2>3, <3>1, <4>1, <4>3, ConcatAssociative
    <3> QED  BY <1>3, <2>2, <2>7, <3>2 DEF Scanned
  <2>10. Chain'
    BY <1>1, <1>3, <2>2, <2>3, <2>7, <2>9, ScanChain
  <2>11. Peeked'
    <3>1. CASE k = << >>
      <4>1. result' = k2[1] /\ Len(k2) = 1
        BY <1>3, <2>2, <2>7, <2>8, <3>1
      <4> QED  BY <2>2, <4>1 DEF Peeked
    <3>2. CASE k # << >>
      <4>1. result' = k[Len(k)]
        BY <1>3, <2>2, <3>2 DEF Last
      <4>2. Len(k) \in 1 .. Len(k) /\ Len(k) \in 1 .. Len(k2)
        <5>1. PICK m, m2 : m = Len(k) /\ m2 = Len(k2)
          OBVIOUS
        <5>2. m \in Nat /\ m # 0 /\ m2 = m + 1
          BY <2>7, <2>8, <3>2, <5>1
        <5>3. m \in 1 .. m /\ m \in 1 .. m2
          BY <5>2
        <5> QED  BY <5>1, <5>3
      <4>3. result' = k2[Len(k)]
        BY <2>7, <4>1, <4>2
      <4> QED  BY <2>2, <4>2, <4>3 DEF Peeked
    <3> QED  BY <3>1, <3>2
  <2>12. Spent'
    <3>1. Taken(d)' = Taken(d)
      BY <1>3, SameSource
    <3>2. Taken(delivered)' = Taken(delivered)
      BY <1>3, <2>2, <3>1
    <3> QED  BY <1>3, <2>1, <3>2 DEF LexInv, Spent, Ended
  <2> QED  BY <1>3, <2>1, <2>10, <2>11, <2>12 DEF LexInv
<1> QED  BY <1>1, <1>2, <1>3 DEF LexerPeek

(* Whatever the source is and whenever the parser looks ahead, the tokens  *)
(* are scanned one after the other, each from where the one before it      *)
(* ended, and lexer_peek answers with one of those in the queue.           *)
THEOREM LexCorrect == Spec => []LexInv
<1>1. Init => LexInv
  BY LexInit
<1>2. LexInv /\ [Next]_lexerVars => LexInv'
  <2> SUFFICES ASSUME LexInv, [Next]_lexerVars  PROVE LexInv'
    OBVIOUS
  <2>1. CASE LexerNextQueued
    BY <2>1, QueuedStep
  <2>2. CASE LexerNextScanned
    BY <2>2, ScannedStep
  <2>3. CASE LexerPeek
    BY <2>3, PeekStep
  <2>4. CASE UNCHANGED lexerVars
    <3>1. thrown' \in BOOLEAN
      BY <2>4 DEF lexerVars, LexInv
    <3> QED  BY <2>4, <3>1, LexStays DEF lexerVars
  <2> QED  BY <2>1, <2>2, <2>3, <2>4 DEF Next, LexerNext
<1> QED  BY <1>1, <1>2, PTL DEF Spec

-----------------------------------------------------------------------------
(* What follows from it.                                                   *)

(* Every token was scanned after the one before it.                        *)
LEMMA ScannedToken ==
  ASSUME LexInv, NEW i \in 1 .. Len(Scanned)
  PROVE  /\ After(Scanned, i - 1) \in Position /\ Counting(Scanned, i - 1) \in BOOLEAN
         /\ ScannedAfter(Scanned[i], After(Scanned, i - 1), Counting(Scanned, i - 1))
<1>1. PICK s : s = Scanned
  OBVIOUS
<1>2. SourceInv /\ Chained(s) /\ i \in 1 .. Len(s)
  BY <1>1 DEF LexInv, Chain
<1>3. Len(s) \in Nat
  BY <1>2, LenProperties DEF Chained
<1>4. i - 1 \in 0 .. Len(s)
  BY <1>2, <1>3
<1>5. PICK p, newline : p = After(s, i - 1) /\ newline = Counting(s, i - 1)
  OBVIOUS
<1>6. p \in 1 .. End /\ newline \in BOOLEAN
  BY <1>2, <1>4, <1>5, ChainEnd DEF Position
<1>7. s[i] = Tokenize(p, newline) /\ Tokenize(p, newline).kind # "ERROR"
  BY <1>2, <1>5 DEF Chained
<1>8. ScannedAfter(s[i], p, newline)
  BY <1>2, <1>6, <1>7, TokenizeFacts
<1> QED  BY <1>1, <1>5, <1>6, <1>8 DEF Position

(* Every token has its shape.                                              *)
LEMMA ScannedShape ==
  ASSUME LexInv, NEW i \in 1 .. Len(Scanned)
  PROVE  IsToken(Scanned[i])
<1>1. PICK token, p : token = Scanned[i] /\ p = After(Scanned, i - 1)
  OBVIOUS
<1>2. p \in Position /\ \E newline : ScannedAfter(token, p, newline)
  BY <1>1, ScannedToken
<1>3. token.from \in p .. End /\ \E counts : ScannedFrom(token, token.from, counts)
  BY <1>2 DEF ScannedAfter
<1>4. /\ token = Token(token.kind, token.as, token.from, token.to)
      /\ token.kind \in TokenKind /\ token.to \in token.from .. End
  BY <1>3 DEF ScannedFrom
<1>5. DOMAIN token = {"kind", "as", "from", "to"}
  BY <1>4 DEF Token
<1>6. token.from \in Position
  BY <1>2, <1>3, EndFacts DEF Position, LexInv
<1> QED  BY <1>1, <1>4, <1>5, <1>6 DEF IsToken

(* And so has the state.                                                   *)
LEMMA LexShape ==
  ASSUME LexInv
  PROVE  TypeOK
<1>1. PICK d, k, s : d = delivered /\ k = peek /\ s = Scanned
  OBVIOUS
<1>2. d \in Seq(Tokens) /\ k \in Seq(Tokens) /\ s = d \o k /\ Chained(s) /\ SourceInv
  BY <1>1 DEF LexInv, Chain, Scanned
<1>3. Len(d) \in Nat /\ Len(k) \in Nat
  BY <1>2, LenProperties
<1>4. /\ Len(s) = Len(d) + Len(k)
      /\ \A i \in 1 .. Len(d) + Len(k) : s[i] = IF i <= Len(d) THEN d[i] ELSE k[i - Len(d)]
  BY <1>2, ConcatProperties
<1>5. \A i \in 1 .. Len(s) : IsToken(s[i])
  BY <1>1, ScannedShape
<1>6. \A i \in 1 .. Len(d) : IsToken(d[i])
  <2> TAKE i \in 1 .. Len(d)
  <2>1. i \in 1 .. Len(s) /\ s[i] = d[i]
    BY <1>3, <1>4
  <2> QED  BY <1>5, <2>1
<1>7. \A i \in 1 .. Len(k) : IsToken(k[i])
  <2> TAKE i \in 1 .. Len(k)
  <2>1. PICK j : j = Len(d) + i
    OBVIOUS
  <2>2. j \in 1 .. Len(s) /\ ~(j <= Len(d)) /\ j - Len(d) = i
    BY <1>3, <1>4, <2>1
  <2>3. s[j] = k[i]
    BY <1>4, <2>2
  <2> QED  BY <1>5, <2>2, <2>3
<1>8. result = None \/ IsToken(result)
  BY <1>1, <1>7 DEF LexInv, Peeked
<1>9. Len(s) \in 0 .. Len(s)
  BY <1>3, <1>4
<1>10. here \in Position /\ asi \in BOOLEAN
  BY <1>1, <1>2, <1>9, ChainEnd DEF LexInv, Chain
<1> QED  BY <1>1, <1>6, <1>7, <1>8, <1>10 DEF TypeOK, LexInv

(* The runes between two tokens.                                           *)
LEMMA GapFacts ==
  ASSUME LexInv, NEW a, NEW b, a.to \in Position, b.from \in a.to .. End
  PROVE  Gap(a, b) = {At(q) : q \in a.to .. b.from - 1}
<1>1. \A q \in a.to .. b.from - 1 : At(q) = input[q]
  <2> TAKE q \in a.to .. b.from - 1
  <2>1. PICK p, r : p = a.to /\ r = b.from
    OBVIOUS
  <2>2. q \in Nat \ {0} /\ q < End
    BY <2>1, EndFacts DEF LexInv, Position
  <2> QED  BY <2>2, EndFacts DEF LexInv
<1> QED  BY <1>1 DEF Gap

(* The tokens cover the source: what lies between two of them, or before   *)
(* the first, is only blanks, newlines and line continuations.             *)
THEOREM LexTokens == Spec => []TokensInv
<1>1. LexInv => TokensInv
  <2> SUFFICES ASSUME LexInv  PROVE TokensInv
    OBVIOUS
  <2>1. ASSUME NEW i \in 1 .. Len(Scanned), NEW a,
               a = IF i = 1 THEN Token("EOF", Plain, 1, 1) ELSE Scanned[i - 1]
        PROVE  a.to <= Scanned[i].from /\ Gap(a, Scanned[i]) \subseteq Blank \cup {Newline, "\\"}
    <3>1. PICK b, p : b = Scanned[i] /\ p = After(Scanned, i - 1)
      OBVIOUS
    <3>2. p \in Position /\ \E newline : ScannedAfter(b, p, newline)
      BY <3>1, ScannedToken
    <3>3. b.from \in p .. End /\ \A q \in p .. b.from - 1 : At(q) \in Blank \cup {Newline, "\\"}
      BY <3>2 DEF ScannedAfter
    <3>4. a.to = p
      <4>1. CASE i = 1
        BY <2>1, <3>1, <4>1, TokenFields DEF After
      <4>2. CASE i # 1
        BY <2>1, <3>1, <4>2 DEF After
      <4> QED  BY <4>1, <4>2
    <3>5. Gap(a, b) = {At(q) : q \in a.to .. b.from - 1}
      BY <3>2, <3>3, <3>4, GapFacts
    <3>6. Gap(a, b) \subseteq Blank \cup {Newline, "\\"}
      BY <3>3, <3>4, <3>5
    <3>7. p <= b.from
      BY <3>2, <3>3, EndFacts DEF LexInv, Position
    <3> QED  BY <3>1, <3>4, <3>6, <3>7
  <2>2. NothingDropped
    BY <2>1 DEF NothingDropped
  <2> QED  BY <2>2, LexShape DEF TokensInv
<1> QED  BY <1>1, LexCorrect, PTL

(* A newline is a token just where the line may end a statement there.     *)
THEOREM LexNewlines == Spec => []NewlinesSeparate
<1>1. LexInv => NewlinesSeparate
  <2> SUFFICES ASSUME LexInv, NEW i \in 2 .. Len(Scanned), NEW a, NEW b, NEW ends,
                      a = Scanned[i - 1], b = Scanned[i],
                      ends = (EndsStatement(a.kind, a.as) /\ "\\" \notin Gap(a, b))
               PROVE  (IsNewline(b) => ends) /\ (Newline \in Gap(a, b) => ~ends)
    BY DEF NewlinesSeparate
  <2>0. Len(Scanned) \in Nat
    BY LenProperties DEF LexInv, Chain, Chained
  <2>1. i \in 1 .. Len(Scanned) /\ i - 1 # 0
    BY <2>0
  <2>2. After(Scanned, i - 1) = a.to /\ Counting(Scanned, i - 1) = EndsStatement(a.kind, a.as)
    BY <2>1 DEF After, Counting
  <2>3. PICK newline : newline = EndsStatement(a.kind, a.as)
    OBVIOUS
  <2>4. a.to \in Position /\ newline \in BOOLEAN /\ ScannedAfter(b, a.to, newline)
    BY <2>1, <2>2, <2>3, ScannedToken
  <2>5. b.from \in a.to .. End
    BY <2>4 DEF ScannedAfter
  <2>6. Gap(a, b) = {At(q) : q \in a.to .. b.from - 1}
    BY <2>4, <2>5, GapFacts
  <2>7. PICK counts \in BOOLEAN :
          /\ ScannedFrom(b, b.from, counts)
          /\ counts => newline /\ \A q \in a.to .. b.from - 1 : At(q) \in Blank
          /\ ~counts => ~newline \/ \E q \in a.to .. b.from - 1 : At(q) = "\\"
    BY <2>4 DEF ScannedAfter
  <2>8. "\\" \notin Blank /\ Newline \notin Blank
    BY DEF Blank, Newline
  <2>9. IsNewline(b) => counts
    BY <2>7 DEF ScannedFrom
  <2>10. CASE counts
    <3>1. newline /\ "\\" \notin Gap(a, b) /\ Newline \notin Gap(a, b)
      BY <2>6, <2>7, <2>8, <2>10
    <3> QED  BY <2>3, <3>1
  <2>11. CASE ~counts
    <3>1. ~newline \/ "\\" \in Gap(a, b)
      BY <2>6, <2>7, <2>11
    <3> QED  BY <2>3, <2>9, <2>11, <3>1
  <2> QED  BY <2>10, <2>11
<1> QED  BY <1>1, LexCorrect, PTL

(* The parser gets to the end of the file after as many calls of           *)
(* lexer_next as the source has runes, and two.                            *)
THEOREM LexProgress == Spec => []Progress
<1>1. LexInv => Progress
  <2> SUFFICES ASSUME LexInv  PROVE Progress
    OBVIOUS
  <2>1. Len(input) = End - 1 /\ End \in Nat
    BY EndFacts DEF LexInv
  <2>2. Len(delivered) \in Nat
    BY LenProperties DEF LexInv, Chain
  <2>3. Len(delivered) <= End + 1
    BY DEF LexInv, Spent
  <2>4. Len(input) + 2 = End + 1
    BY <2>1
  <2> QED  BY <2>3, <2>4 DEF Progress
<1> QED  BY <1>1, LexCorrect, PTL

(* The dots of a range stay out of the number before them.                 *)
THEOREM LexRange == Spec => []RangeKept
<1>1. LexInv => RangeKept
  <2> SUFFICES ASSUME LexInv, NEW i \in 1 .. Len(Scanned), NEW token, token = Scanned[i],
                      token.kind = "LITERAL", token.as \in {"INTEGER", "FLOAT"},
                      Begins(<<".", ".">>, token.to - 1)
               PROVE  FALSE
    BY DEF RangeKept
  <2>1. PICK p, q : p = token.from /\ q = token.to
    OBVIOUS
  <2>2. PICK newline : ScannedAfter(token, After(Scanned, i - 1), newline)
    BY ScannedToken
  <2>3. PICK counts : ScannedFrom(token, p, counts)
    BY <2>1, <2>2 DEF ScannedAfter
  <2>4. /\ q > p /\ q \in p .. End
        /\ ~(At(q - 1) = "." /\ At(q) = ".")
    BY <2>1, <2>3 DEF ScannedFrom, IsNewline
  <2>5. p \in 1 .. End
    BY <2>1, ScannedShape DEF IsToken, Position
  <2>6. PICK r : r = q - 1
    OBVIOUS
  <2>7. r \in 1 .. End /\ r + 1 = q
    BY <2>4, <2>5, <2>6, EndFacts DEF LexInv
  <2>8. r + 2 <= End /\ Runes(r, r + 2) = <<".", ".">>
    BY <2>1, <2>6 DEF Begins
  <2>9. r + 2 \in r .. End /\ 1 \in 1 .. (r + 2) - r /\ 2 \in 1 .. (r + 2) - r /\ r + 1 - 1 = r /\ r + 2 - 1 = q
    BY <2>7, <2>8, EndFacts DEF LexInv
  <2>10. Runes(r, r + 2)[1] = At(r) /\ Runes(r, r + 2)[2] = At(q)
    BY <2>7, <2>9, RunesFacts DEF LexInv
  <2> QED  BY <2>4, <2>6, <2>8, <2>10
<1> QED  BY <1>1, LexCorrect, PTL

(* The switch takes the longest spelling of the tables, and for what they  *)
(* have it, but for the disputed assignments, of which it says nothing.    *)
THEOREM LexLongest == Spec => []LongestMatch
<1>1. LexInv => LongestMatch
  <2> SUFFICES ASSUME LexInv, NEW i \in 1 .. Len(Scanned)  PROVE TextFits(Scanned[i])
    BY DEF LongestMatch, TextFits
  <2>1. PICK token : token = Scanned[i]
    OBVIOUS
  <2>2. \E p, newline : ScannedAfter(token, p, newline)
    BY <2>1, ScannedToken
  <2>3. TextFits(token)
    BY <2>2 DEF ScannedAfter, ScannedFrom
  <2> QED  BY <2>1, <2>3
<1> QED  BY <1>1, LexCorrect, PTL

-----------------------------------------------------------------------------
(* Looking ahead.  Stream is recursive too: the prefixes of a chain are    *)
(* what it is, the only thing it can be.                                   *)

(* A prefix of a chain is the shorter one and the next token.              *)
LEMMA ChainPrefix ==
  ASSUME SourceInv, NEW s, Chained(s), NEW i \in 1 .. Len(s)
  PROVE  SubSeq(s, 1, i)
           = Append(SubSeq(s, 1, i - 1), Tokenize(After(s, i - 1), Counting(s, i - 1)))
<1>1. s \in Seq(Tokens) /\ Len(s) \in Nat /\ s[i] = Tokenize(After(s, i - 1), Counting(s, i - 1))
  BY LenProperties DEF Chained
<1>2. \A j \in 1 .. i : s[j] \in Tokens
  <2> TAKE j \in 1 .. i
  <2>1. j \in 1 .. Len(s)
    BY <1>1
  <2> QED  BY <1>1, <2>1, ElementOfSeq
<1>3. PICK t, u : t = SubSeq(s, 1, i - 1) /\ u = SubSeq(s, 1, i)
  OBVIOUS
<1>4. u \in Seq(Tokens) /\ Len(u) = i /\ \A j \in 1 .. i : u[j] = s[j]
  <2>1. 1 \in Int /\ i \in Int
    BY <1>1
  <2>2. /\ u \in Seq(Tokens) /\ Len(u) = (IF 1 <= i THEN i - 1 + 1 ELSE 0)
        /\ \A j \in 1 .. i - 1 + 1 : u[j] = s[1 + j - 1]
    BY <1>2, <1>3, <2>1, SubSeqProperties
  <2> QED  BY <2>2
<1>5. t \in Seq(Tokens) /\ Len(t) = i - 1 /\ \A j \in 1 .. i - 1 : t[j] = s[j]
  <2>1. 1 \in Int /\ i - 1 \in Int /\ \A j \in 1 .. i - 1 : s[j] \in Tokens
    BY <1>2
  <2>2. /\ t \in Seq(Tokens) /\ Len(t) = (IF 1 <= i - 1 THEN i - 1 - 1 + 1 ELSE 0)
        /\ \A j \in 1 .. i - 1 - 1 + 1 : t[j] = s[1 + j - 1]
    BY <1>3, <2>1, SubSeqProperties
  <2> QED  BY <2>2
<1>6. PICK v : v = Append(t, s[i])
  OBVIOUS
<1>7. /\ v \in Seq(Tokens) /\ Len(v) = i /\ (\A j \in 1 .. i - 1 : v[j] = t[j]) /\ v[i] = s[i]
  <2>1. s[i] \in Tokens
    BY <1>2
  <2>2. /\ v \in Seq(Tokens) /\ Len(v) = Len(t) + 1 /\ (\A j \in 1 .. Len(t) : v[j] = t[j])
        /\ v[Len(t) + 1] = s[i]
    BY <1>5, <1>6, <2>1, AppendProperties
  <2> QED  BY <1>5, <2>2
<1>8. \A j \in 1 .. i : v[j] = u[j]
  BY <1>4, <1>5, <1>7
<1>9. v = u
  BY <1>4, <1>7, <1>8, SeqEqual
<1> QED  BY <1>1, <1>3, <1>6, <1>9

(* A chain is what lexer_next alone would return.                          *)
LEMMA StreamFacts ==
  ASSUME SourceInv, NEW s, Chained(s)
  PROVE  s = Stream(Len(s))
<1> DEFINE n == Len(s)
           step(f, i) == IF i = 0 THEN << >>
                         ELSE LET before == f[i - 1]
                                  token == IF i = 1 THEN Tokenize(1, FALSE)
                                           ELSE Tokenize(Last(before).to,
                                                         EndsStatement(Last(before).kind, Last(before).as))
                              IN Append(before, token)
           g == [i \in 0 .. n |-> SubSeq(s, 1, i)]
           stream == CHOOSE f : f = [i \in 0 .. n |-> step(f, i)]
<1>1. s \in Seq(Tokens) /\ n \in Nat
  BY LenProperties DEF Chained
<1>2. ASSUME NEW f, NEW i \in 0 .. n, i # 0, f[i - 1] = SubSeq(s, 1, i - 1)
      PROVE  step(f, i) = SubSeq(s, 1, i)
  <2>1. i \in 1 .. n /\ i - 1 \in Nat
    BY <1>1, <1>2
  <2>2. SubSeq(s, 1, i) = Append(SubSeq(s, 1, i - 1), Tokenize(After(s, i - 1), Counting(s, i - 1)))
    BY <2>1, ChainPrefix
  <2>3. CASE i = 1
    <3>1. After(s, i - 1) = 1 /\ Counting(s, i - 1) = FALSE
      BY <2>3 DEF After, Counting
    <3>2. step(f, i) = Append(f[i - 1], Tokenize(1, FALSE))
      BY <1>2, <2>3
    <3> QED  BY <1>2, <2>2, <3>1, <3>2
  <2>4. CASE i # 1
    <3>1. PICK before : before = SubSeq(s, 1, i - 1)
      OBVIOUS
    <3>2. Last(before) = s[i - 1]
      <4>1. \A j \in 1 .. i - 1 : s[j] \in Tokens
        <5> TAKE j \in 1 .. i - 1
        <5>1. j \in 1 .. Len(s)
          BY <1>1
        <5> QED  BY <1>1, <5>1, ElementOfSeq
      <4>2. 1 \in Int /\ i - 1 \in Int /\ 1 <= i - 1 /\ i - 1 - 1 + 1 = i - 1 /\ i - 1 \in 1 .. i - 1
            /\ 1 + (i - 1) - 1 = i - 1
        BY <2>1, <2>4
      <4>3. /\ Len(before) = (IF 1 <= i - 1 THEN i - 1 - 1 + 1 ELSE 0)
            /\ \A j \in 1 .. i - 1 - 1 + 1 : before[j] = s[1 + j - 1]
        BY <3>1, <4>1, <4>2, SubSeqProperties
      <4>4. Len(before) = i - 1 /\ before[i - 1] = s[i - 1]
        BY <4>2, <4>3
      <4> QED  BY <4>4 DEF Last
    <3>3. i - 1 # 0
      BY <2>1, <2>4
    <3>4. After(s, i - 1) = Last(before).to
          /\ Counting(s, i - 1) = EndsStatement(Last(before).kind, Last(before).as)
      BY <3>2, <3>3 DEF After, Counting
    <3>5. step(f, i) = Append(before, Tokenize(Last(before).to,
                                               EndsStatement(Last(before).kind, Last(before).as)))
      BY <1>2, <2>4, <3>1
    <3> QED  BY <2>2, <3>1, <3>4, <3>5
  <2> QED  BY <2>3, <2>4
<1>3. SubSeq(s, 1, 0) = << >>
  BY SubSeqEmpty
<1> HIDE DEF n
<1>4. g = [i \in 0 .. n |-> step(g, i)]
  <2>1. ASSUME NEW i \in 0 .. n  PROVE g[i] = step(g, i)
    <3>1. CASE i = 0
      BY <1>3, <3>1
    <3>2. CASE i # 0
      <4>1. i - 1 \in 0 .. n
        BY <1>1, <3>2
      <4>2. g[i - 1] = SubSeq(s, 1, i - 1) /\ g[i] = SubSeq(s, 1, i)
        BY <4>1
      <4> HIDE DEF g, step
      <4> QED  BY <1>2, <3>2, <4>2
    <3> QED  BY <3>1, <3>2
  <2> HIDE DEF step
  <2> QED  BY <2>1
<1> HIDE DEF step, g
<1>5. stream = [i \in 0 .. n |-> step(stream, i)]
  BY <1>4
<1>6. Stream(n) = stream[n]
  BY DEF Stream, step
<1> HIDE DEF stream
<1>7. \A i \in 0 .. n : stream[i] = SubSeq(s, 1, i)
  <2> DEFINE T == {i \in 0 .. n : stream[i] # SubSeq(s, 1, i)}
  <2> SUFFICES ASSUME T # {}  PROVE FALSE
    OBVIOUS
  <2>1. T \in SUBSET Nat
    BY <1>1
  <2>2. Min(T) \in T /\ \A y \in T : Min(T) <= y
    BY <2>1, Least
  <2>3. PICK i : i = Min(T)
    OBVIOUS
  <2>4. i \in 0 .. n /\ stream[i] # SubSeq(s, 1, i) /\ \A y \in T : i <= y
    BY <2>2, <2>3
  <2>5. i # 0
    <3>1. 0 \in 0 .. n /\ step(stream, 0) = << >>
      BY <1>1 DEF step
    <3>2. stream[0] = << >>
      BY <1>5, <3>1
    <3> QED  BY <1>3, <2>4, <3>2
  <2>6. i - 1 \in 0 .. n /\ ~(i <= i - 1)
    BY <1>1, <2>4, <2>5
  <2>7. stream[i - 1] = SubSeq(s, 1, i - 1)
    BY <2>4, <2>6
  <2>8. stream[i] = step(stream, i)
    BY <1>5, <2>4
  <2>9. step(stream, i) = SubSeq(s, 1, i)
    BY <1>2, <2>4, <2>5, <2>7
  <2> QED  BY <2>4, <2>8, <2>9
<1>8. stream[n] = SubSeq(s, 1, n)
  BY <1>1, <1>7
<1>9. SubSeq(s, 1, n) = s
  <2>1. PICK t : t = SubSeq(s, 1, n)
    OBVIOUS
  <2>2. 1 \in Int /\ n \in Int /\ n = Len(s) /\ \A j \in 1 .. n : s[j] \in Tokens
    <3>1. n = Len(s)
      BY DEF n
    <3> QED  BY <1>1, <3>1, ElementOfSeq
  <2>3. /\ t \in Seq(Tokens) /\ Len(t) = (IF 1 <= n THEN n - 1 + 1 ELSE 0)
        /\ \A j \in 1 .. n - 1 + 1 : t[j] = s[1 + j - 1]
    BY <2>1, <2>2, SubSeqProperties
  <2>4. Len(t) = Len(s) /\ \A j \in 1 .. Len(t) : t[j] = s[j]
    BY <1>1, <2>2, <2>3
  <2> QED  BY <1>1, <2>1, <2>3, <2>4, SeqEqual
<1> QED  BY <1>6, <1>8, <1>9 DEF n

(* However often lexer_peek is called, lexer_next returns the tokens that  *)
(* it returns alone.                                                       *)
THEOREM LexPeek == Spec => []PeekInvisible
<1>1. LexInv => PeekInvisible
  <2> SUFFICES ASSUME LexInv  PROVE PeekInvisible
    OBVIOUS
  <2>1. PICK s : s = Scanned
    OBVIOUS
  <2>2. s = Stream(Len(s))
    BY <2>1, StreamFacts DEF LexInv, Chain
  <2> QED  BY <2>1, <2>2 DEF PeekInvisible
<1> QED  BY <1>1, LexCorrect, PTL
=============================================================================
