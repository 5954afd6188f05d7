----------------------------- MODULE C99Proofs -----------------------------
(***************************************************************************)
(* Theorems about C99, for every build: whatever is declared, in whatever  *)
(* order of the files, and whatever statements the bodies hold.            *)
(***************************************************************************)
EXTENDS C99, TLAPS, SequenceTheorems, WellFoundedInduction

(* A sequence, of whatever it holds.                                       *)
IsSeq(s) == \E S : s \in Seq(S)

LEMMA EmptyIsSeq == IsSeq(<< >>) /\ Len(<< >>) = 0
<1>1. << >> \in Seq({})
  OBVIOUS
<1> QED  BY <1>1 DEF IsSeq

LEMMA SeqFacts ==
  ASSUME NEW s, IsSeq(s)
  PROVE  /\ Len(s) \in Nat /\ DOMAIN s = 1 .. Len(s)
         /\ s # << >> <=> Len(s) > 0
  BY DEF IsSeq

LEMMA AppendFacts ==
  ASSUME NEW s, IsSeq(s), NEW e
  PROVE  /\ IsSeq(Append(s, e))
         /\ Len(Append(s, e)) = Len(s) + 1
         /\ \A i \in 1 .. Len(s) : Append(s, e)[i] = s[i]
         /\ Append(s, e)[Len(s) + 1] = e
<1> PICK S : s \in Seq(S)
  BY DEF IsSeq
<1>1. s \in Seq(S \cup {e})
  OBVIOUS
<1>2. Append(s, e) \in Seq(S \cup {e})
  BY <1>1
<1> QED  BY <1>1, <1>2 DEF IsSeq

LEMMA ConcatFacts ==
  ASSUME NEW s, IsSeq(s), NEW t, IsSeq(t)
  PROVE  /\ IsSeq(s \o t)
         /\ Len(s \o t) = Len(s) + Len(t)
         /\ \A i \in 1 .. Len(s) : (s \o t)[i] = s[i]
         /\ \A i \in 1 .. Len(t) : (s \o t)[Len(s) + i] = t[i]
<1> PICK S : s \in Seq(S)
  BY DEF IsSeq
<1> PICK T : t \in Seq(T)
  BY DEF IsSeq
<1>1. s \in Seq(S \cup T) /\ t \in Seq(S \cup T)
  OBVIOUS
<1>2. s \o t \in Seq(S \cup T)
  BY <1>1
<1> QED  BY <1>1, <1>2 DEF IsSeq

LEMMA TailFacts ==
  ASSUME NEW s, IsSeq(s), s # << >>
  PROVE  /\ IsSeq(Tail(s))
         /\ Len(Tail(s)) = Len(s) - 1
         /\ Head(s) = s[1]
         /\ \A i \in 1 .. Len(s) - 1 : Tail(s)[i] = s[i + 1]
  BY DEF IsSeq

LEMMA SubSeqFacts ==
  ASSUME NEW s, IsSeq(s), NEW n \in 0 .. Len(s)
  PROVE  /\ IsSeq(SubSeq(s, 1, n))
         /\ Len(SubSeq(s, 1, n)) = n
         /\ \A i \in 1 .. n : SubSeq(s, 1, n)[i] = s[i]
<1> PICK S : s \in Seq(S)
  BY DEF IsSeq
<1>1. SubSeq(s, 1, n) \in Seq(S)
  OBVIOUS
<1> QED  BY <1>1 DEF IsSeq

(* A set of numbers up to n has a greatest element.                        *)
LEMMA Greatest ==
  ASSUME NEW n \in Nat, NEW I \in SUBSET (1 .. n), I # {}
  PROVE  Max(I) \in I /\ \A i \in I : i <= Max(I)
<1> DEFINE T == {n - i : i \in I}
<1>0. \A i \in I : i \in 1 .. n /\ n - i \in Nat
  OBVIOUS
<1>1. T \in SUBSET Nat /\ T # {}
  BY <1>0
<1>2. IsWellFoundedOn(OpToRel(<, Nat), Nat)
  BY NatLessThanWellFounded
<1>3. PICK x \in T : \A y \in T : <<y, x>> \notin OpToRel(<, Nat)
  BY <1>1, <1>2, WFMin
<1>4. \A y \in T : ~(y < x)
  BY <1>1, <1>3 DEF OpToRel
<1>5. PICK m \in I : x = n - m
  OBVIOUS
<1>6. \A i \in I : m >= i
  BY <1>0, <1>4, <1>5
<1> QED  BY <1>6 DEF Max

-----------------------------------------------------------------------------
(* Newest: the last entry of the name.                                     *)
Places(table, name) == {i \in 1 .. Len(table) : table[i].name = name}

LEMMA NewestFacts ==
  ASSUME NEW t, IsSeq(t), NEW name
  PROVE  /\ Places(t, name) = {} => Newest(t, name) = << >>
         /\ Places(t, name) # {} =>
              /\ Max(Places(t, name)) \in Places(t, name)
              /\ Newest(t, name) = <<t[Max(Places(t, name))]>>
<1> DEFINE last == SelectLastInSeq(t, LAMBDA symbol : symbol.name = name)
<1>1. last = IF Places(t, name) # {} THEN Max(Places(t, name)) ELSE 0
  BY DEF SelectLastInSeq, Places
<1>2. Newest(t, name) = IF last = 0 THEN << >> ELSE <<t[last]>>
  BY DEF Newest
<1>3. CASE Places(t, name) = {}
  BY <1>1, <1>2, <1>3
<1>4. CASE Places(t, name) # {}
  <2>1. Len(t) \in Nat /\ Places(t, name) \subseteq 1 .. Len(t)
    BY SeqFacts DEF Places
  <2>2. Max(Places(t, name)) \in Places(t, name)
    BY <1>4, <2>1, Greatest
  <2>3. last = Max(Places(t, name))
    BY <1>1, <1>4
  <2>4. last # 0
    BY <2>1, <2>2, <2>3
  <2> HIDE DEF last
  <2> QED  BY <1>2, <1>4, <2>2, <2>3, <2>4
<1> QED  BY <1>3, <1>4

(* A new entry is the newest of its name, and of no other.                 *)
LEMMA NewestAppend ==
  ASSUME NEW t, IsSeq(t), NEW e, NEW name
  PROVE  Newest(Append(t, e), name) = IF e.name = name THEN <<e>> ELSE Newest(t, name)
<1> DEFINE a == Append(t, e)
<1>1. /\ IsSeq(a) /\ Len(a) = Len(t) + 1 /\ Len(t) \in Nat
      /\ a[Len(t) + 1] = e /\ \A i \in 1 .. Len(t) : a[i] = t[i]
  BY AppendFacts, SeqFacts
<1> HIDE DEF a
<1>2. CASE e.name = name
  <2>1. /\ Len(t) + 1 \in Nat /\ Len(t) + 1 \in Places(a, name)
        /\ Places(a, name) \subseteq 1 .. Len(t) + 1
    BY <1>1, <1>2 DEF Places
  <2>2. /\ Max(Places(a, name)) \in Places(a, name)
        /\ \A i \in Places(a, name) : i <= Max(Places(a, name))
    BY <1>1, <2>1, Greatest
  <2>3. Max(Places(a, name)) = Len(t) + 1
    BY <1>1, <2>1, <2>2
  <2> QED  BY <1>1, <1>2, <2>1, <2>3, NewestFacts DEF a
<1>3. CASE e.name # name
  <2>1. Places(a, name) = Places(t, name)
    BY <1>1, <1>3 DEF Places
  <2>2. \A i \in Places(t, name) : a[i] = t[i]
    BY <1>1 DEF Places
  <2>3. Newest(a, name) = Newest(t, name)
    BY <1>1, <2>1, <2>2, NewestFacts
  <2> QED  BY <1>3, <2>3 DEF a
<1> QED  BY <1>2, <1>3

(* What has no entry in the rest of a table is found in its beginning.     *)
LEMMA NewestPrefix ==
  ASSUME NEW t, IsSeq(t), NEW n \in 0 .. Len(t), NEW name,
         \A i \in n + 1 .. Len(t) : t[i].name # name
  PROVE  Newest(SubSeq(t, 1, n), name) = Newest(t, name)
<1> DEFINE p == SubSeq(t, 1, n)
<1>1. IsSeq(p) /\ Len(p) = n /\ (\A i \in 1 .. n : p[i] = t[i]) /\ Len(t) \in Nat
  BY SubSeqFacts, SeqFacts
<1> HIDE DEF p
<1>2. Places(p, name) = Places(t, name)
  BY <1>1 DEF Places
<1>3. \A i \in Places(p, name) : p[i] = t[i]
  BY <1>1 DEF Places
<1>4. Newest(p, name) = Newest(t, name)
  BY <1>1, <1>2, <1>3, NewestFacts
<1> QED  BY <1>4 DEF p

(* The beginning of a table is that of one which goes on as it does.       *)
LEMMA SamePrefix ==
  ASSUME NEW s, IsSeq(s), NEW t, IsSeq(t), NEW n \in 0 .. Len(s), n <= Len(t),
         \A i \in 1 .. n : s[i] = t[i]
  PROVE  SubSeq(s, 1, n) = SubSeq(t, 1, n)
  BY DEF IsSeq
-----------------------------------------------------------------------------
(* The declarations, in the order in which build->work has their files.    *)
N == Len(build.declarations)
NameOf(i) == build.declarations[i].name
Parts(i) == declaration_parts(build.declarations[i])
Value(i) == build.declarations[i].value
Shown == N - Len(todo)  \* so many of them this pass has seen

(* What is declared in C, in which pass, and for which values.             *)
PassOf ==
  [type |-> "types", constant |-> "types", prototype |-> "prototypes", definition |-> "definitions"]
Before ==
  [collect |-> {}, types |-> {"collect"}, prototypes |-> {"collect", "types"},
   definitions |-> {"collect", "types", "prototypes"}]
Belongs(what, i) ==
  CASE what = "type" -> IsStruct(Value(i))
    [] what = "constant" -> IsConstant(Value(i))
    [] OTHER -> Value(i).kind = "PROCEDURE"

Passed(p, i) == i \in 1 .. N /\ (p \in Before[pass] \/ (p = pass /\ i <= Shown))

(* The passes go over the declarations in order, and a body is written in  *)
(* the last one.                                                           *)
OrderInv ==
  /\ \E s \in Scenario : build.declarations = s.declarations
  /\ DOMAIN build = {"declarations", "body", "labels", "budget"}
  /\ pass \in DOMAIN Before
  /\ outcome \in {"emitting", "emitted", "refused", "crashed"}
  /\ IsSeq(todo) /\ Len(todo) <= N
  /\ \A k \in 1 .. Len(todo) : todo[k] = Shown + k
  /\ IsSeq(stack)
  /\ stack # << >> => pass = "definitions"
  /\ outcome = "emitted" => pass = "definitions" /\ todo = << >> /\ stack = << >>

(* The globals are names of declarations with one name and one value.      *)
GlobalsInv ==
  /\ IsSeq(globals) /\ Len(globals) <= CAPACITY
  /\ \A g \in 1 .. Len(globals) : \E i \in 1 .. N : Parts(i) /\ globals[g].name = NameOf(i)

(* What a pass has passed was written if it belongs to it, once, and is of *)
(* one of the kinds that are.                                              *)
OutInv ==
  /\ out \in Seq((DOMAIN PassOf) \X Nat)
  /\ \A what \in DOMAIN PassOf : \A i \in Nat :
       (\E k \in 1 .. Len(out) : out[k] = <<what, i>>) <=> Passed(PassOf[what], i) /\ Belongs(what, i)
  /\ \A j, k \in 1 .. Len(out) : out[j] = out[k] => j = k
  /\ \A i \in 1 .. N :
       Passed("types", i) => Parts(i) /\ (Value(i).kind = "TYPE" => IsStruct(Value(i)))

(* A task that ends a block, a switch or a loop remembers what was seen    *)
(* when it began; the inner ones remember more.  A loop also remembers the *)
(* locals, which told the types of what was seen.                          *)
Agree(table, seen, except) ==
  \A name : name \notin except => Newest(table, name) = Newest(seen, name)

Ends == {"BlockEnd", "SwitchEnd", "ForEnd"}
EndOK(task, table, seen) ==
  /\ task.do \in Ends => task.sees \in 0 .. Len(seen)
  /\ task.do = "ForEnd" =>
       /\ task.saved \in 0 .. Len(table)
       /\ Agree(SubSeq(table, 1, task.saved), SubSeq(seen, 1, task.sees), task.leaked)

Nested(inner, outer) ==
  /\ inner.do \in Ends /\ outer.do \in Ends => outer.sees <= inner.sees
  /\ inner.do = "ForEnd" /\ outer.do = "ForEnd" => outer.saved <= inner.saved

Scoped(s, table, seen) ==
  /\ \A i \in 1 .. Len(s) : EndOK(s[i], table, seen)
  /\ \A i, j \in 1 .. Len(s) : i < j => Nested(s[i], s[j])

ScopeInv ==
  /\ IsSeq(locals) /\ Len(locals) <= CAPACITY /\ IsSeq(visible)
  /\ Scoped(stack, locals, visible)
  /\ stack # << >> => Agree(locals, visible, leaked)

(* The depth is how many tasks on the stack will take one off: from below, *)
(* h counts them up to the one that is next.                               *)
Closes(task) == IF task.do \in {"BlockEnd", "SwitchEnd", "CaseEnd"} THEN 1 ELSE 0
Counts(h, s, d) ==
  /\ h \in [0 .. Len(s) -> Nat]
  /\ h[0] = 0 /\ h[Len(s)] = d
  /\ \A k \in 1 .. Len(s) : h[k] = h[k - 1] + Closes(s[Len(s) + 1 - k])
DepthInv == \E h : Counts(h, stack, depth)

C99Inv == OrderInv /\ GlobalsInv /\ OutInv /\ DeclaredBeforeBodies /\ ScopeInv /\ DepthInv

-----------------------------------------------------------------------------
(* A task more or less on the stack.                                       *)
LEMMA ConsFacts ==
  ASSUME NEW s, IsSeq(s), NEW t
  PROVE  /\ IsSeq(<<t>> \o s) /\ <<t>> \o s # << >>
         /\ Len(<<t>> \o s) = Len(s) + 1
         /\ (<<t>> \o s)[1] = t
         /\ \A i \in 1 .. Len(s) : (<<t>> \o s)[i + 1] = s[i]
<1>1. <<t>> \in Seq({t}) /\ Len(<<t>>) = 1 /\ <<t>>[1] = t
  OBVIOUS
<1>2. IsSeq(<<t>>) /\ Len(s) \in Nat
  BY <1>1, SeqFacts DEF IsSeq
<1>3. /\ IsSeq(<<t>> \o s) /\ Len(<<t>> \o s) = Len(s) + 1
      /\ (<<t>> \o s)[1] = t /\ \A i \in 1 .. Len(s) : (<<t>> \o s)[1 + i] = s[i]
  BY <1>1, <1>2, ConcatFacts
<1> QED  BY <1>2, <1>3, SeqFacts

LEMMA TwoFacts ==
  ASSUME NEW s, IsSeq(s), NEW t, NEW u
  PROVE  <<t, u>> \o s = <<t>> \o (<<u>> \o s)
<1> DEFINE v == <<u>> \o s
           w == <<t>> \o v
           p == <<t, u>> \o s
<1>1. IsSeq(v) /\ Len(v) = Len(s) + 1 /\ v[1] = u /\ \A i \in 1 .. Len(s) : v[i + 1] = s[i]
  BY ConsFacts
<1>2. IsSeq(w) /\ Len(w) = Len(v) + 1 /\ w[1] = t /\ \A i \in 1 .. Len(v) : w[i + 1] = v[i]
  BY <1>1, ConsFacts
<1>3. <<t, u>> \in Seq({t, u}) /\ Len(<<t, u>>) = 2 /\ <<t, u>>[1] = t /\ <<t, u>>[2] = u
  OBVIOUS
<1>4. /\ IsSeq(p) /\ Len(p) = 2 + Len(s) /\ p[1] = t /\ p[2] = u
      /\ \A i \in 1 .. Len(s) : p[2 + i] = s[i]
  <2> DEFINE q == <<t, u>>
  <2>1. IsSeq(q)
    BY <1>3 DEF IsSeq
  <2> HIDE DEF q
  <2>2. /\ IsSeq(q \o s) /\ Len(q \o s) = Len(q) + Len(s)
        /\ \A i \in 1 .. Len(q) : (q \o s)[i] = q[i]
        /\ \A i \in 1 .. Len(s) : (q \o s)[Len(q) + i] = s[i]
    BY <2>1, ConcatFacts
  <2>3. Len(q) = 2 /\ q[1] = t /\ q[2] = u
    BY <1>3 DEF q
  <2>4. 1 \in 1 .. Len(q) /\ 2 \in 1 .. Len(q)
    BY <2>3
  <2>5. IsSeq(p) /\ Len(p) = Len(q) + Len(s) /\ p[1] = q[1] /\ p[2] = q[2]
    BY <2>2, <2>4 DEF q
  <2>6. \A i \in 1 .. Len(s) : p[Len(q) + i] = s[i]
    BY <2>2 DEF q
  <2> QED  BY <2>3, <2>5, <2>6
<1>5. Len(s) \in Nat
  BY SeqFacts
<1> HIDE DEF v, w, p
<1>6. ASSUME NEW i \in 1 .. Len(s) + 2 PROVE p[i] = w[i]
  <2>1. CASE i = 1
    BY <1>2, <1>4, <2>1
  <2>2. CASE i = 2
    BY <1>1, <1>2, <1>4, <1>5, <2>2
  <2>3. CASE i > 2
    <3>1. PICK k \in 1 .. Len(s) : i = 2 + k
      BY <1>5, <2>3
    <3>2. k + 1 \in 1 .. Len(v) /\ (k + 1) + 1 = i
      BY <1>1, <1>5, <3>1
    <3>3. p[2 + k] = s[k]
      BY <1>4
    <3>4. w[(k + 1) + 1] = v[k + 1]
      BY <1>2, <3>2
    <3>5. v[k + 1] = s[k]
      BY <1>1
    <3> QED  BY <3>1, <3>2, <3>3, <3>4, <3>5
  <2> QED  BY <1>5, <2>1, <2>2, <2>3
<1>7. p = w
  <2>1. Len(p) = Len(s) + 2 /\ Len(w) = Len(s) + 2
    BY <1>1, <1>2, <1>4, <1>5
  <2>2. PICK S : p \in Seq(S)
    BY <1>4 DEF IsSeq
  <2>3. PICK R : w \in Seq(R)
    BY <1>2 DEF IsSeq
  <2>4. p \in [1 .. Len(s) + 2 -> S \cup R] /\ w \in [1 .. Len(s) + 2 -> S \cup R]
    BY <2>1, <2>2, <2>3
  <2> QED  BY <1>6, <2>4
<1> QED  BY <1>7 DEF p, w, v

LEMMA NoneFacts ==
  ASSUME NEW s, IsSeq(s)
  PROVE  << >> \o s = s
  BY DEF IsSeq

LEMMA CountsCons ==
  ASSUME NEW s, IsSeq(s), NEW d, NEW h, Counts(h, s, d), NEW t
  PROVE  \E g : Counts(g, <<t>> \o s, d + Closes(t))
<1> DEFINE c == <<t>> \o s
           g == [k \in 0 .. Len(c) |-> IF k = Len(c) THEN d + Closes(t) ELSE h[k]]
<1>1. /\ Len(c) = Len(s) + 1 /\ c[1] = t /\ Len(s) \in Nat
      /\ \A i \in 1 .. Len(s) : c[i + 1] = s[i]
  BY ConsFacts, SeqFacts
<1>2. Closes(t) \in Nat
  BY DEF Closes
<1> HIDE DEF c
<1>3. /\ h \in [0 .. Len(s) -> Nat] /\ h[0] = 0 /\ h[Len(s)] = d
      /\ \A k \in 1 .. Len(s) : h[k] = h[k - 1] + Closes(s[Len(s) + 1 - k])
  BY DEF Counts
<1>4. g \in [0 .. Len(c) -> Nat] /\ g[0] = 0 /\ g[Len(c)] = d + Closes(t)
  BY <1>1, <1>2, <1>3
<1>5. ASSUME NEW k \in 1 .. Len(c) PROVE g[k] = g[k - 1] + Closes(c[Len(c) + 1 - k])
  <2>1. CASE k = Len(c)
    BY <1>1, <1>3, <2>1
  <2>2. CASE k # Len(c)
    <3>1. k \in 1 .. Len(s) /\ Len(s) + 1 - k \in 1 .. Len(s)
      BY <1>1, <2>2
    <3>2. c[Len(c) + 1 - k] = s[Len(s) + 1 - k]
      BY <1>1, <3>1
    <3> QED  BY <1>1, <1>3, <3>1, <3>2
  <2> QED  BY <2>1, <2>2
<1> QED  BY <1>4, <1>5 DEF Counts, c

LEMMA CountsTail ==
  ASSUME NEW s, IsSeq(s), s # << >>, NEW d, NEW h, Counts(h, s, d)
  PROVE  /\ \E g : Counts(g, Tail(s), d - Closes(Head(s)))
         /\ d \in Nat /\ d - Closes(Head(s)) \in Nat
<1> DEFINE c == Tail(s)
           g == [k \in 0 .. Len(c) |-> h[k]]
<1>1. /\ Len(c) = Len(s) - 1 /\ Head(s) = s[1] /\ Len(s) \in Nat /\ Len(s) > 0
      /\ \A i \in 1 .. Len(s) - 1 : c[i] = s[i + 1]
  BY TailFacts, SeqFacts
<1> HIDE DEF c
<1>2. /\ h \in [0 .. Len(s) -> Nat] /\ h[0] = 0 /\ h[Len(s)] = d
      /\ \A k \in 1 .. Len(s) : h[k] = h[k - 1] + Closes(s[Len(s) + 1 - k])
  BY DEF Counts
<1>3. h[Len(s)] = h[Len(s) - 1] + Closes(s[1]) /\ h[Len(s) - 1] \in Nat /\ Closes(s[1]) \in Nat
  <2>1. Len(s) \in 1 .. Len(s) /\ Len(s) + 1 - Len(s) = 1 /\ Len(s) - 1 \in 0 .. Len(s)
    BY <1>1
  <2> QED  BY <1>2, <2>1 DEF Closes
<1>4. d \in Nat /\ d - Closes(Head(s)) = h[Len(c)]
  BY <1>1, <1>2, <1>3
<1>5. g \in [0 .. Len(c) -> Nat] /\ g[0] = 0 /\ g[Len(c)] = d - Closes(Head(s))
  BY <1>1, <1>2, <1>4
<1>6. ASSUME NEW k \in 1 .. Len(c) PROVE g[k] = g[k - 1] + Closes(c[Len(c) + 1 - k])
  <2>1. k \in 1 .. Len(s) /\ Len(c) + 1 - k \in 1 .. Len(s) - 1
    BY <1>1
  <2>2. c[Len(c) + 1 - k] = s[Len(s) + 1 - k]
    BY <1>1, <2>1
  <2> QED  BY <1>1, <1>2, <2>1, <2>2
<1> QED  BY <1>1, <1>3, <1>4, <1>5, <1>6 DEF Counts, c

LEMMA CountsNone ==
  ASSUME NEW d, NEW h, Counts(h, << >>, d)
  PROVE  d = 0
  BY EmptyIsSeq DEF Counts

-----------------------------------------------------------------------------
(* What the tasks remember of the tables stays true of them.               *)
LEMMA ScopedCons ==
  ASSUME NEW s, IsSeq(s), NEW table, NEW seen, IsSeq(table), IsSeq(seen), Scoped(s, table, seen),
         NEW t, EndOK(t, table, seen),
         t.do \in Ends => t.sees = Len(seen), t.do = "ForEnd" => t.saved = Len(table)
  PROVE  Scoped(<<t>> \o s, table, seen)
<1> DEFINE c == <<t>> \o s
<1>1. /\ Len(c) = Len(s) + 1 /\ c[1] = t /\ Len(s) \in Nat
      /\ \A i \in 1 .. Len(s) : c[i + 1] = s[i]
  BY ConsFacts, SeqFacts
<1> HIDE DEF c
<1>2. \A i \in 1 .. Len(c) : i = 1 \/ (i - 1 \in 1 .. Len(s) /\ c[i] = s[i - 1])
  BY <1>1
<1>3. \A i \in 1 .. Len(c) : EndOK(c[i], table, seen)
  BY <1>1, <1>2 DEF Scoped
<1>4. Len(table) \in Nat /\ Len(seen) \in Nat
  BY SeqFacts
<1>5. ASSUME NEW j \in 1 .. Len(s) PROVE Nested(t, s[j])
  <2>1. EndOK(s[j], table, seen)
    BY DEF Scoped
  <2> QED  BY <1>4, <2>1 DEF EndOK, Nested
<1>6. ASSUME NEW i \in 1 .. Len(c), NEW j \in 1 .. Len(c), i < j PROVE Nested(c[i], c[j])
  <2>1. j - 1 \in 1 .. Len(s) /\ c[j] = s[j - 1]
    BY <1>1, <1>6
  <2>2. CASE i = 1
    BY <1>1, <1>5, <2>1, <2>2
  <2>3. CASE i # 1
    <3>1. i - 1 \in 1 .. Len(s) /\ c[i] = s[i - 1] /\ i - 1 < j - 1
      BY <1>1, <1>6, <2>3
    <3> QED  BY <2>1, <3>1 DEF Scoped
  <2> QED  BY <2>2, <2>3
<1> QED  BY <1>3, <1>6 DEF Scoped, c

LEMMA ScopedTail ==
  ASSUME NEW s, IsSeq(s), s # << >>, NEW table, NEW seen, Scoped(s, table, seen)
  PROVE  /\ Scoped(Tail(s), table, seen)
         /\ EndOK(Head(s), table, seen)
         /\ \A i \in 1 .. Len(Tail(s)) : Nested(Head(s), Tail(s)[i])
<1> DEFINE c == Tail(s)
<1>1. /\ Len(c) = Len(s) - 1 /\ Head(s) = s[1] /\ Len(s) \in Nat /\ Len(s) > 0
      /\ \A i \in 1 .. Len(c) : i + 1 \in 1 .. Len(s) /\ c[i] = s[i + 1]
  BY TailFacts, SeqFacts
<1> HIDE DEF c
<1>2. \A i \in 1 .. Len(c) : EndOK(c[i], table, seen) /\ Nested(s[1], c[i])
  BY <1>1 DEF Scoped
<1>3. ASSUME NEW i \in 1 .. Len(c), NEW j \in 1 .. Len(c), i < j PROVE Nested(c[i], c[j])
  <2>1. i + 1 < j + 1
    BY <1>1, <1>3
  <2> QED  BY <1>1, <2>1 DEF Scoped
<1>4. EndOK(s[1], table, seen)
  BY <1>1 DEF Scoped
<1> QED  BY <1>1, <1>2, <1>3, <1>4 DEF Scoped, c

LEMMA ScopedAppend ==
  ASSUME NEW s, NEW table, NEW seen, IsSeq(table), IsSeq(seen), Scoped(s, table, seen), NEW e
  PROVE  Scoped(s, Append(table, e), Append(seen, e))
<1>1. /\ IsSeq(Append(table, e)) /\ Len(Append(table, e)) = Len(table) + 1 /\ Len(table) \in Nat
      /\ \A i \in 1 .. Len(table) : Append(table, e)[i] = table[i]
  BY AppendFacts, SeqFacts
<1>2. /\ IsSeq(Append(seen, e)) /\ Len(Append(seen, e)) = Len(seen) + 1 /\ Len(seen) \in Nat
      /\ \A i \in 1 .. Len(seen) : Append(seen, e)[i] = seen[i]
  BY AppendFacts, SeqFacts
<1>3. \A n \in 0 .. Len(table) : SubSeq(Append(table, e), 1, n) = SubSeq(table, 1, n)
  BY <1>1, SamePrefix
<1>4. \A n \in 0 .. Len(seen) : SubSeq(Append(seen, e), 1, n) = SubSeq(seen, 1, n)
  BY <1>2, SamePrefix
<1>5. ASSUME NEW i \in 1 .. Len(s) PROVE EndOK(s[i], Append(table, e), Append(seen, e))
  <2>1. EndOK(s[i], table, seen)
    BY DEF Scoped
  <2>2. /\ s[i].do \in Ends => s[i].sees \in 0 .. Len(seen) + 1
        /\ s[i].do = "ForEnd" => s[i].saved \in 0 .. Len(table) + 1
    BY <1>1, <1>2, <2>1 DEF EndOK
  <2>3. s[i].do = "ForEnd" => s[i].saved \in 0 .. Len(table) /\ s[i].sees \in 0 .. Len(seen)
    BY <2>1 DEF EndOK, Ends
  <2> QED  BY <1>1, <1>2, <1>3, <1>4, <2>1, <2>2, <2>3 DEF EndOK
<1> QED  BY <1>5 DEF Scoped

(* The tables are cut where the outermost of these tasks began or later.   *)
LEMMA ScopedCut ==
  ASSUME NEW s, NEW table, NEW seen, IsSeq(table), IsSeq(seen), Scoped(s, table, seen),
         NEW n \in 0 .. Len(table), NEW m \in 0 .. Len(seen),
         \A i \in 1 .. Len(s) : s[i].do \in Ends => s[i].sees <= m,
         \A i \in 1 .. Len(s) : s[i].do = "ForEnd" => s[i].saved <= n
  PROVE  Scoped(s, SubSeq(table, 1, n), SubSeq(seen, 1, m))
<1>1. /\ IsSeq(SubSeq(table, 1, n)) /\ Len(SubSeq(table, 1, n)) = n /\ Len(table) \in Nat
      /\ \A i \in 1 .. n : SubSeq(table, 1, n)[i] = table[i]
  BY SubSeqFacts, SeqFacts
<1>2. /\ IsSeq(SubSeq(seen, 1, m)) /\ Len(SubSeq(seen, 1, m)) = m /\ Len(seen) \in Nat
      /\ \A i \in 1 .. m : SubSeq(seen, 1, m)[i] = seen[i]
  BY SubSeqFacts, SeqFacts
<1>3. \A k \in 0 .. n : SubSeq(SubSeq(table, 1, n), 1, k) = SubSeq(table, 1, k)
  BY <1>1, SamePrefix
<1>4. \A k \in 0 .. m : SubSeq(SubSeq(seen, 1, m), 1, k) = SubSeq(seen, 1, k)
  BY <1>2, SamePrefix
<1>5. ASSUME NEW i \in 1 .. Len(s) PROVE EndOK(s[i], SubSeq(table, 1, n), SubSeq(seen, 1, m))
  <2>1. EndOK(s[i], table, seen)
    BY DEF Scoped
  <2>2. /\ s[i].do \in Ends => s[i].sees \in 0 .. m
        /\ s[i].do = "ForEnd" => s[i].saved \in 0 .. n /\ s[i].sees \in 0 .. m
    BY <2>1 DEF EndOK, Ends
  <2> QED  BY <1>1, <1>2, <1>3, <1>4, <2>1, <2>2 DEF EndOK
<1> QED  BY <1>5 DEF Scoped

-----------------------------------------------------------------------------
(* Every declaration that the last pass looks at was let through before,   *)
(* and what can be named is in the text, so that nothing is used too soon. *)
LEMMA UsedFacts ==
  ASSUME C99Inv, pass = "definitions", NEW names
  PROVE  Used(names) = undeclared
<1>1. ASSUME NEW g \in 1 .. Len(globals)
      PROVE  \E k \in 1 .. Len(out) : build.declarations[out[k][2]].name = globals[g].name
  <2>1. PICK i \in 1 .. N : Parts(i) /\ globals[g].name = NameOf(i)
    BY DEF C99Inv, GlobalsInv
  <2>2. i \in Nat /\ Passed("types", i) /\ Passed("prototypes", i)
    BY <2>1 DEF Passed, Before
  <2>3. Value(i).kind = "TYPE" => IsStruct(Value(i))
    BY <2>2 DEF C99Inv, OutInv
  <2>4. \E what \in {"type", "constant", "prototype"} : Belongs(what, i)
    BY <2>3 DEF Belongs, IsConstant
  <2>5. PICK what \in {"type", "constant", "prototype"} : Belongs(what, i)
    BY <2>4
  <2>6. what \in DOMAIN PassOf /\ Passed(PassOf[what], i)
    BY <2>2, <2>5 DEF PassOf
  <2>7. PICK k \in 1 .. Len(out) : out[k] = <<what, i>>
    BY <2>2, <2>5, <2>6 DEF C99Inv, OutInv
  <2> QED  BY <2>1, <2>7 DEF NameOf
<1>2. ToSet(out) = {out[k] : k \in 1 .. Len(out)} /\ ToSet(globals) = {globals[g] : g \in 1 .. Len(globals)}
  <2>1. DOMAIN out = 1 .. Len(out) /\ DOMAIN globals = 1 .. Len(globals)
    BY SeqFacts DEF C99Inv, OutInv, GlobalsInv
  <2> QED  BY <2>1 DEF ToSet
<1> DEFINE known == {build.declarations[o[2]].name : o \in ToSet(out)}
<1>3. \A name \in {symbol.name : symbol \in ToSet(globals)} : name \in known
  BY <1>1, <1>2
<1> QED  BY <1>3 DEF Used

(* A step in a body leaves what was declared at the top alone.             *)
BodyFrame ==
  /\ outcome = "emitting" /\ stack # << >> /\ IsSeq(stack')
  /\ DOMAIN build' = DOMAIN build /\ build'.declarations = build.declarations
  /\ UNCHANGED <<globals, pass, todo, outcome, out, undeclared>>

LEMMA TopKept ==
  ASSUME C99Inv, build'.declarations = build.declarations, UNCHANGED <<globals, pass, todo, out, undeclared>>
  PROVE  GlobalsInv' /\ OutInv' /\ DeclaredBeforeBodies'
<1>1. N' = N /\ Shown' = Shown /\ (\A i : Parts(i)' = Parts(i) /\ NameOf(i)' = NameOf(i) /\ Value(i)' = Value(i))
  BY DEF N, Shown, Parts, NameOf, Value
<1>2. \A p, i : Passed(p, i)' = Passed(p, i)
  BY <1>1 DEF Passed
<1>3. \A what, i : Belongs(what, i)' = Belongs(what, i)
  BY <1>1 DEF Belongs
<1>4. GlobalsInv'
  BY <1>1 DEF C99Inv, GlobalsInv
<1>5. OutInv'
  BY <1>1, <1>2, <1>3 DEF C99Inv, OutInv
<1> QED  BY <1>4, <1>5 DEF C99Inv, DeclaredBeforeBodies

LEMMA BodyKept ==
  ASSUME C99Inv, BodyFrame
  PROVE  OrderInv' /\ GlobalsInv' /\ OutInv' /\ DeclaredBeforeBodies'
<1>1. N' = N /\ Shown' = Shown
  BY DEF N, Shown, BodyFrame
<1>2. OrderInv'
  BY <1>1 DEF C99Inv, OrderInv, BodyFrame
<1> QED  BY <1>2, TopKept DEF BodyFrame

LEMMA EndStep ==
  ASSUME C99Inv, NEW how \in {"emitted", "refused", "crashed"}, End(how),
         how = "emitted" => pass = "definitions" /\ todo = << >> /\ stack = << >>
  PROVE  C99Inv'
<1>0. UNCHANGED <<semaVars, build, pass, todo, stack, depth, history>> /\ outcome' = how
  BY DEF End
<1> USE <1>0 DEF semaVars, history
<1>1. N' = N /\ Shown' = Shown
  BY DEF N, Shown
<1>2. OrderInv'
  BY <1>1 DEF C99Inv, OrderInv
<1>3. GlobalsInv' /\ OutInv' /\ DeclaredBeforeBodies'
  BY TopKept
<1>4. ScopeInv' /\ DepthInv'
  BY DEF C99Inv, ScopeInv, DepthInv
<1> QED  BY <1>2, <1>3, <1>4 DEF C99Inv

(* What a statement leaves to do, and what follows it.                     *)
LEMMA WrittenFacts ==
  ASSUME C99Inv, outcome = "emitting", stack # << >>, NEW names, NEW tasks, IsSeq(tasks),
         Written(names, tasks)
  PROVE  BodyFrame
<1>1. pass = "definitions" /\ IsSeq(stack) /\ DOMAIN build = {"declarations", "body", "labels", "budget"}
  BY DEF C99Inv, OrderInv
<1>2. Used(names) = undeclared
  BY <1>1, UsedFacts
<1>3. IsSeq(tasks \o stack)
  BY <1>1, ConcatFacts
<1> QED  BY <1>1, <1>2, <1>3 DEF Written, BodyFrame

LEMMA GoFacts ==
  ASSUME C99Inv, outcome = "emitting", stack # << >>, NEW tasks, IsSeq(tasks), Go(tasks)
  PROVE  BodyFrame
  BY DEF Go, BodyFrame

-----------------------------------------------------------------------------
(* Tasks on top of a stack that is in order.                               *)
InOrder(s, d, table, seen) == IsSeq(s) /\ (\E h : Counts(h, s, d)) /\ Scoped(s, table, seen)

Plain(task) == task.do \notin Ends /\ task.do # "CaseEnd"

LEMMA PlainOnTop ==
  ASSUME NEW s, NEW d, NEW table, NEW seen, IsSeq(table), IsSeq(seen),
         InOrder(s, d, table, seen), d \in Nat, NEW t, Plain(t)
  PROVE  InOrder(<<t>> \o s, d, table, seen)
<1>1. t.do \notin Ends /\ t.do # "ForEnd" /\ EndOK(t, table, seen) /\ Closes(t) = 0
  BY DEF Plain, Ends, EndOK, Closes
<1>2. IsSeq(<<t>> \o s)
  BY ConsFacts DEF InOrder
<1>3. Scoped(<<t>> \o s, table, seen)
  BY <1>1, ScopedCons DEF InOrder
<1>4. d + Closes(t) = d
  BY <1>1
<1>5. \E h : Counts(h, <<t>> \o s, d)
  <2>1. PICK h : Counts(h, s, d)
    BY DEF InOrder
  <2>2. \E g : Counts(g, <<t>> \o s, d + Closes(t))
    BY <2>1, CountsCons DEF InOrder
  <2> QED  BY <1>4, <2>2
<1> QED  BY <1>2, <1>3, <1>5 DEF InOrder

LEMMA EndOnTop ==
  ASSUME NEW s, NEW d, NEW table, NEW seen, IsSeq(table), IsSeq(seen),
         InOrder(s, d, table, seen), NEW t, EndOK(t, table, seen),
         t.do \in Ends => t.sees = Len(seen), t.do = "ForEnd" => t.saved = Len(table)
  PROVE  InOrder(<<t>> \o s, d + Closes(t), table, seen)
<1>1. PICK h : Counts(h, s, d)
  BY DEF InOrder
<1>2. \E g : Counts(g, <<t>> \o s, d + Closes(t))
  BY <1>1, CountsCons DEF InOrder
<1> QED  BY <1>2, ConsFacts, ScopedCons DEF InOrder

LEMMA OffTop ==
  ASSUME NEW s, s # << >>, NEW d, NEW table, NEW seen, InOrder(s, d, table, seen)
  PROVE  InOrder(Tail(s), d - Closes(Head(s)), table, seen)
<1>1. PICK h : Counts(h, s, d)
  BY DEF InOrder
<1> QED  BY <1>1, CountsTail, TailFacts, ScopedTail DEF InOrder

LEMMA OrderFacts ==
  ASSUME C99Inv
  PROVE  /\ InOrder(stack, depth, locals, visible) /\ depth \in Nat
         /\ IsSeq(locals) /\ IsSeq(visible) /\ Len(locals) <= CAPACITY
<1>1. PICK h : Counts(h, stack, depth)
  BY DEF C99Inv, DepthInv
<1>2. depth = h[Len(stack)] /\ h \in [0 .. Len(stack) -> Nat] /\ Len(stack) \in Nat
  BY <1>1, SeqFacts DEF Counts, C99Inv, OrderInv
<1>3. depth \in Nat
  BY <1>2
<1> QED  BY <1>1, <1>3 DEF C99Inv, OrderInv, ScopeInv, InOrder

(* What a step in a body has to show.                                      *)
LEMMA BodyStep ==
  ASSUME C99Inv, BodyFrame, InOrder(stack', depth', locals', visible'),
         IsSeq(locals'), Len(locals') <= CAPACITY, IsSeq(visible'),
         Agree(locals', visible', leaked')
  PROVE  C99Inv'
<1>1. ScopeInv' /\ DepthInv'
  BY DEF ScopeInv, DepthInv, InOrder
<1> QED  BY <1>1, BodyKept DEF C99Inv

(* A statement that declares nothing.                                      *)
LEMMA SameStep ==
  ASSUME C99Inv, outcome = "emitting", stack # << >>, Same,
         NEW names, NEW tasks \in {<< >>, <<Block>>, <<Block, Block>>}, Written(names, tasks)
  PROVE  C99Inv'
<1>1. Plain(Block)
  BY DEF Plain, Block, Ends
<1>2. IsSeq(tasks)
  <2>1. << >> \in Seq({Block}) /\ <<Block>> \in Seq({Block}) /\ <<Block, Block>> \in Seq({Block})
    OBVIOUS
  <2> QED  BY <2>1 DEF IsSeq
<1>3. BodyFrame
  BY <1>2, WrittenFacts
<1>4. InOrder(tasks \o stack, depth, locals, visible)
  <2>1. CASE tasks = << >>
    BY <2>1, OrderFacts, NoneFacts DEF InOrder
  <2>2. InOrder(<<Block>> \o stack, depth, locals, visible)
    BY <1>1, OrderFacts, PlainOnTop
  <2>3. CASE tasks = <<Block, Block>>
    <3>1. InOrder(<<Block>> \o (<<Block>> \o stack), depth, locals, visible)
      BY <1>1, <2>2, OrderFacts, PlainOnTop
    <3>2. tasks \o stack = <<Block>> \o (<<Block>> \o stack)
      BY <2>3, OrderFacts, TwoFacts DEF InOrder
    <3> QED  BY <3>1, <3>2
  <2> QED  BY <2>1, <2>2, <2>3
<1>5. Agree(locals, visible, leaked)
  BY DEF C99Inv, ScopeInv
<1>6. /\ stack' = tasks \o stack /\ depth' = depth /\ locals' = locals /\ visible' = visible
      /\ leaked' = leaked
  BY DEF Written, Same
<1>7. InOrder(stack', depth', locals', visible') /\ Agree(locals', visible', leaked')
  BY <1>4, <1>5, <1>6
<1> QED  BY <1>3, <1>6, <1>7, BodyStep, OrderFacts

(* A variable, which a loop takes back at its end.                         *)
LEMMA AddFacts ==
  ASSUME C99Inv, stack # << >>, HasRoom(locals), NEW name, NEW type, Add(name, type)
  PROVE  /\ IsSeq(locals') /\ Len(locals') <= CAPACITY /\ IsSeq(visible')
         /\ Agree(locals', visible', leaked')
         /\ \A s : Scoped(s, locals, visible) => Scoped(s, locals', visible')
<1> DEFINE e == Symbol(name, type)
<1>1. locals' = Append(locals, e) /\ visible' = Append(visible, e) /\ leaked' = leaked
  BY DEF Add
<1>2. IsSeq(locals) /\ IsSeq(visible) /\ Len(locals) \in Nat
  BY OrderFacts, SeqFacts
<1>3. Len(locals) < CAPACITY /\ CAPACITY \in Nat
  BY CapacityAssumption DEF HasRoom
<1> HIDE DEF e
<1>4. Agree(locals', visible', leaked')
  BY <1>1, <1>2, NewestAppend DEF C99Inv, ScopeInv, Agree
<1> QED  BY <1>1, <1>2, <1>3, <1>4, AppendFacts, ScopedAppend

LEMMA DeclareStep ==
  ASSUME C99Inv, outcome = "emitting", stack # << >>, HasRoom(locals),
         NEW name, NEW type, Add(name, type), NEW names, Written(names, << >>)
  PROVE  C99Inv'
<1>1. BodyFrame
  BY EmptyIsSeq, WrittenFacts
<1>2. stack' = stack /\ depth' = depth
  BY OrderFacts, NoneFacts DEF Written, InOrder, Add
<1>3. InOrder(stack', depth', locals', visible')
  BY <1>2, AddFacts, OrderFacts DEF InOrder
<1> QED  BY <1>1, <1>3, AddFacts, BodyStep

LEMMA LoopStep ==
  ASSUME C99Inv, outcome = "emitting", stack # << >>, HasRoom(locals),
         NEW name, NEW type, Add(name, type), NEW names, Written(names, <<Block, ForEnd>>)
  PROVE  C99Inv'
<1>1. IsSeq(<<Block, ForEnd>>)
  <2>1. <<Block, ForEnd>> \in Seq({Block, ForEnd})
    OBVIOUS
  <2> QED  BY <2>1 DEF IsSeq
<1>2. BodyFrame
  BY <1>1, WrittenFacts
<1>3. IsSeq(locals) /\ IsSeq(visible) /\ Len(locals) \in Nat /\ Len(visible) \in Nat
  BY OrderFacts, SeqFacts
<1>4. /\ ForEnd.do = "ForEnd" /\ ForEnd.sees = Len(visible) /\ ForEnd.saved = Len(locals)
      /\ ForEnd.leaked = leaked
  BY DEF ForEnd
<1>5. SubSeq(locals, 1, Len(locals)) = locals /\ SubSeq(visible, 1, Len(visible)) = visible
  BY <1>3 DEF IsSeq
<1>6. EndOK(ForEnd, locals, visible) /\ Closes(ForEnd) = 0
  <2>1. Agree(locals, visible, leaked)
    BY DEF C99Inv, ScopeInv
  <2>2. Agree(SubSeq(locals, 1, ForEnd.saved), SubSeq(visible, 1, ForEnd.sees), ForEnd.leaked)
    BY <1>4, <1>5, <2>1
  <2>3. ForEnd.sees \in 0 .. Len(visible) /\ ForEnd.saved \in 0 .. Len(locals)
    BY <1>3, <1>4
  <2>4. Closes(ForEnd) = 0
    BY <1>4 DEF Closes
  <2> HIDE DEF ForEnd
  <2> QED  BY <2>2, <2>3, <2>4 DEF EndOK
<1>7. InOrder(<<ForEnd>> \o stack, depth + 0, locals, visible)
  BY <1>3, <1>4, <1>6, OrderFacts, EndOnTop
<1>8. Plain(Block)
  BY DEF Plain, Block, Ends
<1>9. InOrder(<<Block>> \o (<<ForEnd>> \o stack), depth, locals, visible)
  BY <1>3, <1>7, <1>8, OrderFacts, PlainOnTop
<1>10. stack' = <<Block>> \o (<<ForEnd>> \o stack) /\ depth' = depth
  BY OrderFacts, TwoFacts DEF Written, Add, InOrder
<1>11. InOrder(stack', depth', locals', visible')
  BY <1>9, <1>10, AddFacts DEF InOrder
<1> QED  BY <1>2, <1>11, AddFacts, BodyStep

(* A switch or a clause of one: the depth grows, what is seen does not.    *)
LEMMA DeeperStep ==
  ASSUME C99Inv, outcome = "emitting", stack # << >>,
         depth' = depth + 1, UNCHANGED <<locals, visible, leaked>>, NEW names,
         \/ Written(names, <<Cases, SwitchEnd>>)
         \/ Written(names, <<Statements, CaseEnd>>)
  PROVE  C99Inv'
<1> DEFINE Step(t, u) == Plain(t) /\ Closes(u) = 1 /\ EndOK(u, locals, visible)
                         /\ (u.do \in Ends => u.sees = Len(visible)) /\ u.do # "ForEnd"
<1>1. IsSeq(locals) /\ IsSeq(visible) /\ Len(visible) \in Nat
  BY OrderFacts, SeqFacts
<1>2. ASSUME NEW t, NEW u, Step(t, u), Written(names, <<t, u>>) PROVE C99Inv'
  <2>1. <<t, u>> \in Seq({t, u})
    OBVIOUS
  <2>2. BodyFrame
    BY <1>2, <2>1, WrittenFacts DEF IsSeq
  <2>3. InOrder(<<u>> \o stack, depth + 1, locals, visible)
    BY <1>1, <1>2, OrderFacts, EndOnTop
  <2>4. depth + 1 \in Nat
    BY OrderFacts
  <2>5. InOrder(<<t>> \o (<<u>> \o stack), depth + 1, locals, visible)
    BY <1>1, <1>2, <2>3, <2>4, PlainOnTop
  <2>6. stack' = <<t>> \o (<<u>> \o stack)
    BY <1>2, OrderFacts, TwoFacts DEF Written, InOrder
  <2>7. InOrder(stack', depth', locals', visible') /\ Agree(locals', visible', leaked')
    BY <2>5, <2>6 DEF C99Inv, ScopeInv
  <2> QED  BY <2>2, <2>7, OrderFacts, BodyStep
<1>3. Step(Cases, SwitchEnd)
  <2>1. SwitchEnd.do = "SwitchEnd" /\ SwitchEnd.sees = Len(visible) /\ Cases.do = "cases"
    BY DEF SwitchEnd, Cases
  <2> QED  BY <1>1, <2>1 DEF Plain, Ends, Closes, EndOK
<1>4. Step(Statements, CaseEnd)
  <2>1. CaseEnd.do = "CaseEnd" /\ Statements.do = "statements"
    BY DEF CaseEnd, Statements
  <2> QED  BY <1>1, <2>1 DEF Plain, Ends, Closes, EndOK
<1> QED  BY <1>2, <1>3, <1>4

LEMMA BlockStep == C99Inv /\ emit_block => C99Inv'
<1> SUFFICES ASSUME C99Inv, emit_block PROVE C99Inv'
  OBVIOUS
<1> DEFINE rest == Tail(stack)
<1>1. /\ outcome = "emitting" /\ stack # << >> /\ Head(stack).do = "block"
      /\ Go(<<Statements, BlockEnd>> \o rest) /\ depth' = depth + 1 /\ UNCHANGED <<locals, visible, leaked>>
  BY DEF emit_block, Emitting
<1>2. IsSeq(locals) /\ IsSeq(visible) /\ Len(visible) \in Nat /\ depth \in Nat
  BY OrderFacts, SeqFacts
<1>3. InOrder(rest, depth, locals, visible)
  <2>1. Closes(Head(stack)) = 0
    BY <1>1 DEF Closes
  <2> QED  BY <1>1, <1>2, <2>1, OffTop, OrderFacts
<1> HIDE DEF rest
<1>4. BlockEnd.do = "BlockEnd" /\ BlockEnd.sees = Len(visible) /\ Statements.do = "statements"
  BY DEF BlockEnd, Statements
<1>5. Plain(Statements) /\ Closes(BlockEnd) = 1 /\ EndOK(BlockEnd, locals, visible)
  BY <1>2, <1>4 DEF Plain, Ends, Closes, EndOK
<1>6. InOrder(<<BlockEnd>> \o rest, depth + 1, locals, visible)
  BY <1>2, <1>3, <1>4, <1>5, EndOnTop
<1>7. InOrder(<<Statements>> \o (<<BlockEnd>> \o rest), depth + 1, locals, visible)
  BY <1>2, <1>5, <1>6, PlainOnTop
<1>8. stack' = <<Statements>> \o (<<BlockEnd>> \o rest)
  BY <1>1, <1>3, TwoFacts DEF Go, InOrder
<1>9. IsSeq(<<Statements, BlockEnd>> \o rest)
  BY <1>3, <1>7, TwoFacts DEF InOrder
<1>10. BodyFrame
  BY <1>1, <1>9, GoFacts
<1>11. InOrder(stack', depth', locals', visible') /\ Agree(locals', visible', leaked')
  BY <1>1, <1>7, <1>8 DEF C99Inv, ScopeInv
<1> QED  BY <1>1, <1>10, <1>11, OrderFacts, BodyStep

(* The end of a list, of a clause: what is seen stays.                     *)
LEMMA EndOfListStep ==
  ASSUME C99Inv, outcome = "emitting", stack # << >>, Go(Tail(stack)),
         depth' = depth - Closes(Head(stack)), UNCHANGED <<locals, visible, leaked>>
  PROVE  C99Inv'
<1>1. InOrder(Tail(stack), depth - Closes(Head(stack)), locals, visible)
  BY OffTop, OrderFacts
<1>2. BodyFrame
  BY <1>1, GoFacts DEF InOrder
<1>3. InOrder(stack', depth', locals', visible') /\ Agree(locals', visible', leaked')
  BY <1>1 DEF Go, C99Inv, ScopeInv
<1> QED  BY <1>2, <1>3, OrderFacts, BodyStep

(* A brace that closes: the names that are seen no more are leaked, and of *)
(* the others C sees what it saw.                                          *)
LEMMA CloseStep ==
  ASSUME C99Inv, NEW task \in {"BlockEnd", "SwitchEnd"}, CloseBrace(task)
  PROVE  C99Inv'
<1> DEFINE m == Head(stack).sees
           rest == Tail(stack)
<1>1. /\ outcome = "emitting" /\ stack # << >> /\ Head(stack).do = task
      /\ Go(rest) /\ depth' = depth - 1 /\ visible' = SubSeq(visible, 1, m)
      /\ leaked' = leaked \cup Unseen(m) /\ locals' = locals
  BY DEF CloseBrace, Emitting
<1>2. /\ IsSeq(locals) /\ IsSeq(visible) /\ Len(locals) \in Nat /\ Len(visible) \in Nat
      /\ InOrder(stack, depth, locals, visible)
  BY OrderFacts, SeqFacts
<1>3. Closes(Head(stack)) = 1 /\ Head(stack).do \in Ends /\ Head(stack).do # "ForEnd"
  BY <1>1 DEF Closes, Ends
<1>4. InOrder(rest, depth - 1, locals, visible)
  BY <1>1, <1>2, <1>3, OffTop
<1>5. EndOK(Head(stack), locals, visible) /\ \A i \in 1 .. Len(rest) : Nested(Head(stack), rest[i])
  BY <1>1, <1>2, ScopedTail DEF InOrder
<1>6. m \in 0 .. Len(visible)
  BY <1>3, <1>5 DEF EndOK
<1> HIDE DEF m, rest
<1>7. \A i \in 1 .. Len(rest) : rest[i].do \in Ends => rest[i].sees <= m
  BY <1>3, <1>5 DEF Nested, m
<1>8. \A i \in 1 .. Len(rest) : rest[i].do = "ForEnd" => rest[i].saved <= Len(locals)
  <2> TAKE i \in 1 .. Len(rest)
  <2>1. EndOK(rest[i], locals, visible)
    BY <1>4 DEF InOrder, Scoped
  <2> QED  BY <1>2, <2>1 DEF EndOK
<1>9. SubSeq(locals, 1, Len(locals)) = locals
  BY <1>2 DEF IsSeq
<1>10. Len(locals) \in 0 .. Len(locals)
  BY <1>2
<1>11. Scoped(rest, SubSeq(locals, 1, Len(locals)), SubSeq(visible, 1, m))
  BY <1>2, <1>4, <1>6, <1>7, <1>8, <1>10, ScopedCut DEF InOrder
<1>12. InOrder(stack', depth', locals', visible')
  BY <1>1, <1>4, <1>9, <1>11 DEF InOrder, Go
<1>13. IsSeq(visible')
  BY <1>1, <1>2, <1>6, SubSeqFacts
<1>14. Agree(locals', visible', leaked')
  <2> SUFFICES ASSUME NEW name, name \notin leaked' PROVE Newest(locals', name) = Newest(visible', name)
    BY DEF Agree
  <2>1. \A i \in m + 1 .. Len(visible) : visible[i].name # name
    BY <1>1 DEF Unseen
  <2>2. Newest(visible', name) = Newest(visible, name)
    BY <1>1, <1>2, <1>6, <2>1, NewestPrefix
  <2> QED  BY <1>1, <2>2 DEF C99Inv, ScopeInv, Agree
<1>15. BodyFrame
  BY <1>1, <1>4, GoFacts DEF InOrder
<1> QED  BY <1>1, <1>12, <1>13, <1>14, <1>15, OrderFacts, BodyStep

(* The end of a loop takes both tables back to what they were before it.   *)
LEMMA EndForStep == C99Inv /\ EndFor => C99Inv'
<1> SUFFICES ASSUME C99Inv, EndFor PROVE C99Inv'
  OBVIOUS
<1> DEFINE m == Head(stack).sees
           n == Head(stack).saved
           rest == Tail(stack)
<1>1. /\ outcome = "emitting" /\ stack # << >> /\ Head(stack).do = "ForEnd"
      /\ Go(rest) /\ depth' = depth /\ locals' = SubSeq(locals, 1, n)
      /\ visible' = SubSeq(visible, 1, m) /\ leaked' = Head(stack).leaked
  BY DEF EndFor, Emitting
<1>2. /\ IsSeq(locals) /\ IsSeq(visible) /\ Len(locals) \in Nat /\ Len(visible) \in Nat
      /\ InOrder(stack, depth, locals, visible) /\ depth \in Nat /\ Len(locals) <= CAPACITY
  BY OrderFacts, SeqFacts
<1>3. Closes(Head(stack)) = 0 /\ Head(stack).do \in Ends
  BY <1>1 DEF Closes, Ends
<1>4. InOrder(rest, depth, locals, visible)
  BY <1>1, <1>2, <1>3, OffTop
<1>5. EndOK(Head(stack), locals, visible) /\ \A i \in 1 .. Len(rest) : Nested(Head(stack), rest[i])
  BY <1>1, <1>2, ScopedTail DEF InOrder
<1>6. m \in 0 .. Len(visible) /\ n \in 0 .. Len(locals) /\ Agree(locals', visible', leaked')
  BY <1>1, <1>3, <1>5 DEF EndOK
<1> HIDE DEF m, n, rest
<1>7. /\ \A i \in 1 .. Len(rest) : rest[i].do \in Ends => rest[i].sees <= m
      /\ \A i \in 1 .. Len(rest) : rest[i].do = "ForEnd" => rest[i].saved <= n
  BY <1>1, <1>3, <1>5 DEF Nested, m, n
<1>8. Scoped(rest, locals', visible')
  BY <1>1, <1>2, <1>4, <1>6, <1>7, ScopedCut DEF InOrder
<1>9. InOrder(stack', depth', locals', visible')
  BY <1>1, <1>4, <1>8 DEF InOrder, Go
<1>10. IsSeq(visible') /\ IsSeq(locals') /\ Len(locals') = n
  BY <1>1, <1>2, <1>6, SubSeqFacts
<1>11. n <= CAPACITY
  BY <1>2, <1>6, CapacityAssumption
<1>12. BodyFrame
  BY <1>1, <1>4, GoFacts DEF InOrder
<1> QED  BY <1>6, <1>9, <1>10, <1>11, <1>12, BodyStep

-----------------------------------------------------------------------------
(* Every step in a body.                                                   *)
LEMMA RefusedStep == C99Inv /\ unsupported => C99Inv'
  BY EndStep DEF unsupported

LEMMA DeclarationKept ==
  ASSUME C99Inv, outcome = "emitting", stack # << >>, NEW s, emit_declaration(s)
  PROVE  C99Inv'
<1>1. \/ HasRoom(locals) /\ Add(s.name, LocalType(s)) /\ Written(Names[s.value], << >>)
      \/ unsupported
  BY Zenon DEF emit_declaration
<1> QED  BY <1>1, DeclareStep, RefusedStep

LEMMA AssignmentKept ==
  ASSUME C99Inv, outcome = "emitting", stack # << >>, NEW s, emit_assignment(s)
  PROVE  C99Inv'
<1>1. \/ Same /\ Written(Names[s.lhs[1]] \cup Names[s.rhs[1]], << >>)
      \/ unsupported
  BY Zenon DEF emit_assignment
<1> QED  BY <1>1, SameStep, RefusedStep

LEMMA IfKept ==
  ASSUME C99Inv, outcome = "emitting", stack # << >>, NEW s, emit_if(s)
  PROVE  C99Inv'
<1> DEFINE tasks == <<Block>> \o (IF s.elif THEN <<Block>> ELSE << >>)
<1>1. (Same /\ Written(Names[s.cond], tasks)) \/ unsupported
  BY Zenon DEF emit_if
<1>2. s.elif => tasks = <<Block>> \o <<Block>>
  BY Zenon
<1>3. ~s.elif => tasks = <<Block>> \o << >>
  BY Zenon
<1>4. tasks \in {<<Block>>, <<Block, Block>>}
  <2>1. ASSUME NEW x PROVE <<x>> \o <<x>> = <<x, x>>
    <3>1. /\ <<x>> \in Seq({x}) /\ <<x, x>> \in Seq({x}) /\ <<x>> \o <<x>> \in Seq({x})
          /\ Len(<<x>> \o <<x>>) = Len(<<x, x>>)
      OBVIOUS
    <3>2. \A i \in 1 .. Len(<<x>> \o <<x>>) : (<<x>> \o <<x>>)[i] = <<x, x>>[i]
      OBVIOUS
    <3> QED  BY <3>1, <3>2, SeqEqual
  <2>2. ASSUME NEW x PROVE <<x>> \o << >> = <<x>>
    <3>1. <<x>> \in Seq({x})
      OBVIOUS
    <3> QED  BY <3>1
  <2> QED  BY Zenon, <1>2, <1>3, <2>1, <2>2
<1> HIDE DEF tasks
<1> QED  BY <1>1, <1>4, SameStep, RefusedStep

LEMMA ReturnKept ==
  ASSUME C99Inv, outcome = "emitting", stack # << >>, NEW s, emit_return(s)
  PROVE  C99Inv'
<1>1. (Same /\ Written(UNION {Names[e] : e \in ToSet(s.results)}, << >>)) \/ unsupported
  BY Zenon DEF emit_return
<1> QED  BY <1>1, SameStep, RefusedStep

LEMMA ForKept ==
  ASSUME C99Inv, outcome = "emitting", stack # << >>, NEW s, emit_for(s)
  PROVE  C99Inv'
<1>1. \/ /\ HasRoom(locals)
         /\ \E name, type, names : Add(name, type) /\ Written(names, <<Block, ForEnd>>)
      \/ unsupported
  BY Zenon DEF emit_for
<1> QED  BY <1>1, LoopStep, RefusedStep

LEMMA SwitchKept ==
  ASSUME C99Inv, outcome = "emitting", stack # << >>, NEW s, emit_switch(s)
  PROVE  C99Inv'
<1>1. \/ /\ depth' = depth + 1 /\ UNCHANGED <<locals, visible, leaked>>
         /\ \E names : Written(names, <<Cases, SwitchEnd>>)
      \/ unsupported
  BY Zenon DEF emit_switch
<1> QED  BY <1>1, DeeperStep, RefusedStep

LEMMA SimpleKept ==
  ASSUME C99Inv, outcome = "emitting", stack # << >>, NEW s, EmitSimple(s)
  PROVE  C99Inv'
<1>1. \/ Same /\ \E names : Written(names, << >>) \/ Written(names, <<Block>>)
      \/ unsupported
  BY Zenon DEF EmitSimple
<1> QED  BY <1>1, SameStep, RefusedStep

LEMMA StatementStep == C99Inv /\ emit_statement => C99Inv'
<1> SUFFICES ASSUME C99Inv, emit_statement PROVE C99Inv'
  OBVIOUS
<1>1. outcome = "emitting" /\ stack # << >>
  BY DEF emit_statement, Emitting
<1>2. \E s : \/ emit_declaration(s) \/ emit_assignment(s) \/ emit_if(s) \/ emit_return(s)
             \/ emit_for(s) \/ emit_switch(s) \/ EmitSimple(s)
  BY Zenon DEF emit_statement
<1> QED
  BY <1>1, <1>2, DeclarationKept, AssignmentKept, IfKept, ReturnKept, ForKept, SwitchKept, SimpleKept

LEMMA ClauseStep == C99Inv /\ Clause => C99Inv'
<1> SUFFICES ASSUME C99Inv, Clause PROVE C99Inv'
  OBVIOUS
<1>1. outcome = "emitting" /\ stack # << >>
  BY DEF Clause, Emitting
<1>2. \/ /\ depth' = depth + 1 /\ UNCHANGED <<locals, visible, leaked>>
         /\ \E names : Written(names, <<Statements, CaseEnd>>)
      \/ unsupported
  BY Zenon DEF Clause
<1> QED  BY <1>1, <1>2, DeeperStep, RefusedStep

LEMMA EndSteps == C99Inv /\ (EndOfList \/ EndOfCases \/ EndClause) => C99Inv'
<1> SUFFICES ASSUME C99Inv, EndOfList \/ EndOfCases \/ EndClause PROVE C99Inv'
  OBVIOUS
<1>1. /\ outcome = "emitting" /\ stack # << >> /\ Go(Tail(stack)) /\ UNCHANGED <<locals, visible, leaked>>
      /\ \/ Head(stack).do \in {"statements", "cases"} /\ depth' = depth
         \/ Head(stack).do = "CaseEnd" /\ depth' = depth - 1
  BY DEF EndOfList, EndOfCases, EndClause, Emitting, Same
<1>2. depth' = depth - Closes(Head(stack))
  BY <1>1, OrderFacts DEF Closes
<1> QED  BY <1>1, <1>2, EndOfListStep

-----------------------------------------------------------------------------
(* Every step at the top of the text.                                      *)
LEMMA CountFacts ==
  ASSUME OrderInv
  PROVE  /\ N \in Nat /\ Len(todo) \in 0 .. N /\ Shown \in 0 .. N
         /\ todo # << >> => Head(todo) = Shown + 1 /\ Shown + 1 \in 1 .. N
<1>1. N \in Nat
  BY ScenarioAssumption DEF OrderInv, N
<1>2. Len(todo) \in 0 .. N /\ (todo # << >> => Len(todo) > 0)
  BY <1>1, SeqFacts DEF OrderInv
<1>3. todo # << >> => Head(todo) = todo[1]
  BY TailFacts DEF OrderInv
<1> QED  BY <1>1, <1>2, <1>3 DEF OrderInv, Shown

(* One declaration further.                                                *)
LEMMA AdvanceFacts ==
  ASSUME OrderInv, todo # << >>, todo' = Tail(todo), UNCHANGED <<build, pass, outcome>>,
         outcome = "emitting", IsSeq(stack'), stack' # << >> => pass = "definitions"
  PROVE  /\ OrderInv'
         /\ \A p, i : Passed(p, i)' <=> Passed(p, i) \/ (p = pass /\ i = Head(todo))
<1>1. /\ N \in Nat /\ Shown \in 0 .. N /\ Head(todo) = Shown + 1 /\ Shown + 1 \in 1 .. N
      /\ Len(todo) \in Nat /\ Len(todo) <= N
  BY CountFacts
<1>2. /\ IsSeq(todo') /\ Len(todo') = Len(todo) - 1
      /\ \A k \in 1 .. Len(todo) - 1 : todo'[k] = todo[k + 1]
  BY TailFacts DEF OrderInv
<1>3. N' = N
  BY DEF N
<1>4. Shown' = Shown + 1
  BY <1>1, <1>2, <1>3 DEF Shown
<1>5. \A k \in 1 .. Len(todo') : todo'[k] = Shown' + k
  <2> TAKE k \in 1 .. Len(todo')
  <2>1. k + 1 \in 1 .. Len(todo)
    BY <1>1, <1>2
  <2>2. todo[k + 1] = Shown + (k + 1)
    BY <2>1 DEF OrderInv
  <2> QED  BY <1>1, <1>2, <1>4, <2>1, <2>2
<1>6. OrderInv'
  BY <1>1, <1>2, <1>3, <1>5 DEF OrderInv
<1>7. ASSUME NEW p, NEW i PROVE Passed(p, i)' <=> Passed(p, i) \/ (p = pass /\ i = Head(todo))
  <2>1. pass \notin Before[pass]
    BY DEF OrderInv, Before
  <2> QED  BY <1>1, <1>3, <1>4, <2>1 DEF Passed
<1> QED  BY <1>6, <1>7

(* At the top no table of scopes changes.                                  *)
LEMMA TopScope ==
  ASSUME ScopeInv, DepthInv, UNCHANGED <<stack, depth, locals, visible, leaked>>
  PROVE  ScopeInv' /\ DepthInv'
  BY DEF ScopeInv, DepthInv

(* A declaration that is passed in this pass and not written.              *)
LEMMA PassedOver ==
  ASSUME OrderInv, OutInv, todo # << >>, UNCHANGED <<build, out>>,
         \A p, i : Passed(p, i)' <=> Passed(p, i) \/ (p = pass /\ i = Head(todo)),
         \A what \in DOMAIN PassOf : PassOf[what] = pass => ~Belongs(what, Head(todo)),
         pass = "types" => Parts(Head(todo)) /\ (Value(Head(todo)).kind = "TYPE" => IsStruct(Value(Head(todo))))
  PROVE  OutInv'
<1>1. N' = N /\ (\A i : Parts(i)' = Parts(i) /\ Value(i)' = Value(i))
  BY DEF N, Parts, Value
<1>2. \A what, i : Belongs(what, i)' = Belongs(what, i)
  BY <1>1 DEF Belongs
<1>3. \A i \in 1 .. N : Passed("types", i)' => Parts(i) /\ (Value(i).kind = "TYPE" => IsStruct(Value(i)))
  BY DEF OutInv
<1>4. \A what \in DOMAIN PassOf : \A i \in Nat :
        (\E k \in 1 .. Len(out) : out[k] = <<what, i>>) <=> Passed(PassOf[what], i)' /\ Belongs(what, i)
  BY DEF OutInv
<1> QED  BY <1>1, <1>2, <1>3, <1>4 DEF OutInv

(* One that is written.                                                    *)
LEMMA PutOut ==
  ASSUME OrderInv, OutInv, todo # << >>, UNCHANGED build,
         \A p, i : Passed(p, i)' <=> Passed(p, i) \/ (p = pass /\ i = Head(todo)),
         NEW what \in DOMAIN PassOf, PassOf[what] = pass, out' = Append(out, <<what, Head(todo)>>),
         \A w \in DOMAIN PassOf : PassOf[w] = pass => (Belongs(w, Head(todo)) <=> w = what),
         pass = "types" => Parts(Head(todo)) /\ (Value(Head(todo)).kind = "TYPE" => IsStruct(Value(Head(todo))))
  PROVE  OutInv'
<1> DEFINE i0 == Head(todo)
<1>1. N' = N /\ (\A i : Parts(i)' = Parts(i) /\ Value(i)' = Value(i))
  BY DEF N, Parts, Value
<1>2. \A w, i : Belongs(w, i)' = Belongs(w, i)
  BY <1>1 DEF Belongs
<1>3. \A i \in 1 .. N : Passed("types", i)' => Parts(i) /\ (Value(i).kind = "TYPE" => IsStruct(Value(i)))
  BY DEF OutInv
<1>4. i0 \in Nat /\ ~Passed(pass, i0)
  <2>1. i0 = Shown + 1 /\ Shown \in Nat /\ pass \notin Before[pass]
    BY CountFacts DEF OrderInv, Before
  <2> QED  BY <2>1 DEF Passed
<1> HIDE DEF i0
<1>5. /\ out' \in Seq((DOMAIN PassOf) \X Nat) /\ Len(out') = Len(out) + 1 /\ Len(out) \in Nat
      /\ out'[Len(out) + 1] = <<what, i0>> /\ \A k \in 1 .. Len(out) : out'[k] = out[k]
  BY <1>4 DEF OutInv, i0
<1>6. \A k \in 1 .. Len(out) : out[k] # <<what, i0>>
  BY <1>4 DEF OutInv
<1>7. ASSUME NEW w \in DOMAIN PassOf, NEW i \in Nat
      PROVE  (\E k \in 1 .. Len(out') : out'[k] = <<w, i>>) <=> Passed(PassOf[w], i)' /\ Belongs(w, i)
  <2>1. (\E k \in 1 .. Len(out') : out'[k] = <<w, i>>) <=>
          (\E k \in 1 .. Len(out) : out[k] = <<w, i>>) \/ (w = what /\ i = i0)
    <3>1. 1 .. Len(out') = 1 .. Len(out) \cup {Len(out) + 1}
      BY <1>5
    <3>2. <<what, i0>> = <<w, i>> <=> (w = what /\ i = i0)
      OBVIOUS
    <3> QED  BY <1>5, <3>1, <3>2
  <2>2. (\E k \in 1 .. Len(out) : out[k] = <<w, i>>) <=> Passed(PassOf[w], i) /\ Belongs(w, i)
    BY DEF OutInv
  <2>3. Passed(PassOf[w], i)' <=> Passed(PassOf[w], i) \/ (PassOf[w] = pass /\ i = i0)
    BY DEF i0
  <2>4. PassOf[w] = pass /\ i = i0 => (Belongs(w, i) <=> w = what)
    BY DEF i0
  <2> QED  BY <2>1, <2>2, <2>3, <2>4
<1>8. \A j, k \in 1 .. Len(out') : out'[j] = out'[k] => j = k
  <2>1. \A k \in 1 .. Len(out') : k = Len(out) + 1 \/ k \in 1 .. Len(out)
    BY <1>5
  <2>2. \A j, k \in 1 .. Len(out) : out[j] = out[k] => j = k
    BY DEF OutInv
  <2>3. SUFFICES ASSUME NEW j \in 1 .. Len(out'), NEW k \in 1 .. Len(out'), out'[j] = out'[k]
                 PROVE  j = k
    OBVIOUS
  <2>4. CASE j \in 1 .. Len(out) /\ k \in 1 .. Len(out)
    BY <1>5, <2>2, <2>3, <2>4
  <2>5. CASE j \in 1 .. Len(out) /\ k = Len(out) + 1
    BY <1>5, <1>6, <2>3, <2>5
  <2>6. CASE k \in 1 .. Len(out) /\ j = Len(out) + 1
    BY <1>5, <1>6, <2>3, <2>6
  <2> QED  BY <2>1, <2>4, <2>5, <2>6
<1> QED  BY <1>1, <1>2, <1>3, <1>5, <1>7, <1>8 DEF OutInv

LEMMA GlobalsKept ==
  ASSUME GlobalsInv, UNCHANGED <<globals, build>>
  PROVE  GlobalsInv'
<1>1. N' = N /\ (\A i : Parts(i)' = Parts(i) /\ NameOf(i)' = NameOf(i))
  BY DEF N, Parts, NameOf
<1> QED  BY <1>1 DEF GlobalsInv

LEMMA CollectStep == C99Inv /\ sema_collect_globals => C99Inv'
<1> SUFFICES ASSUME C99Inv, sema_collect_globals PROVE C99Inv'
  OBVIOUS
<1>1. outcome = "emitting" /\ pass = "collect" /\ todo # << >>
  BY DEF sema_collect_globals
<1>2. OrderInv /\ GlobalsInv /\ OutInv /\ DeclaredBeforeBodies /\ ScopeInv /\ DepthInv
  BY DEF C99Inv
<1>3. ASSUME todo' = Tail(todo), UNCHANGED <<locals, build, pass, stack, depth, outcome, history>>, GlobalsInv'
      PROVE  C99Inv'
  <2>1. UNCHANGED <<out, visible, leaked, undeclared>>
    BY <1>3 DEF history
  <2>2. IsSeq(stack') /\ (stack' # << >> => pass = "definitions")
    BY <1>2, <1>3 DEF OrderInv
  <2>3. OrderInv' /\ \A p, i : Passed(p, i)' <=> Passed(p, i) \/ (p = pass /\ i = Head(todo))
    BY <1>1, <1>2, <1>3, <2>2, AdvanceFacts
  <2>4. \A what \in DOMAIN PassOf : PassOf[what] # pass
    BY <1>1 DEF PassOf
  <2>5. OutInv'
    BY <1>1, <1>2, <1>3, <2>1, <2>3, <2>4, PassedOver
  <2>6. DeclaredBeforeBodies'
    BY <1>2, <2>1 DEF DeclaredBeforeBodies
  <2>7. ScopeInv' /\ DepthInv'
    BY <1>2, <1>3, <2>1, TopScope
  <2> QED  BY <1>3, <2>3, <2>5, <2>6, <2>7 DEF C99Inv
<1>4. \/ ~declaration_parts(This) /\ todo' = Tail(todo)
         /\ UNCHANGED <<semaVars, build, pass, stack, depth, outcome, history>>
      \/ End("crashed") \/ unsupported
      \/ /\ declaration_parts(This) /\ HasRoom(globals) /\ globals' = Append(globals, GlobalSymbol(This))
         /\ todo' = Tail(todo) /\ UNCHANGED <<locals, build, pass, stack, depth, outcome, history>>
  BY DEF sema_collect_globals
<1>5. CASE todo' = Tail(todo) /\ UNCHANGED <<semaVars, build, pass, stack, depth, outcome, history>>
  <2>1. UNCHANGED <<globals, locals, build>>
    BY <1>5 DEF semaVars
  <2> QED  BY <1>2, <1>3, <1>5, <2>1, GlobalsKept
<1>6. CASE /\ declaration_parts(This) /\ HasRoom(globals) /\ globals' = Append(globals, GlobalSymbol(This))
           /\ todo' = Tail(todo) /\ UNCHANGED <<locals, build, pass, stack, depth, outcome, history>>
  <2> DEFINE g0 == GlobalSymbol(This)
  <2>1. g0.name = This.name
    BY DEF GlobalSymbol, Symbol
  <2>2. Head(todo) \in 1 .. N /\ Parts(Head(todo)) /\ NameOf(Head(todo)) = This.name
    BY <1>1, <1>2, <1>6, CountFacts DEF Parts, NameOf, This
  <2>3. N' = N /\ (\A i : Parts(i)' = Parts(i) /\ NameOf(i)' = NameOf(i))
    BY <1>6 DEF N, Parts, NameOf
  <2>4. globals' = Append(globals, g0)
    BY <1>6
  <2>5. Len(globals) < CAPACITY /\ CAPACITY \in Nat
    BY <1>6, CapacityAssumption DEF HasRoom
  <2> HIDE DEF g0
  <2>6. /\ IsSeq(globals') /\ Len(globals') = Len(globals) + 1 /\ Len(globals) \in Nat
        /\ globals'[Len(globals) + 1] = g0 /\ \A g \in 1 .. Len(globals) : globals'[g] = globals[g]
    BY <1>2, <2>4, AppendFacts, SeqFacts DEF GlobalsInv
  <2>7. \A g \in 1 .. Len(globals') : g = Len(globals) + 1 \/ g \in 1 .. Len(globals)
    BY <2>6
  <2>8. \A g \in 1 .. Len(globals') : \E i \in 1 .. N : Parts(i) /\ globals'[g].name = NameOf(i)
    BY <1>2, <2>1, <2>2, <2>6, <2>7 DEF GlobalsInv
  <2>9. GlobalsInv'
    BY <2>3, <2>5, <2>6, <2>8 DEF GlobalsInv
  <2> QED  BY <1>3, <1>6, <2>9
<1> QED  BY <1>4, <1>5, <1>6, EndStep, RefusedStep

LEMMA NextPassStep == C99Inv /\ NextPass => C99Inv'
<1> SUFFICES ASSUME C99Inv, NextPass PROVE C99Inv'
  OBVIOUS
<1>1. outcome = "emitting" /\ todo = << >> /\ stack = << >>
  BY DEF NextPass
<1>2. OrderInv /\ GlobalsInv /\ OutInv /\ DeclaredBeforeBodies /\ ScopeInv /\ DepthInv
  BY DEF C99Inv
<1>3. CASE pass = "definitions" /\ End("emitted")
  BY <1>1, <1>3, EndStep
<1>4. CASE /\ pass # "definitions" /\ pass' = Following[pass] /\ todo' = [i \in 1 .. N |-> i]
           /\ UNCHANGED <<semaVars, build, stack, depth, outcome, history>>
  <2>1. UNCHANGED <<globals, locals, build, stack, depth, outcome, out, visible, leaked, undeclared>>
    BY <1>4 DEF semaVars, history
  <2>2. /\ pass \in DOMAIN Before /\ pass' \in DOMAIN Before /\ Before[pass'] = Before[pass] \cup {pass}
        /\ pass' \notin Before[pass']
    BY <1>2, <1>4 DEF OrderInv, Before, Following
  <2>3. N \in Nat /\ N' = N /\ Shown = N
    BY <1>1, <1>2, <2>1, CountFacts, EmptyIsSeq DEF N, Shown
  <2>4. todo' \in Seq(1 .. N) /\ Len(todo') = N /\ \A k \in 1 .. N : todo'[k] = k
    BY <1>4, <2>3
  <2>5. Shown' = 0 /\ IsSeq(todo')
    BY <2>3, <2>4 DEF Shown, IsSeq
  <2>6. OrderInv'
    BY <1>1, <1>2, <2>1, <2>2, <2>3, <2>4, <2>5 DEF OrderInv
  <2>7. \A p, i : Passed(p, i)' <=> Passed(p, i)
    <3> TAKE p, i
    <3>1. Passed(p, i)' <=> i \in 1 .. N /\ p \in Before[pass']
      BY <2>2, <2>3, <2>5 DEF Passed
    <3>2. Passed(p, i) <=> i \in 1 .. N /\ (p \in Before[pass] \/ p = pass)
      BY <2>3 DEF Passed
    <3> QED  BY <2>2, <3>1, <3>2
  <2>8. \A i : Parts(i)' = Parts(i) /\ Value(i)' = Value(i)
    BY <2>1 DEF Parts, Value
  <2>9. \A what, i : Belongs(what, i)' = Belongs(what, i)
    BY <2>8 DEF Belongs
  <2>10. OutInv'
    BY <1>2, <2>1, <2>3, <2>7, <2>8, <2>9 DEF OutInv
  <2>11. GlobalsInv' /\ DeclaredBeforeBodies' /\ ScopeInv' /\ DepthInv'
    BY <1>2, <2>1, GlobalsKept, TopScope DEF DeclaredBeforeBodies
  <2> QED  BY <2>6, <2>10, <2>11 DEF C99Inv
<1> QED  BY <1>3, <1>4 DEF NextPass, N

(* What a declaration says that a pass looks at.                           *)
LEMMA VisitFacts ==
  ASSUME C99Inv, Visiting
  PROVE  /\ outcome = "emitting" /\ todo # << >> /\ stack = << >>
         /\ pass \in {"types", "prototypes", "definitions"}
         /\ Parts(Head(todo)) = declaration_parts(This) /\ Value(Head(todo)) = This.value
         /\ NameOf(Head(todo)) = This.name
  BY DEF Visiting, C99Inv, OrderInv, Before, Parts, Value, NameOf, This

LEMMA SkipStep == C99Inv /\ SkipDeclaration => C99Inv'
<1> SUFFICES ASSUME C99Inv, SkipDeclaration PROVE C99Inv'
  OBVIOUS
<1>1. Visiting /\ OrderInv /\ GlobalsInv /\ OutInv /\ DeclaredBeforeBodies /\ ScopeInv /\ DepthInv
  BY DEF SkipDeclaration, C99Inv
<1>2. CASE /\ declaration_parts(This) /\ (This.value.kind = "TYPE" => IsStruct(This.value)) /\ Skips(This)
           /\ todo' = Tail(todo) /\ UNCHANGED <<semaVars, build, pass, stack, depth, outcome, history>>
  <2>1. UNCHANGED <<globals, locals, build, pass, stack, depth, outcome, out, visible, leaked, undeclared>>
    BY <1>2 DEF semaVars, history
  <2>2. IsSeq(stack') /\ (stack' # << >> => pass = "definitions")
    BY <1>1, <2>1 DEF OrderInv
  <2>3. OrderInv' /\ \A p, i : Passed(p, i)' <=> Passed(p, i) \/ (p = pass /\ i = Head(todo))
    BY <1>1, <1>2, <2>1, <2>2, VisitFacts, AdvanceFacts
  <2>4. \A what \in DOMAIN PassOf : PassOf[what] = pass => ~Belongs(what, Head(todo))
    BY <1>1, <1>2, VisitFacts DEF PassOf, Belongs, Skips, IsStruct, IsConstant
  <2>5. OutInv'
    BY <1>1, <1>2, <2>1, <2>3, <2>4, VisitFacts, PassedOver
  <2> QED  BY <1>1, <2>1, <2>3, <2>5, GlobalsKept, TopScope DEF C99Inv, DeclaredBeforeBodies
<1>3. unsupported \/ (/\ declaration_parts(This) /\ (This.value.kind = "TYPE" => IsStruct(This.value)) /\ Skips(This)
         /\ todo' = Tail(todo) /\ UNCHANGED <<semaVars, build, pass, stack, depth, outcome, history>>)
  BY DEF SkipDeclaration
<1> QED  BY <1>2, <1>3, RefusedStep

LEMMA DeclareAtTop ==
  ASSUME C99Inv, Visiting, pass # "definitions", declaration_parts(This),
         This.value.kind = "TYPE" => IsStruct(This.value), NEW names,
         NEW what \in DOMAIN PassOf, PassOf[what] = pass, Declare(what, names),
         \A w \in DOMAIN PassOf : PassOf[w] = pass => (Belongs(w, Head(todo)) <=> w = what)
  PROVE  C99Inv'
<1>1. OrderInv /\ GlobalsInv /\ OutInv /\ DeclaredBeforeBodies /\ ScopeInv /\ DepthInv
  BY DEF C99Inv
<1>2. /\ out' = Append(out, <<what, Head(todo)>>) /\ undeclared' = Used(names) /\ todo' = Tail(todo)
      /\ UNCHANGED <<globals, locals, build, pass, stack, depth, outcome, visible, leaked>>
  BY DEF Declare, semaVars
<1>3. IsSeq(stack') /\ (stack' # << >> => pass = "definitions")
  BY <1>1, <1>2 DEF OrderInv
<1>4. OrderInv' /\ \A p, i : Passed(p, i)' <=> Passed(p, i) \/ (p = pass /\ i = Head(todo))
  BY <1>1, <1>2, <1>3, VisitFacts, AdvanceFacts
<1>5. OutInv'
  BY <1>1, <1>2, <1>4, VisitFacts, PutOut
<1>6. \A use \in Used(names) : use \in undeclared \/ use[1] = pass
  BY DEF Used
<1>7. DeclaredBeforeBodies'
  BY <1>1, <1>2, <1>6 DEF DeclaredBeforeBodies
<1> QED  BY <1>1, <1>2, <1>4, <1>5, <1>7, GlobalsKept, TopScope DEF C99Inv

LEMMA TopSteps == C99Inv /\ (emit_struct_type \/ EmitConstant \/ emit_prototype) => C99Inv'
<1>1. ASSUME C99Inv, emit_struct_type PROVE C99Inv'
  <2>1. Visiting /\ declaration_parts(This) /\ IsStruct(This.value) /\ pass = "types"
    BY <1>1 DEF emit_struct_type, Writing, Skips
  <2>2. unsupported \/ \E names : Declare("type", names)
    BY <1>1 DEF emit_struct_type
  <2>3. \A w \in DOMAIN PassOf : PassOf[w] = pass => (Belongs(w, Head(todo)) <=> w = "type")
    BY <1>1, <2>1, VisitFacts DEF PassOf, Belongs, IsStruct, IsConstant
  <2>4. "type" \in DOMAIN PassOf /\ PassOf["type"] = "types"
    BY DEF PassOf
  <2> QED  BY <1>1, <2>1, <2>2, <2>3, <2>4, RefusedStep, DeclareAtTop
<1>2. ASSUME C99Inv, EmitConstant PROVE C99Inv'
  <2>1. Visiting /\ declaration_parts(This) /\ IsConstant(This.value) /\ pass = "types"
    BY <1>2 DEF EmitConstant, Skips, IsStruct, IsConstant
  <2>2. unsupported \/ \E names : Declare("constant", names)
    BY <1>2 DEF EmitConstant
  <2>3. \A w \in DOMAIN PassOf : PassOf[w] = pass => (Belongs(w, Head(todo)) <=> w = "constant")
    BY <1>2, <2>1, VisitFacts DEF PassOf, Belongs, IsStruct, IsConstant
  <2>4. "constant" \in DOMAIN PassOf /\ PassOf["constant"] = "types" /\ This.value.kind # "TYPE"
    BY <2>1 DEF PassOf, IsConstant
  <2> QED  BY <1>2, <2>1, <2>2, <2>3, <2>4, RefusedStep, DeclareAtTop
<1>3. ASSUME C99Inv, emit_prototype PROVE C99Inv'
  <2>1. Visiting /\ declaration_parts(This) /\ This.value.kind = "PROCEDURE" /\ pass = "prototypes"
    BY <1>3 DEF emit_prototype, Writing
  <2>2. unsupported \/ \E names : Declare("prototype", names)
    BY <1>3 DEF emit_prototype
  <2>3. \A w \in DOMAIN PassOf : PassOf[w] = pass => (Belongs(w, Head(todo)) <=> w = "prototype")
    BY <1>3, <2>1, VisitFacts DEF PassOf, Belongs
  <2>4. "prototype" \in DOMAIN PassOf /\ PassOf["prototype"] = "prototypes"
    BY DEF PassOf
  <2> QED  BY <1>3, <2>1, <2>2, <2>3, <2>4, RefusedStep, DeclareAtTop
<1> QED  BY <1>1, <1>2, <1>3

(* The parameters: what the table has no room for counts as leaked.        *)
LEMMA ParamFacts ==
  ASSUME NEW L \in Nat, NEW f, f = [i \in 1 .. L |-> f[i]], NEW p, p = SubSeq(f, 1, Min({CAPACITY, L}))
  PROVE  /\ IsSeq(f) /\ IsSeq(p) /\ Len(p) <= CAPACITY
         /\ Agree(p, f, {f[i].name : i \in CAPACITY + 1 .. L})
<1> DEFINE n == Min({CAPACITY, L})
<1>1. CAPACITY \in Nat
  BY CapacityAssumption
<1>2. n = IF CAPACITY <= L THEN CAPACITY ELSE L
  BY <1>1 DEF Min
<1>3. n \in Nat /\ n <= L /\ n <= CAPACITY
  BY <1>1, <1>2
<1>4. f \in Seq({f[i] : i \in 1 .. L})
  <2>1. f \in [1 .. L -> {f[i] : i \in 1 .. L}]
    BY Zenon
  <2> QED  BY <2>1
<1>5. Len(f) = L
  <2>1. DOMAIN f = 1 .. L
    BY Zenon
  <2> QED  BY <1>4, <2>1
<1>6. IsSeq(f) /\ n \in 0 .. Len(f)
  <2>1. IsSeq(f)
    BY Zenon, <1>4 DEF IsSeq
  <2>2. n \in 0 .. L
    BY <1>1, <1>3
  <2> QED  BY Zenon, <1>5, <2>1, <2>2
<1> HIDE DEF n
<1>7. IsSeq(p) /\ Len(p) = n
  BY <1>6, SubSeqFacts DEF n
<1>8. ASSUME NEW name, name \notin {f[i].name : i \in CAPACITY + 1 .. L}
      PROVE  Newest(p, name) = Newest(f, name)
  <2>1. \A i \in n + 1 .. Len(f) : i \in CAPACITY + 1 .. L
    BY <1>1, <1>2, <1>5
  <2>2. \A i \in n + 1 .. Len(f) : f[i].name # name
    BY <1>8, <2>1
  <2> QED  BY <1>6, <2>2, NewestPrefix DEF n
<1> QED  BY <1>3, <1>6, <1>7, <1>8 DEF Agree

LEMMA DefinitionStep == C99Inv /\ emit_definition => C99Inv'
<1> SUFFICES ASSUME C99Inv, emit_definition PROVE C99Inv'
  OBVIOUS
<1> DEFINE params == This.value.params
           f == [i \in 1 .. Len(params) |-> Symbol(params[i].name, sema_type_from_ast(params[i].type))]
<1>1. OrderInv /\ GlobalsInv /\ OutInv /\ DeclaredBeforeBodies /\ ScopeInv /\ DepthInv
  BY DEF C99Inv
<1>2. Visiting /\ declaration_parts(This) /\ This.value.kind = "PROCEDURE" /\ pass = "definitions"
  BY DEF emit_definition, Writing
<1>3. \/ unsupported \/ End("crashed")
      \/ /\ sema_begin_procedure(params) /\ visible' = f
         /\ leaked' = {params[i].name : i \in CAPACITY + 1 .. Len(params)}
         /\ out' = Append(out, <<"definition", Head(todo)>>) /\ stack' = <<Block>> /\ todo' = Tail(todo)
         /\ UNCHANGED <<globals, build, pass, depth, outcome, undeclared>>
  BY Zenon DEF emit_definition
<1>4. CASE /\ sema_begin_procedure(params) /\ visible' = f
           /\ leaked' = {params[i].name : i \in CAPACITY + 1 .. Len(params)}
           /\ out' = Append(out, <<"definition", Head(todo)>>) /\ stack' = <<Block>> /\ todo' = Tail(todo)
           /\ UNCHANGED <<globals, build, pass, depth, outcome, undeclared>>
  <2>1. Len(params) \in Nat
    <3>1. Head(todo) \in 1 .. N
      BY <1>1, <1>2, VisitFacts, CountFacts
    <3>2. PICK s \in Scenario : build.declarations = s.declarations
      BY <1>1 DEF OrderInv
    <3> QED  BY <1>2, <3>1, <3>2, ScenarioAssumption DEF This, N
  <2>2. locals' = SubSeq(f, 1, Min({CAPACITY, Len(params)}))
    BY <1>4, Zenon DEF sema_begin_procedure
  <2>3. f = [i \in 1 .. Len(params) |-> f[i]] /\ \A i \in 1 .. Len(params) : f[i].name = params[i].name
    BY Zenon DEF Symbol
  <2> HIDE DEF f
  <2>4. /\ IsSeq(visible') /\ IsSeq(locals') /\ Len(locals') <= CAPACITY
        /\ Agree(locals', visible', {f[i].name : i \in CAPACITY + 1 .. Len(params)})
    BY <1>4, <2>1, <2>2, <2>3, ParamFacts
  <2>5. leaked' = {f[i].name : i \in CAPACITY + 1 .. Len(params)}
    <3>1. \A i \in CAPACITY + 1 .. Len(params) : i \in 1 .. Len(params)
      BY <2>1, CapacityAssumption
    <3> QED  BY <1>4, <2>3, <3>1
  <2>6. stack' = <<Block>> \o << >> /\ IsSeq(stack') /\ stack' # << >>
    <3>1. <<Block>> \in Seq({Block}) /\ <<Block>> = <<Block>> \o << >>
      OBVIOUS
    <3> QED  BY <1>4, <3>1 DEF IsSeq
  <2>7. OrderInv' /\ \A p, i : Passed(p, i)' <=> Passed(p, i) \/ (p = pass /\ i = Head(todo))
    BY <1>1, <1>2, <1>4, <2>6, VisitFacts, AdvanceFacts
  <2>8. \A w \in DOMAIN PassOf : PassOf[w] = pass => (Belongs(w, Head(todo)) <=> w = "definition")
    BY <1>2, VisitFacts DEF PassOf, Belongs
  <2>9. "definition" \in DOMAIN PassOf /\ PassOf["definition"] = pass /\ pass # "types"
    BY <1>2 DEF PassOf
  <2>10. OutInv'
    BY <1>1, <1>2, <1>4, <2>7, <2>8, <2>9, VisitFacts, PutOut
  <2>11. GlobalsInv' /\ DeclaredBeforeBodies'
    BY <1>1, <1>4, GlobalsKept DEF DeclaredBeforeBodies
  <2>12. depth = 0
    <3>1. PICK h : Counts(h, stack, depth)
      BY <1>1 DEF DepthInv
    <3> QED  BY <1>2, <3>1, VisitFacts, CountsNone
  <2>13. InOrder(<< >>, 0, locals', visible')
    <3>1. Counts([k \in 0 .. 0 |-> 0], << >>, 0)
      BY EmptyIsSeq DEF Counts
    <3>2. Scoped(<< >>, locals', visible')
      BY EmptyIsSeq DEF Scoped
    <3> QED  BY <3>1, <3>2, EmptyIsSeq DEF InOrder
  <2>14. Plain(Block) /\ 0 \in Nat
    BY DEF Plain, Block, Ends
  <2>15. InOrder(<<Block>> \o << >>, 0, locals', visible')
    BY <2>4, <2>13, <2>14, PlainOnTop
  <2>16. ScopeInv' /\ DepthInv'
    BY <1>4, <2>4, <2>5, <2>6, <2>12, <2>15 DEF InOrder, ScopeInv, DepthInv
  <2> QED  BY <2>7, <2>10, <2>11, <2>16 DEF C99Inv
<1> QED  BY <1>3, <1>4, RefusedStep, EndStep

-----------------------------------------------------------------------------
LEMMA C99Init == Init => C99Inv
<1> SUFFICES ASSUME Init PROVE C99Inv
  OBVIOUS
<1>1. /\ build \in Scenario /\ pass = "collect" /\ todo = [i \in 1 .. N |-> i] /\ stack = << >>
      /\ depth = 0 /\ outcome = "emitting" /\ globals = << >> /\ locals = << >>
      /\ out = << >> /\ visible = << >> /\ leaked = {} /\ undeclared = {}
  BY DEF Init, N
<1>2. N \in Nat /\ DOMAIN build = {"declarations", "body", "labels", "budget"}
  BY <1>1, ScenarioAssumption DEF N
<1>3. todo \in Seq(1 .. N) /\ Len(todo) = N /\ \A k \in 1 .. N : todo[k] = k
  BY <1>1, <1>2
<1>4. Shown = 0
  BY <1>2, <1>3 DEF Shown
<1>5. OrderInv
  <2>1. \E s \in Scenario : build.declarations = s.declarations
    BY <1>1
  <2>2. IsSeq(todo) /\ Len(todo) <= N /\ \A k \in 1 .. Len(todo) : todo[k] = Shown + k
    BY <1>2, <1>3, <1>4 DEF IsSeq
  <2> QED  BY <1>1, <1>2, <2>1, <2>2, EmptyIsSeq DEF OrderInv, Before
<1>6. GlobalsInv
  BY <1>1, EmptyIsSeq, CapacityAssumption DEF GlobalsInv
<1>7. OutInv
  <2>1. \A p, i : ~Passed(p, i) \/ p = "collect"
    BY <1>1 DEF Passed, Before
  <2>2. \A what \in DOMAIN PassOf : PassOf[what] # "collect"
    BY DEF PassOf
  <2> QED  BY <1>1, <2>1, <2>2, EmptyIsSeq DEF OutInv
<1>8. DeclaredBeforeBodies
  BY <1>1 DEF DeclaredBeforeBodies
<1>9. ScopeInv
  <2>1. Scoped(<< >>, << >>, << >>)
    BY EmptyIsSeq DEF Scoped
  <2> QED  BY <1>1, <2>1, EmptyIsSeq, CapacityAssumption DEF ScopeInv
<1>10. DepthInv
  <2>1. Counts([k \in 0 .. 0 |-> 0], << >>, 0)
    BY EmptyIsSeq DEF Counts
  <2> QED  BY <1>1, <2>1 DEF DepthInv
<1> QED  BY <1>5, <1>6, <1>7, <1>8, <1>9, <1>10 DEF C99Inv

LEMMA C99Step == C99Inv /\ [Next]_vars => C99Inv'
<1> SUFFICES ASSUME C99Inv, [Next]_vars PROVE C99Inv'
  OBVIOUS
<1>1. CASE UNCHANGED vars
  <2>1. UNCHANGED <<globals, locals, build, pass, todo, stack, depth, outcome, out, visible, leaked, undeclared>>
    BY <1>1 DEF vars, semaVars, history
  <2>2. N' = N /\ Shown' = Shown
    BY <2>1 DEF N, Shown
  <2>3. OrderInv'
    BY <2>1, <2>2 DEF C99Inv, OrderInv
  <2>4. GlobalsInv' /\ OutInv' /\ DeclaredBeforeBodies'
    BY <2>1, TopKept
  <2> QED  BY <2>1, <2>3, <2>4, TopScope DEF C99Inv
<1>2. CASE Next
  <2>1. CASE sema_collect_globals \/ NextPass \/ SkipDeclaration
    BY <2>1, CollectStep, NextPassStep, SkipStep
  <2>2. CASE emit_struct_type \/ EmitConstant \/ emit_prototype \/ emit_definition
    BY <2>2, TopSteps, DefinitionStep
  <2>3. CASE emit_statement \/ EndOfList \/ emit_block \/ Clause \/ EndClause \/ EndOfCases
    BY <2>3, StatementStep, BlockStep, ClauseStep, EndSteps
  <2>4. CASE EndBlock \/ EndSwitch \/ EndFor
    BY <2>4, CloseStep, EndForStep DEF EndBlock, EndSwitch
  <2> QED  BY <1>2, <2>1, <2>2, <2>3, <2>4 DEF Next
<1> QED  BY <1>1, <1>2

(* The inductive invariant: every pass goes over all declarations in       *)
(* order and writes what belongs to it once; what the tasks of a body      *)
(* remember of the two tables is still so, and the tables agree.           *)
THEOREM C99Correct == Spec => []C99Inv
<1> QED  BY C99Init, C99Step, PTL DEF Spec

(* In a body no global is used before C knows it, in whatever order the    *)
(* files came to build->work (c99.c:493) and procedures call each other.   *)
THEOREM DeclaredFirst == Spec => []DeclaredBeforeBodies
<1>1. C99Inv => DeclaredBeforeBodies
  BY DEF C99Inv
<1> QED  BY <1>1, C99Correct, PTL

(* sema_lookup says of a name what the scopes of C make of it, but for the *)
(* names of a block or a switch that is closed, and the parameters beyond  *)
(* the capacity of the table (sema.c:226).                                 *)
THEOREM LocalsAsVisible == Spec => []TypesAsVisible
<1>1. C99Inv => TypesAsVisible
  <2> SUFFICES ASSUME C99Inv, stack # << >>, NEW name, name \notin leaked PROVE SameType(name)
    BY DEF TypesAsVisible
  <2>1. Newest(locals, name) = Newest(visible, name)
    BY DEF C99Inv, ScopeInv, Agree
  <2> QED  BY <2>1, Zenon DEF SameType, TypeOfName, Lookup
<1> QED  BY <1>1, C99Correct, PTL

(* No table outgrows its array, the depth is never negative, and when the  *)
(* emitter reports success everything was written, once, in its passes.    *)
THEOREM Emitted == Spec => []EmitterInv
<1>1. C99Inv => TypeOK
  <2> SUFFICES ASSUME C99Inv PROVE TypeOK
    OBVIOUS
  <2>1. pass \in DOMAIN Following \cup {"definitions"}
    BY DEF C99Inv, OrderInv, Before, Following
  <2>2. outcome \in {"emitting", "emitted", "refused", "crashed"} /\ Len(globals) <= CAPACITY
    BY DEF C99Inv, OrderInv, GlobalsInv
  <2> QED  BY <2>1, <2>2, OrderFacts DEF TypeOK
<1>2. C99Inv => WrittenOnce
  <2> SUFFICES ASSUME C99Inv, outcome = "emitted" PROVE WrittenOnce
    BY DEF WrittenOnce
  <2>1. pass = "definitions" /\ todo = << >> /\ stack = << >>
    BY DEF C99Inv, OrderInv
  <2>2. N \in Nat /\ Shown = N
    BY <2>1, CountFacts, EmptyIsSeq DEF C99Inv, Shown
  <2>3. \A what \in DOMAIN PassOf : \A i : Passed(PassOf[what], i) <=> i \in 1 .. N
    BY <2>1, <2>2 DEF Passed, PassOf, Before
  <2>4. \A i \in 1 .. N : Value(i).kind = "TYPE" => IsStruct(Value(i))
    <3>1. "types" = PassOf["type"] /\ "type" \in DOMAIN PassOf
      BY DEF PassOf
    <3> QED  BY <2>3, <3>1 DEF C99Inv, OutInv
  <2>5. \A i \in 1 .. N : Expected(i) = {<<what, i>> : what \in {w \in DOMAIN PassOf : Belongs(w, i)}}
    <3> TAKE i \in 1 .. N
    <3>1. Value(i) = build.declarations[i].value
      BY DEF Value
    <3>2. CASE IsConstant(Value(i))
      <4>1. {w \in DOMAIN PassOf : Belongs(w, i)} = {"constant"}
        BY <3>2 DEF PassOf, Belongs, IsConstant, IsStruct
      <4>2. ~IsStruct(Value(i))
        BY <3>2 DEF IsConstant, IsStruct
      <4>3. Expected(i) = {<<"constant", i>>}
        BY <3>1, <3>2, <4>2 DEF Expected
      <4> QED  BY Zenon, <4>1, <4>3
    <3>3. CASE IsStruct(Value(i))
      <4>1. {w \in DOMAIN PassOf : Belongs(w, i)} = {"type"} /\ ~IsConstant(Value(i))
        BY <3>3 DEF PassOf, Belongs, IsConstant, IsStruct
      <4> QED  BY <3>1, <3>3, <4>1 DEF Expected
    <3>4. CASE ~IsConstant(Value(i)) /\ ~IsStruct(Value(i))
      <4>1. {w \in DOMAIN PassOf : Belongs(w, i)} = {"prototype", "definition"}
        BY <2>4, <3>4 DEF PassOf, Belongs, IsConstant, IsStruct
      <4> QED  BY <3>1, <3>4, <4>1 DEF Expected
    <3> QED  BY Zenon, <3>2, <3>3, <3>4
  <2>6. out \in Seq((DOMAIN PassOf) \X Nat) /\ DOMAIN out = 1 .. Len(out)
    BY DEF C99Inv, OutInv
  <2>7. ToSet(out) = UNION {Expected(i) : i \in 1 .. N}
    <3>1. \A what \in DOMAIN PassOf : \A i \in Nat :
            <<what, i>> \in ToSet(out) <=> i \in 1 .. N /\ Belongs(what, i)
      BY <2>3, <2>6 DEF C99Inv, OutInv, ToSet
    <3>2. \A o \in ToSet(out) : \E what \in DOMAIN PassOf, i \in Nat : o = <<what, i>>
      BY <2>6 DEF ToSet
    <3>3. \A o \in ToSet(out) : \E i \in 1 .. N : o \in Expected(i)
      BY <2>5, <3>1, <3>2
    <3>4. \A i \in 1 .. N : \A o \in Expected(i) : o \in ToSet(out)
      BY <2>2, <2>5, <3>1
    <3> QED  BY <3>3, <3>4
  <2>8. IsInjective(out)
    BY <2>6 DEF IsInjective, C99Inv, OutInv
  <2>9. depth = 0
    <3>1. PICK h : Counts(h, stack, depth)
      BY DEF C99Inv, DepthInv
    <3> QED  BY <2>1, <3>1, CountsNone
  <2> QED  BY <2>7, <2>8, <2>9 DEF WrittenOnce, N
<1>3. C99Inv => EmitterInv
  BY <1>1, <1>2 DEF EmitterInv
<1> QED  BY <1>3, C99Correct, PTL

=============================================================================
