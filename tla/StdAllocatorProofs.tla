------------------------- MODULE StdAllocatorProofs -------------------------
(***************************************************************************)
(* Theorems about StdAllocator, for every set of threads and addresses and *)
(* every capacity.                                                         *)
(***************************************************************************)
EXTENDS StdAllocator, TLAPS, FiniteSetTheorems, WellFoundedInduction

-----------------------------------------------------------------------------
(* Numbers.                                                                *)

(* A set of natural numbers has a least element.                           *)
LEMMA Least ==
  ASSUME NEW T \in SUBSET Nat, T # {}
  PROVE  \E x \in T : \A y \in T : x <= y
<1>1. IsWellFoundedOn(OpToRel(<, Nat), Nat)
  BY NatLessThanWellFounded
<1>2. PICK x \in T : \A y \in T : <<y, x>> \notin OpToRel(<, Nat)
  BY <1>1, WFMin
<1>3. \A y \in T : ~(y < x)
  BY <1>2 DEF OpToRel
<1>4. \A y \in T : y \in Nat /\ x \in Nat
  OBVIOUS
<1>5. \A y \in T : x <= y
  BY <1>3, <1>4
<1> QED  BY <1>5

LEMMA MinFacts ==
  ASSUME NEW T \in SUBSET Nat, T # {}
  PROVE  Min(T) \in T /\ \A y \in T : Min(T) <= y
BY Least DEF Min

(* Quotient and remainder, and that they are the only ones.                *)
LEMMA Division ==
  ASSUME NEW c \in Nat \ {0}, NEW a \in Int
  PROVE  a = c * (a \div c) + (a % c) /\ a \div c \in Int /\ a % c \in 0 .. c - 1
OBVIOUS

LEMMA Remainder ==
  ASSUME NEW c \in Nat \ {0}, NEW q \in Int, NEW r \in 0 .. c - 1
  PROVE  (c * q + r) % c = r
<1> DEFINE a == c * q + r
<1>1. a \in Int
  OBVIOUS
<1>2. a = c * (a \div c) + (a % c) /\ a \div c \in Int /\ a % c \in 0 .. c - 1
  BY <1>1, Division
<1> HIDE DEF a
<1>3. c * (q - a \div c) = (a % c) - r
  BY <1>2 DEF a
<1>4. c * (q - a \div c) < c /\ c * (q - a \div c) > -c
  BY <1>2, <1>3
<1>5. q - a \div c = 0
  BY <1>2, <1>4
<1> QED  BY <1>2, <1>3, <1>5 DEF a

LEMMA Multiple ==
  ASSUME NEW c \in Nat \ {0}, NEW i \in Int
  PROVE  (c * i) % c = 0
<1>1. 0 \in 0 .. c - 1 /\ c * i + 0 = c * i
  OBVIOUS
<1>2. (c * i + 0) % c = 0
  BY ONLY <1>1, Remainder, c \in Nat \ {0}, i \in Int
<1> QED  BY <1>1, <1>2

LEMMA Divides ==
  ASSUME NEW c \in Nat \ {0}, NEW a \in Nat, a % c = 0
  PROVE  \E k \in Nat : a = c * k /\ (a # 0 => k # 0)
<1>1. a = c * (a \div c) /\ a \div c \in Nat
  BY Division
<1> QED  BY <1>1

(* A multiple of the stride that the capacity divides is a multiple of the *)
(* capacity: the stride is odd.                                            *)
LEMMA StrideOrder ==
  ASSUME NEW c, PowerOfTwo(c), NEW n \in 1 .. c - 1
  PROVE  (n * PRIME2) % c # 0
<1>0. c \in Nat \ {0} /\ \A d \in 2 .. c : c % d = 0 => d % 2 = 0
  BY DEF PowerOfTwo
<1> DEFINE Period == {m \in Nat \ {0} : (m * PRIME2) % c = 0}
<1>1. c \in Period
  <2>1. (c * PRIME2) % c = 0
    BY <1>0, Multiple DEF PRIME2
  <2> QED  BY <1>0, <2>1 DEF PRIME2
<1>2. PICK d \in Period : \A m \in Period : d <= m
  <2>1. Period \in SUBSET Nat /\ Period # {}
    BY <1>1
  <2> HIDE DEF Period
  <2> QED  BY <2>1, Least
<1>3. d \in Nat \ {0} /\ (d * PRIME2) % c = 0
  BY <1>2
<1>11. PICK k \in Nat : d * PRIME2 = c * k
  <2>1. PICK product \in Nat : product = d * PRIME2 /\ product % c = 0
    BY <1>3 DEF PRIME2
  <2>2. \E k \in Nat : product = c * k
    BY <1>0, <2>1, Divides
  <2> QED  BY <2>1, <2>2
<1>4. c % d = 0
  <2> DEFINE q == c \div d
             r == c % d
  <2>1. c = d * q + r /\ q \in Int /\ r \in 0 .. d - 1
    BY <1>0, <1>3, Division
  <2> HIDE DEF q, r
  <2>3. r * PRIME2 = c * (PRIME2 - k * q)
    <3>1. r * PRIME2 = c * PRIME2 - (d * PRIME2) * q
      BY <1>0, <1>3, <2>1 DEF PRIME2
    <3>2. (c * k) * q = c * (k * q)
      BY <1>0, <2>1
    <3> QED  BY <1>0, <2>1, <1>11, <3>1, <3>2 DEF PRIME2
  <2>4. (r * PRIME2) % c = 0
    <3>1. PRIME2 - k * q \in Int
      BY <1>0, <2>1 DEF PRIME2
    <3> QED  BY <1>0, <2>3, <3>1, Multiple
  <2>5. r = 0
    <3>1. r # 0 => r \in Period
      BY <2>1, <2>4
    <3> HIDE DEF Period
    <3> QED  BY <1>2, <1>3, <2>1, <3>1
  <2> QED  BY <2>5 DEF r
<1>5. d = c
  <2>1. PICK m \in Nat \ {0} : c = d * m
    BY <1>0, <1>3, <1>4, Divides
  <2>3. PRIME2 = m * k
    <3>1. d * PRIME2 = d * (m * k)
      BY <1>3, <2>1, <1>11
    <3> QED  BY <1>3, <2>1, <1>11, <3>1 DEF PRIME2
  <2>4. m % 2 # 0
    <3>1. SUFFICES ASSUME m % 2 = 0 PROVE FALSE
      OBVIOUS
    <3>2. PICK h \in Int : m = 2 * h
      BY <2>1, <3>1
    <3>3. 5009 = 2 * (h * k)
      BY <1>11, <2>3, <3>2 DEF PRIME2
    <3> QED  BY <1>11, <3>2, <3>3
  <2>5. c % m = 0
    <3>1. (m * d) % m = 0
      BY <1>3, <2>1, Multiple
    <3> QED  BY <1>3, <2>1, <3>1
  <2>6. m \in 1 .. c
    BY <1>3, <2>1
  <2>7. m = 1
    BY <1>0, <2>4, <2>5, <2>6
  <2> QED  BY <1>3, <2>1, <2>7
<1>6. n \notin Period
  BY <1>0, <1>2, <1>5
<1> QED  BY <1>6

(* Probing by the stride comes to every slot.                              *)
LEMMA StrideCovers ==
  ASSUME NEW c, PowerOfTwo(c), NEW h \in Nat, NEW s \in 0 .. c - 1
  PROVE  \E n \in 0 .. c - 1 : (h + n * PRIME2) % c = s
<1> DEFINE S == 0 .. c - 1
           probe == [n \in S |-> (h + n * PRIME2) % c]
<1>0. c \in Nat \ {0}
  BY DEF PowerOfTwo
<1>1. probe \in [S -> S]
  BY <1>0, Division DEF PRIME2
<1>2. ASSUME NEW n \in S, NEW m \in S, n < m, probe[n] = probe[m]
      PROVE  FALSE
  <2>1. m - n \in 1 .. c - 1
    BY <1>0, <1>2
  <2> DEFINE a == h + n * PRIME2
             b == h + m * PRIME2
  <2>2. a \in Int /\ b \in Int /\ a % c = b % c
    BY <1>2 DEF PRIME2
  <2>3. b - a = (m - n) * PRIME2
    BY <1>0 DEF PRIME2
  <2> HIDE DEF a, b
  <2>4. b - a = c * (b \div c - a \div c) /\ b \div c - a \div c \in Int
    <3>1. /\ a = c * (a \div c) + (a % c) /\ a \div c \in Int /\ a % c \in 0 .. c - 1
          /\ b = c * (b \div c) + (b % c) /\ b \div c \in Int
      BY <1>0, <2>2, Division
    <3> QED  BY <1>0, <2>2, <3>1
  <2>5. (b - a) % c = 0
    BY <1>0, <2>4, Multiple
  <2> QED  BY <2>1, <2>3, <2>5, StrideOrder
<1>3. probe \in Injection(S, S)
  <2>1. \A n, m \in S : probe[n] = probe[m] => ~(n < m) /\ ~(m < n)
    BY <1>2
  <2>2. \A n, m \in S : n < m \/ m < n \/ n = m
    BY <1>0
  <2>3. \A n, m \in S : probe[n] = probe[m] => n = m
    BY <2>1, <2>2
  <2> HIDE DEF probe
  <2> QED  BY <1>1, <2>3 DEF Injection, IsInjective
<1>4. probe \in Surjection(S, S)
  <2>1. IsFiniteSet(S)
    BY <1>0, FS_Interval
  <2> HIDE DEF S, probe
  <2> QED  BY <1>3, <2>1, FS_Injection
<1>5. \E n \in S : probe[n] = s
  BY <1>4 DEF Surjection
<1> QED  BY <1>5

-----------------------------------------------------------------------------
(* Tables.                                                                 *)
LEMMA TableFacts ==
  ASSUME NEW c \in Nat
  PROVE  /\ DOMAIN Table(c) = 0 .. c - 1 /\ Capacity(Table(c)) = c /\ IsTable(Table(c))
         /\ \A slot \in 0 .. c - 1 : Table(c)[slot] = NULL
         /\ Blocks(Table(c)) = {} /\ Filled(Table(c)) = {}
<1>1. DOMAIN Table(c) = 0 .. c - 1 /\ \A slot \in 0 .. c - 1 : Table(c)[slot] = NULL
  BY DEF Table
<1>2. Capacity(Table(c)) = c
  BY <1>1, FS_Interval DEF Capacity
<1>3. IsTable(Table(c))
  BY <1>2 DEF IsTable, Table
<1> QED  BY <1>1, <1>2, <1>3 DEF Blocks, Filled

\* A table with at least one slot.
LEMMA DomainFacts ==
  ASSUME NEW table, IsTable(table)
  PROVE  /\ DOMAIN table = 0 .. Capacity(table) - 1 /\ Capacity(table) \in Nat
         /\ IsFiniteSet(DOMAIN table)
         /\ \A slot \in DOMAIN table : table[slot] \in Nat
<1>1. DOMAIN table = 0 .. Capacity(table) - 1 /\ Capacity(table) \in Nat
  BY DEF IsTable
<1>2. IsFiniteSet(0 .. Capacity(table) - 1)
  BY <1>1, FS_Interval
<1>3. \A slot \in 0 .. Capacity(table) - 1 : table[slot] \in Address \cup {NULL, TOMBSTONE}
  BY DEF IsTable
<1>4. Address \cup {NULL, TOMBSTONE} \subseteq Nat
  BY StdAllocatorAssumption DEF NULL, TOMBSTONE
<1> QED  BY <1>1, <1>2, <1>3, <1>4

LEMMA SlotType ==
  ASSUME NEW table, IsTable(table), Capacity(table) # 0, NEW block \in Nat, NEW n \in Nat
  PROVE  Slot(table, block, n) \in DOMAIN table
<1>1. PRIME1 * block + n * PRIME2 \in Int /\ Capacity(table) \in Nat \ {0}
  BY DomainFacts DEF PRIME1, PRIME2
<1> QED  BY <1>1, Division, DomainFacts DEF Slot

(* A search ends at the first slot it looks at that stops it.              *)
LEMMA SearchFacts ==
  ASSUME NEW table, IsTable(table), Capacity(table) # 0, NEW block \in Nat, NEW stops,
         Search(table, block, stops) # -1
  PROVE  \E n \in DOMAIN table :
           /\ Search(table, block, stops) = Slot(table, block, n)
           /\ Slot(table, block, n) \in DOMAIN table
           /\ table[Slot(table, block, n)] \in stops
           /\ \A m \in 0 .. n - 1 : table[Slot(table, block, m)] \notin stops
<1> DEFINE found == {n \in DOMAIN table : table[Slot(table, block, n)] \in stops}
<1>1. found # {} /\ Search(table, block, stops) = Slot(table, block, Min(found))
  BY DEF Search
<1>2. found \in SUBSET Nat /\ \A n \in found : 0 .. n - 1 \subseteq DOMAIN table
  BY DomainFacts
<1>3. Min(found) \in found /\ \A n \in found : Min(found) <= n
  <2> HIDE DEF found
  <2> QED  BY <1>1, <1>2, MinFacts
<1>4. Min(found) \in Nat /\ Min(found) \in DOMAIN table
  BY <1>2, <1>3
<1>5. \A m \in 0 .. Min(found) - 1 : m \notin found /\ m \in DOMAIN table
  <2> HIDE DEF found
  <2> QED  BY <1>2, <1>3, <1>4
<1> HIDE DEF found
<1>6. \A m \in 0 .. Min(found) - 1 : table[Slot(table, block, m)] \notin stops
  BY <1>5 DEF found
<1>7. table[Slot(table, block, Min(found))] \in stops
  BY <1>3 DEF found
<1> QED  BY <1>1, <1>4, <1>6, <1>7, SlotType

(* It ends if one of the slots stops it, because it comes to all of them.  *)
LEMMA SearchEnds ==
  ASSUME NEW table, IsTable(table), PowerOfTwo(Capacity(table)), NEW block \in Nat, NEW stops,
         NEW slot \in DOMAIN table, table[slot] \in stops
  PROVE  Search(table, block, stops) # -1
<1> DEFINE found == {n \in DOMAIN table : table[Slot(table, block, n)] \in stops}
<1>1. PRIME1 * block \in Nat /\ slot \in 0 .. Capacity(table) - 1
  BY DomainFacts DEF PRIME1
<1>2. PICK n \in 0 .. Capacity(table) - 1 : (PRIME1 * block + n * PRIME2) % Capacity(table) = slot
  BY <1>1, StrideCovers
<1>3. n \in found
  BY <1>2, DomainFacts DEF Slot
<1>4. Min(found) \in found
  <2>1. found \in SUBSET Nat
    BY DomainFacts
  <2> HIDE DEF found
  <2> QED  BY <1>3, <2>1, MinFacts
<1>5. Slot(table, block, Min(found)) \in DOMAIN table /\ Search(table, block, stops) = Slot(table, block, Min(found))
  <2>1. Min(found) \in Nat /\ Capacity(table) # 0
    BY <1>1, <1>4, DomainFacts
  <2> HIDE DEF found
  <2> QED  BY <1>3, <2>1, SlotType DEF Search, found
<1> QED  BY <1>5, DomainFacts

Empty == {NULL, TOMBSTONE}
Live(table) == {slot \in DOMAIN table : table[slot] \notin Empty}

(* From the slot a block's search begins at to the slot it is in there is  *)
(* nothing of gap.                                                         *)
Reaches(table, gap) ==
  \A slot \in Live(table) : \E n \in DOMAIN table :
    /\ Slot(table, table[slot], n) = slot
    /\ \A m \in 0 .. n - 1 : table[Slot(table, table[slot], m)] \notin gap

Put(table, slot, item) == [table EXCEPT ![slot] = item]

LEMMA PutFacts ==
  ASSUME NEW table, IsTable(table), NEW slot \in DOMAIN table, NEW item \in Address \cup Empty
  PROVE  /\ DOMAIN Put(table, slot, item) = DOMAIN table
         /\ Capacity(Put(table, slot, item)) = Capacity(table)
         /\ IsTable(Put(table, slot, item))
         /\ Put(table, slot, item)[slot] = item
         /\ \A s \in DOMAIN table \ {slot} : Put(table, slot, item)[s] = table[s]
         /\ \A b, n : Slot(Put(table, slot, item), b, n) = Slot(table, b, n)
<1> DEFINE new == Put(table, slot, item)
<1>1. /\ DOMAIN new = DOMAIN table /\ new[slot] = item
      /\ \A s \in DOMAIN table \ {slot} : new[s] = table[s]
  BY DEF Put
<1>2. Capacity(new) = Capacity(table)
  BY <1>1 DEF Capacity
<1>3. IsTable(new)
  <2>1. new \in [0 .. Capacity(table) - 1 -> Address \cup {NULL, TOMBSTONE}]
    BY DEF Put, IsTable, Empty
  <2> QED  BY <1>2, <2>1 DEF IsTable
<1> QED  BY <1>1, <1>2, <1>3 DEF Slot

LEMMA AddCount ==
  ASSUME NEW S, IsFiniteSet(S), NEW x
  PROVE  /\ Cardinality(S) \in Nat
         /\ \A T \in SUBSET (S \cup {x}) :
              /\ Cardinality(T) \in Nat /\ Cardinality(T) <= Cardinality(S) + 1
              /\ x \in S => Cardinality(T) <= Cardinality(S)
<1>1. IsFiniteSet(S \cup {x}) /\ Cardinality(S) \in Nat
  BY FS_AddElement, FS_CardinalityType
<1>2. Cardinality(S \cup {x}) = IF x \in S THEN Cardinality(S) ELSE Cardinality(S) + 1
  BY FS_AddElement
<1>3. ASSUME NEW T \in SUBSET (S \cup {x})
      PROVE  Cardinality(T) \in Nat /\ Cardinality(T) <= Cardinality(S \cup {x})
  <2>1. IsFiniteSet(T) /\ Cardinality(T) <= Cardinality(S \cup {x})
    BY <1>1, FS_Subset
  <2> QED  BY <2>1, FS_CardinalityType
<1> QED  BY <1>1, <1>2, <1>3

(* The slots in use and those that are not empty, when one is written.     *)
LEMMA PutCounts ==
  ASSUME NEW table, IsTable(table), NEW slot \in DOMAIN table, NEW item \in Address \cup Empty
  PROVE  /\ Cardinality(Filled(table)) \in Nat /\ Cardinality(Live(table)) \in Nat
         /\ Cardinality(Filled(Put(table, slot, item))) \in Nat
         /\ Cardinality(Live(Put(table, slot, item))) \in Nat
         /\ Cardinality(Filled(Put(table, slot, item))) <= Cardinality(Filled(table)) + 1
         /\ Cardinality(Live(Put(table, slot, item))) <= Cardinality(Live(table)) + 1
         /\ slot \in Filled(table) =>
              Cardinality(Filled(Put(table, slot, item))) <= Cardinality(Filled(table))
         /\ slot \in Live(table) /\ item \in Empty =>
              Cardinality(Live(Put(table, slot, item))) = Cardinality(Live(table)) - 1
<1> DEFINE new == Put(table, slot, item)
<1>1. IsFiniteSet(Filled(table)) /\ IsFiniteSet(Live(table))
  <2>1. Filled(table) \in SUBSET DOMAIN table /\ Live(table) \in SUBSET DOMAIN table
    BY DEF Filled, Live
  <2> QED  BY <2>1, DomainFacts, FS_Subset
<1>2. Filled(new) \subseteq Filled(table) \cup {slot} /\ Live(new) \subseteq Live(table) \cup {slot}
  BY PutFacts DEF Filled, Live
<1>3. /\ Cardinality(Filled(table)) \in Nat /\ Cardinality(Filled(new)) \in Nat
      /\ Cardinality(Filled(new)) <= Cardinality(Filled(table)) + 1
      /\ slot \in Filled(table) => Cardinality(Filled(new)) <= Cardinality(Filled(table))
  BY <1>1, <1>2, AddCount
<1>4. /\ Cardinality(Live(table)) \in Nat /\ Cardinality(Live(new)) \in Nat
      /\ Cardinality(Live(new)) <= Cardinality(Live(table)) + 1
  BY <1>1, <1>2, AddCount
<1>5. ASSUME slot \in Live(table), item \in Empty
      PROVE  Cardinality(Live(new)) = Cardinality(Live(table)) - 1
  <2>1. Live(new) = Live(table) \ {slot}
    BY <1>5, PutFacts DEF Live
  <2> QED  BY <1>1, <1>5, <2>1, FS_RemoveElement
<1> QED  BY <1>3, <1>4, <1>5

(* std_allocator_add_unlocked writes over a slot that is not in use, and   *)
(* a search for what it writes comes to that slot.                         *)
LEMMA FreeFacts ==
  ASSUME NEW table, IsTable(table), Capacity(table) # 0, NEW item \in Address \cup Empty,
         Free(table, item) # -1
  PROVE  /\ Free(table, item) \in DOMAIN table
         /\ table[Free(table, item)] \in Empty \cup {item}
         /\ \E n \in DOMAIN table :
              /\ Free(table, item) = Slot(table, item, n)
              /\ \A m \in 0 .. n - 1 : table[Slot(table, item, m)] \notin Empty
<1>1. item \in Nat
  BY StdAllocatorAssumption DEF Empty, NULL, TOMBSTONE
<1>2. PICK n \in DOMAIN table :
        /\ Free(table, item) = Slot(table, item, n)
        /\ Slot(table, item, n) \in DOMAIN table
        /\ table[Slot(table, item, n)] \in {NULL, TOMBSTONE, item}
        /\ \A m \in 0 .. n - 1 : table[Slot(table, item, m)] \notin {NULL, TOMBSTONE, item}
  BY <1>1, SearchFacts DEF Free
<1> QED  BY <1>2 DEF Empty

LEMMA AddReaches ==
  ASSUME NEW table, IsTable(table), Capacity(table) # 0, NEW item \in Address \cup Empty,
         Free(table, item) # -1, table[Free(table, item)] \in Empty,
         NEW gap \in {Empty, {NULL}}, gap = Empty \/ item # NULL,
         Reaches(table, gap)
  PROVE  Reaches(Put(table, Free(table, item), item), gap)
<1> DEFINE slot == Free(table, item)
           new == Put(table, slot, item)
<1>0. slot \in DOMAIN table
  BY FreeFacts
<1>1. /\ DOMAIN new = DOMAIN table /\ new[slot] = item
      /\ \A s \in DOMAIN table \ {slot} : new[s] = table[s]
      /\ \A b, n : Slot(new, b, n) = Slot(table, b, n)
  BY <1>0, PutFacts
<1>2. \A b \in Nat, m \in Nat : Slot(table, b, m) \in DOMAIN table
  BY SlotType
<1>3. Address \cup Empty \subseteq Nat /\ DOMAIN table \subseteq Nat
  BY DomainFacts, StdAllocatorAssumption DEF Empty, NULL, TOMBSTONE
<1> HIDE DEF new
<1> SUFFICES ASSUME NEW s \in Live(new)
             PROVE  \E n \in DOMAIN new :
                      /\ Slot(new, new[s], n) = s
                      /\ \A m \in 0 .. n - 1 : new[Slot(new, new[s], m)] \notin gap
  BY DEF Reaches, new
<1>4. CASE s = slot
  <2>1. PICK n \in DOMAIN table :
          /\ slot = Slot(table, item, n)
          /\ \A m \in 0 .. n - 1 : table[Slot(table, item, m)] \notin Empty
    BY FreeFacts
  <2>2. ASSUME NEW m \in 0 .. n - 1 PROVE new[Slot(table, item, m)] \notin gap
    <3>1. item \in Nat /\ m \in Nat
      BY <1>3
    <3>2. Slot(table, item, m) \in DOMAIN table
      BY <1>2, <3>1
    <3>3. table[Slot(table, item, m)] \notin Empty
      BY <2>1
    <3>4. new[Slot(table, item, m)] = table[Slot(table, item, m)]
      BY <1>1, <3>2, <3>3
    <3> QED  BY <3>3, <3>4 DEF Empty
  <2> QED  BY <1>1, <1>4, <2>1, <2>2
<1>5. CASE s # slot
  <2>1. s \in Live(table) /\ new[s] = table[s]
    BY <1>1, <1>5 DEF Live
  <2>2. PICK n \in DOMAIN table :
          /\ Slot(table, table[s], n) = s
          /\ \A m \in 0 .. n - 1 : table[Slot(table, table[s], m)] \notin gap
    BY <2>1 DEF Reaches
  <2>3. ASSUME NEW m \in 0 .. n - 1 PROVE new[Slot(table, table[s], m)] \notin gap
    <3>1. table[s] \in Nat /\ m \in Nat
      BY <1>3, <2>1, DomainFacts DEF Live
    <3>2. Slot(table, table[s], m) \in DOMAIN table
      BY <1>2, <3>1
    <3>3. CASE Slot(table, table[s], m) = slot
      <4>1. gap # Empty
        BY <2>2, <3>3
      <4> QED  BY <1>1, <3>3, <4>1
    <3> QED  BY <1>1, <2>2, <3>2, <3>3
  <2> QED  BY <1>1, <2>1, <2>2, <2>3
<1> QED  BY <1>4, <1>5

(* A tombstone does not end a search.                                      *)
LEMMA EraseReaches ==
  ASSUME NEW table, IsTable(table), Reaches(table, {NULL}), NEW slot \in DOMAIN table
  PROVE  Reaches(Put(table, slot, TOMBSTONE), {NULL})
<1> DEFINE new == Put(table, slot, TOMBSTONE)
<1>1. /\ DOMAIN new = DOMAIN table /\ new[slot] = TOMBSTONE
      /\ \A s \in DOMAIN table \ {slot} : new[s] = table[s]
      /\ \A b, n : Slot(new, b, n) = Slot(table, b, n)
  BY PutFacts DEF Empty
<1>2. \A s \in Live(new) : s \in Live(table) /\ s # slot
  BY <1>1 DEF Live, Empty
<1>3. \A s \in Live(table), m \in Nat : Slot(table, table[s], m) \in DOMAIN table
  BY SlotType, DomainFacts DEF Live
<1>4. DOMAIN table \subseteq Nat
  BY DomainFacts
<1> HIDE DEF new
<1> SUFFICES ASSUME NEW s \in Live(new)
             PROVE  \E n \in DOMAIN new :
                      /\ Slot(new, new[s], n) = s
                      /\ \A m \in 0 .. n - 1 : new[Slot(new, new[s], m)] \notin {NULL}
  BY DEF Reaches, new
<1>5. s \in Live(table) /\ new[s] = table[s]
  BY <1>1, <1>2 DEF Live
<1>6. PICK n \in DOMAIN table :
        /\ Slot(table, table[s], n) = s
        /\ \A m \in 0 .. n - 1 : table[Slot(table, table[s], m)] # NULL
  BY <1>5 DEF Reaches
<1>7. ASSUME NEW m \in 0 .. n - 1 PROVE new[Slot(table, table[s], m)] # NULL
  <2>1. Slot(table, table[s], m) \in DOMAIN table
    BY <1>3, <1>4, <1>5
  <2> QED  BY <1>1, <1>6, <2>1 DEF NULL, TOMBSTONE
<1> QED  BY <1>1, <1>5, <1>6, <1>7

(* What reaches every block finds it.                                      *)
LEMMA ReachesFinds ==
  ASSUME NEW table, IsTable(table), Reaches(table, {NULL}), NEW slot \in Live(table)
  PROVE  Find(table, table[slot]) # -1 /\ table[Find(table, table[slot])] = table[slot]
<1> DEFINE block == table[slot]
           found == {n \in DOMAIN table : table[Slot(table, block, n)] \in {NULL, block}}
<1>0. block \in Nat /\ block # NULL /\ DOMAIN table \subseteq Nat /\ Capacity(table) # 0
  BY DomainFacts DEF Live, Empty
<1>1. PICK n \in DOMAIN table :
        /\ Slot(table, block, n) = slot
        /\ \A m \in 0 .. n - 1 : table[Slot(table, block, m)] # NULL
  BY DEF Reaches
<1>2. n \in found
  BY <1>1
<1>3. Min(found) \in found /\ Min(found) <= n
  <2>1. found \in SUBSET Nat
    BY <1>0
  <2> HIDE DEF found
  <2> QED  BY <1>2, <2>1, MinFacts
<1>4. Find(table, block) = Slot(table, block, Min(found))
  BY <1>2 DEF Find, Search
<1>5. Min(found) \in Nat
  BY <1>0, <1>3
<1>6. Slot(table, block, Min(found)) \in DOMAIN table
  BY <1>0, <1>5, SlotType
<1>7. table[Slot(table, block, Min(found))] = block
  <2>1. Min(found) \in 0 .. n - 1 \/ Min(found) = n
    BY <1>0, <1>3, <1>5
  <2>2. table[Slot(table, block, Min(found))] \in {NULL, block}
    BY <1>3
  <2> HIDE DEF found
  <2> QED  BY <1>1, <2>1, <2>2
<1> HIDE DEF found
<1> QED  BY <1>4, <1>6, <1>7, DomainFacts

-----------------------------------------------------------------------------
(* The inductive invariant.                                                *)
ShapeInv ==
  /\ IsTable(items) /\ PowerOfTwo(Capacity(items)) /\ IsTable(old)
  /\ size \in Nat /\ deleted \in Nat /\ next \in 0 .. Capacity(old)
  /\ heap \subseteq Address /\ owned \subseteq heap
  /\ op \in [Threads -> [at : Places, block : Address \cup {NULL}]]
  /\ failed \in BOOLEAN /\ ended \in BOOLEAN

(* A thread inside the allocator has a block that is allocated and that    *)
(* nobody else uses.                                                       *)
UserInv ==
  \A t \in Threads :
    /\ op[t].at = "idle" => op[t] = Idle
    /\ op[t].at # "idle" => /\ op[t].block \in heap \ owned
                            /\ \A u \in Threads \ {t} : op[u].block # op[t].block
    /\ ended => op[t] = Idle

(* One thread at most has the mutex; it has counted what it moved.         *)
MutexInv ==
  /\ \A t, u \in Threads : op[t].at = "rehash" /\ op[u].at = "rehash" => t = u
  /\ ~Rehashing => old = Table(0) /\ next = 0
  /\ Rehashing => /\ Capacity(items) = 2 * Capacity(old)
                  /\ size <= next /\ deleted = 0

(* A search finds every block of the table; in a table that is being       *)
(* filled it passes nothing on its way that may be overwritten.            *)
Gap == IF Rehashing THEN Empty ELSE {NULL}
ReachInv == ~ended => Reaches(items, Gap)

(* What is in the table or is still to be moved to it.                     *)
Rest == {slot \in next .. Capacity(old) - 1 : old[slot] \notin Empty}
Stored(block) == \/ \E slot \in Live(items) : items[slot] = block
                 \/ \E slot \in Rest : old[slot] = block

Listed == Removing \cup {"rehash"}
StoredInv ==
  ~ended =>
    /\ \A block \in owned : Stored(block)
    /\ \A t \in Threads : op[t].at \in Listed => Stored(op[t].block)
    /\ ~failed => \A block \in Address : Stored(block) =>
                    block \in owned \/ \E t \in Threads : op[t].at \in Listed /\ op[t].block = block

OnceInv ==
  ~failed =>
    /\ \A r, s \in Live(items) : items[r] = items[s] => r = s
    /\ \A r, s \in Rest : old[r] = old[s] => r = s
    /\ \A r \in Live(items), s \in Rest : items[r] # old[s]

HeapInv ==
  ~failed => \A block \in heap :
               block \in owned \/ \E t \in Threads : op[t].at # "idle" /\ op[t].block = block

LoadInv ==
  ~ended =>
    /\ Cardinality(Filled(items)) <= size + deleted
    /\ Cardinality(Live(items)) <= size
    /\ ~failed => size + deleted < Capacity(items)

StdInv ==
  ShapeInv /\ UserInv /\ MutexInv /\ ReachInv /\ StoredInv /\ OnceInv /\ HeapInv /\ LoadInv

LEMMA StdInvInit == Init => StdInv
<1> SUFFICES ASSUME Init PROVE StdInv
  OBVIOUS
<1>1. DEFAULT_CAPACITY \in Nat \ {0} /\ PowerOfTwo(DEFAULT_CAPACITY)
  BY StdAllocatorAssumption DEF PowerOfTwo
<1>2. /\ items = Table(DEFAULT_CAPACITY) /\ old = Table(0) /\ next = 0 /\ size = 0 /\ deleted = 0
      /\ heap = {} /\ owned = {} /\ op = [t \in Threads |-> Idle] /\ failed = FALSE /\ ended = FALSE
  BY DEF Init
<1>3. /\ IsTable(items) /\ Capacity(items) = DEFAULT_CAPACITY /\ Filled(items) = {} /\ Live(items) = {}
      /\ IsTable(old) /\ Capacity(old) = 0
  BY <1>1, <1>2, TableFacts DEF Live, Empty
<1>4. ~Rehashing /\ Idle.at = "idle" /\ \A t \in Threads : op[t] = Idle
  BY <1>2 DEF Rehashing, Idle
<1>5. ShapeInv
  <2>1. op \in [Threads -> [at : Places, block : Address \cup {NULL}]]
    BY <1>2 DEF Idle, Places
  <2>2. IsTable(items) /\ PowerOfTwo(Capacity(items)) /\ IsTable(old) /\ next \in 0 .. Capacity(old)
    BY <1>1, <1>2, <1>3
  <2>3. failed \in BOOLEAN /\ ended \in BOOLEAN
    BY <1>2
  <2> QED  BY <1>2, <2>1, <2>2, <2>3 DEF ShapeInv
<1>6. UserInv /\ MutexInv
  BY <1>2, <1>4 DEF UserInv, MutexInv
<1>7. ReachInv /\ StoredInv /\ OnceInv /\ HeapInv
  <2>1. Rest = {}
    BY <1>2, <1>3 DEF Rest
  <2>2. \A block : ~Stored(block)
    BY <1>3, <2>1 DEF Stored
  <2>3. ReachInv
    BY <1>3 DEF ReachInv, Reaches
  <2>4. StoredInv
    BY <1>2, <1>4, <2>2 DEF StoredInv, Listed, Removing
  <2>5. OnceInv
    BY <1>3, <2>1 DEF OnceInv
  <2>6. HeapInv
    BY <1>2 DEF HeapInv
  <2> QED  BY <2>3, <2>4, <2>5, <2>6
<1>8. LoadInv
  BY <1>1, <1>2, <1>3, FS_EmptySet DEF LoadInv
<1> QED  BY <1>5, <1>6, <1>7, <1>8 DEF StdInv

(* What the invariant says of the table and of a thread with a block.      *)
LEMMA Basics ==
  ASSUME StdInv
  PROVE  /\ IsTable(items) /\ Capacity(items) \in Nat \ {0}
         /\ DOMAIN items = 0 .. Capacity(items) - 1 /\ Live(items) \subseteq DOMAIN items
         /\ Address \cup Empty \subseteq Nat /\ Address \cap Empty = {}
         /\ Idle.at = "idle" /\ Idle.block = NULL /\ NULL \notin Address
         /\ \A t \in Threads : op[t].at # "idle" => op[t].block \in Address
         /\ \A slot \in Live(items) : items[slot] \in Address
         /\ \A slot \in Rest : old[slot] \in Address
<1>1. IsTable(items) /\ PowerOfTwo(Capacity(items)) /\ IsTable(old) /\ next \in 0 .. Capacity(old)
  BY DEF StdInv, ShapeInv
<1>2. Capacity(items) \in Nat \ {0}
  BY <1>1 DEF PowerOfTwo
<1>3. Address \cup Empty \subseteq Nat /\ Address \cap Empty = {}
  BY StdAllocatorAssumption DEF Empty, NULL, TOMBSTONE
<1>4. \A t \in Threads : op[t].at # "idle" => op[t].block \in Address
  BY DEF StdInv, ShapeInv, UserInv
<1>5. \A slot \in Live(items) : slot \in DOMAIN items /\ items[slot] \in Address
  BY <1>1 DEF IsTable, Live, Empty
<1>6. \A slot \in Rest : old[slot] \in Address
  BY <1>1, DomainFacts DEF IsTable, Rest, Empty
<1>7. Idle.at = "idle" /\ Idle.block = NULL /\ NULL \notin Address
  BY <1>3 DEF Idle, Empty
<1> QED  BY <1>1, <1>2, <1>3, <1>4, <1>5, <1>6, <1>7, DomainFacts

(* A step that leaves the table and the mutex alone keeps what is said of  *)
(* the table.                                                              *)
LEMMA TableStays ==
  ASSUME StdInv, UNCHANGED <<tableVars, ended>>, failed => failed',
         \A t \in Threads : op'[t].at = "rehash" <=> op[t].at = "rehash"
  PROVE  MutexInv' /\ ReachInv' /\ OnceInv' /\ LoadInv'
<1>1. Rehashing' <=> Rehashing
  BY DEF Rehashing
<1>2. Gap' = Gap
  BY <1>1 DEF Gap
<1>3. MutexInv'
  BY <1>1 DEF StdInv, MutexInv, tableVars
<1>4. ReachInv'
  BY <1>2 DEF StdInv, ReachInv, Reaches, Live, Slot, Capacity, tableVars
<1>5. OnceInv' /\ LoadInv'
  BY DEF StdInv, OnceInv, LoadInv, Live, Rest, Filled, Capacity, tableVars
<1> QED  BY <1>3, <1>4, <1>5

LEMMA StoredStays ==
  ASSUME StdInv, UNCHANGED <<tableVars, ended, owned>>, failed => failed',
         \A t \in Threads : /\ op'[t].at \in Listed <=> op[t].at \in Listed
                            /\ op[t].at \in Listed => op'[t].block = op[t].block
  PROVE  StoredInv'
<1>1. \A block : Stored(block)' <=> Stored(block)
  BY DEF Stored, Live, Rest, Capacity, tableVars
<1>2. StoredInv
  BY DEF StdInv
<1> QED  BY <1>1, <1>2 DEF StoredInv

(* A thread that has a block for itself, and the others as they were.      *)
LEMMA UserStep ==
  ASSUME StdInv, NEW t \in Threads, \A u \in Threads \ {t} : op'[u] = op[u],
         op'[t].at # "idle" => /\ op'[t].block \in Address \cap (heap' \ owned')
                               /\ \A u \in Threads \ {t} : op[u].at # "idle" => op[u].block # op'[t].block,
         op'[t].at = "idle" => op'[t] = Idle,
         \A u \in Threads \ {t} : op[u].at # "idle" => op[u].block \in heap' \ owned',
         ~ended, ended' = ended
  PROVE  UserInv'
<1>1. ~ended'
  OBVIOUS
<1>2. \A u \in Threads : op[u].at = "idle" => op[u] = Idle
  BY DEF StdInv, UserInv
<1>3. \A u \in Threads : op'[u].at = "idle" => op'[u] = Idle
  BY <1>2
<1>4. \A u \in Threads : op'[u].at # "idle" => op'[u].block \in Address \cap (heap' \ owned')
  BY Basics
<1>5. ASSUME NEW u \in Threads, NEW v \in Threads \ {u}, op'[u].at # "idle"
      PROVE  op'[v].block # op'[u].block
  <2>1. CASE op'[v].at = "idle"
    BY <1>3, <1>4, <1>5, <2>1, Basics
  <2>2. CASE op'[v].at # "idle" /\ u # t /\ v # t
    BY <1>5, <2>2 DEF StdInv, UserInv
  <2>3. CASE op'[v].at # "idle" /\ (u = t \/ v = t)
    BY <1>5, <2>3
  <2> QED  BY <2>1, <2>2, <2>3
<1> QED  BY <1>1, <1>3, <1>4, <1>5 DEF UserInv

LEMMA MallocStep ==
  ASSUME StdInv, NEW t \in Threads, Malloc(t)
  PROVE  StdInv'
<1>1. PICK block \in Address \ heap : heap' = heap \cup {block} /\ op' = [op EXCEPT ![t] = At("add", block)]
  BY DEF Malloc, Step
<1>2. /\ op[t] = Idle /\ UNCHANGED <<tableVars, owned, failed, ended>> /\ ~ended
  BY DEF Malloc
<1>3. /\ op'[t].at = "add" /\ op'[t].block = block /\ \A u \in Threads \ {t} : op'[u] = op[u]
      /\ op' \in [Threads -> [at : Places, block : Address \cup {NULL}]]
  BY <1>1 DEF StdInv, ShapeInv, At, Places
<1>4. ShapeInv'
  BY <1>1, <1>2, <1>3 DEF StdInv, ShapeInv, tableVars, IsTable, Capacity
<1>5. UserInv'
  <2>1. \A u \in Threads : op[u].at # "idle" => op[u].block \in heap \ owned
    BY DEF StdInv, UserInv
  <2>2. block \notin owned
    BY <1>1 DEF StdInv, ShapeInv
  <2> QED  BY <1>1, <1>2, <1>3, <2>1, <2>2, UserStep
<1>6. MutexInv' /\ ReachInv' /\ OnceInv' /\ LoadInv'
  BY <1>2, <1>3, TableStays DEF Idle
<1>7. StoredInv'
  <2>1. op[t].at \notin Listed /\ op'[t].at \notin Listed
    BY <1>2, <1>3 DEF Listed, Removing, Idle
  <2> QED  BY <1>2, <1>3, <2>1, StoredStays
<1>8. HeapInv'
  BY <1>1, <1>2, <1>3 DEF StdInv, HeapInv, Idle
<1> QED  BY <1>4, <1>5, <1>6, <1>7, <1>8 DEF StdInv

(* The block is given back to the C library.                               *)
LEMMA FreeStep ==
  ASSUME StdInv, NEW t \in Threads, Discard(t) \/ FreeBlock(t)
  PROVE  StdInv'
<1>1. /\ op[t].at \in {"discard", "free"} /\ heap' = heap \ {op[t].block}
      /\ op' = [op EXCEPT ![t] = Idle] /\ UNCHANGED <<tableVars, owned, failed, ended>>
  BY DEF Discard, FreeBlock
<1>2. /\ op'[t] = Idle /\ \A u \in Threads \ {t} : op'[u] = op[u]
      /\ op' \in [Threads -> [at : Places, block : Address \cup {NULL}]]
  BY <1>1 DEF StdInv, ShapeInv, Idle, Places
<1>3. op[t].block \in heap \ owned /\ \A u \in Threads \ {t} : op[u].block # op[t].block
  BY <1>1 DEF StdInv, UserInv
<1>4. ShapeInv'
  BY <1>1, <1>2, <1>3 DEF StdInv, ShapeInv, tableVars, IsTable, Capacity
<1>5. UserInv'
  <2>1. \A u \in Threads : op[u].at # "idle" => op[u].block \in heap \ owned
    BY DEF StdInv, UserInv
  <2>2. ~ended
    BY <1>1 DEF StdInv, UserInv, Idle
  <2> QED  BY <1>1, <1>2, <1>3, <2>1, <2>2, Basics, UserStep
<1>6. MutexInv' /\ ReachInv' /\ OnceInv' /\ LoadInv'
  BY <1>1, <1>2, TableStays DEF Idle
<1>7. StoredInv'
  BY <1>1, <1>2, StoredStays DEF Listed, Removing, Idle
<1>8. HeapInv'
  BY <1>1, <1>2, <1>3 DEF StdInv, HeapInv, Idle
<1> QED  BY <1>4, <1>5, <1>6, <1>7, <1>8 DEF StdInv

(* The program gives up a block, which stays in the table for now.         *)
LEMMA GiveUpStep ==
  ASSUME StdInv, NEW t \in Threads, GiveUp(t)
  PROVE  StdInv'
<1>1. PICK block \in owned, place \in Removing :
        owned' = owned \ {block} /\ op' = [op EXCEPT ![t] = At(place, block)]
  BY DEF GiveUp, Step, Removing
<1>2. op[t] = Idle /\ UNCHANGED <<tableVars, heap, failed, ended>> /\ ~ended
  BY DEF GiveUp
<1>3. /\ op'[t].at = place /\ op'[t].block = block /\ \A u \in Threads \ {t} : op'[u] = op[u]
      /\ op' \in [Threads -> [at : Places, block : Address \cup {NULL}]]
  BY <1>1 DEF StdInv, ShapeInv, At, Places
<1>4. ShapeInv'
  BY <1>1, <1>2, <1>3 DEF StdInv, ShapeInv, tableVars, IsTable, Capacity
<1>5. UserInv'
  <2>1. \A u \in Threads : op[u].at # "idle" => op[u].block \in heap \ owned
    BY DEF StdInv, UserInv
  <2>2. block \in Address /\ block \in heap
    BY <1>1 DEF StdInv, ShapeInv
  <2>3. op'[t].at # "idle"
    BY <1>3 DEF Removing
  <2> QED  BY <1>1, <1>2, <1>3, <2>1, <2>2, <2>3, UserStep
<1>6. MutexInv' /\ ReachInv' /\ OnceInv' /\ LoadInv'
  <2>1. op[t].at # "rehash" /\ op'[t].at # "rehash"
    BY <1>1, <1>2, <1>3 DEF Idle, Removing
  <2> QED  BY <1>2, <1>3, <2>1, TableStays
<1>7. StoredInv'
  <2>1. \A b : Stored(b)' <=> Stored(b)
    BY <1>2 DEF Stored, Live, Rest, Capacity, tableVars
  <2>2. op'[t].at \in Listed /\ op[t].at \notin Listed
    BY <1>1, <1>2, <1>3 DEF Listed, Removing, Idle
  <2>3. StoredInv /\ ended' = ended /\ failed' = failed
    BY <1>2 DEF StdInv
  <2>4. \A u \in Threads : op[u].at \in Listed => op'[u] = op[u]
    BY <1>3, <2>2
  <2> QED  BY <1>1, <1>3, <2>1, <2>2, <2>3, <2>4 DEF StoredInv
<1>8. HeapInv'
  <2>1. op'[t].at # "idle" /\ op[t].at = "idle"
    BY <1>1, <1>2, <1>3 DEF Idle, Removing
  <2> QED  BY <1>1, <1>2, <1>3, <2>1 DEF StdInv, HeapInv
<1> QED  BY <1>4, <1>5, <1>6, <1>7, <1>8 DEF StdInv

LEMMA ReallocStep ==
  ASSUME StdInv, NEW t \in Threads, Realloc(t)
  PROVE  StdInv'
<1>1. op[t].at = "realloc" /\ UNCHANGED <<tableVars, owned, ended>>
  BY DEF Realloc
<1>2. op[t].block \in heap \ owned /\ (\A u \in Threads \ {t} : op[u].block # op[t].block) /\ ~ended
  BY <1>1 DEF StdInv, UserInv, Idle
<1>3. ASSUME NEW block \in Address \ (heap \ {op[t].block}),
             heap' = (heap \ {op[t].block}) \cup {block},
             op' = [op EXCEPT ![t] = At("add", block)], UNCHANGED failed
      PROVE  StdInv'
  <2>1. /\ op'[t].at = "add" /\ op'[t].block = block /\ \A u \in Threads \ {t} : op'[u] = op[u]
        /\ op' \in [Threads -> [at : Places, block : Address \cup {NULL}]]
    BY <1>3 DEF StdInv, ShapeInv, At, Places
  <2>2. ShapeInv'
    BY <1>1, <1>2, <1>3, <2>1 DEF StdInv, ShapeInv, tableVars, IsTable, Capacity
  <2>3. UserInv'
    <3>1. \A u \in Threads \ {t} : op[u].at # "idle" => op[u].block \in heap \ {op[t].block} /\ op[u].block \notin owned
      BY <1>2 DEF StdInv, UserInv
    <3>2. block \notin owned
      BY <1>2, <1>3 DEF StdInv, ShapeInv
    <3> QED  BY <1>1, <1>2, <1>3, <2>1, <3>1, <3>2, UserStep
  <2>4. MutexInv' /\ ReachInv' /\ OnceInv' /\ LoadInv'
    BY <1>1, <1>3, <2>1, TableStays
  <2>5. StoredInv'
    BY <1>1, <1>3, <2>1, StoredStays DEF Listed, Removing
  <2>6. HeapInv'
    BY <1>1, <1>2, <1>3, <2>1 DEF StdInv, HeapInv
  <2> QED  BY <2>2, <2>3, <2>4, <2>5, <2>6 DEF StdInv
<1>4. ASSUME failed' = TRUE, op' = [op EXCEPT ![t] = Idle], UNCHANGED heap
      PROVE  StdInv'
  <2>1. /\ op'[t] = Idle /\ \A u \in Threads \ {t} : op'[u] = op[u]
        /\ op' \in [Threads -> [at : Places, block : Address \cup {NULL}]]
    BY <1>4 DEF StdInv, ShapeInv, Idle, Places
  <2>2. ShapeInv'
    BY <1>1, <1>4, <2>1 DEF StdInv, ShapeInv, tableVars, IsTable, Capacity
  <2>3. UserInv'
    <3>1. \A u \in Threads : op[u].at # "idle" => op[u].block \in heap \ owned
      BY DEF StdInv, UserInv
    <3> QED  BY <1>1, <1>2, <1>4, <2>1, <3>1, Basics, UserStep
  <2>4. MutexInv' /\ ReachInv' /\ OnceInv' /\ LoadInv'
    BY <1>1, <1>4, <2>1, TableStays DEF Idle
  <2>5. StoredInv' /\ HeapInv'
    <3>1. StoredInv'
      BY <1>1, <1>4, <2>1, StoredStays DEF Listed, Removing, Idle
    <3> QED  BY <1>4, <3>1 DEF HeapInv
  <2> QED  BY <2>2, <2>3, <2>4, <2>5 DEF StdInv
<1> QED  BY <1>3, <1>4 DEF Realloc, Step

-----------------------------------------------------------------------------
(* Adding a block.                                                         *)

\* The slots in use when a block is written to one that was not.
LEMMA PutLive ==
  ASSUME NEW table, IsTable(table), NEW slot \in DOMAIN table, table[slot] \in Empty,
         NEW item \in Address
  PROVE  /\ Live(Put(table, slot, item)) = Live(table) \cup {slot} /\ slot \notin Live(table)
         /\ Put(table, slot, item)[slot] = item
         /\ \A s \in Live(table) : Put(table, slot, item)[s] = table[s]
<1>1. item \notin Empty
  BY StdAllocatorAssumption DEF Empty, NULL, TOMBSTONE
<1> QED  BY <1>1, PutFacts DEF Live

\* And when nothing but a tombstone, or NULL, is written to it.
LEMMA PutDead ==
  ASSUME NEW table, IsTable(table), NEW slot \in DOMAIN table, NEW item \in Empty
  PROVE  /\ Live(Put(table, slot, item)) = Live(table) \ {slot}
         /\ \A s \in Live(table) \ {slot} : Put(table, slot, item)[s] = table[s]
BY PutFacts DEF Live

LEMMA Doubled ==
  ASSUME NEW c, PowerOfTwo(c)
  PROVE  PowerOfTwo(2 * c) /\ 2 * c \in Nat
<1>1. c \in Nat \ {0} /\ \A d \in 2 .. c : c % d = 0 => d % 2 = 0
  BY DEF PowerOfTwo
<1>2. ASSUME NEW d \in 2 .. 2 * c, (2 * c) % d = 0, d % 2 # 0
      PROVE  FALSE
  <2>1. d \in Nat \ {0} /\ 2 * c \in Nat \ {0}
    BY <1>1
  <2>2. PICK k \in Nat : 2 * c = d * k /\ k # 0
    BY <1>2, <2>1, Divides
  <2>3. PICK e \in Int : d = 2 * e + 1
    BY <1>2, <2>1
  <2>4. k = 2 * (c - e * k)
    BY <1>1, <2>2, <2>3
  <2>5. c - e * k \in Nat \ {0}
    BY <1>1, <2>2, <2>3, <2>4
  <2>6. PICK j \in Nat \ {0} : k = 2 * j
    BY <2>4, <2>5
  <2>7. c = d * j
    BY <1>1, <2>1, <2>2, <2>6
  <2>8. c % d = 0 /\ d <= c
    BY <2>1, <2>6, <2>7, Multiple
  <2> QED  BY <1>1, <1>2, <2>8
<1> QED  BY <1>1, <1>2 DEF PowerOfTwo

(* What is common to the ways std_allocator_add goes on.                   *)
LEMMA AddFacts ==
  ASSUME StdInv, NEW t \in Threads, op[t].at = "add", ~Rehashing,
         NEW block, block = op[t].block, NEW slot, slot = Free(items, block), slot # -1
  PROVE  /\ block \in Address /\ block \in heap \ owned /\ ~ended
         /\ \A u \in Threads \ {t} : op[u].block # block
         /\ slot \in DOMAIN items /\ items[slot] \in Empty \cup {block}
         /\ Rest = {} /\ old = Table(0) /\ next = 0
         /\ ~failed => ~Stored(block)
<1>1. block \in Address /\ block \in heap \ owned /\ ~ended /\ \A u \in Threads \ {t} : op[u].block # block
  BY Basics DEF StdInv, UserInv, Idle
<1>2. slot \in DOMAIN items /\ items[slot] \in Empty \cup {block}
  BY <1>1, Basics, FreeFacts
<1>3. Rest = {} /\ old = Table(0) /\ next = 0
  <2>1. old = Table(0) /\ next = 0
    BY DEF StdInv, MutexInv
  <2> QED  BY <2>1, TableFacts DEF Rest
<1>4. ~failed => ~Stored(block)
  BY <1>1 DEF StdInv, StoredInv, Listed, Removing
<1> QED  BY <1>1, <1>2, <1>3, <1>4

LEMMA AddTwiceStep ==
  ASSUME StdInv, NEW t \in Threads, Add(t), AddTwice(t, op[t].block)
  PROVE  StdInv'
<1>1. op[t].at = "add" /\ op' = [op EXCEPT ![t] = At("discard", op[t].block)] /\ UNCHANGED <<tableVars, owned, failed, heap, ended>>
  BY DEF Add, AddTwice, Step
<1>2. /\ op'[t].at = "discard" /\ op'[t].block = op[t].block /\ \A u \in Threads \ {t} : op'[u] = op[u]
      /\ op' \in [Threads -> [at : Places, block : Address \cup {NULL}]]
  BY <1>1 DEF StdInv, ShapeInv, At, Places
<1>3. ShapeInv'
  BY <1>1, <1>2 DEF StdInv, ShapeInv, tableVars, IsTable, Capacity
<1>4. UserInv'
  BY <1>1, <1>2, UserStep, Basics DEF StdInv, UserInv, Idle
<1>5. MutexInv' /\ ReachInv' /\ OnceInv' /\ LoadInv'
  BY <1>1, <1>2, TableStays
<1>6. StoredInv'
  BY <1>1, <1>2, StoredStays DEF Listed, Removing
<1>7. HeapInv'
  BY <1>1, <1>2 DEF StdInv, HeapInv
<1> QED  BY <1>3, <1>4, <1>5, <1>6, <1>7 DEF StdInv

LEMMA AddInPlaceStep ==
  ASSUME StdInv, NEW t \in Threads, Add(t), AddInPlace(t, op[t].block)
  PROVE  StdInv'
<1> DEFINE block == op[t].block
           slot == Free(items, block)
<1>1. /\ op[t].at = "add" /\ ~Rehashing /\ slot # -1 /\ items[slot] # block
      /\ Fits(size + 1, deleted, Capacity(items)) /\ size' = size + 1
      /\ owned' = owned \cup {block} /\ op' = [op EXCEPT ![t] = Idle]
      /\ UNCHANGED <<deleted, old, next, failed, heap, ended>>
  BY DEF Add, AddInPlace
<1>2. items' = Put(items, slot, block)
  BY DEF AddInPlace, Put
<1>3. /\ block \in Address /\ block \in heap \ owned /\ ~ended
      /\ \A u \in Threads \ {t} : op[u].block # block
      /\ slot \in DOMAIN items /\ items[slot] \in Empty
      /\ Rest = {} /\ (~failed => ~Stored(block))
  <2> HIDE DEF block, slot
  <2>1. op[t].at = "add" /\ ~Rehashing /\ block = op[t].block /\ slot = Free(items, block) /\ slot # -1
    BY <1>1 DEF block, slot
  <2> QED  BY <1>1, <2>1, AddFacts
<1>4. /\ op'[t] = Idle /\ \A u \in Threads \ {t} : op'[u] = op[u]
      /\ op' \in [Threads -> [at : Places, block : Address \cup {NULL}]]
  BY <1>1 DEF StdInv, ShapeInv, Idle, Places
<1> HIDE DEF block, slot
<1>5. /\ DOMAIN items' = DOMAIN items /\ Capacity(items)' = Capacity(items) /\ IsTable(items)'
  BY <1>2, <1>3, Basics, PutFacts DEF Capacity
<1>6. Live(items') = Live(items) \cup {slot} /\ slot \notin Live(items) /\ items'[slot] = block
      /\ \A s \in Live(items) : items'[s] = items[s]
  BY <1>2, <1>3, Basics, PutLive DEF Live
<1>7. Rest' = {} /\ ~Rehashing'
  <2>1. Rest' = Rest
    BY <1>1 DEF Rest, Capacity
  <2> QED  BY <1>1, <1>3, <1>4, <2>1 DEF Rehashing, Idle
<1>8. \A b : Stored(b)' <=> Stored(b) \/ b = block
  BY <1>3, <1>6, <1>7 DEF Stored
<1>9. ShapeInv'
  BY <1>1, <1>3, <1>4, <1>5 DEF StdInv, ShapeInv, IsTable, Capacity
<1>10. UserInv'
  <2>1. \A u \in Threads \ {t} : op[u].at # "idle" => op[u].block \in heap' \ owned'
    BY <1>1, <1>3 DEF StdInv, UserInv
  <2> QED  BY <1>1, <1>3, <1>4, <2>1, Basics, UserStep
<1>11. MutexInv'
  BY <1>1, <1>7, <1>4 DEF StdInv, MutexInv, Rehashing
<1>12. ReachInv'
  <2>1. Reaches(items, {NULL})
    BY <1>1, <1>3 DEF StdInv, ReachInv, Gap
  <2>2. block \in Address \cup Empty /\ block # NULL
    BY <1>3, Basics
  <2>3. Reaches(Put(items, slot, block), {NULL})
    BY <1>1, <1>3, <2>1, <2>2, Basics, AddReaches DEF slot
  <2> QED  BY <1>2, <1>7, <2>3 DEF ReachInv, Gap
<1>13. StoredInv'
  <2>1. op[t].at \notin Listed /\ op'[t].at \notin Listed
    BY <1>1, <1>4 DEF Listed, Removing, Idle
  <2>2. StoredInv
    BY DEF StdInv
  <2> QED  BY <1>1, <1>3, <1>4, <1>8, <2>1, <2>2 DEF StoredInv
<1>14. OnceInv'
  BY <1>1, <1>3, <1>6, <1>7 DEF StdInv, OnceInv, Stored
<1>15. HeapInv'
  BY <1>1, <1>4 DEF StdInv, HeapInv, Idle, block
<1>16. LoadInv'
  <2>1. /\ Cardinality(Filled(items)) \in Nat /\ Cardinality(Live(items)) \in Nat
        /\ Cardinality(Filled(items')) <= Cardinality(Filled(items)) + 1
        /\ Cardinality(Live(items')) <= Cardinality(Live(items)) + 1
    BY <1>2, <1>3, Basics, PutCounts DEF Empty
  <2>2. Cardinality(Filled(items')) \in Int /\ Cardinality(Live(items')) \in Int
    BY <1>2, <1>3, Basics, PutCounts DEF Empty
  <2>3. Cardinality(Filled(items)) <= size + deleted /\ Cardinality(Live(items)) <= size
    BY <1>3 DEF StdInv, LoadInv
  <2>4. size \in Nat /\ deleted \in Nat /\ Capacity(items) \in Nat
    BY Basics DEF StdInv, ShapeInv
  <2>5. Cardinality(Filled(items')) <= size' + deleted' /\ Cardinality(Live(items')) <= size' /\ size' + deleted' < Capacity(items)'
    BY <1>1, <1>5, <2>1, <2>2, <2>3, <2>4 DEF Fits
  <2> QED  BY <2>5 DEF LoadInv
<1> QED  BY <1>9, <1>10, <1>11, <1>12, <1>13, <1>14, <1>15, <1>16 DEF StdInv

LEMMA AddAndRehashStep ==
  ASSUME StdInv, NEW t \in Threads, Add(t), AddAndRehash(t, op[t].block)
  PROVE  StdInv'
<1> DEFINE block == op[t].block
           slot == Free(items, block)
<1>1. /\ op[t].at = "add" /\ ~Rehashing /\ slot # -1 /\ items[slot] # block
      /\ next' = 0 /\ items' = Table(2 * Capacity(items)) /\ size' = 0 /\ deleted' = 0
      /\ op' = [op EXCEPT ![t] = At("rehash", block)]
      /\ UNCHANGED <<owned, failed, heap, ended>>
  BY DEF Add, AddAndRehash, Step
<1>2. old' = Put(items, slot, block)
  BY DEF AddAndRehash, Put
<1>3. /\ block \in Address /\ block \in heap \ owned /\ ~ended
      /\ \A u \in Threads \ {t} : op[u].block # block
      /\ slot \in DOMAIN items /\ items[slot] \in Empty
      /\ Rest = {} /\ (~failed => ~Stored(block))
  <2> HIDE DEF block, slot
  <2>1. op[t].at = "add" /\ ~Rehashing /\ block = op[t].block /\ slot = Free(items, block) /\ slot # -1
    BY <1>1 DEF block, slot
  <2> QED  BY <1>1, <2>1, AddFacts
<1>4. /\ op'[t].at = "rehash" /\ op'[t].block = block /\ \A u \in Threads \ {t} : op'[u] = op[u]
      /\ op' \in [Threads -> [at : Places, block : Address \cup {NULL}]]
  BY <1>1 DEF StdInv, ShapeInv, At, Places
<1> HIDE DEF block, slot
<1>5. DOMAIN old' = DOMAIN items /\ Capacity(old)' = Capacity(items) /\ IsTable(old)'
  BY <1>2, <1>3, Basics, PutFacts DEF Capacity
<1>6. Live(old') = Live(items) \cup {slot} /\ slot \notin Live(items) /\ old'[slot] = block
      /\ \A s \in Live(items) : old'[s] = items[s]
  BY <1>2, <1>3, Basics, PutLive DEF Live
<1>7. /\ Capacity(items)' = 2 * Capacity(items) /\ PowerOfTwo(Capacity(items)') /\ IsTable(items)'
      /\ Filled(items') = {} /\ Live(items') = {}
  <2>1. PowerOfTwo(2 * Capacity(items)) /\ 2 * Capacity(items) \in Nat
    BY Doubled DEF StdInv, ShapeInv
  <2>2. /\ Capacity(Table(2 * Capacity(items))) = 2 * Capacity(items) /\ IsTable(Table(2 * Capacity(items)))
        /\ Filled(Table(2 * Capacity(items))) = {} /\ Live(Table(2 * Capacity(items))) = {}
    BY <2>1, TableFacts DEF Live, Empty
  <2> QED  BY <1>1, <2>1, <2>2 DEF Capacity, Filled, Live
<1>8. Rest' = Live(old') /\ Rehashing'
  <2>1. DOMAIN old' = 0 .. Capacity(old)' - 1
    BY <1>5, Basics
  <2> QED  BY <1>1, <1>4, <2>1 DEF Rest, Live, Rehashing
<1>9. \A b : Stored(b)' <=> Stored(b) \/ b = block
  BY <1>3, <1>6, <1>7, <1>8 DEF Stored
<1>10. ShapeInv'
  <2>1. next' \in 0 .. Capacity(old)'
    BY <1>1, <1>5, Basics
  <2> QED  BY <1>1, <1>4, <1>5, <1>7, <2>1 DEF StdInv, ShapeInv
<1>11. UserInv'
  <2>1. \A u \in Threads \ {t} : op[u].at # "idle" => op[u].block \in heap' \ owned'
    BY <1>1 DEF StdInv, UserInv
  <2> QED  BY <1>1, <1>3, <1>4, <2>1, UserStep
<1>12. MutexInv'
  <2>1. \A u \in Threads : op'[u].at = "rehash" => u = t
    BY <1>1, <1>4 DEF Rehashing
  <2> QED  BY <1>1, <1>5, <1>7, <1>8, <2>1 DEF MutexInv
<1>13. ReachInv'
  BY <1>7 DEF ReachInv, Reaches
<1>14. StoredInv'
  <2>1. op[t].at \notin Listed /\ op'[t].at \in Listed
    BY <1>1, <1>4 DEF Listed, Removing
  <2>2. StoredInv
    BY DEF StdInv
  <2>3. \A u \in Threads \ {t} : op'[u].at \in Listed => Stored(op[u].block)'
    BY <1>3, <1>4, <1>9, <2>2 DEF StoredInv
  <2>4. Stored(op[t].block)' /\ \A b \in owned' : Stored(b)'
    BY <1>1, <1>3, <1>4, <1>9, <2>2 DEF StoredInv
  <2>5. ASSUME ~failed', NEW b \in Address, Stored(b)'
        PROVE  b \in owned' \/ \E u \in Threads : op'[u].at \in Listed /\ op'[u].block = b
    <3>1. CASE b = block
      BY <1>4, <2>1, <3>1
    <3>2. CASE Stored(b)
      <4>1. b \in owned \/ \E u \in Threads : op[u].at \in Listed /\ op[u].block = b
        BY <1>1, <1>3, <2>2, <2>5, <3>2 DEF StoredInv
      <4> QED  BY <1>1, <1>4, <2>1, <4>1
    <3> QED  BY <1>9, <2>5, <3>1, <3>2
  <2> QED  BY <2>3, <2>4, <2>5 DEF StoredInv
<1>15. OnceInv'
  BY <1>1, <1>3, <1>6, <1>7, <1>8 DEF StdInv, OnceInv, Stored
<1>16. HeapInv'
  BY <1>1, <1>4 DEF StdInv, HeapInv, block
<1>17. LoadInv'
  <2>1. Cardinality(Filled(items')) = 0 /\ Cardinality(Live(items')) = 0
    BY <1>7, FS_EmptySet
  <2>2. 0 < 2 * Capacity(items)
    BY Basics
  <2> QED  BY <1>1, <1>7, <2>1, <2>2 DEF LoadInv
<1> QED  BY <1>10, <1>11, <1>12, <1>13, <1>14, <1>15, <1>16, <1>17 DEF StdInv

LEMMA AddAndFailStep ==
  ASSUME StdInv, NEW t \in Threads, Add(t), AddAndFail(t, op[t].block)
  PROVE  StdInv'
<1> DEFINE block == op[t].block
           slot == Free(items, block)
<1>1. /\ op[t].at = "add" /\ ~Rehashing /\ slot # -1 /\ items[slot] # block
      /\ size' = size + 1 /\ failed' = TRUE
      /\ op' = [op EXCEPT ![t] = At("discard", block)]
      /\ UNCHANGED <<deleted, old, next, owned, heap, ended>>
  BY DEF Add, AddAndFail, Step
<1>2. items' = Put(items, slot, block)
  BY DEF AddAndFail, Put
<1>3. /\ block \in Address /\ block \in heap \ owned /\ ~ended
      /\ \A u \in Threads \ {t} : op[u].block # block
      /\ slot \in DOMAIN items /\ items[slot] \in Empty
      /\ Rest = {} /\ (~failed => ~Stored(block))
  <2> HIDE DEF block, slot
  <2>1. op[t].at = "add" /\ ~Rehashing /\ block = op[t].block /\ slot = Free(items, block) /\ slot # -1
    BY <1>1 DEF block, slot
  <2> QED  BY <1>1, <2>1, AddFacts
<1>4. /\ op'[t].at = "discard" /\ op'[t].block = block /\ \A u \in Threads \ {t} : op'[u] = op[u]
      /\ op' \in [Threads -> [at : Places, block : Address \cup {NULL}]]
  BY <1>1 DEF StdInv, ShapeInv, At, Places
<1> HIDE DEF block, slot
<1>5. DOMAIN items' = DOMAIN items /\ Capacity(items)' = Capacity(items) /\ IsTable(items)'
  BY <1>2, <1>3, Basics, PutFacts DEF Capacity
<1>6. Live(items') = Live(items) \cup {slot} /\ slot \notin Live(items) /\ items'[slot] = block
      /\ \A s \in Live(items) : items'[s] = items[s]
  BY <1>2, <1>3, Basics, PutLive DEF Live
<1>7. Rest' = {} /\ ~Rehashing'
  <2>1. Rest' = Rest
    BY <1>1 DEF Rest, Capacity
  <2> QED  BY <1>1, <1>3, <1>4, <2>1 DEF Rehashing
<1>8. \A b : Stored(b)' <=> Stored(b) \/ b = block
  BY <1>3, <1>6, <1>7 DEF Stored
<1>9. ShapeInv'
  BY <1>1, <1>3, <1>4, <1>5 DEF StdInv, ShapeInv, IsTable, Capacity
<1>10. UserInv'
  <2>1. \A u \in Threads \ {t} : op[u].at # "idle" => op[u].block \in heap' \ owned'
    BY <1>1 DEF StdInv, UserInv
  <2> QED  BY <1>1, <1>3, <1>4, <2>1, UserStep
<1>11. MutexInv'
  BY <1>1, <1>7, <1>4 DEF StdInv, MutexInv, Rehashing
<1>12. ReachInv'
  <2>1. Reaches(items, {NULL})
    BY <1>1, <1>3 DEF StdInv, ReachInv, Gap
  <2>2. block \in Address \cup Empty /\ block # NULL
    BY <1>3, Basics
  <2>3. Reaches(Put(items, slot, block), {NULL})
    BY <1>1, <1>3, <2>1, <2>2, Basics, AddReaches DEF slot
  <2> QED  BY <1>2, <1>7, <2>3 DEF ReachInv, Gap
<1>13. StoredInv'
  <2>1. op'[t].at \notin Listed
    BY <1>4 DEF Listed, Removing
  <2>2. StoredInv
    BY DEF StdInv
  <2> QED  BY <1>1, <1>3, <1>4, <1>8, <2>1, <2>2 DEF StoredInv
<1>14. OnceInv' /\ HeapInv'
  BY <1>1 DEF OnceInv, HeapInv
<1>15. LoadInv'
  <2>1. /\ Cardinality(Filled(items)) \in Nat /\ Cardinality(Live(items)) \in Nat
        /\ Cardinality(Filled(items')) <= Cardinality(Filled(items)) + 1
        /\ Cardinality(Live(items')) <= Cardinality(Live(items)) + 1
    BY <1>2, <1>3, Basics, PutCounts DEF Empty
  <2>2. Cardinality(Filled(items')) \in Int /\ Cardinality(Live(items')) \in Int
    BY <1>2, <1>3, Basics, PutCounts DEF Empty
  <2>3. Cardinality(Filled(items)) <= size + deleted /\ Cardinality(Live(items)) <= size
    BY <1>3 DEF StdInv, LoadInv
  <2>4. size \in Nat /\ deleted \in Nat
    BY DEF StdInv, ShapeInv
  <2>5. Cardinality(Filled(items')) <= size' + deleted' /\ Cardinality(Live(items')) <= size'
    BY <1>1, <2>1, <2>2, <2>3, <2>4
  <2> QED  BY <1>1, <2>5 DEF LoadInv
<1> QED  BY <1>9, <1>10, <1>11, <1>12, <1>13, <1>14, <1>15 DEF StdInv

LEMMA AddStep ==
  ASSUME StdInv, NEW t \in Threads, Add(t)
  PROVE  StdInv'
<1>1. \/ AddTwice(t, op[t].block) \/ AddInPlace(t, op[t].block)
      \/ AddAndRehash(t, op[t].block) \/ AddAndFail(t, op[t].block)
  BY DEF Add
<1> QED  BY <1>1, AddTwiceStep, AddInPlaceStep, AddAndRehashStep, AddAndFailStep

-----------------------------------------------------------------------------
(* Moving the table.                                                       *)
LEMMA RehashSlotStep ==
  ASSUME StdInv, NEW t \in Threads, RehashSlot(t)
  PROVE  StdInv'
<1> DEFINE item == old[next]
           slot == Free(items, item)
           known == items[slot] = item /\ item \notin Empty
<1>1. /\ op[t].at = "rehash" /\ Rehashing /\ next < Capacity(old) /\ slot # -1 /\ next' = next + 1
      /\ UNCHANGED <<deleted, old, heap, owned, op, failed, ended>>
  BY DEF RehashSlot, Rehashing
<1>2. /\ known => UNCHANGED <<items, size>>
      /\ ~known => items' = Put(items, slot, item) /\ size' = size + 1
  BY DEF RehashSlot, Put, Empty
<1>3. next \in DOMAIN old /\ next \in Nat /\ item \in Address \cup Empty
  <2>1. IsTable(old) /\ next \in 0 .. Capacity(old)
    BY DEF StdInv, ShapeInv
  <2>2. next \in DOMAIN old /\ next \in Nat
    BY <1>1, <2>1, DomainFacts
  <2> QED  BY <2>1, <2>2 DEF IsTable, Empty
<1>4. slot \in DOMAIN items /\ items[slot] \in Empty \cup {item}
  BY <1>1, <1>3, Basics, FreeFacts
<1>5. ~known => items[slot] \in Empty
  BY <1>4
<1>6. ~ended /\ Rehashing' /\ Gap = Empty /\ Gap' = Empty
  BY <1>1 DEF StdInv, UserInv, Idle, Rehashing, Gap
<1> HIDE DEF slot, known
<1>7. DOMAIN items' = DOMAIN items /\ Capacity(items)' = Capacity(items) /\ IsTable(items)'
  <2>1. CASE known
    BY <1>2, <2>1, Basics DEF Capacity, IsTable
  <2>2. CASE ~known
    BY <1>2, <1>3, <1>4, <2>2, Basics, PutFacts DEF Capacity
  <2> QED  BY <2>1, <2>2
<1>8. Rest' = Rest \ {next} /\ (next \in Rest <=> item \notin Empty)
  <2>1. Capacity(old)' = Capacity(old) /\ Capacity(old) \in Nat
    BY <1>1, DomainFacts DEF Capacity, StdInv, ShapeInv
  <2> QED  BY <1>1, <1>3, <2>1 DEF Rest
<1>9. /\ known \/ item \in Empty => Live(items') = Live(items) /\ \A s \in Live(items) : items'[s] = items[s]
      /\ ~known /\ item \notin Empty =>
           /\ Live(items') = Live(items) \cup {slot} /\ slot \notin Live(items) /\ items'[slot] = item
           /\ \A s \in Live(items) : items'[s] = items[s]
  <2>1. CASE known
    BY <1>2, <2>1 DEF Live
  <2>2. CASE ~known /\ item \in Empty
    <3>1. Live(items') = Live(items) \ {slot} /\ \A s \in Live(items) \ {slot} : items'[s] = items[s]
      <4>1. items' = Put(items, slot, item) /\ item \in Empty /\ IsTable(items)
        BY <1>2, <2>2, Basics
      <4> HIDE DEF item
      <4> QED  BY <1>4, <4>1, PutDead
    <3>2. slot \notin Live(items)
      BY <1>5, <2>2 DEF Live
    <3> QED  BY <2>2, <3>1, <3>2
  <2>3. CASE ~known /\ item \notin Empty
    BY <1>2, <1>3, <1>4, <1>5, <2>3, Basics, PutLive DEF Live
  <2> QED  BY <2>1, <2>2, <2>3
<1>10. known => slot \in Live(items) /\ items[slot] = item
  BY <1>4 DEF known, Live
<1>11. \A b : Stored(b)' <=> Stored(b)
  <2>1. ASSUME NEW b PROVE Stored(b)' => Stored(b)
    BY <1>1, <1>8, <1>9 DEF Stored
  <2>2. ASSUME NEW b PROVE Stored(b) => Stored(b)'
    BY <1>1, <1>8, <1>9, <1>10 DEF Stored
  <2> QED  BY <2>1, <2>2
<1>12. size' \in Nat /\ size' <= size + 1 /\ size \in Nat /\ deleted \in Nat
  BY <1>2 DEF StdInv, ShapeInv
<1>13. ShapeInv'
  <2>1. next' \in 0 .. Capacity(old)' /\ IsTable(old)'
    BY <1>1, <1>3, DomainFacts DEF Capacity, StdInv, ShapeInv, IsTable
  <2> QED  BY <1>1, <1>7, <1>12, <2>1 DEF StdInv, ShapeInv
<1>14. UserInv'
  BY <1>1 DEF StdInv, UserInv
<1>15. MutexInv'
  BY <1>1, <1>3, <1>6, <1>7, <1>12 DEF StdInv, MutexInv, Capacity
<1>16. ReachInv'
  <2>1. Reaches(items, Empty)
    BY <1>6 DEF StdInv, ReachInv
  <2>2. CASE known
    BY <1>2, <1>6, <2>1, <2>2 DEF ReachInv, Reaches, Live, Slot, Capacity
  <2>3. CASE ~known
    <3>1. Reaches(Put(items, slot, item), Empty)
      BY <1>1, <1>3, <1>5, <2>1, <2>3, Basics, AddReaches DEF slot
    <3> QED  BY <1>2, <1>6, <2>3, <3>1 DEF ReachInv
  <2> QED  BY <2>2, <2>3
<1>17. StoredInv'
  BY <1>1, <1>11 DEF StdInv, StoredInv
<1>18. OnceInv'
  <2> SUFFICES ASSUME ~failed PROVE OnceInv'
    BY <1>1 DEF OnceInv
  <2>1. OnceInv
    BY DEF StdInv
  <2>2. item \notin Empty => \A r \in Live(items) : items[r] # item
    BY <1>8, <2>1 DEF OnceInv
  <2>3. item \notin Empty => \A r \in Rest' : old[r] # item
    BY <1>8, <2>1 DEF OnceInv
  <2>4. ~known
    BY <1>10, <2>2 DEF known
  <2>5. CASE item \in Empty
    BY <1>1, <1>8, <1>9, <2>1, <2>5 DEF OnceInv
  <2>6. CASE item \notin Empty
    BY <1>1, <1>8, <1>9, <2>1, <2>2, <2>3, <2>4, <2>6 DEF OnceInv
  <2> QED  BY <2>5, <2>6
<1>19. HeapInv'
  BY <1>1 DEF StdInv, HeapInv
<1>20. LoadInv'
  <2>1. Cardinality(Filled(items)) <= size + deleted /\ Cardinality(Live(items)) <= size
    BY <1>6 DEF StdInv, LoadInv
  <2>2. CASE known
    <3>1. Filled(items') = Filled(items) /\ Live(items') = Live(items) /\ size' = size
      BY <1>2, <2>2 DEF Filled, Live
    <3> QED  BY <1>1, <1>7, <1>6, <3>1 DEF StdInv, LoadInv
  <2>3. CASE ~known
    <3>1. /\ Cardinality(Filled(items)) \in Nat /\ Cardinality(Live(items)) \in Nat
          /\ Cardinality(Filled(items')) <= Cardinality(Filled(items)) + 1
          /\ Cardinality(Live(items')) <= Cardinality(Live(items)) + 1
      BY <1>2, <1>3, <1>4, <2>3, Basics, PutCounts DEF Empty
    <3>2. Cardinality(Filled(items')) \in Int /\ Cardinality(Live(items')) \in Int
      BY <1>2, <1>3, <1>4, <2>3, Basics, PutCounts, SMTT(30)
    <3>3. size' = size + 1 /\ deleted' = deleted
      BY <1>1, <1>2, <2>3
    <3>4. Cardinality(Filled(items')) <= size' + deleted' /\ Cardinality(Live(items')) <= size'
      BY <1>12, <2>1, <3>1, <3>2, <3>3
    <3>5. size' + deleted' < Capacity(items)'
      <4>1. size <= next /\ deleted = 0 /\ Capacity(items) = 2 * Capacity(old) /\ Capacity(old) \in Nat
        BY <1>1, DomainFacts DEF StdInv, ShapeInv, MutexInv
      <4> QED  BY <1>1, <1>3, <1>7, <1>12, <3>3, <4>1
    <3> QED  BY <3>4, <3>5 DEF LoadInv
  <2> QED  BY <2>2, <2>3
<1> QED  BY <1>13, <1>14, <1>15, <1>16, <1>17, <1>18, <1>19, <1>20 DEF StdInv

LEMMA RehashDoneStep ==
  ASSUME StdInv, NEW t \in Threads, RehashDone(t)
  PROVE  StdInv'
<1>1. /\ op[t].at = "rehash" /\ Rehashing /\ next = Capacity(old)
      /\ old' = Table(0) /\ next' = 0 /\ owned' = owned \cup {op[t].block}
      /\ op' = [op EXCEPT ![t] = Idle] /\ UNCHANGED <<items, size, deleted, heap, failed, ended>>
  BY DEF RehashDone, Rehashing
<1>2. /\ op'[t] = Idle /\ \A u \in Threads \ {t} : op'[u] = op[u]
      /\ op' \in [Threads -> [at : Places, block : Address \cup {NULL}]]
  BY <1>1 DEF StdInv, ShapeInv, Idle, Places
<1>3. op[t].block \in heap \ owned /\ (\A u \in Threads \ {t} : op[u].block # op[t].block) /\ ~ended
  BY <1>1 DEF StdInv, UserInv, Idle
<1>4. ~Rehashing'
  BY <1>1, <1>2 DEF Rehashing, StdInv, MutexInv, Idle
<1>5. IsTable(Table(0)) /\ Capacity(Table(0)) = 0
  BY TableFacts
<1>6. Rest = {} /\ Rest' = {}
  <2>1. Rest = {}
    BY <1>1, DomainFacts DEF Rest, StdInv, ShapeInv
  <2>2. next' .. Capacity(old') - 1 = {}
    BY <1>1, <1>5
  <2> QED  BY <2>1, <2>2 DEF Rest, Capacity
<1>7. \A b : Stored(b)' <=> Stored(b)
  BY <1>1, <1>6 DEF Stored, Live
<1>8. ShapeInv'
  <2>1. IsTable(old)' /\ next' \in 0 .. Capacity(old)'
    BY <1>1, <1>5 DEF IsTable, Capacity
  <2>2. owned' \subseteq heap'
    BY <1>1, <1>3 DEF StdInv, ShapeInv
  <2> QED  BY <1>1, <1>2, <2>1, <2>2 DEF StdInv, ShapeInv, IsTable, Capacity
<1>9. UserInv'
  <2>1. \A u \in Threads \ {t} : op[u].at # "idle" => op[u].block \in heap' \ owned'
    BY <1>1, <1>3 DEF StdInv, UserInv
  <2> QED  BY <1>1, <1>2, <1>3, <2>1, Basics, UserStep
<1>10. MutexInv'
  BY <1>1, <1>4 DEF MutexInv, Rehashing
<1>11. ReachInv'
  <2>1. Reaches(items, Empty)
    BY <1>1, <1>3 DEF StdInv, ReachInv, Gap
  <2>2. Reaches(items, {NULL})
    BY <2>1 DEF Reaches, Empty
  <2> QED  BY <1>1, <1>4, <2>2 DEF ReachInv, Gap, Reaches, Live, Slot, Capacity
<1>12. StoredInv'
  <2>1. op[t].at \in Listed /\ op'[t].at \notin Listed
    BY <1>1, <1>2 DEF Listed, Removing, Idle
  <2>2. StoredInv
    BY DEF StdInv
  <2> QED  BY <1>1, <1>2, <1>3, <1>7, <2>1, <2>2 DEF StoredInv
<1>13. OnceInv'
  BY <1>1, <1>6 DEF StdInv, OnceInv, Live
<1>14. HeapInv'
  BY <1>1, <1>2 DEF StdInv, HeapInv
<1>15. LoadInv'
  BY <1>1 DEF StdInv, LoadInv, Filled, Live, Capacity
<1> QED  BY <1>8, <1>9, <1>10, <1>11, <1>12, <1>13, <1>14, <1>15 DEF StdInv

-----------------------------------------------------------------------------
(* Removing a block, and the end.                                          *)

\* The search of std_allocator_remove stops at the block's slot.
LEMMA RemoveFacts ==
  ASSUME StdInv, NEW block \in Address, ~ended, ~Rehashing, Stored(block)
  PROVE  /\ Find(items, block) # -1 /\ Find(items, block) \in Live(items)
         /\ items[Find(items, block)] = block
<1>1. Rest = {}
  <2>1. old = Table(0) /\ next = 0
    BY DEF StdInv, MutexInv
  <2> QED  BY <2>1, TableFacts DEF Rest
<1>2. PICK slot \in Live(items) : items[slot] = block
  BY <1>1 DEF Stored
<1>3. Find(items, block) # -1 /\ items[Find(items, block)] = block
  BY <1>2, Basics, ReachesFinds DEF StdInv, ReachInv, Gap
<1>4. Find(items, block) \in DOMAIN items
  <2>1. block \in Nat /\ IsTable(items) /\ Capacity(items) # 0
    BY Basics
  <2>2. Search(items, block, {NULL, block}) # -1
    BY <1>3 DEF Find
  <2> QED  BY <2>1, <2>2, SearchFacts DEF Find
<1> QED  BY <1>3, <1>4, Basics DEF Live

LEMMA RemoveBlockStep ==
  ASSUME StdInv, NEW t \in Threads, RemoveBlock(t)
  PROVE  StdInv'
<1>0. PICK block : block = op[t].block
  OBVIOUS
<1> DEFINE slot == Find(items, block)
<1>1. /\ op[t].at \in Removing /\ ~Rehashing
      /\ UNCHANGED <<old, next, heap, owned, failed, ended>>
      /\ op' = [op EXCEPT ![t] = At(IF op[t].at = "remove_free" THEN "free" ELSE "realloc", block)]
  BY <1>0 DEF RemoveBlock, Step, Removing
<1>2. items[slot] = block => items' = Put(items, slot, TOMBSTONE) /\ size' = size - 1 /\ deleted' = deleted + 1
  BY <1>0 DEF RemoveBlock, Erase, Put
<1>3. block \in Address /\ block \in heap \ owned /\ ~ended /\ \A u \in Threads \ {t} : op[u].block # block
  BY <1>0, <1>1, Basics DEF StdInv, UserInv, Idle, Removing
<1>4. /\ op'[t].at \in {"free", "realloc"} /\ op'[t].block = block /\ \A u \in Threads \ {t} : op'[u] = op[u]
      /\ op' \in [Threads -> [at : Places, block : Address \cup {NULL}]]
  <2>1. PICK place \in {"free", "realloc"} : op' = [op EXCEPT ![t] = At(place, block)]
    BY <1>1
  <2> QED  BY <1>3, <2>1 DEF StdInv, ShapeInv, At, Places
<1>5. op[t].at \in Listed /\ op'[t].at \notin Listed
  BY <1>1, <1>4 DEF Listed, Removing
<1> HIDE DEF slot
<1>6. slot \in Live(items) /\ items[slot] = block
  <2>1. Stored(block)
    BY <1>0, <1>3, <1>5 DEF StdInv, StoredInv
  <2> QED  BY <1>1, <1>3, <2>1, RemoveFacts DEF slot
<1>7. slot \in DOMAIN items
  BY <1>6 DEF Live
<1>8. DOMAIN items' = DOMAIN items /\ Capacity(items)' = Capacity(items) /\ IsTable(items)'
  BY <1>2, <1>6, <1>7, Basics, PutFacts DEF Capacity, Empty
<1>9. Live(items') = Live(items) \ {slot} /\ \A s \in Live(items) \ {slot} : items'[s] = items[s]
  BY <1>2, <1>6, <1>7, Basics, PutDead DEF Empty
<1>10. Rest = {} /\ Rest' = {} /\ ~Rehashing'
  <2>1. old = Table(0) /\ next = 0
    BY <1>1 DEF StdInv, MutexInv
  <2>2. Rest = {}
    BY <2>1, TableFacts DEF Rest
  <2> QED  BY <1>1, <1>4, <2>2 DEF Rest, Capacity, Rehashing
<1>11. /\ \A b : Stored(b)' => Stored(b)
       /\ \A b : Stored(b) /\ b # block => Stored(b)'
       /\ ~failed => ~Stored(block)'
  <2>1. \A b : (Stored(b) <=> \E s \in Live(items) : items[s] = b) /\ (Stored(b)' <=> \E s \in Live(items') : items'[s] = b)
    BY <1>10 DEF Stored
  <2>2. ~failed => \A s \in Live(items) \ {slot} : items[s] # block
    BY <1>6 DEF StdInv, OnceInv
  <2> QED  BY <1>6, <1>9, <2>1, <2>2
<1>12. /\ Cardinality(Filled(items')) <= Cardinality(Filled(items)) /\ Cardinality(Filled(items)) \in Nat
       /\ Cardinality(Live(items')) = Cardinality(Live(items)) - 1 /\ Cardinality(Live(items)) \in Nat
       /\ Cardinality(Live(items')) \in Nat /\ Cardinality(Filled(items')) \in Nat
  <2>1. slot \in Filled(items)
    BY <1>6 DEF Filled, Live, Empty
  <2>2. TOMBSTONE \in Empty /\ TOMBSTONE \in Address \cup Empty
    BY DEF Empty
  <2>3. /\ Cardinality(Filled(Put(items, slot, TOMBSTONE))) <= Cardinality(Filled(items))
        /\ Cardinality(Filled(items)) \in Nat /\ Cardinality(Live(items)) \in Nat
        /\ Cardinality(Live(Put(items, slot, TOMBSTONE))) = Cardinality(Live(items)) - 1
    BY <1>6, <1>7, <2>1, <2>2, Basics, PutCounts
  <2>4. /\ Cardinality(Live(Put(items, slot, TOMBSTONE))) \in Nat
        /\ Cardinality(Filled(Put(items, slot, TOMBSTONE))) \in Nat
    BY <1>7, <2>2, Basics, PutFacts, PutCounts
  <2> QED  BY <1>2, <1>6, <2>3, <2>4 DEF Filled, Live
<1>13. /\ Cardinality(Filled(items)) <= size + deleted /\ Cardinality(Live(items)) <= size
       /\ size \in Nat /\ deleted \in Nat /\ size' = size - 1 /\ deleted' = deleted + 1
  BY <1>2, <1>3, <1>6 DEF StdInv, LoadInv, ShapeInv
<1>14. size' \in Nat /\ deleted' \in Nat
  BY <1>12, <1>13
<1>15. ShapeInv'
  BY <1>1, <1>4, <1>8, <1>14 DEF StdInv, ShapeInv, IsTable, Capacity
<1>16. UserInv'
  <2>1. \A u \in Threads : op[u].at # "idle" => op[u].block \in heap' \ owned'
    BY <1>1 DEF StdInv, UserInv
  <2> QED  BY <1>1, <1>3, <1>4, <2>1, UserStep
<1>17. MutexInv'
  BY <1>1, <1>10 DEF StdInv, MutexInv, Rehashing
<1>18. ReachInv'
  <2>1. Reaches(items, {NULL})
    BY <1>1, <1>3 DEF StdInv, ReachInv, Gap
  <2>2. Reaches(Put(items, slot, TOMBSTONE), {NULL})
    BY <1>7, <2>1, Basics, EraseReaches
  <2> QED  BY <1>2, <1>6, <1>10, <2>2 DEF ReachInv, Gap
<1>19. StoredInv'
  <2>1. StoredInv
    BY DEF StdInv
  <2>2. \A b \in owned' : Stored(b)'
    BY <1>1, <1>3, <1>11, <2>1 DEF StoredInv
  <2>3. \A u \in Threads : op'[u].at \in Listed => Stored(op[u].block)'
    BY <1>1, <1>3, <1>4, <1>5, <1>11, <2>1 DEF StoredInv
  <2>4. ASSUME ~failed', NEW b \in Address, Stored(b)'
        PROVE  b \in owned' \/ \E u \in Threads : op'[u].at \in Listed /\ op'[u].block = b
    <3>1. b # block /\ Stored(b) /\ ~failed
      BY <1>1, <1>11, <2>4
    <3>2. b \in owned \/ \E u \in Threads : op[u].at \in Listed /\ op[u].block = b
      BY <1>3, <2>1, <3>1 DEF StoredInv
    <3> QED  BY <1>0, <1>1, <1>4, <3>1, <3>2
  <2> QED  BY <2>2, <2>3, <2>4 DEF StoredInv
<1>20. OnceInv'
  BY <1>1, <1>9, <1>10 DEF StdInv, OnceInv
<1>21. HeapInv'
  <2>1. op[t].at # "idle" /\ op'[t].at # "idle"
    BY <1>1, <1>4 DEF Removing
  <2> QED  BY <1>0, <1>1, <1>4, <2>1 DEF StdInv, HeapInv
<1>22. LoadInv'
  <2>1. Cardinality(Filled(items')) <= size' + deleted' /\ Cardinality(Live(items')) <= size'
    BY <1>12, <1>13
  <2>2. ~failed' => size' + deleted' < Capacity(items)'
    BY <1>1, <1>3, <1>8, <1>13 DEF StdInv, LoadInv
  <2> QED  BY <2>1, <2>2 DEF LoadInv
<1> QED  BY <1>15, <1>16, <1>17, <1>18, <1>19, <1>20, <1>21, <1>22 DEF StdInv

LEMMA FiniStep ==
  ASSUME StdInv, Fini
  PROVE  StdInv'
<1>1. /\ ~ended /\ (\A t \in Threads : op[t] = Idle) /\ heap' = heap \ Blocks(items)
      /\ items' = [slot \in DOMAIN items |-> TOMBSTONE] /\ owned' = {} /\ ended' = TRUE
      /\ UNCHANGED <<size, deleted, old, next, op, failed>>
  BY DEF Fini
<1>2. ~Rehashing /\ ~Rehashing' /\ Idle.at = "idle"
  BY <1>1 DEF Rehashing, Idle
<1>3. /\ DOMAIN items' = DOMAIN items /\ Capacity(items)' = Capacity(items) /\ IsTable(items)' /\ Live(items') = {}
  <2>1. DOMAIN items' = DOMAIN items /\ \A slot \in DOMAIN items : items'[slot] = TOMBSTONE
    BY <1>1
  <2>2. Capacity(items)' = Capacity(items)
    BY <2>1 DEF Capacity
  <2>3. IsTable(items)'
    BY <1>1, <2>1, <2>2, Basics DEF IsTable
  <2> QED  BY <2>1, <2>2, <2>3 DEF Live, Empty
<1>4. Rest' = {}
  <2>1. old = Table(0) /\ next = 0
    BY <1>2 DEF StdInv, MutexInv
  <2>2. Rest = {}
    BY <2>1, TableFacts DEF Rest
  <2> QED  BY <1>1, <2>2 DEF Rest, Capacity
<1>5. ShapeInv'
  BY <1>1, <1>3 DEF StdInv, ShapeInv, IsTable, Capacity
<1>6. UserInv' /\ MutexInv'
  BY <1>1, <1>2 DEF StdInv, UserInv, MutexInv, Rehashing
<1>7. ReachInv' /\ StoredInv' /\ LoadInv'
  BY <1>1 DEF ReachInv, StoredInv, LoadInv
<1>8. OnceInv'
  BY <1>3, <1>4 DEF OnceInv
<1>9. HeapInv'
  <2> SUFFICES ASSUME ~failed PROVE heap \subseteq Blocks(items)
    BY <1>1 DEF HeapInv
  <2>1. heap \subseteq owned /\ heap \subseteq Address
    BY <1>1, <1>2 DEF StdInv, HeapInv, ShapeInv
  <2>2. \A block \in owned : block \in Address /\ Stored(block)
    BY <1>1 DEF StdInv, StoredInv, ShapeInv
  <2>3. \A block \in owned : Find(items, block) \in Live(items) /\ items[Find(items, block)] = block
    BY <1>1, <1>2, <2>2, RemoveFacts
  <2> QED  BY <2>1, <2>3 DEF Blocks, Live, Empty
<1> QED  BY <1>5, <1>6, <1>7, <1>8, <1>9 DEF StdInv

LEMMA StdInvStep == StdInv /\ [Next]_stdVars => StdInv'
<1> SUFFICES ASSUME StdInv, [Next]_stdVars PROVE StdInv'
  OBVIOUS
<1>1. CASE UNCHANGED stdVars
  BY <1>1 DEF StdInv, stdVars, ShapeInv, UserInv, MutexInv, ReachInv, StoredInv, OnceInv, HeapInv, LoadInv,
              IsTable, Capacity, Rehashing, Gap, Reaches, Live, Slot, Stored, Rest, Filled
<1>2. ASSUME NEW t \in Threads,
             \/ Malloc(t) \/ Add(t) \/ RehashSlot(t) \/ RehashDone(t) \/ Discard(t)
             \/ GiveUp(t) \/ RemoveBlock(t) \/ FreeBlock(t) \/ Realloc(t)
      PROVE  StdInv'
  BY <1>2, MallocStep, AddStep, RehashSlotStep, RehashDoneStep, FreeStep, GiveUpStep, RemoveBlockStep, ReallocStep
<1> QED  BY <1>1, <1>2, FiniStep DEF Next

-----------------------------------------------------------------------------
(* The theorems.                                                           *)

(* The invariant holds always, whatever the threads do and whichever calls *)
(* of the library fail.                                                    *)
THEOREM StdCorrect == Spec => []StdInv
<1>1. Init => StdInv
  BY StdInvInit
<1>2. StdInv /\ [Next]_stdVars => StdInv'
  BY StdInvStep
<1> QED  BY <1>1, <1>2, PTL DEF Spec

LEMMA HeldFacts ==
  ASSUME NEW places
  PROVE  \A block : block \in Held(places) <=> \E t \in Threads : op[t].at \in places /\ op[t].block = block
BY DEF Held

(* A block that malloc or realloc returned is used by the program or by    *)
(* one thread inside the allocator, and by no two.                         *)
THEOREM StdOneUser == Spec => []OneUser
<1>1. StdInv => OneUser
  <2> SUFFICES ASSUME StdInv PROVE OneUser
    OBVIOUS
  <2>1. ASSUME NEW block \in Held(Places \ {"idle"})
        PROVE  block \in heap \ owned
    <3>1. PICK t \in Threads : op[t].at \in Places \ {"idle"} /\ op[t].block = block
      BY <2>1, HeldFacts
    <3> QED  BY <3>1 DEF StdInv, UserInv
  <2>2. ASSUME NEW t \in Threads, NEW u \in Threads, t # u, op[t] # Idle
        PROVE  op[t].block # op[u].block
    BY <2>2 DEF StdInv, UserInv
  <2> QED  BY <2>1, <2>2 DEF OneUser
<1> QED  BY <1>1, StdCorrect, PTL

(* While no call of the library failed, the table holds what the program   *)
(* has not freed, each block once: std_allocator_fini frees the rest.      *)
THEOREM StdFiniIsExact == Spec => []FiniIsExact
<1>1. StdInv => FiniIsExact
  <2> SUFFICES ASSUME StdInv, ~failed PROVE FiniIsExact
    BY DEF FiniIsExact
  <2>1. ASSUME ~ended, ~Rehashing
        PROVE  Blocks(items) = owned \cup Held(Removing)
    <3>1. Rest = {}
      <4>1. old = Table(0) /\ next = 0
        BY <2>1 DEF StdInv, MutexInv
      <4> QED  BY <4>1, TableFacts DEF Rest
    <3>2. \A block : block \in Blocks(items) <=> Stored(block)
      BY <3>1 DEF Blocks, Stored, Live, Empty
    <3>3. \A block \in owned : Stored(block)
      BY <2>1 DEF StdInv, StoredInv
    <3>4. \A t \in Threads : op[t].at \in Listed => op[t].at \in Removing
      BY <2>1 DEF Listed, Rehashing
    <3>5. \A block \in Held(Removing) : Stored(block)
      BY <2>1, HeldFacts DEF StdInv, StoredInv, Listed
    <3>6. \A block \in Blocks(items) : block \in Address
      BY <3>1, <3>2, Basics DEF Stored
    <3>7. \A block \in Blocks(items) : block \in owned \cup Held(Removing)
      BY <2>1, <3>2, <3>4, <3>6, HeldFacts DEF StdInv, StoredInv
    <3> QED  BY <3>2, <3>3, <3>5, <3>7
  <2>2. ASSUME NEW r \in DOMAIN items, NEW s \in DOMAIN items, r # s, items[r] = items[s]
        PROVE  items[r] \in {NULL, TOMBSTONE}
    BY <2>2 DEF StdInv, OnceInv, Live, Empty
  <2>3. heap = owned \cup Held(Places \ {"idle"})
    <3>1. \A block \in heap : block \in owned \cup Held(Places \ {"idle"})
      <4>1. \A t \in Threads : op[t].at # "idle" => op[t].at \in Places \ {"idle"}
        BY DEF StdInv, ShapeInv
      <4> QED  BY <4>1, HeldFacts DEF StdInv, HeapInv
    <3>2. Held(Places \ {"idle"}) \subseteq heap
      BY HeldFacts DEF StdInv, UserInv
    <3> QED  BY <3>1, <3>2 DEF StdInv, ShapeInv
  <2> QED  BY <2>1, <2>2, <2>3 DEF FiniIsExact
<1> QED  BY <1>1, StdCorrect, PTL

(* std_allocator_remove finds every block of the program, whether calls of *)
(* the library failed or not.                                              *)
THEOREM StdEveryBlockFound == Spec => []EveryBlockFound
<1>1. StdInv => EveryBlockFound
  <2> SUFFICES ASSUME StdInv, ~ended, ~Rehashing, NEW block \in owned \cup Held(Removing)
               PROVE  Find(items, block) # -1 /\ items[Find(items, block)] = block
    BY DEF EveryBlockFound
  <2>1. block \in Address /\ Stored(block)
    <3>1. CASE block \in owned
      BY <3>1 DEF StdInv, ShapeInv, StoredInv
    <3>2. CASE block \in Held(Removing)
      <4>1. PICK t \in Threads : op[t].at \in Removing /\ op[t].block = block
        BY <3>2, HeldFacts
      <4> QED  BY <4>1, Basics DEF StdInv, StoredInv, Listed, Removing
    <3> QED  BY <3>1, <3>2
  <2> QED  BY <2>1, RemoveFacts
<1> QED  BY <1>1, StdCorrect, PTL

(* The table has its shape and its load, a rehash never needs another one, *)
(* and while no calloc failed every search ends.                           *)
THEOREM StdTable == Spec => []TableInv
<1>1. StdInv => TableInv
  <2> SUFFICES ASSUME StdInv PROVE TableInv
    OBVIOUS
  <2>1. TypeOK
    BY DEF StdInv, ShapeInv, TypeOK
  <2>2. LoadBounded
    BY DEF StdInv, LoadInv, LoadBounded
  <2>3. RehashFits
    <3> SUFFICES ASSUME Rehashing
                 PROVE  /\ size <= next /\ deleted = 0 /\ Capacity(items) = 2 * Capacity(old)
                        /\ next < Capacity(old) => Fits(size + 1, deleted, Capacity(items))
      BY DEF RehashFits
    <3>1. size <= next /\ deleted = 0 /\ Capacity(items) = 2 * Capacity(old)
      BY DEF StdInv, MutexInv
    <3>2. size \in Nat /\ next \in Nat /\ Capacity(old) \in Nat
      BY DomainFacts DEF StdInv, ShapeInv
    <3> QED  BY <3>1, <3>2 DEF Fits
  <2>4. SearchesEnd
    <3> SUFFICES ASSUME ~failed, ~ended, NEW block \in Address \cup {NULL, TOMBSTONE}
                 PROVE  Free(items, block) # -1 /\ Find(items, block) # -1
      BY DEF SearchesEnd
    <3>1. Cardinality(Filled(items)) < Capacity(items)
      <4>1. size \in Nat /\ deleted \in Nat /\ Capacity(items) \in Nat /\ Cardinality(Filled(items)) \in Nat
        <5>1. 0 \in DOMAIN items /\ NULL \in Address \cup Empty
          BY Basics DEF Empty
        <5> QED  BY <5>1, Basics, PutCounts DEF StdInv, ShapeInv
      <4> QED  BY <4>1 DEF StdInv, LoadInv
    <3>2. Filled(items) # DOMAIN items
      BY <3>1, DomainFacts, Basics DEF Capacity
    <3>3. PICK slot \in DOMAIN items : items[slot] = NULL
      BY <3>2 DEF Filled
    <3>4. block \in Nat
      BY Basics DEF Empty
    <3> QED  BY <3>3, <3>4, SearchEnds DEF StdInv, ShapeInv, Free, Find
  <2> QED  BY <2>1, <2>2, <2>3, <2>4 DEF TableInv
<1> QED  BY <1>1, StdCorrect, PTL
=============================================================================
