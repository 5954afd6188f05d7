-------------------------- MODULE DynamicArrayProofs --------------------------
(***************************************************************************)
(* Theorems about DynamicArray and the arena under it, for every number of *)
(* arrays, size of a header, alignment and capacity of a region.           *)
(***************************************************************************)
EXTENDS DynamicArray, TLAPS, SequenceTheorems

-----------------------------------------------------------------------------
(* Numbers.                                                                *)
LEMMA Division ==
  ASSUME NEW c \in Nat \ {0}, NEW a \in Int
  PROVE  a = c * (a \div c) + (a % c) /\ a \div c \in Int /\ a % c \in 0 .. c - 1
OBVIOUS

LEMMA Remainder ==
  ASSUME NEW c \in Nat \ {0}, NEW q \in Int, NEW r \in 0 .. c - 1
  PROVE  (c * q + r) % c = r
<1> DEFINE a == c * q + r
<1>1. a \in Int
  OBVIOUS
<1>2. a = c * (a \div c) + (a % c) /\ a \div c \in Int /\ a % c \in 0 .. c - 1
  BY <1>1, Division
<1> HIDE DEF a
<1>3. c * (q - a \div c) = (a % c) - r
  BY <1>2 DEF a
<1>4. c * (q - a \div c) < c /\ c * (q - a \div c) > -c
  BY <1>2, <1>3
<1>5. q - a \div c = 0
  BY <1>2, <1>4
<1> QED  BY <1>2, <1>3, <1>5 DEF a

LEMMA Multiple ==
  ASSUME NEW c \in Nat \ {0}, NEW i \in Int
  PROVE  (c * i) % c = 0
<1>1. 0 \in 0 .. c - 1 /\ c * i + 0 = c * i
  OBVIOUS
<1>2. (c * i + 0) % c = 0
  BY ONLY <1>1, Remainder, c \in Nat \ {0}, i \in Int
<1> QED  BY <1>1, <1>2

LEMMA SumOfMultiples ==
  ASSUME NEW c \in Nat \ {0}, NEW a \in Nat, NEW b \in Nat, a % c = 0, b % c = 0
  PROVE  (a + b) % c = 0
<1>1. a = c * (a \div c) /\ a \div c \in Int /\ b = c * (b \div c) /\ b \div c \in Int
  BY Division
<1>2. PICK p \in Int, q \in Int : a = c * p /\ b = c * q
  BY <1>1
<1>3. (c * (p + q)) % c = 0
  BY Multiple
<1>4. a + b = c * (p + q)
  BY <1>2
<1> QED  BY <1>3, <1>4

(* The next multiple of the unit.                                          *)
LEMMA RoundUpFacts ==
  ASSUME NEW size \in Nat, NEW unit \in Nat \ {0}
  PROVE  RoundUp(size, unit) \in Nat /\ size <= RoundUp(size, unit) /\ RoundUp(size, unit) % unit = 0
<1> DEFINE a == size + unit - 1
           q == a \div unit
<1>1. a \in Int /\ a = unit * q + (a % unit) /\ q \in Int /\ a % unit \in 0 .. unit - 1
  <2>1. a \in Int
    OBVIOUS
  <2> HIDE DEF a
  <2> QED  BY <2>1, Division
<1>2. RoundUp(size, unit) = unit * q
  BY <1>1 DEF RoundUp
<1> HIDE DEF q
<1>3. size <= unit * q
  BY <1>1
<1>4. (unit * q) % unit = 0
  BY <1>1, Multiple
<1> QED  BY <1>1, <1>2, <1>3, <1>4

-----------------------------------------------------------------------------
(* The arena.                                                              *)
RegionsInv ==
  /\ regions \in Seq([count : Nat, capacity : Nat]) /\ Len(regions) > 0
  /\ RegionsOK

Grows == \A r \in 1 .. Len(regions) : r \in 1 .. Len(regions') /\ regions[r].count <= regions'[r].count

(* A cell that an allocation has returned.                                 *)
Given(cell) == cell \in (1 .. Len(regions)) \X Nat /\ cell[2] < regions[cell[1]].count

IsAddress(address) == address \in (1 .. Len(regions)) \X Nat /\ address[2] % ALIGNMENT = 0

LEMMA RegionsInit == ArenaInit => RegionsInv
<1> SUFFICES ASSUME ArenaInit PROVE RegionsInv
  OBVIOUS
<1>1. regions = <<[count |-> 0, capacity |-> CAPACITY]>> /\ end = 1 /\ CAPACITY \in Nat \ {0} /\ ALIGNMENT \in Nat \ {0}
  BY ArenaAssumption DEF ArenaInit, Region
<1>2. 0 % ALIGNMENT = 0 /\ CAPACITY % CAPACITY = 0
  <2>1. (ALIGNMENT * 0) % ALIGNMENT = 0 /\ (CAPACITY * 1) % CAPACITY = 0
    BY <1>1, Multiple
  <2>2. ALIGNMENT * 0 = 0 /\ CAPACITY * 1 = CAPACITY
    BY <1>1
  <2> QED  BY <2>1, <2>2
<1> QED  BY <1>1, <1>2 DEF RegionsInv, RegionsOK

LEMMA FoundLast ==
  ASSUME RegionsInv, NEW size
  PROVE  Found(size) = Len(regions)
<1>1. end = Len(regions) /\ Len(regions) \in Nat
  BY DEF RegionsInv, RegionsOK
<1>2. \A r : r \in end .. Len(regions) <=> r = Len(regions)
  BY <1>1
<1>3. end .. Len(regions) - 1 = {}
  BY <1>1
<1>4. \E r \in end .. Len(regions) :
        (Fits(r, size) \/ r = Len(regions)) /\ \A q \in end .. r - 1 : ~Fits(q, size)
  BY <1>2, <1>3
<1> QED  BY <1>2, <1>4 DEF Found

(* An allocation keeps the regions in order and gives cells nobody had.    *)
LEMMA AllocateStep ==
  ASSUME RegionsInv, NEW bytes \in Nat, NEW address, Allocate(bytes, address)
  PROVE  /\ RegionsInv' /\ Grows
         /\ address # Null => /\ IsAddress(address)'
                              /\ address[2] + bytes <= regions'[address[1]].count
                              /\ ~Given(address)
<1> DEFINE size == Rounded(bytes)
           last == Len(regions)
<1>1. size \in Nat /\ bytes <= size /\ size % ALIGNMENT = 0 /\ ALIGNMENT \in Nat \ {0} /\ CAPACITY \in Nat \ {0}
  BY ArenaAssumption, RoundUpFacts DEF Rounded
<1>2. /\ last \in Nat \ {0} /\ end = last /\ regions \in Seq([count : Nat, capacity : Nat])
      /\ \A r \in 1 .. last :
           /\ regions[r] \in [count : Nat, capacity : Nat] /\ regions[r].count <= regions[r].capacity
           /\ regions[r].count % ALIGNMENT = 0 /\ regions[r].capacity % CAPACITY = 0
  <2>1. regions \in Seq([count : Nat, capacity : Nat]) /\ last \in Nat \ {0} /\ end = last
    BY DEF RegionsInv, RegionsOK
  <2>2. ASSUME NEW r \in 1 .. last
        PROVE  /\ regions[r] \in [count : Nat, capacity : Nat] /\ regions[r].count <= regions[r].capacity
               /\ regions[r].count % ALIGNMENT = 0 /\ regions[r].capacity % CAPACITY = 0
    <3>1. regions[r] \in [count : Nat, capacity : Nat]
      BY <2>1, ElementOfSeq
    <3> QED  BY <3>1 DEF RegionsInv, RegionsOK
  <2> QED  BY <2>1, <2>2
<1>3. AllocateIn(last, size, address) \/ AllocateNew(last, size, address) \/ AllocateFails(last, size, address)
  BY FoundLast DEF Allocate
<1> HIDE DEF size
<1>4. CASE AllocateIn(last, size, address)
  <2>1. /\ regions[last].count + size <= regions[last].capacity /\ address = <<last, regions[last].count>>
        /\ regions' = [regions EXCEPT ![last].count = @ + size] /\ end' = last
    BY <1>4 DEF AllocateIn, Fits
  <2>2. /\ Len(regions') = last /\ regions' \in Seq([count : Nat, capacity : Nat])
        /\ \A r \in 1 .. last : r # last => regions'[r] = regions[r]
        /\ regions'[last].count = regions[last].count + size /\ regions'[last].capacity = regions[last].capacity
    <3>1. last \in 1 .. last /\ regions[last] \in [count : Nat, capacity : Nat]
      BY <1>2
    <3>2. regions[last].count + size \in Nat /\ regions[last].capacity \in Nat
      BY <1>1, <3>1
    <3>3. PICK r : r = [regions[last] EXCEPT !.count = regions[last].count + size]
      OBVIOUS
    <3>4. r \in [count : Nat, capacity : Nat] /\ regions' = [regions EXCEPT ![last] = r]
      BY <2>1, <3>1, <3>2, <3>3
    <3>5. /\ regions' \in Seq([count : Nat, capacity : Nat]) /\ Len(regions') = last
          /\ \A q \in 1 .. last : regions'[q] = IF q = last THEN r ELSE regions[q]
      BY <1>2, <3>1, <3>4, ExceptSeq
    <3> QED  BY <3>1, <3>3, <3>5
  <2>3. (regions[last].count + size) % ALIGNMENT = 0
    <3>1. last \in 1 .. last /\ regions[last] \in [count : Nat, capacity : Nat] /\ regions[last].count % ALIGNMENT = 0
      BY <1>2
    <3> QED  BY <1>1, <3>1, SumOfMultiples
  <2>4. RegionsInv'
    <3>1. end' = Len(regions') /\ Len(regions') > 0
      BY <1>2, <2>1, <2>2
    <3>2. ASSUME NEW r \in 1 .. Len(regions')
          PROVE  /\ regions'[r].count \in 0 .. regions'[r].capacity
                 /\ regions'[r].count % ALIGNMENT = 0 /\ regions'[r].capacity % CAPACITY = 0
      <4>1. regions[r] \in [count : Nat, capacity : Nat] /\ regions[r].count <= regions[r].capacity
            /\ regions[r].count % ALIGNMENT = 0 /\ regions[r].capacity % CAPACITY = 0
        BY <1>2, <2>2
      <4>2. CASE r = last
        BY <1>1, <2>1, <2>2, <2>3, <4>1, <4>2
      <4>3. CASE r # last
        <5>1. regions[r].count \in 0 .. regions[r].capacity /\ regions'[r] = regions[r]
          BY <2>2, <4>1, <4>3
        <5> QED  BY <4>1, <5>1
      <4> QED  BY <4>2, <4>3
    <3> QED  BY <2>2, <3>1, <3>2 DEF RegionsInv, RegionsOK
  <2>5. Grows
    <3>1. ASSUME NEW r \in 1 .. last
          PROVE  r \in 1 .. Len(regions') /\ regions[r].count <= regions'[r].count
      <4>1. regions[r].count \in Nat /\ r \in 1 .. Len(regions')
        BY <1>2, <2>2
      <4>2. CASE r = last
        BY <1>1, <2>2, <4>1, <4>2
      <4>3. CASE r # last
        BY <2>2, <4>1, <4>3
      <4> QED  BY <4>2, <4>3
    <3> QED  BY <3>1 DEF Grows
  <2>6. IsAddress(address)' /\ address[2] + bytes <= regions'[address[1]].count /\ ~Given(address)
    BY <1>1, <1>2, <2>1, <2>2 DEF IsAddress, Given
  <2> QED  BY <2>4, <2>5, <2>6
<1>5. CASE AllocateNew(last, size, address)
  <2>1. /\ address = <<last + 1, 0>> /\ end' = last + 1
        /\ regions' = Append(regions, [count |-> size, capacity |-> RoundUp(size, CAPACITY)])
    BY <1>5 DEF AllocateNew, Region
  <2>2. RoundUp(size, CAPACITY) \in Nat /\ size <= RoundUp(size, CAPACITY) /\ RoundUp(size, CAPACITY) % CAPACITY = 0
    BY <1>1, RoundUpFacts
  <2>3. /\ Len(regions') = last + 1 /\ regions' \in Seq([count : Nat, capacity : Nat])
        /\ \A r \in 1 .. last : regions'[r] = regions[r]
        /\ regions'[last + 1] = [count |-> size, capacity |-> RoundUp(size, CAPACITY)]
    BY <1>1, <1>2, <2>1, <2>2
  <2>4. RegionsInv'
    <3>1. ASSUME NEW r \in 1 .. Len(regions')
          PROVE  /\ regions'[r].count \in 0 .. regions'[r].capacity
                 /\ regions'[r].count % ALIGNMENT = 0 /\ regions'[r].capacity % CAPACITY = 0
      <4>1. CASE r = last + 1
        BY <1>1, <2>2, <2>3, <4>1
      <4>2. CASE r \in 1 .. last
        <5>1. /\ regions[r] \in [count : Nat, capacity : Nat] /\ regions[r].count <= regions[r].capacity
              /\ regions[r].count % ALIGNMENT = 0 /\ regions[r].capacity % CAPACITY = 0
          BY <1>2, <4>2
        <5>2. regions[r].count \in 0 .. regions[r].capacity /\ regions'[r] = regions[r]
          BY <2>3, <4>2, <5>1
        <5> QED  BY <5>1, <5>2
      <4> QED  BY <1>2, <2>3, <4>1, <4>2
    <3>2. end' = Len(regions') /\ Len(regions') > 0
      BY <1>2, <2>1, <2>3
    <3> QED  BY <2>3, <3>1, <3>2 DEF RegionsInv, RegionsOK
  <2>5. Grows
    <3>1. ASSUME NEW r \in 1 .. last
          PROVE  r \in 1 .. Len(regions') /\ regions[r].count <= regions'[r].count
      <4>1. regions[r].count \in Nat /\ r \in 1 .. Len(regions')
        BY <1>2, <2>3
      <4> QED  BY <2>3, <4>1
    <3> QED  BY <3>1 DEF Grows
  <2>6. IsAddress(address)' /\ address[2] + bytes <= regions'[address[1]].count /\ ~Given(address)
    <3>1. 0 % ALIGNMENT = 0
      BY <1>1, Multiple, ALIGNMENT * 0 = 0
    <3> QED  BY <1>1, <1>2, <2>1, <2>3, <3>1 DEF IsAddress, Given
  <2> QED  BY <2>4, <2>5, <2>6
<1>6. CASE AllocateFails(last, size, address)
  <2>1. address = Null /\ end' = end /\ regions' = regions
    BY <1>2, <1>6 DEF AllocateFails
  <2> QED  BY <1>2, <2>1 DEF RegionsInv, RegionsOK, Grows
<1> QED  BY <1>3, <1>4, <1>5, <1>6

-----------------------------------------------------------------------------
(* The inductive invariant.                                                *)

(* Where the thread of an array is says what it may rely on.               *)
OpInv(a) ==
  /\ op[a].at \in {"idle", "create", "grow", "copy", "add", "thrown", "crashed"}
  /\ op[a].at = "idle" => op[a] = Idle
  /\ op[a].at # "idle" => op[a].n \in 1 .. MaxSize /\ Len(expected[a]) + op[a].n <= MaxSize
  /\ op[a].at \in {"create", "thrown"} => array[a] = MADE
  /\ op[a].at \in {"grow", "copy", "add", "crashed"} => HasBlock(a)
  /\ op[a].at = "copy" => IsAddress(op[a].to)
  /\ op[a].at = "add" => SizeOf(a) + op[a].n <= CapacityOf(a)

(* A block begins with its header, and the header agrees with what the     *)
(* array should hold.                                                      *)
HeldInv(a) ==
  HasBlock(a) =>
    /\ IsAddress(array[a]) /\ array[a] \in DOMAIN memory
    /\ Header(a) \in [capacity : Nat, size : Nat]
    /\ Header(a).size = Len(expected[a]) /\ Header(a).size <= Header(a).capacity
    /\ \A i \in 1 .. Len(expected[a]) :
         Element(a, i - 1) \in DOMAIN memory /\ memory[Element(a, i - 1)] = expected[a][i]

ExpectedInv(a) ==
  /\ expected[a] \in Seq(Arrays \X Nat) /\ Len(expected[a]) <= MaxSize
  /\ ~HasBlock(a) => expected[a] = << >>

(* What an array uses, or is about to, the arena has given it.             *)
SpaceInv(a) == \A cell \in Cells(a) : Given(cell)

ArrayInv(a) == OpInv(a) /\ HeldInv(a) /\ ExpectedInv(a) /\ SpaceInv(a)

Apart == \A a \in Arrays, b \in Arrays : a # b => Cells(a) \cap Cells(b) = {}

DomainInv == DOMAIN array = Arrays /\ DOMAIN op = Arrays /\ DOMAIN expected = Arrays

DynInv == RegionsInv /\ DomainInv /\ Apart /\ \A a \in Arrays : ArrayInv(a)

LEMMA DynInvInit == Init => DynInv
<1> SUFFICES ASSUME Init PROVE DynInv
  OBVIOUS
<1>1. RegionsInv
  BY RegionsInit DEF Init
<1>2. DomainInv /\ \A a \in Arrays : array[a] = MADE /\ op[a] = Idle /\ expected[a] = << >>
  BY DEF Init, DomainInv
<1>3. \A a \in Arrays : ~HasBlock(a) /\ op[a].at = "idle" /\ Cells(a) = {}
  BY <1>2 DEF HasBlock, Idle, Cells, Reserved
<1>4. Apart
  BY <1>3 DEF Apart
<1>5. ASSUME NEW a \in Arrays PROVE ArrayInv(a)
  <2>1. OpInv(a)
    BY <1>2, <1>3 DEF OpInv
  <2>2. ExpectedInv(a)
    <3>1. << >> \in Seq(Arrays \X Nat) /\ Len(<< >>) = 0
      BY EmptySeq
    <3>2. 0 <= MaxSize
      BY DynamicArrayAssumption
    <3> QED  BY <1>2, <3>1, <3>2 DEF ExpectedInv
  <2> QED  BY <1>3, <2>1, <2>2 DEF ArrayInv, HeldInv, SpaceInv
<1> QED  BY <1>1, <1>2, <1>4, <1>5 DEF DynInv

\* The cells of a block are its header and its elements.
LEMMA BlockCells ==
  ASSUME NEW a \in Arrays, HasBlock(a), IsAddress(array[a]), Header(a) \in [capacity : Nat, size : Nat]
  PROVE  /\ array[a] \in Cells(a) /\ CapacityOf(a) = Header(a).capacity /\ SizeOf(a) = Header(a).size
         /\ \A i \in Nat : i < Header(a).capacity => Element(a, i) \in Cells(a)
<1>1. PICK r \in 1 .. Len(regions), o \in Nat : array[a] = <<r, o>>
  BY DEF IsAddress
<1>2. CapacityOf(a) = Header(a).capacity /\ SizeOf(a) = Header(a).size /\ Header(a).capacity \in Nat
  BY DEF HasBlock, CapacityOf, SizeOf
<1>3. HEADER \in Nat \ {0}
  BY DynamicArrayAssumption
<1>4. Block(a) = {<<r, o + n>> : n \in 0 .. HEADER + Header(a).capacity - 1} /\ Block(a) \subseteq Cells(a)
  BY <1>1, <1>2 DEF Block, Cell, Cells
<1>5. <<r, o>> \in Block(a)
  <2>1. 0 \in 0 .. HEADER + Header(a).capacity - 1 /\ o + 0 = o
    BY <1>2, <1>3
  <2> QED  BY <1>4, <2>1
<1>6. ASSUME NEW i \in Nat, i < Header(a).capacity PROVE Element(a, i) \in Block(a)
  <2>1. Element(a, i) = <<r, o + (HEADER + i)>>
    BY <1>1 DEF Element, Cell
  <2>2. HEADER + i \in 0 .. HEADER + Header(a).capacity - 1
    BY <1>2, <1>3, <1>6
  <2> QED  BY <1>4, <2>1, <2>2
<1> QED  BY <1>1, <1>2, <1>4, <1>5, <1>6

-----------------------------------------------------------------------------
(* A step of one array: it writes to cells of its own or to cells nobody   *)
(* had, and the others stay as they were.                                  *)
Kept(cell) == cell \in DOMAIN memory' /\ memory'[cell] = memory[cell]
StepOf(a) ==
  /\ Grows
  /\ DomainInv'
  /\ \A b \in Arrays \ {a} : array'[b] = array[b] /\ op'[b] = op[b] /\ expected'[b] = expected[b]
  /\ \A cell \in DOMAIN memory : cell \in Cells(a) \/ ~Given(cell) \/ Kept(cell)

LEMMA OtherKept ==
  ASSUME DynInv, NEW a \in Arrays, StepOf(a), RegionsInv', NEW b \in Arrays \ {a}
  PROVE  ArrayInv(b)' /\ Cells(b)' = Cells(b)
<1>1. ArrayInv(b) /\ Cells(a) \cap Cells(b) = {}
  BY DEF DynInv, Apart
<1>2. array'[b] = array[b] /\ op'[b] = op[b] /\ expected'[b] = expected[b]
  BY DEF StepOf
<1>3. \A cell \in Cells(b) \cap DOMAIN memory : Kept(cell)
  BY <1>1 DEF StepOf, ArrayInv, SpaceInv
<1>4. HasBlock(b)' <=> HasBlock(b)
  BY <1>2 DEF HasBlock
<1>5. \A address : IsAddress(address) => IsAddress(address)'
  BY DEF IsAddress, StepOf, Grows
<1>6. ASSUME NEW cell, Given(cell) PROVE Given(cell)'
  <2>1. PICK r \in 1 .. Len(regions), o \in Nat : cell = <<r, o>> /\ o < regions[r].count
    BY <1>6 DEF Given
  <2>2. r \in 1 .. Len(regions') /\ regions[r].count <= regions'[r].count
    BY DEF StepOf, Grows
  <2>3. regions[r].count \in Nat /\ regions'[r].count \in Nat
    <3>1. regions[r] \in [count : Nat, capacity : Nat] /\ regions'[r] \in [count : Nat, capacity : Nat]
      BY <2>2, ElementOfSeq DEF DynInv, RegionsInv
    <3> QED  BY <3>1
  <2> QED  BY <2>1, <2>2, <2>3 DEF Given
<1>7. HasBlock(b) => /\ array[b] \in Cells(b) /\ array[b] \in DOMAIN memory /\ IsAddress(array[b])
                     /\ Header(b) \in [capacity : Nat, size : Nat]
                     /\ \A i \in Nat : i < Header(b).capacity => Element(b, i) \in Cells(b)
  BY <1>1, BlockCells DEF ArrayInv, HeldInv
<1>8. HasBlock(b) => Header(b)' = Header(b)
  BY <1>2, <1>3, <1>7 DEF Header, Kept
<1>9. /\ HasBlock(b) => SizeOf(b)' = SizeOf(b) /\ CapacityOf(b)' = CapacityOf(b) /\ Block(b)' = Block(b)
      /\ op[b].at = "copy" => HasBlock(b)
  BY <1>1, <1>2, <1>4, <1>8 DEF SizeOf, CapacityOf, HasBlock, Block, ArrayInv, OpInv
<1>10. Reserved(b)' = Reserved(b)
  BY <1>2, <1>9 DEF Reserved, NewCapacity
<1>11. Cells(b)' = Cells(b)
  BY <1>4, <1>9, <1>10 DEF Cells
<1>12. OpInv(b)'
  BY <1>1, <1>2, <1>4, <1>5, <1>9 DEF ArrayInv, OpInv
<1>13. HeldInv(b)'
  <2> SUFFICES ASSUME HasBlock(b) PROVE HeldInv(b)'
    BY <1>4 DEF HeldInv
  <2>1. IsAddress(array[b])' /\ array'[b] \in DOMAIN memory'
    BY <1>2, <1>3, <1>5, <1>7 DEF Kept
  <2>2. /\ Header(b)' \in [capacity : Nat, size : Nat] /\ Header(b)'.size = Len(expected'[b])
        /\ Header(b)'.size <= Header(b)'.capacity
    BY <1>1, <1>2, <1>8 DEF ArrayInv, HeldInv
  <2>3. ASSUME NEW i \in 1 .. Len(expected[b])
        PROVE  Element(b, i - 1)' \in DOMAIN memory' /\ memory'[Element(b, i - 1)'] = expected'[b][i]
    <3>1. Element(b, i - 1)' = Element(b, i - 1)
      BY <1>2 DEF Element
    <3>2. /\ Header(b) \in [capacity : Nat, size : Nat] /\ Header(b).size = Len(expected[b])
          /\ Header(b).size <= Header(b).capacity
      BY <1>1 DEF ArrayInv, HeldInv
    <3>3. i - 1 \in Nat /\ i - 1 < Header(b).capacity
      BY <3>2
    <3>4. Element(b, i - 1) \in Cells(b) \cap DOMAIN memory /\ memory[Element(b, i - 1)] = expected[b][i]
      BY <1>1, <1>7, <3>3 DEF ArrayInv, HeldInv
    <3> QED  BY <1>2, <1>3, <3>1, <3>4 DEF Kept
  <2> QED  BY <1>2, <2>1, <2>2, <2>3 DEF HeldInv
<1>14. ExpectedInv(b)' /\ SpaceInv(b)'
  BY <1>1, <1>2, <1>4, <1>6, <1>11 DEF ArrayInv, ExpectedInv, SpaceInv
<1> QED  BY <1>11, <1>12, <1>13, <1>14 DEF ArrayInv

(* So it is enough to look at the array whose step it is.                  *)
LEMMA ArrayStep ==
  ASSUME DynInv, NEW a \in Arrays, StepOf(a), RegionsInv', ArrayInv(a)',
         \A cell \in Cells(a)' : cell \in Cells(a) \/ ~Given(cell)
  PROVE  DynInv'
<1>1. \A b \in Arrays \ {a} : ArrayInv(b)' /\ Cells(b)' = Cells(b)
  BY OtherKept
<1>2. \A b \in Arrays : ArrayInv(b)'
  BY <1>1
<1>3. ASSUME NEW b \in Arrays \ {a}, NEW cell \in Cells(a)', cell \in Cells(b)' PROVE FALSE
  BY <1>1, <1>3 DEF DynInv, Apart, ArrayInv, SpaceInv
<1>4. Apart'
  BY <1>1, <1>3 DEF DynInv, Apart
<1>5. DomainInv'
  BY DEF StepOf
<1> QED  BY <1>2, <1>4, <1>5 DEF DynInv

-----------------------------------------------------------------------------
(* The steps.                                                              *)
LEMMA AllocatedCells ==
  ASSUME RegionsInv, NEW bytes \in Nat, NEW address, Allocate(bytes, address), address # Null
  PROVE  /\ IsAddress(address)'
         /\ \A n \in 0 .. bytes - 1 : Given(Cell(address, n))'
         /\ \A n \in Nat : ~Given(Cell(address, n))
<1>1. /\ IsAddress(address)' /\ address[2] + bytes <= regions'[address[1]].count /\ ~Given(address)
      /\ RegionsInv'
  BY AllocateStep
<1>2. PICK r \in 1 .. Len(regions'), o \in Nat : address = <<r, o>>
  BY <1>1 DEF IsAddress
<1>3. regions'[r].count \in Nat
  <2>1. regions'[r] \in [count : Nat, capacity : Nat]
    BY <1>1, ElementOfSeq DEF RegionsInv
  <2> QED  BY <2>1
<1>4. ASSUME NEW n \in 0 .. bytes - 1 PROVE Given(Cell(address, n))'
  BY <1>1, <1>2, <1>3 DEF Given, Cell
<1>5. ASSUME NEW n \in Nat, Given(Cell(address, n)) PROVE FALSE
  <2>1. r \in 1 .. Len(regions) /\ o + n < regions[r].count
    BY <1>2, <1>5 DEF Given, Cell
  <2>2. regions[r].count \in Nat
    <3>1. regions[r] \in [count : Nat, capacity : Nat]
      BY <2>1, ElementOfSeq DEF RegionsInv
    <3> QED  BY <3>1
  <2>3. o < regions[r].count
    BY <2>1, <2>2
  <2> QED  BY <1>1, <1>2, <2>1, <2>3 DEF Given
<1> QED  BY <1>1, <1>4, <1>5

\* A step that leaves the arena alone.
LEMMA ArenaStays ==
  ASSUME DynInv, UNCHANGED arenaVars
  PROVE  RegionsInv' /\ Grows /\ (\A address : IsAddress(address)' <=> IsAddress(address))
         /\ \A cell : Given(cell)' <=> Given(cell)
<1>1. RegionsInv'
  BY DEF DynInv, RegionsInv, RegionsOK, arenaVars
<1>2. ASSUME NEW r \in 1 .. Len(regions) PROVE regions[r].count <= regions[r].count
  <2>1. regions[r].count \in Nat
    <3>1. regions[r] \in [count : Nat, capacity : Nat]
      BY ElementOfSeq DEF DynInv, RegionsInv
    <3> QED  BY <3>1
  <2> QED  BY <2>1
<1> QED  BY <1>1, <1>2 DEF Grows, IsAddress, Given, arenaVars

\* The header of an array that is not freed, if it has one, and its size.
LEMMA SizeFacts ==
  ASSUME DynInv, NEW a \in Arrays, array[a] # FREED
  PROVE  /\ SizeOf(a) = Len(expected[a]) /\ SizeOf(a) \in 0 .. MaxSize /\ CapacityOf(a) \in Nat
         /\ expected[a] \in Seq(Arrays \X Nat)
         /\ SizeOf(a) <= CapacityOf(a)
<1>1. ArrayInv(a)
  BY DEF DynInv
<1>2. expected[a] \in Seq(Arrays \X Nat) /\ Len(expected[a]) <= MaxSize /\ Len(expected[a]) \in Nat
  BY <1>1, LenProperties DEF ArrayInv, ExpectedInv
<1>3. CASE array[a] = MADE
  <2>1. expected[a] = << >> /\ Len(expected[a]) = 0
    BY <1>1, <1>3, EmptySeq DEF ArrayInv, ExpectedInv, HasBlock
  <2> QED  BY <1>2, <1>3, <2>1 DEF SizeOf, CapacityOf
<1>4. CASE array[a] # MADE
  BY <1>1, <1>2, <1>4 DEF ArrayInv, HeldInv, HasBlock, SizeOf, CapacityOf
<1> QED  BY <1>3, <1>4

LEMMA BeginStep ==
  ASSUME DynInv, NEW a \in Arrays, Begin(a)
  PROVE  DynInv'
<1>1. /\ op[a] = Idle /\ op[a].at = "idle" /\ array[a] # FREED
      /\ UNCHANGED <<regions, end, memory, array, expected>>
  BY DEF Begin, Idle
<1>2. PICK n \in 1 .. MaxSize - SizeOf(a), place \in {"add", "create", "grow"} :
        /\ op' = [op EXCEPT ![a] = [at |-> place, n |-> n]]
        /\ place = "add" => HasRoom(a, n)
        /\ place = "create" => array[a] = MADE
        /\ place = "grow" => array[a] # MADE
  BY DEF Begin, At, HasRoom
<1>3. RegionsInv' /\ Grows /\ (\A address : IsAddress(address)' <=> IsAddress(address))
      /\ \A cell : Given(cell)' <=> Given(cell)
  BY <1>1, ArenaStays DEF arenaVars
<1>4. DomainInv /\ ArrayInv(a)
  BY DEF DynInv
<1>5. op'[a] = [at |-> place, n |-> n] /\ \A b \in Arrays \ {a} : op'[b] = op[b]
  BY <1>2, <1>4 DEF DomainInv
<1>6. StepOf(a)
  BY <1>1, <1>2, <1>3, <1>4, <1>5 DEF StepOf, DomainInv, Kept
<1>7. Cells(a)' = Cells(a)
  BY <1>1, <1>5 DEF Cells, Reserved, HasBlock, Block, CapacityOf, Header
<1>8. OpInv(a)'
  <2>1. n \in 1 .. MaxSize /\ Len(expected[a]) + n <= MaxSize
    BY <1>1, SizeFacts, DynamicArrayAssumption
  <2>2. place = "add" => array[a] # MADE /\ SizeOf(a) + n <= CapacityOf(a)
    BY <1>1, <1>2, SizeFacts DEF HasRoom
  <2>3. SizeOf(a)' = SizeOf(a) /\ CapacityOf(a)' = CapacityOf(a)
    BY <1>1 DEF SizeOf, CapacityOf, Header
  <2> QED  BY <1>1, <1>2, <1>5, <2>1, <2>2, <2>3 DEF OpInv, HasBlock
<1>9. HeldInv(a)' /\ ExpectedInv(a)'
  BY <1>1, <1>3, <1>4 DEF ArrayInv, HeldInv, ExpectedInv, HasBlock, Header, Element
<1>10. SpaceInv(a)'
  BY <1>3, <1>4, <1>7 DEF ArrayInv, SpaceInv
<1> QED  BY <1>3, <1>6, <1>7, <1>8, <1>9, <1>10, ArrayStep DEF ArrayInv

LEMMA OverFacts ==
  ASSUME NEW writes, NEW cells, NEW new, new = Over(writes, cells)
  PROVE  /\ \A cell : cell \in DOMAIN new <=> cell \in DOMAIN writes \/ cell \in DOMAIN cells
         /\ \A cell \in DOMAIN writes : new[cell] = writes[cell]
         /\ \A cell \in DOMAIN cells : cell \notin DOMAIN writes => new[cell] = cells[cell]
BY DEF Over

LEMMA HeaderFacts ==
  ASSUME NEW address, NEW header, NEW cells, NEW new, new = Over(HeaderAt(address, header), cells)
  PROVE  /\ \A cell : cell \in DOMAIN new <=> cell = address \/ cell \in DOMAIN cells
         /\ new[address] = header
         /\ \A cell \in DOMAIN cells : cell # address => new[cell] = cells[cell]
<1>1. PICK writes : writes = HeaderAt(address, header)
  OBVIOUS
<1>2. DOMAIN writes = {address} /\ writes[address] = header
  BY <1>1 DEF HeaderAt
<1>3. new = Over(writes, cells)
  BY <1>1
<1> QED  BY <1>2, <1>3, OverFacts

LEMMA CreateStep ==
  ASSUME DynInv, NEW a \in Arrays, Create(a)
  PROVE  DynInv'
<1>1. op[a].at = "create" /\ expected' = expected
  BY DEF Create
<1>2. PICK address \in Fronts :
        /\ Allocate(HEADER, address)
        /\ IF address = Null
           THEN At(a, "thrown", op[a].n) /\ UNCHANGED <<memory, array>>
           ELSE /\ memory' = Over(HeaderAt(address, [capacity |-> 0, size |-> 0]), memory)
                /\ array' = [array EXCEPT ![a] = address]
                /\ At(a, "grow", op[a].n)
  BY DEF Create
<1>3. DomainInv /\ ArrayInv(a) /\ RegionsInv
  BY DEF DynInv
<1>4. RegionsInv' /\ Grows
  BY <1>2, <1>3, AllocateStep, DynamicArrayAssumption
<1>5. array[a] = MADE /\ ~HasBlock(a) /\ expected[a] = << >> /\ Cells(a) = {} /\ expected[a] \in Seq(Arrays \X Nat)
      /\ op[a].n \in 1 .. MaxSize /\ Len(expected[a]) + op[a].n <= MaxSize /\ Len(expected[a]) = 0
  BY <1>1, <1>3, EmptySeq DEF ArrayInv, OpInv, ExpectedInv, HasBlock, Cells, Reserved
<1>6. CASE address = Null
  <2>1. /\ op' = [op EXCEPT ![a] = [at |-> "thrown", n |-> op[a].n]] /\ UNCHANGED <<memory, array>>
    BY <1>2, <1>6 DEF At
  <2>2. op'[a] = [at |-> "thrown", n |-> op[a].n] /\ \A b \in Arrays \ {a} : op'[b] = op[b]
    BY <1>3, <2>1 DEF DomainInv
  <2>3. StepOf(a)
    BY <1>1, <1>3, <1>4, <2>1, <2>2 DEF StepOf, DomainInv, Kept
  <2>4. Cells(a)' = {} /\ ~HasBlock(a)'
    BY <1>5, <2>1, <2>2 DEF Cells, Reserved, HasBlock
  <2>5. OpInv(a)'
    BY <1>1, <1>5, <2>1, <2>2 DEF OpInv
  <2>6. HeldInv(a)' /\ ExpectedInv(a)' /\ SpaceInv(a)'
    BY <1>1, <1>3, <1>5, <2>4 DEF HeldInv, ExpectedInv, SpaceInv, ArrayInv
  <2> QED  BY <1>4, <2>3, <2>4, <2>5, <2>6, ArrayStep DEF ArrayInv
<1>7. CASE address # Null
  <2>1. /\ memory' = Over(HeaderAt(address, [capacity |-> 0, size |-> 0]), memory)
        /\ array' = [array EXCEPT ![a] = address]
        /\ op' = [op EXCEPT ![a] = [at |-> "grow", n |-> op[a].n]]
    BY <1>2, <1>7 DEF At
  <2>2. /\ op'[a] = [at |-> "grow", n |-> op[a].n] /\ array'[a] = address
        /\ \A b \in Arrays \ {a} : op'[b] = op[b] /\ array'[b] = array[b]
    BY <1>3, <2>1 DEF DomainInv
  <2>3. HEADER \in Nat \ {0}
    BY DynamicArrayAssumption
  <2>4. /\ IsAddress(address)' /\ (\A n \in 0 .. HEADER - 1 : Given(Cell(address, n))')
        /\ \A n \in Nat : ~Given(Cell(address, n))
    BY <1>2, <1>3, <1>7, <2>3, AllocatedCells
  <2>5. address = Cell(address, 0) /\ HasBlock(a)'
    <3>1. PICK r \in Nat, o \in Nat : address = <<r, o>>
      BY <2>4 DEF IsAddress
    <3> QED  BY <2>2, <3>1 DEF Cell, HasBlock, MADE, FREED
  <2>6. /\ memory'[address] = [capacity |-> 0, size |-> 0] /\ address \in DOMAIN memory'
        /\ \A cell \in DOMAIN memory : cell # address => Kept(cell)
    <3>1. PICK header : header = [capacity |-> 0, size |-> 0]
      OBVIOUS
    <3>2. /\ address \in DOMAIN memory' /\ memory'[address] = header
          /\ DOMAIN memory \subseteq DOMAIN memory'
          /\ \A cell \in DOMAIN memory : cell # address => memory'[cell] = memory[cell]
      BY <2>1, <3>1, HeaderFacts
    <3> QED  BY <3>1, <3>2 DEF Kept
  <2>7. StepOf(a)
    BY <1>1, <1>3, <1>4, <2>1, <2>2, <2>4, <2>5, <2>6 DEF StepOf, DomainInv
  <2>8. Header(a)' = [capacity |-> 0, size |-> 0] /\ CapacityOf(a)' = 0 /\ SizeOf(a)' = 0
    BY <2>2, <2>5, <2>6 DEF Header, CapacityOf, SizeOf, HasBlock
  <2>9. Cells(a)' = {Cell(address, n) : n \in 0 .. HEADER - 1}
    BY <2>2, <2>3, <2>5, <2>8 DEF Cells, Reserved, Block
  <2>10. OpInv(a)'
    BY <1>1, <1>5, <2>2, <2>5 DEF OpInv
  <2>11. HeldInv(a)'
    BY <1>1, <1>5, <2>2, <2>4, <2>6, <2>8 DEF HeldInv
  <2>12. ExpectedInv(a)' /\ SpaceInv(a)'
    BY <1>1, <1>3, <2>4, <2>5, <2>9 DEF ExpectedInv, SpaceInv, ArrayInv
  <2>13. \A cell \in Cells(a)' : ~Given(cell)
    BY <2>3, <2>4, <2>9
  <2> QED  BY <1>4, <2>7, <2>10, <2>11, <2>12, <2>13, ArrayStep DEF ArrayInv
<1> QED  BY <1>6, <1>7

LEMMA NewCapacityFacts ==
  ASSUME DynInv, NEW a \in Arrays, array[a] # FREED, NEW n \in Nat
  PROVE  NewCapacity(a, n) \in Nat /\ CapacityOf(a) + n <= NewCapacity(a, n)
<1>1. CapacityOf(a) \in Nat
  BY SizeFacts
<1> QED  BY <1>1 DEF NewCapacity

LEMMA GrowStep ==
  ASSUME DynInv, NEW a \in Arrays, Grow(a)
  PROVE  DynInv'
<1>1. op[a].at = "grow" /\ UNCHANGED <<memory, array, expected>>
  BY DEF Grow
<1>2. PICK address \in Fronts, place \in {"copy", "crashed"} :
        /\ Allocate(HEADER + NewCapacity(a, op[a].n), address)
        /\ op' = [op EXCEPT ![a] = [at |-> place, n |-> op[a].n, to |-> address]]
        /\ place = "copy" <=> address # Null
  BY DEF Grow
<1>3. DomainInv /\ ArrayInv(a) /\ RegionsInv
  BY DEF DynInv
<1>4. HasBlock(a) /\ op[a].n \in 1 .. MaxSize /\ Len(expected[a]) + op[a].n <= MaxSize
  BY <1>1, <1>3 DEF ArrayInv, OpInv
<1>5. HEADER \in Nat \ {0} /\ NewCapacity(a, op[a].n) \in Nat
  <2>1. array[a] # FREED /\ op[a].n \in Nat
    BY <1>4, DynamicArrayAssumption DEF HasBlock
  <2> QED  BY <2>1, NewCapacityFacts, DynamicArrayAssumption
<1>0. PICK bytes : bytes = HEADER + NewCapacity(a, op[a].n)
  OBVIOUS
<1>6. bytes \in Nat /\ Allocate(bytes, address)
  BY <1>0, <1>2, <1>5
<1>7. RegionsInv' /\ Grows
  BY <1>3, <1>6, AllocateStep
<1>8. op'[a] = [at |-> place, n |-> op[a].n, to |-> address] /\ \A b \in Arrays \ {a} : op'[b] = op[b]
  BY <1>2, <1>3 DEF DomainInv
<1>9. StepOf(a)
  BY <1>1, <1>2, <1>3, <1>7, <1>8 DEF StepOf, DomainInv, Kept
<1>10. /\ Header(a)' = Header(a) /\ CapacityOf(a)' = CapacityOf(a) /\ SizeOf(a)' = SizeOf(a)
       /\ (HasBlock(a)' <=> HasBlock(a)) /\ Block(a)' = Block(a) /\ \A i : Element(a, i)' = Element(a, i)
  BY <1>1 DEF Header, CapacityOf, SizeOf, HasBlock, Block, Element
<1>11. Reserved(a) = {} /\ Reserved(a)' = IF place = "copy" THEN {Cell(address, n) : n \in 0 .. bytes - 1} ELSE {}
  <2>1. Reserved(a) = {}
    BY <1>1 DEF Reserved
  <2>2. op'[a].at = place /\ op'[a].n = op[a].n /\ (place = "copy" => op'[a].to = address)
    BY <1>8
  <2>3. PICK cap : cap = NewCapacity(a, op[a].n)'
    OBVIOUS
  <2>4. PICK to, top : to = op'[a].to /\ top = HEADER + cap - 1
    OBVIOUS
  <2>5. Reserved(a)' = IF place = "copy" THEN {Cell(to, n) : n \in 0 .. top} ELSE {}
    BY <2>2, <2>3, <2>4 DEF Reserved
  <2>6. cap = NewCapacity(a, op[a].n)
    BY <1>10, <2>2, <2>3 DEF NewCapacity
  <2>7. top = bytes - 1
    BY <1>0, <1>5, <2>4, <2>6
  <2>8. place = "copy" => to = address
    BY <2>2, <2>4
  <2> QED  BY <2>1, <2>5, <2>7, <2>8
<1>12. \A cell \in Cells(a)' : cell \in Cells(a) \/ cell \in Reserved(a)'
  BY <1>10 DEF Cells
<1>13. \A cell \in Reserved(a)' : Given(cell)' /\ ~Given(cell)
  <2>1. CASE place = "copy"
    <3>1. (\A n \in 0 .. bytes - 1 : Given(Cell(address, n))') /\ \A n \in Nat : ~Given(Cell(address, n))
      BY <1>2, <1>3, <1>6, <2>1, AllocatedCells
    <3> QED  BY <1>6, <1>11, <2>1, <3>1
  <2>2. CASE place # "copy"
    BY <1>11, <2>2
  <2> QED  BY <2>1, <2>2
<1>14. \A x : IsAddress(x) => IsAddress(x)'
  BY <1>7 DEF IsAddress, Grows
<1>15. OpInv(a)'
  <2>1. place = "copy" => IsAddress(address)'
    BY <1>2, <1>3, <1>6, AllocatedCells
  <2> QED  BY <1>1, <1>4, <1>8, <1>10, <2>1 DEF OpInv
<1>16. HeldInv(a)' /\ ExpectedInv(a)'
  BY <1>1, <1>3, <1>10, <1>14 DEF HeldInv, ExpectedInv, ArrayInv
<1>17. SpaceInv(a)'
  <2>1. \A cell : Given(cell) => Given(cell)'
    <3> SUFFICES ASSUME NEW cell, Given(cell) PROVE Given(cell)'
      OBVIOUS
    <3>1. PICK r \in 1 .. Len(regions), o \in Nat : cell = <<r, o>> /\ o < regions[r].count
      BY DEF Given
    <3>2. r \in 1 .. Len(regions') /\ regions[r].count <= regions'[r].count
      BY <1>7 DEF Grows
    <3>3. regions[r] \in [count : Nat, capacity : Nat] /\ regions'[r] \in [count : Nat, capacity : Nat]
      BY <1>3, <1>7, <3>2, ElementOfSeq DEF RegionsInv
    <3>4. regions[r].count \in Nat /\ regions'[r].count \in Nat
      BY <3>3
    <3> QED  BY <3>1, <3>2, <3>4 DEF Given
  <2> QED  BY <1>3, <1>12, <1>13, <2>1 DEF SpaceInv, ArrayInv
<1>18. \A cell \in Cells(a)' : cell \in Cells(a) \/ ~Given(cell)
  BY <1>12, <1>13
<1> QED  BY <1>7, <1>9, <1>15, <1>16, <1>17, <1>18, ArrayStep DEF ArrayInv

LEMMA CopyStep ==
  ASSUME DynInv, NEW a \in Arrays, Copy(a)
  PROVE  DynInv'
<1>0. PICK to, n : to = op[a].to /\ n = op[a].n
  OBVIOUS
<1> DEFINE copy == [cell \in {Cell(to, m) : m \in Copied(a)} |-> memory[Cell(array[a], cell[2] - to[2])]]
           cap == NewCapacity(a, n)
<1>1. /\ op[a].at = "copy" /\ memory' = Over(HeaderAt(to, GrownHeader(a, n)), Over(copy, memory))
      /\ array' = [array EXCEPT ![a] = to] /\ op' = [op EXCEPT ![a] = [at |-> "add", n |-> n]]
      /\ UNCHANGED <<regions, end, expected>>
  BY <1>0 DEF Copy, At
<1>2. DomainInv /\ ArrayInv(a)
  BY DEF DynInv
<1>3. HasBlock(a) /\ n \in 1 .. MaxSize /\ Len(expected[a]) + n <= MaxSize /\ IsAddress(to)
  BY <1>0, <1>1, <1>2 DEF ArrayInv, OpInv
<1>4. HEADER \in Nat \ {0} /\ cap \in Nat /\ CapacityOf(a) \in Nat /\ CapacityOf(a) + n <= cap
  <2>1. array[a] # FREED /\ n \in Nat
    BY <1>3, DynamicArrayAssumption DEF HasBlock
  <2> QED  BY <2>1, NewCapacityFacts, SizeFacts, DynamicArrayAssumption
<1>5. /\ IsAddress(array[a]) /\ Header(a) \in [capacity : Nat, size : Nat] /\ array[a] \in DOMAIN memory
      /\ Header(a).size = Len(expected[a]) /\ Header(a).size <= Header(a).capacity
      /\ \A i \in 1 .. Len(expected[a]) :
           Element(a, i - 1) \in DOMAIN memory /\ memory[Element(a, i - 1)] = expected[a][i]
  BY <1>2, <1>3 DEF ArrayInv, HeldInv
<1>6. /\ CapacityOf(a) = Header(a).capacity /\ SizeOf(a) = Header(a).size
  BY <1>3 DEF CapacityOf, SizeOf, HasBlock
<1>7. PICK r \in Nat, o \in Nat, q \in Nat, p \in Nat : to = <<r, o>> /\ array[a] = <<q, p>>
  BY <1>3, <1>5 DEF IsAddress
<1>8. Reserved(a) = {Cell(to, m) : m \in 0 .. HEADER + cap - 1} /\ Reserved(a) \subseteq Cells(a)
  BY <1>0, <1>1 DEF Reserved, Cells
<1>9. to \in Reserved(a)
  <2>1. 0 \in 0 .. HEADER + cap - 1 /\ Cell(to, 0) = to
    BY <1>4, <1>7 DEF Cell
  <2> QED  BY <1>8, <2>1
<1>10. \A cell \in DOMAIN copy : cell \in Reserved(a)
  <2>1. \A m \in Copied(a) : m \in 0 .. HEADER + cap - 1
    BY <1>3, <1>4 DEF Copied
  <2> QED  BY <1>8, <2>1
<1> HIDE DEF cap
<1>11. ASSUME NEW m \in Copied(a)
       PROVE  Cell(to, m) \in DOMAIN copy /\ copy[Cell(to, m)] = memory[Cell(array[a], m)]
  <2>1. Cell(to, m)[2] - to[2] = m
    BY <1>7 DEF Cell, Copied
  <2> QED  BY <2>1
<1>12. PICK under : under = Over(copy, memory)
  OBVIOUS
<1>13. PICK writes : writes = copy
  OBVIOUS
<1> HIDE DEF copy
<1>14. /\ \A cell : cell \in DOMAIN under <=> cell \in DOMAIN copy \/ cell \in DOMAIN memory
       /\ \A cell \in DOMAIN copy : under[cell] = copy[cell]
       /\ \A cell \in DOMAIN memory : cell \notin DOMAIN copy => under[cell] = memory[cell]
  BY <1>12, OverFacts
<1>15. PICK header : header = GrownHeader(a, n)
  OBVIOUS
<1>16. /\ \A cell : cell \in DOMAIN memory' <=> cell = to \/ cell \in DOMAIN under
       /\ memory'[to] = header
       /\ \A cell \in DOMAIN under : cell # to => memory'[cell] = under[cell]
  BY <1>1, <1>12, <1>15, HeaderFacts
<1>17. header \in [capacity : Nat, size : Nat] /\ header.size = Len(expected[a]) /\ header.capacity = cap
  BY <1>4, <1>5, <1>15 DEF GrownHeader, cap
<1>18. /\ op'[a] = [at |-> "add", n |-> n] /\ array'[a] = to
       /\ \A b \in Arrays \ {a} : op'[b] = op[b] /\ array'[b] = array[b]
  BY <1>1, <1>2 DEF DomainInv
<1>19. HasBlock(a)' /\ Header(a)' = header /\ SizeOf(a)' = Len(expected[a]) /\ CapacityOf(a)' = cap
  <2>1. HasBlock(a)'
    BY <1>7, <1>18 DEF HasBlock, MADE, FREED
  <2> QED  BY <1>16, <1>17, <1>18, <2>1 DEF Header, SizeOf, CapacityOf, HasBlock
<1>20. RegionsInv' /\ Grows /\ (\A address : IsAddress(address)' <=> IsAddress(address))
       /\ \A cell : Given(cell)' <=> Given(cell)
  BY <1>1, ArenaStays DEF arenaVars
<1>21. StepOf(a)
  <2>1. \A cell \in DOMAIN memory : cell \in Cells(a) \/ Kept(cell)
    BY <1>8, <1>9, <1>10, <1>14, <1>16 DEF Kept
  <2> QED  BY <1>1, <1>2, <1>18, <1>20, <2>1 DEF StepOf, DomainInv
<1>22. Cells(a)' = Reserved(a)
  <2>1. Reserved(a)' = {}
    BY <1>18 DEF Reserved
  <2>2. Block(a)' = {Cell(to, m) : m \in 0 .. HEADER + cap - 1}
    BY <1>18, <1>19 DEF Block
  <2> QED  BY <1>8, <1>19, <2>1, <2>2 DEF Cells
<1>23. OpInv(a)'
  BY <1>1, <1>3, <1>4, <1>5, <1>6, <1>18, <1>19 DEF OpInv
<1>24. HeldInv(a)'
  <2>1. IsAddress(array[a])' /\ array'[a] \in DOMAIN memory'
    BY <1>3, <1>16, <1>18, <1>20
  <2>2. Header(a)' \in [capacity : Nat, size : Nat] /\ Header(a)'.size = Len(expected'[a]) /\ Header(a)'.size <= Header(a)'.capacity
    BY <1>1, <1>3, <1>4, <1>5, <1>6, <1>17, <1>19
  <2>3. ASSUME NEW i \in 1 .. Len(expected[a])
        PROVE  Element(a, i - 1)' \in DOMAIN memory' /\ memory'[Element(a, i - 1)'] = expected'[a][i]
    <3>1. HEADER + (i - 1) \in Copied(a)
      <4>1. Cell(array[a], HEADER + (i - 1)) \in DOMAIN memory
        BY <1>5 DEF Element
      <4>2. HEADER + (i - 1) \in 0 .. HEADER + CapacityOf(a) - 1
        BY <1>4, <1>5, <1>6
      <4> QED  BY <4>1, <4>2 DEF Copied
    <3>2. Element(a, i - 1)' = Cell(to, HEADER + (i - 1))
      BY <1>18 DEF Element
    <3>3. Cell(to, HEADER + (i - 1)) # to
      BY <1>4, <1>7 DEF Cell
    <3>4. memory'[Cell(to, HEADER + (i - 1))] = memory[Cell(array[a], HEADER + (i - 1))]
      BY <1>11, <1>14, <1>16, <3>1, <3>3
    <3>5. memory[Cell(array[a], HEADER + (i - 1))] = expected[a][i]
      BY <1>5 DEF Element
    <3> QED  BY <1>1, <1>11, <1>14, <1>16, <3>1, <3>2, <3>4, <3>5
  <2> QED  BY <1>1, <2>1, <2>2, <2>3 DEF HeldInv
<1>25. ExpectedInv(a)' /\ SpaceInv(a)'
  BY <1>1, <1>2, <1>8, <1>19, <1>20, <1>22 DEF ExpectedInv, SpaceInv, ArrayInv
<1>26. \A cell \in Cells(a)' : cell \in Cells(a)
  BY <1>8, <1>22
<1> QED  BY <1>20, <1>21, <1>23, <1>24, <1>25, <1>26, ArrayStep DEF ArrayInv

\* The header is written again, and elements of the block with it.
LEMMA WriteStep ==
  ASSUME DynInv, NEW a \in Arrays, HasBlock(a), op[a].at # "copy",
         op'[a] = Idle, DomainInv', UNCHANGED <<regions, end, array>>,
         \A b \in Arrays \ {a} : op'[b] = op[b] /\ expected'[b] = expected[b],
         NEW size \in Nat, NEW cells, memory' = WriteHeader(a, size, cells),
         \A cell \in DOMAIN memory : cell \in Cells(a) \/ (cell \in DOMAIN cells /\ cells[cell] = memory[cell]),
         size <= CapacityOf(a), size <= MaxSize,
         expected'[a] \in Seq(Arrays \X Nat), size = Len(expected'[a]),
         \A i \in 1 .. size :
           Element(a, i - 1) \in DOMAIN cells /\ cells[Element(a, i - 1)] = expected'[a][i]
  PROVE  DynInv'
<1>1. ArrayInv(a) /\ HEADER \in Nat \ {0}
  BY DynamicArrayAssumption DEF DynInv
<1>2. IsAddress(array[a]) /\ array[a] \in DOMAIN memory /\ Header(a) \in [capacity : Nat, size : Nat]
  BY <1>1 DEF ArrayInv, HeldInv
<1>3. array[a] \in Cells(a) /\ CapacityOf(a) = Header(a).capacity
  BY <1>2, BlockCells
<1>4. PICK header : header = [Header(a) EXCEPT !.size = size]
  OBVIOUS
<1>5. header \in [capacity : Nat, size : Nat] /\ header.size = size /\ header.capacity = Header(a).capacity
  BY <1>2, <1>4
<1>6. /\ \A cell : cell \in DOMAIN memory' <=> cell = array[a] \/ cell \in DOMAIN cells
      /\ memory'[array[a]] = header
      /\ \A cell \in DOMAIN cells : cell # array[a] => memory'[cell] = cells[cell]
  <2>1. memory' = Over(HeaderAt(array[a], header), cells)
    BY <1>4 DEF WriteHeader
  <2> QED  BY <2>1, HeaderFacts
<1>7. /\ HasBlock(a)' /\ Header(a)' = header /\ SizeOf(a)' = size /\ CapacityOf(a)' = CapacityOf(a)
  BY <1>3, <1>5, <1>6 DEF HasBlock, Header, SizeOf, CapacityOf
<1>8. RegionsInv' /\ Grows /\ (\A address : IsAddress(address)' <=> IsAddress(address))
      /\ \A cell : Given(cell)' <=> Given(cell)
  BY ArenaStays DEF arenaVars
<1>9. StepOf(a)
  <2>1. \A cell \in DOMAIN memory : cell \in Cells(a) \/ Kept(cell)
    BY <1>3, <1>6 DEF Kept
  <2> QED  BY <1>8, <2>1 DEF StepOf
<1>10. Cells(a)' = Cells(a)
  <2>1. Block(a)' = Block(a)
    BY <1>7 DEF Block
  <2> QED  BY <1>7, <2>1 DEF Cells, Reserved, Idle
<1>11. OpInv(a)'
  BY DEF OpInv, Idle
<1>12. HeldInv(a)'
  <2>1. ASSUME NEW i \in 1 .. size
        PROVE  Element(a, i - 1)' \in DOMAIN memory' /\ memory'[Element(a, i - 1)'] = expected'[a][i]
    <3>1. Element(a, i - 1)' = Element(a, i - 1)
      BY DEF Element
    <3>2. Element(a, i - 1) # array[a]
      <4>1. array[a] \in (1 .. Len(regions)) \X Nat
        BY <1>2 DEF IsAddress
      <4>2. PICK r \in 1 .. Len(regions), o \in Nat : array[a] = <<r, o>>
        BY ONLY <4>1
      <4> QED  BY <1>1, <4>2 DEF Element, Cell
    <3> QED  BY <1>6, <3>1, <3>2
  <2> QED  BY <1>2, <1>3, <1>5, <1>6, <1>7, <1>8, <2>1 DEF HeldInv
<1>13. ExpectedInv(a)' /\ SpaceInv(a)'
  BY <1>1, <1>7, <1>8, <1>10 DEF ExpectedInv, SpaceInv, ArrayInv
<1> QED  BY <1>8, <1>9, <1>10, <1>11, <1>12, <1>13, ArrayStep DEF ArrayInv

LEMMA ShrinkStep ==
  ASSUME DynInv, NEW a \in Arrays, Shrink(a)
  PROVE  DynInv'
<1>1. PICK size \in 0 .. SizeOf(a) :
        memory' = WriteHeader(a, size, memory) /\ expected' = [expected EXCEPT ![a] = SubSeq(@, 1, size)]
  BY DEF Shrink
<1>2. HasBlock(a) /\ op[a] = Idle /\ op' = op /\ UNCHANGED <<regions, end, array>> /\ array[a] # FREED
  BY DEF Shrink, HasBlock
<1>3. DomainInv /\ ArrayInv(a)
  BY DEF DynInv
<1>4. /\ SizeOf(a) = Len(expected[a]) /\ SizeOf(a) \in 0 .. MaxSize /\ SizeOf(a) <= CapacityOf(a)
      /\ expected[a] \in Seq(Arrays \X Nat) /\ CapacityOf(a) \in Nat /\ MaxSize \in Nat
  BY <1>2, SizeFacts, DynamicArrayAssumption
<1>5. size \in Nat /\ size <= CapacityOf(a) /\ size <= MaxSize /\ size <= Len(expected[a])
  BY <1>4
<1>6. /\ expected'[a] \in Seq(Arrays \X Nat) /\ Len(expected'[a]) = size
      /\ \A i \in 1 .. size : expected'[a][i] = expected[a][i]
  <2>1. expected'[a] = SubSeq(expected[a], 1, size)
    BY <1>1, <1>3 DEF DomainInv
  <2>2. \A i \in 1 .. size : expected[a][i] \in Arrays \X Nat
    BY <1>4, <1>5, ElementOfSeq
  <2> QED  BY <1>4, <1>5, <2>1, <2>2
<1>7. DomainInv' /\ \A b \in Arrays \ {a} : op'[b] = op[b] /\ expected'[b] = expected[b]
  BY <1>1, <1>2, <1>3 DEF DomainInv
<1>8. ASSUME NEW i \in 1 .. size
      PROVE  Element(a, i - 1) \in DOMAIN memory /\ memory[Element(a, i - 1)] = expected'[a][i]
  <2>1. i \in 1 .. Len(expected[a])
    BY <1>4, <1>5
  <2> QED  BY <1>2, <1>3, <1>6, <2>1 DEF ArrayInv, HeldInv
<1>9. op[a].at # "copy" /\ op'[a] = Idle
  BY <1>2 DEF Idle
<1> QED  BY <1>1, <1>2, <1>5, <1>6, <1>7, <1>8, <1>9, WriteStep

LEMMA ArrayFreeStep ==
  ASSUME DynInv, NEW a \in Arrays, ArrayFree(a)
  PROVE  DynInv'
<1>1. /\ op[a] = Idle /\ array' = [array EXCEPT ![a] = FREED] /\ expected' = [expected EXCEPT ![a] = << >>]
      /\ UNCHANGED <<regions, end, memory, op>>
  BY DEF ArrayFree
<1>2. DomainInv /\ ArrayInv(a)
  BY DEF DynInv
<1>3. /\ array'[a] = FREED /\ expected'[a] = << >> /\ op'[a] = Idle
      /\ \A b \in Arrays \ {a} : array'[b] = array[b] /\ expected'[b] = expected[b]
  BY <1>1, <1>2 DEF DomainInv
<1>4. RegionsInv' /\ Grows
  BY <1>1, ArenaStays DEF arenaVars
<1>5. StepOf(a)
  BY <1>1, <1>2, <1>3, <1>4 DEF StepOf, DomainInv, Kept
<1>6. Cells(a)' = {} /\ ~HasBlock(a)'
  BY <1>3 DEF Cells, Reserved, HasBlock, Idle
<1>7. OpInv(a)'
  BY <1>3 DEF OpInv, Idle
<1>8. HeldInv(a)' /\ ExpectedInv(a)' /\ SpaceInv(a)'
  <2>1. << >> \in Seq(Arrays \X Nat) /\ Len(<< >>) = 0 /\ 0 <= MaxSize
    BY EmptySeq, DynamicArrayAssumption
  <2> QED  BY <1>3, <1>6, <2>1 DEF HeldInv, ExpectedInv, SpaceInv
<1> QED  BY <1>4, <1>5, <1>6, <1>7, <1>8, ArrayStep DEF ArrayInv

LEMMA AddStep ==
  ASSUME DynInv, NEW a \in Arrays, Add(a)
  PROVE  DynInv'
<1>1. PICK size, n : size = SizeOf(a) /\ n = op[a].n
  OBVIOUS
<1>2. PICK elements :
        elements = [cell \in {Element(a, size + i) : i \in 0 .. n - 1} |-> <<a, cell[2] - array[a][2] - HEADER>>]
  OBVIOUS
<1>3. PICK tail : tail = [i \in 1 .. n |-> <<a, size + i - 1>>]
  OBVIOUS
<1>4. /\ op[a].at = "add" /\ memory' = WriteHeader(a, size + n, Over(elements, memory))
      /\ expected' = [expected EXCEPT ![a] = @ \o tail]
      /\ op' = [op EXCEPT ![a] = Idle] /\ UNCHANGED <<regions, end, array>>
  BY <1>1, <1>2, <1>3 DEF Add
<1>5. DomainInv /\ ArrayInv(a) /\ HEADER \in Nat \ {0}
  BY DynamicArrayAssumption DEF DynInv
<1>6. HasBlock(a) /\ n \in Nat /\ Len(expected[a]) + n <= MaxSize /\ size + n <= CapacityOf(a)
  BY <1>1, <1>4, <1>5, DynamicArrayAssumption DEF ArrayInv, OpInv
<1>7. size = Len(expected[a]) /\ size \in Nat /\ expected[a] \in Seq(Arrays \X Nat) /\ CapacityOf(a) \in Nat
  BY <1>1, <1>6, SizeFacts DEF HasBlock
<1>8. /\ array[a] \in Cells(a) /\ (\A i \in Nat : i < CapacityOf(a) => Element(a, i) \in Cells(a))
      /\ IsAddress(array[a])
  BY <1>5, <1>6, BlockCells DEF ArrayInv, HeldInv
<1>9. PICK r \in 1 .. Len(regions), o \in Nat : array[a] = <<r, o>>
  BY <1>8 DEF IsAddress
<1>10. \A i \in Nat : Element(a, i) = <<r, o + (HEADER + i)>>
  BY <1>9 DEF Element, Cell
<1>11. ASSUME NEW i \in 0 .. n - 1
       PROVE  Element(a, size + i) \in DOMAIN elements /\ elements[Element(a, size + i)] = <<a, size + i>>
  <2>1. Element(a, size + i) = <<r, o + (HEADER + (size + i))>> /\ size + i \in Nat
    BY <1>7, <1>10
  <2>2. Element(a, size + i)[2] - array[a][2] - HEADER = size + i
    BY <1>5, <1>9, <2>1
  <2> QED  BY <1>2, <2>2
<1>12. \A cell \in DOMAIN elements : cell \in Cells(a)
  <2>1. \A i \in 0 .. n - 1 : size + i \in Nat /\ size + i < CapacityOf(a)
    BY <1>6, <1>7
  <2> QED  BY <1>2, <1>8, <2>1
<1>13. PICK cells : cells = Over(elements, memory)
  OBVIOUS
<1>14. /\ \A cell : cell \in DOMAIN cells <=> cell \in DOMAIN elements \/ cell \in DOMAIN memory
       /\ \A cell \in DOMAIN elements : cells[cell] = elements[cell]
       /\ \A cell \in DOMAIN memory : cell \notin DOMAIN elements => cells[cell] = memory[cell]
  BY <1>13, OverFacts
<1>15. /\ expected'[a] = expected[a] \o tail /\ op'[a] = Idle /\ DomainInv'
       /\ \A b \in Arrays \ {a} : op'[b] = op[b] /\ expected'[b] = expected[b]
  BY <1>4, <1>5 DEF DomainInv
<1>16. tail \in Seq(Arrays \X Nat) /\ Len(tail) = n
  BY <1>3, <1>6, <1>7
<1>17. /\ expected'[a] \in Seq(Arrays \X Nat) /\ Len(expected'[a]) = size + n
       /\ \A i \in 1 .. size + n : expected'[a][i] = IF i <= size THEN expected[a][i] ELSE tail[i - size]
  <2>1. /\ expected[a] \o tail \in Seq(Arrays \X Nat) /\ Len(expected[a] \o tail) = Len(expected[a]) + Len(tail)
        /\ \A i \in 1 .. Len(expected[a]) + Len(tail) :
             (expected[a] \o tail)[i] = IF i <= Len(expected[a]) THEN expected[a][i] ELSE tail[i - Len(expected[a])]
    BY ONLY <1>7, <1>16, ConcatProperties
  <2> QED  BY <1>7, <1>15, <1>16, <2>1
<1>18. ASSUME NEW i \in 1 .. size + n
       PROVE  Element(a, i - 1) \in DOMAIN cells /\ cells[Element(a, i - 1)] = expected'[a][i]
  <2>1. CASE i <= size
    <3>1. i \in 1 .. Len(expected[a])
      BY <1>6, <1>7, <2>1
    <3>2. Element(a, i - 1) \in DOMAIN memory /\ memory[Element(a, i - 1)] = expected[a][i]
      BY <1>5, <1>6, <3>1 DEF ArrayInv, HeldInv
    <3>3. Element(a, i - 1) \notin DOMAIN elements
      <4> SUFFICES ASSUME NEW j \in 0 .. n - 1, Element(a, i - 1) = Element(a, size + j) PROVE FALSE
        BY <1>2
      <4>1. i - 1 \in Nat /\ size + j \in Nat /\ i - 1 # size + j
        BY <1>6, <1>7, <2>1
      <4>2. <<r, o + (HEADER + (i - 1))>> = <<r, o + (HEADER + (size + j))>>
        BY <1>10, <4>1
      <4> QED  BY <1>5, <4>1, <4>2
    <3> QED  BY <1>14, <1>17, <2>1, <3>2, <3>3
  <2>2. CASE i > size
    <3>1. PICK j \in 0 .. n - 1 : i - 1 = size + j
      <4>1. i - 1 - size \in 0 .. n - 1 /\ i - 1 = size + (i - 1 - size)
        BY <1>6, <1>7, <2>2
      <4> QED  BY <4>1
    <3>2. tail[i - size] = <<a, i - 1>>
      <4>1. i - size \in 1 .. n /\ size + (i - size) - 1 = i - 1
        BY <1>6, <1>7, <2>2
      <4> QED  BY <1>3, <4>1
    <3>3. ~(i <= size)
      BY <1>7, <2>2
    <3> QED  BY <1>11, <1>14, <1>17, <3>1, <3>2, <3>3
  <2> QED  BY <1>6, <1>7, <2>1, <2>2
<1>19. size + n \in Nat /\ size + n <= MaxSize /\ op[a].at # "copy"
  BY <1>4, <1>6, <1>7
<1>20. \A cell \in DOMAIN memory : cell \in Cells(a) \/ (cell \in DOMAIN cells /\ cells[cell] = memory[cell])
  BY <1>12, <1>14
<1>21. PICK count : count = size + n
  OBVIOUS
<1>22. memory' = WriteHeader(a, count, cells)
  BY <1>4, <1>13, <1>21
<1>23. /\ count \in Nat /\ count <= CapacityOf(a) /\ count <= MaxSize /\ count = Len(expected'[a])
       /\ HasBlock(a) /\ op[a].at # "copy" /\ UNCHANGED <<regions, end, array>>
  BY <1>4, <1>6, <1>17, <1>19, <1>21
<1>24. \A i \in 1 .. count : Element(a, i - 1) \in DOMAIN cells /\ cells[Element(a, i - 1)] = expected'[a][i]
  BY <1>18, <1>21
<1> QED  BY <1>15, <1>17, <1>20, <1>22, <1>23, <1>24, WriteStep

LEMMA PopFrontStep ==
  ASSUME DynInv, NEW a \in Arrays, PopFront(a)
  PROVE  DynInv'
<1>1. PICK size : size = SizeOf(a)
  OBVIOUS
<1>2. PICK moved : moved = [cell \in {Element(a, i) : i \in 0 .. size - 2} |-> memory[Cell(cell, 1)]]
  OBVIOUS
<1>3. /\ op[a] = Idle /\ HasBlock(a) /\ array[a] # FREED /\ size > 0
      /\ memory' = WriteHeader(a, size - 1, Over(moved, memory))
      /\ expected' = [expected EXCEPT ![a] = Tail(@)] /\ UNCHANGED <<regions, end, array, op>>
  BY <1>1, <1>2 DEF PopFront, HasBlock
<1>4. DomainInv /\ ArrayInv(a) /\ HEADER \in Nat \ {0}
  BY DynamicArrayAssumption DEF DynInv
<1>5. /\ size = Len(expected[a]) /\ size \in 1 .. MaxSize /\ size \in Nat \ {0} /\ size <= CapacityOf(a)
      /\ expected[a] \in Seq(Arrays \X Nat) /\ CapacityOf(a) \in Nat
  BY <1>1, <1>3, SizeFacts
<1>6. /\ (\A i \in Nat : i < CapacityOf(a) => Element(a, i) \in Cells(a))
      /\ IsAddress(array[a])
  BY <1>3, <1>4, BlockCells DEF ArrayInv, HeldInv
<1>7. PICK r \in 1 .. Len(regions), o \in Nat : array[a] = <<r, o>>
  BY <1>6 DEF IsAddress
<1>8. \A i \in Nat : Element(a, i) = <<r, o + (HEADER + i)>>
  BY <1>7 DEF Element, Cell
<1>9. ASSUME NEW i \in 0 .. size - 2
      PROVE  Element(a, i) \in DOMAIN moved /\ moved[Element(a, i)] = memory[Element(a, i + 1)]
  <2>1. /\ Element(a, i) = <<r, o + (HEADER + i)>> /\ Element(a, i + 1) = <<r, o + (HEADER + (i + 1))>>
        /\ i \in Nat
    BY <1>8
  <2>2. Cell(Element(a, i), 1) = Element(a, i + 1)
    BY <1>4, <2>1 DEF Cell
  <2> QED  BY <1>2, <2>2
<1>10. \A cell \in DOMAIN moved : cell \in Cells(a)
  <2>1. \A i \in 0 .. size - 2 : i \in Nat /\ i < CapacityOf(a)
    BY <1>5
  <2> QED  BY <1>2, <1>6, <2>1
<1>11. PICK cells : cells = Over(moved, memory)
  OBVIOUS
<1>12. /\ \A cell : cell \in DOMAIN cells <=> cell \in DOMAIN moved \/ cell \in DOMAIN memory
       /\ \A cell \in DOMAIN moved : cells[cell] = moved[cell]
       /\ \A cell \in DOMAIN memory : cell \notin DOMAIN moved => cells[cell] = memory[cell]
  BY <1>11, OverFacts
<1>13. /\ expected'[a] = Tail(expected[a]) /\ op'[a] = Idle /\ DomainInv'
       /\ \A b \in Arrays \ {a} : op'[b] = op[b] /\ expected'[b] = expected[b]
  BY <1>3, <1>4 DEF DomainInv
<1>14. /\ expected'[a] \in Seq(Arrays \X Nat) /\ Len(expected'[a]) = size - 1
       /\ \A i \in 1 .. size - 1 : expected'[a][i] = expected[a][i + 1]
  <2>1. expected[a] # << >>
    BY <1>5, EmptySeq
  <2> QED  BY <1>5, <1>13, <2>1, HeadTailProperties
<1>15. ASSUME NEW i \in 1 .. size - 1
       PROVE  Element(a, i - 1) \in DOMAIN cells /\ cells[Element(a, i - 1)] = expected'[a][i]
  <2>1. i - 1 \in 0 .. size - 2 /\ i - 1 + 1 = i /\ i + 1 \in 1 .. Len(expected[a]) /\ i + 1 - 1 = i
    BY <1>5
  <2>2. moved[Element(a, i - 1)] = memory[Element(a, i)] /\ Element(a, i - 1) \in DOMAIN moved
    BY <1>9, <2>1
  <2>3. memory[Element(a, i + 1 - 1)] = expected[a][i + 1]
    BY <1>3, <1>4, <2>1 DEF ArrayInv, HeldInv
  <2> QED  BY <1>12, <1>14, <2>1, <2>2, <2>3
<1>16. size - 1 \in Nat /\ size - 1 <= MaxSize /\ size - 1 <= CapacityOf(a) /\ op[a].at # "copy"
  BY <1>3, <1>5, DynamicArrayAssumption DEF Idle
<1>17. \A cell \in DOMAIN memory : cell \in Cells(a) \/ (cell \in DOMAIN cells /\ cells[cell] = memory[cell])
  BY <1>10, <1>12
<1>18. PICK count : count = size - 1
  OBVIOUS
<1>19. memory' = WriteHeader(a, count, cells)
  BY <1>3, <1>11, <1>18
<1>20. /\ count \in Nat /\ count <= CapacityOf(a) /\ count <= MaxSize /\ count = Len(expected'[a])
       /\ HasBlock(a) /\ op[a].at # "copy" /\ UNCHANGED <<regions, end, array>>
  BY <1>3, <1>14, <1>16, <1>18
<1>21. \A i \in 1 .. count : Element(a, i - 1) \in DOMAIN cells /\ cells[Element(a, i - 1)] = expected'[a][i]
  BY <1>15, <1>18
<1> QED  BY <1>13, <1>14, <1>17, <1>19, <1>20, <1>21, WriteStep

-----------------------------------------------------------------------------
(* The theorems.                                                           *)
LEMMA DynInvStep ==
  ASSUME DynInv, [Next]_arrayVars
  PROVE  DynInv'
<1>1. CASE Next
  <2>1. PICK a \in Arrays : Begin(a) \/ Create(a) \/ Grow(a) \/ Copy(a) \/ Add(a) \/ PopFront(a) \/ Shrink(a) \/ ArrayFree(a)
    BY <1>1 DEF Next
  <2> QED  BY <2>1, BeginStep, CreateStep, GrowStep, CopyStep, AddStep, PopFrontStep, ShrinkStep, ArrayFreeStep
<1>2. CASE UNCHANGED arrayVars
  <2> USE <1>2 DEF arrayVars
  <2>1. RegionsInv' /\ DomainInv'
    BY DEF DynInv, RegionsInv, RegionsOK, DomainInv
  <2>2. \A a \in Arrays : /\ HasBlock(a)' <=> HasBlock(a)
                          /\ Header(a)' = Header(a) /\ CapacityOf(a)' = CapacityOf(a) /\ SizeOf(a)' = SizeOf(a)
                          /\ \A i : Element(a, i)' = Element(a, i)
    BY DEF HasBlock, Header, CapacityOf, SizeOf, Element
  <2>3. \A a \in Arrays : Cells(a)' = Cells(a)
    BY <2>2 DEF Cells, Reserved, Block, NewCapacity
  <2>4. \A a \in Arrays : ArrayInv(a)'
    BY <2>2, <2>3 DEF DynInv, ArrayInv, OpInv, HeldInv, ExpectedInv, SpaceInv, IsAddress, Given
  <2> QED  BY <2>1, <2>3, <2>4 DEF DynInv, Apart
<1> QED  BY <1>1, <1>2

(* The arena's regions are in order; every array's header is in a block of *)
(* its own, which the arena gave it, agrees with what the array should     *)
(* hold, and leaves room for what is about to be written (array.c:11-43).  *)
THEOREM DynCorrect == Spec => []DynInv
<1>1. DynInv /\ [Next]_arrayVars => DynInv'
  BY DynInvStep
<1> QED  BY DynInvInit, <1>1, PTL DEF Spec

(* The state has its shape, that of the arena included: no region has      *)
(* handed out more than it has and a search never leaves the last one.     *)
THEOREM DynShape == Spec => []TypeOK
<1>1. ASSUME DynInv PROVE TypeOK
  <2>1. RegionsOK
    BY <1>1 DEF DynInv, RegionsInv
  <2>2. ASSUME NEW a \in Arrays
        PROVE  /\ HasBlock(a) => array[a] \in DOMAIN memory /\ Header(a).size \in 0 .. MaxSize
               /\ op[a].at \in {"idle", "create", "grow", "copy", "add", "thrown", "crashed"}
               /\ Len(expected[a]) \in 0 .. MaxSize
    <3>1. ArrayInv(a) /\ MaxSize \in Nat
      BY <1>1, DynamicArrayAssumption DEF DynInv
    <3>2. Len(expected[a]) \in 0 .. MaxSize
      BY <3>1, LenProperties DEF ArrayInv, ExpectedInv
    <3> QED  BY <3>1, <3>2 DEF ArrayInv, OpInv, HeldInv
  <2> QED  BY <2>1, <2>2 DEF TypeOK
<1> QED  BY <1>1, DynCorrect, PTL

(* An array holds what was put into it, in that order, however often it    *)
(* and the others were moved.                                              *)
THEOREM DynContents == Spec => []ContentsKept
<1>1. ASSUME DynInv PROVE ContentsKept
  BY <1>1 DEF DynInv, ArrayInv, HeldInv, ContentsKept
<1> QED  BY <1>1, DynCorrect, PTL

(* No array reaches outside what the arena gave it or into another's block.*)
THEOREM DynBlocksApart == Spec => []BlocksApart
<1>1. ASSUME DynInv PROVE BlocksApart
  <2>1. ASSUME NEW a \in Arrays
        PROVE  /\ \A cell \in Cells(a) : cell[2] < regions[cell[1]].count
               /\ \A b \in Arrays \ {a} : Cells(a) \cap Cells(b) = {}
               /\ HasBlock(a) => array[a][2] % ALIGNMENT = 0
    BY <1>1 DEF DynInv, Apart, ArrayInv, SpaceInv, Given, HeldInv, IsAddress
  <2> QED  BY <2>1 DEF BlocksApart
<1> QED  BY <1>1, DynCorrect, PTL

(* When the elements are written there is room for all of them: growing to *)
(* half as much again has made enough of it, whatever was added at once.   *)
THEOREM DynRoom == Spec => []RoomWhenWritten
<1>1. ASSUME DynInv PROVE RoomWhenWritten
  <2>1. ASSUME NEW a \in Arrays
        PROVE  /\ HasBlock(a) => SizeOf(a) <= CapacityOf(a)
               /\ op[a].at = "add" => SizeOf(a) + op[a].n <= CapacityOf(a)
    BY <1>1, SizeFacts DEF DynInv, ArrayInv, OpInv, HasBlock
  <2> QED  BY <2>1 DEF RoomWhenWritten
<1> QED  BY <1>1, DynCorrect, PTL
=============================================================================
