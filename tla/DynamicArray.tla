----------------------------- MODULE DynamicArray -----------------------------
(***************************************************************************)
(* array.h and array.c over the arena: an array is a pointer behind a      *)
(* header with its capacity and size.  To grow it, array_grow allocates a  *)
(* larger block and copies the old one, which the arena cannot extend.     *)
(*                                                                         *)
(* The memory is modelled cell by cell, the header as one cell's value, so *)
(* that an element outside its block shows in what another array holds.    *)
(* Every array has one thread that works on it; all share the arena.       *)
(***************************************************************************)
EXTENDS Arena, FiniteSets

CONSTANTS
  Arrays,
  HEADER,      \* sizeof(Array), in units of one element
  MaxSize      \* bound: no array is made larger

ASSUME DynamicArrayAssumption == HEADER \in Nat \ {0} /\ MaxSize \in Nat

VARIABLES
  memory,      \* the value of each cell that was written
  array,       \* where each array's header is, or MADE, or FREED
  op,          \* where the thread of each array is in an operation
  expected     \* history: the elements each array should hold

arrayVars == <<regions, end, memory, array, op, expected>>

MADE == <<-1, 0>>     \* array_make: a tagged context, no block yet
FREED == <<-2, 0>>    \* array_free: the pointer is 0

Idle == [at |-> "idle"]

Cell(address, n) == <<address[1], address[2] + n>>
Header(a) == memory[array[a]]
SizeOf(a) == IF array[a] = MADE THEN 0 ELSE Header(a).size
CapacityOf(a) == IF array[a] = MADE THEN 0 ELSE Header(a).capacity
Element(a, i) == Cell(array[a], HEADER + i)

Init ==
  /\ ArenaInit
  /\ memory = << >>
  /\ array = [a \in Arrays |-> MADE]
  /\ op = [a \in Arrays |-> Idle]
  /\ expected = [a \in Arrays |-> << >>]

At(a, state, n) == op' = [op EXCEPT ![a] = [at |-> state, n |-> n]]

(* The writes over what the cells held.                                    *)
Over(writes, cells) ==
  [cell \in DOMAIN writes \cup DOMAIN cells |->
     IF cell \in DOMAIN writes THEN writes[cell] ELSE cells[cell]]

HeaderAt(address, header) == [cell \in {address} |-> header]
WriteHeader(a, size, cells) == Over(HeaderAt(array[a], [Header(a) EXCEPT !.size = size]), cells)

(* Mutant: one element too many fits.                                      *)
FaultyHasRoom(a, n) == array[a] # MADE /\ SizeOf(a) + n <= CapacityOf(a) + 1

(* array_try_grow's condition.                                             *)
HasRoom(a, n) == array[a] # MADE /\ SizeOf(a) + n < CapacityOf(a)

NewCapacity(a, n) == ((CapacityOf(a) + n) * 3) \div 2

-----------------------------------------------------------------------------
(* n elements are to be added: array_push, array_expand with the writes of *)
(* its caller, and array_resize to a larger size.                          *)
Begin(a) ==
  /\ op[a] = Idle /\ array[a] # FREED
  /\ \E n \in 1 .. MaxSize - SizeOf(a) :
       IF HasRoom(a, n) THEN At(a, "add", n)
       ELSE At(a, IF array[a] = MADE THEN "create" ELSE "grow", n)
  /\ UNCHANGED <<regions, end, memory, array, expected>>

(* array_create_; without memory it throws.                                *)
Create(a) ==
  /\ op[a].at = "create"
  /\ \E address \in Fronts :
       /\ Allocate(HEADER, address)
       /\ IF address = Null
          THEN /\ At(a, "thrown", op[a].n)
               /\ UNCHANGED <<memory, array>>
          ELSE /\ memory' = Over(HeaderAt(address, [capacity |-> 0, size |-> 0]), memory)
               /\ array' = [array EXCEPT ![a] = address]
               /\ At(a, "grow", op[a].n)
  /\ UNCHANGED expected

(* The rest of array_grow with the call of arena_allocator_reallocate.  It *)
(* does not look at what the allocation returned: without memory its copy  *)
(* ends the program.                                                       *)
Grow(a) ==
  /\ op[a].at = "grow"
  /\ \E address \in Fronts :
       /\ Allocate(HEADER + NewCapacity(a, op[a].n), address)
       /\ op' = [op EXCEPT ![a] = [at |-> IF address = Null THEN "crashed" ELSE "copy",
                                   n |-> op[a].n, to |-> address]]
  /\ UNCHANGED <<memory, array, expected>>

(* The cells memcpy copies that hold a value.                              *)
Copied(a) == {n \in 0 .. HEADER + CapacityOf(a) - 1 : Cell(array[a], n) \in DOMAIN memory}

(* The header that was copied, with its new capacity.                      *)
GrownHeader(a, n) == [Header(a) EXCEPT !.capacity = NewCapacity(a, n)]

Copy(a) ==
  LET to == op[a].to
      copy == [cell \in {Cell(to, n) : n \in Copied(a)} |->
                 memory[Cell(array[a], cell[2] - to[2])]]
  IN /\ op[a].at = "copy"
     /\ memory' = Over(HeaderAt(to, GrownHeader(a, op[a].n)), Over(copy, memory))
     /\ array' = [array EXCEPT ![a] = to]
     /\ At(a, "add", op[a].n)
     /\ UNCHANGED <<regions, end, expected>>

(* The elements are written at the end and counted.                        *)
Add(a) ==
  LET size == SizeOf(a)
      value(i) == <<a, i>>
      elements == [cell \in {Element(a, size + i) : i \in 0 .. op[a].n - 1} |->
                     value(cell[2] - array[a][2] - HEADER)]
  IN /\ op[a].at = "add"
     /\ memory' = WriteHeader(a, size + op[a].n, Over(elements, memory))
     /\ expected' = [expected EXCEPT ![a] = @ \o [i \in 1 .. op[a].n |-> value(size + i - 1)]]
     /\ op' = [op EXCEPT ![a] = Idle]
     /\ UNCHANGED <<regions, end, array>>

-----------------------------------------------------------------------------
(* Mutant: memmove moves one element less.                                 *)
FaultyPopFront(a) ==
  /\ op[a] = Idle /\ array[a] \notin {MADE, FREED} /\ SizeOf(a) > 0
  /\ memory' = WriteHeader(a, SizeOf(a) - 1,
                 Over([cell \in {Element(a, i) : i \in 0 .. SizeOf(a) - 3} |->
                         memory[Cell(cell, 1)]], memory))
  /\ expected' = [expected EXCEPT ![a] = Tail(@)]
  /\ UNCHANGED <<regions, end, array, op>>

PopFront(a) ==
  /\ op[a] = Idle /\ array[a] \notin {MADE, FREED} /\ SizeOf(a) > 0
  /\ memory' = WriteHeader(a, SizeOf(a) - 1,
                 Over([cell \in {Element(a, i) : i \in 0 .. SizeOf(a) - 2} |->
                         memory[Cell(cell, 1)]], memory))
  /\ expected' = [expected EXCEPT ![a] = Tail(@)]
  /\ UNCHANGED <<regions, end, array, op>>

(* array_resize to a size that is not larger, and array_clear.             *)
Shrink(a) ==
  /\ op[a] = Idle /\ array[a] \notin {MADE, FREED}
  /\ \E size \in 0 .. SizeOf(a) :
       /\ memory' = WriteHeader(a, size, memory)
       /\ expected' = [expected EXCEPT ![a] = SubSeq(@, 1, size)]
  /\ UNCHANGED <<regions, end, array, op>>

(* array_free; the arena takes nothing back.                               *)
ArrayFree(a) ==
  /\ op[a] = Idle /\ array[a] \notin {MADE, FREED}
  /\ array' = [array EXCEPT ![a] = FREED]
  /\ expected' = [expected EXCEPT ![a] = << >>]
  /\ UNCHANGED <<regions, end, memory, op>>

Crashed == \E a \in Arrays : op[a].at = "crashed"

Next ==
  /\ ~Crashed
  /\ \E a \in Arrays :
       Begin(a) \/ Create(a) \/ Grow(a) \/ Copy(a) \/ Add(a) \/ PopFront(a) \/ Shrink(a) \/ ArrayFree(a)

Spec == Init /\ [][Next]_arrayVars

-----------------------------------------------------------------------------
HasBlock(a) == array[a] \notin {MADE, FREED}
Block(a) == {Cell(array[a], n) : n \in 0 .. HEADER + CapacityOf(a) - 1}
Reserved(a) ==
  IF op[a].at = "copy"
  THEN {Cell(op[a].to, n) : n \in 0 .. HEADER + NewCapacity(a, op[a].n) - 1}
  ELSE {}
Cells(a) == Reserved(a) \cup IF HasBlock(a) THEN Block(a) ELSE {}

(* The shape of the state, that of the arena included.                     *)
TypeOK ==
  /\ RegionsOK
  /\ \A a \in Arrays :
       /\ HasBlock(a) => array[a] \in DOMAIN memory /\ Header(a).size \in 0 .. MaxSize
       /\ op[a].at \in {"idle", "create", "grow", "copy", "add", "thrown", "crashed"}
       /\ Len(expected[a]) \in 0 .. MaxSize

(* What an array holds is what was put into it, in that order, however     *)
(* often it and the others were moved (array.c:17).                        *)
ContentsKept ==
  \A a \in Arrays : HasBlock(a) =>
    /\ Header(a).size = Len(expected[a])
    /\ \A i \in 1 .. Len(expected[a]) : memory[Element(a, i - 1)] = expected[a][i]

(* No array reaches outside what the arena gave it, nor into another's     *)
(* block, the one that is being copied to included, and every block begins *)
(* on the alignment.                                                       *)
BlocksApart ==
  \A a \in Arrays :
    /\ \A cell \in Cells(a) : cell[2] < regions[cell[1]].count
    /\ \A b \in Arrays \ {a} : Cells(a) \cap Cells(b) = {}
    /\ HasBlock(a) => array[a][2] % ALIGNMENT = 0

(* When the elements are written there is room for all of them: growing    *)
(* has made enough of it, whatever was added at once.                      *)
RoomWhenWritten ==
  \A a \in Arrays :
    /\ HasBlock(a) => SizeOf(a) <= CapacityOf(a)
    /\ op[a].at = "add" => SizeOf(a) + op[a].n <= CapacityOf(a)
=============================================================================
