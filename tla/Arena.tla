-------------------------------- MODULE Arena --------------------------------
(***************************************************************************)
(* allocator_arena.c: memory is handed out from the front of a region, and *)
(* from a new region when the last one is full; nothing is taken back      *)
(* before arena_allocator_fini.  The arena's mutex is held throughout an   *)
(* allocation, and a region's mutex only under it, so that an allocation   *)
(* is one step.                                                            *)
(*                                                                         *)
(* An address is a region and an offset in its data.  The unit is what the *)
(* instance makes of it: ALIGNMENT is ARENA_DEFAULT_ALIGNMENT and CAPACITY *)
(* is ARENA_DEFAULT_CAPACITY in that unit.  Sizes that do not fit in a     *)
(* Size are out of a program's reach and left out.                         *)
(***************************************************************************)
EXTENDS Integers, Sequences

CONSTANTS
  ALIGNMENT,
  CAPACITY,
  MaxRegions   \* bound: malloc fails for one region more

ASSUME ArenaAssumption ==
  /\ ALIGNMENT \in Nat \ {0}
  /\ CAPACITY \in Nat \ {0} /\ CAPACITY % ALIGNMENT = 0
  /\ MaxRegions \in Nat \ {0}

VARIABLES
  regions,     \* the count and the capacity of each region, in the order of the list
  end          \* the region the next allocation begins its search at

arenaVars == <<regions, end>>

Null == <<0, 0>>

Region(count, capacity) == [count |-> count, capacity |-> capacity]

(* The mask with the negated power of two.                                 *)
RoundUp(size, unit) == ((size + unit - 1) \div unit) * unit

ArenaInit ==
  /\ regions = <<Region(0, CAPACITY)>>
  /\ end = 1

(* Mutant: a region that is not full has room.                             *)
FaultyFits(r, size) == regions[r].count < regions[r].capacity

Fits(r, size) == regions[r].count + size <= regions[r].capacity

(* The first region from end on that has room, or the last one.            *)
Found(size) ==
  CHOOSE r \in end .. Len(regions) :
    /\ Fits(r, size) \/ r = Len(regions)
    /\ \A q \in end .. r - 1 : ~Fits(q, size)

(* What an allocation may return: where a region's free space begins.      *)
Fronts ==
  {<<r, regions[r].count>> : r \in 1 .. Len(regions)} \cup {<<Len(regions) + 1, 0>>, Null}

(* arena_allocator_allocate of a size that is rounded: where there is      *)
(* room, in a new region, or not at all.                                   *)
AllocateIn(r, size, address) ==
  /\ Fits(r, size)
  /\ address = <<r, regions[r].count>>
  /\ regions' = [regions EXCEPT ![r].count = @ + size]
  /\ end' = r

AllocateNew(r, size, address) ==
  /\ ~Fits(r, size)
  /\ Len(regions) < MaxRegions
  /\ address = <<Len(regions) + 1, 0>>
  /\ regions' = Append(regions, Region(size, RoundUp(size, CAPACITY)))
  /\ end' = Len(regions) + 1

AllocateFails(r, size, address) ==
  /\ ~Fits(r, size)
  /\ Len(regions) >= MaxRegions
  /\ address = Null
  /\ end' = r
  /\ UNCHANGED regions

(* Mutant: the size is taken as it is.                                     *)
FaultyRounded(size) == size

Rounded(size) == RoundUp(size, ALIGNMENT)

Allocate(bytes, address) ==
  LET size == Rounded(bytes)
      r == Found(size)
  IN AllocateIn(r, size, address) \/ AllocateNew(r, size, address) \/ AllocateFails(r, size, address)

(* No region has handed out more than it has, what it has left begins on   *)
(* the alignment, and a search begins at the last region, so that the loop *)
(* that follows the list (allocator_arena.c:124) never takes a second turn.*)
RegionsOK ==
  /\ end = Len(regions)
  /\ \A r \in 1 .. Len(regions) :
       /\ regions[r].count \in 0 .. regions[r].capacity
       /\ regions[r].count % ALIGNMENT = 0
       /\ regions[r].capacity % CAPACITY = 0
=============================================================================
