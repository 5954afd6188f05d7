----------------------------- MODULE StdAllocator -----------------------------
(***************************************************************************)
(* allocator_std.c: every block that was handed out is kept in a hash set, *)
(* so that std_allocator_fini can free what is left.  The set is an array  *)
(* that is probed in steps of PRIME2; a block that is removed leaves a     *)
(* tombstone.                                                              *)
(*                                                                         *)
(* A block is its address.  malloc, realloc, calloc and free are those of  *)
(* the C library: an address that was freed may be handed out again at     *)
(* once, to any thread.  One action is one critical section of the         *)
(* allocator's mutex, one call of the library, or one turn of the loop of  *)
(* a rehash, throughout which the mutex is held.                           *)
(***************************************************************************)
EXTENDS Integers, FiniteSets, FiniteSetsExt

CONSTANTS
  Threads,           \* the threads that use the allocator
  Address,           \* what malloc may return
  DEFAULT_CAPACITY,
  MaxCapacity        \* bound: no table is larger, as if calloc had failed

(* The mask of the code is a remainder, and its probing reaches every      *)
(* slot, because no odd number but 1 divides a capacity.                   *)
PowerOfTwo(c) == c \in Nat \ {0} /\ \A d \in 2 .. c : c % d = 0 => d % 2 = 0

ASSUME StdAllocatorAssumption ==
  /\ Address \subseteq Nat \ {0, 1}
  /\ PowerOfTwo(DEFAULT_CAPACITY)
  /\ MaxCapacity \in Nat

VARIABLES
  items,      \* the table: an address, NULL or TOMBSTONE in each slot
  size,
  deleted,
  old,        \* old_items while a rehash copies them
  next,       \* i of the rehash's loop
  heap,       \* the blocks of the C library that are not freed
  owned,      \* the blocks the program may use
  op,         \* where each thread is in an operation, and with which block
  failed,     \* history: calloc or realloc returned 0
  ended       \* std_allocator_fini ran

stdVars == <<items, size, deleted, old, next, heap, owned, op, failed, ended>>

NULL == 0
TOMBSTONE == 1
PRIME1 == 73
PRIME2 == 5009

Idle == [at |-> "idle", block |-> NULL]
At(state, block) == [at |-> state, block |-> block]

Table(capacity) == [slot \in 0 .. capacity - 1 |-> NULL]
Capacity(table) == Cardinality(DOMAIN table)
Blocks(table) == {table[slot] : slot \in DOMAIN table} \ {NULL, TOMBSTONE}

(* The n-th slot that is looked at for a block.  The capacity is a power   *)
(* of two, so that the mask is a remainder.                                *)
Slot(table, block, n) == (PRIME1 * block + n * PRIME2) % Capacity(table)

(* The slot where the search for a block stops, -1 if it goes on for ever. *)
Search(table, block, stops) ==
  LET found == {n \in DOMAIN table : table[Slot(table, block, n)] \in stops}
  IN IF found = {} THEN -1 ELSE Slot(table, block, Min(found))

Free(table, block) == Search(table, block, {NULL, TOMBSTONE, block})
Find(table, block) == Search(table, block, {NULL, block})

Init ==
  /\ items = Table(DEFAULT_CAPACITY)
  /\ size = 0
  /\ deleted = 0
  /\ old = Table(0)
  /\ next = 0
  /\ heap = {}
  /\ owned = {}
  /\ op = [t \in Threads |-> Idle]
  /\ failed = FALSE
  /\ ended = FALSE

(* Mutant: a table is grown when nothing but blocks fill it.               *)
FaultyFits(live, tombstones, capacity) == 4 * live < 3 * capacity

(* RESIZE_THRESHOLD is three quarters.                                     *)
Fits(live, tombstones, capacity) == 4 * (live + tombstones) < 3 * capacity

Step(t, state, block) == op' = [op EXCEPT ![t] = At(state, block)]

tableVars == <<items, size, deleted, old, next>>

(* A rehash holds the mutex from its first step to its last.               *)
Rehashing == \E t \in Threads : op[t].at = "rehash"

-----------------------------------------------------------------------------
(* std_allocator_allocate.                                                 *)
Malloc(t) ==
  /\ op[t] = Idle /\ ~ended
  /\ \E block \in Address \ heap :
       /\ heap' = heap \cup {block}
       /\ Step(t, "add", block)
  /\ UNCHANGED <<tableVars, owned, failed, ended>>

(* std_allocator_add, with the rehash it may start.  A block that is in    *)
(* the table already is not added, and one whose rehash fails has been     *)
(* added all the same; both are freed by the caller.                       *)
AddTwice(t, block) ==
  /\ items[Free(items, block)] = block
  /\ Step(t, "discard", block)
  /\ UNCHANGED <<tableVars, owned, failed>>

AddInPlace(t, block) ==
  /\ items[Free(items, block)] # block
  /\ Fits(size + 1, deleted, Capacity(items))
  /\ items' = [items EXCEPT ![Free(items, block)] = block]
  /\ size' = size + 1
  /\ owned' = owned \cup {block}
  /\ op' = [op EXCEPT ![t] = Idle]
  /\ UNCHANGED <<deleted, old, next, failed>>

AddAndRehash(t, block) ==
  /\ items[Free(items, block)] # block
  /\ ~Fits(size + 1, deleted, Capacity(items))
  /\ 2 * Capacity(items) <= MaxCapacity
  /\ old' = [items EXCEPT ![Free(items, block)] = block]
  /\ next' = 0
  /\ items' = Table(2 * Capacity(items))
  /\ size' = 0
  /\ deleted' = 0
  /\ Step(t, "rehash", block)
  /\ UNCHANGED <<owned, failed>>

AddAndFail(t, block) ==
  /\ items[Free(items, block)] # block
  /\ ~Fits(size + 1, deleted, Capacity(items))
  /\ items' = [items EXCEPT ![Free(items, block)] = block]
  /\ size' = size + 1
  /\ failed' = TRUE
  /\ Step(t, "discard", block)
  /\ UNCHANGED <<deleted, old, next, owned>>

Add(t) ==
  LET block == op[t].block
  IN /\ op[t].at = "add" /\ ~Rehashing
     /\ Free(items, block) # -1
     /\ \/ AddTwice(t, block)
        \/ AddInPlace(t, block)
        \/ AddAndRehash(t, block)
        \/ AddAndFail(t, block)
     /\ UNCHANGED <<heap, ended>>

(* Mutant: what the old table holds keeps the slot it had.                 *)
FaultyRehashSlot(t) ==
  /\ op[t].at = "rehash" /\ next < Capacity(old)
  /\ items' = [items EXCEPT ![next] = old[next]]
  /\ size' = size + 1
  /\ next' = next + 1
  /\ UNCHANGED <<deleted, old, heap, owned, op, failed, ended>>

(* One turn of the loop: a slot of the old table is added to the new one,  *)
(* an empty slot and a tombstone like a block, and counted.  The call asks *)
(* again whether to rehash; it never has to (RehashFits).                  *)
RehashSlot(t) ==
  LET slot == Free(items, old[next])
  IN /\ op[t].at = "rehash" /\ next < Capacity(old)
     /\ slot # -1
     /\ IF items[slot] = old[next] /\ old[next] \notin {NULL, TOMBSTONE}
        THEN UNCHANGED <<items, size>>
        ELSE /\ items' = [items EXCEPT ![slot] = old[next]]
             /\ size' = size + 1
     /\ next' = next + 1
     /\ UNCHANGED <<deleted, old, heap, owned, op, failed, ended>>

(* The old table is freed and std_allocator_add returns true.              *)
RehashDone(t) ==
  /\ op[t].at = "rehash" /\ next = Capacity(old)
  /\ old' = Table(0)
  /\ next' = 0
  /\ owned' = owned \cup {op[t].block}
  /\ op' = [op EXCEPT ![t] = Idle]
  /\ UNCHANGED <<items, size, deleted, heap, failed, ended>>

(* The free after an add that returned false.                              *)
Discard(t) ==
  /\ op[t].at = "discard"
  /\ heap' = heap \ {op[t].block}
  /\ op' = [op EXCEPT ![t] = Idle]
  /\ UNCHANGED <<tableVars, owned, failed, ended>>

-----------------------------------------------------------------------------
(* Mutant: a block is freed before it is removed from the table, and after.*)
FaultyGiveUp(t) ==
  /\ op[t] = Idle /\ ~ended
  /\ \E block \in owned :
       /\ owned' = owned \ {block}
       /\ heap' = heap \ {block}
       /\ Step(t, "remove_free", block)
  /\ UNCHANGED <<tableVars, failed, ended>>

(* std_allocator_deallocate and std_allocator_reallocate for a larger size *)
(* begin alike; the caller gives the block up.                             *)
GiveUp(t) ==
  /\ op[t] = Idle /\ ~ended
  /\ \E block \in owned, then \in {"remove_free", "remove_realloc"} :
       /\ owned' = owned \ {block}
       /\ Step(t, then, block)
  /\ UNCHANGED <<tableVars, heap, failed, ended>>

(* Mutant: the slot of a block that is removed becomes empty.              *)
FaultyErase(table, slot) == [table EXCEPT ![slot] = NULL]

Erase(table, slot) == [table EXCEPT ![slot] = TOMBSTONE]

(* std_allocator_remove; whether it found the block is not looked at.      *)
RemoveBlock(t) ==
  LET block == op[t].block
      slot == Find(items, block)
  IN /\ op[t].at \in {"remove_free", "remove_realloc"} /\ ~Rehashing
     /\ slot # -1
     /\ IF items[slot] = block
        THEN /\ items' = Erase(items, slot)
             /\ size' = size - 1
             /\ deleted' = deleted + 1
        ELSE UNCHANGED <<items, size, deleted>>
     /\ Step(t, IF op[t].at = "remove_free" THEN "free" ELSE "realloc", block)
     /\ UNCHANGED <<old, next, heap, owned, failed, ended>>

FreeBlock(t) ==
  /\ op[t].at = "free"
  /\ heap' = heap \ {op[t].block}
  /\ op' = [op EXCEPT ![t] = Idle]
  /\ UNCHANGED <<tableVars, owned, failed, ended>>

Realloc(t) ==
  /\ op[t].at = "realloc"
  /\ \/ \E block \in Address \ (heap \ {op[t].block}) :
          /\ heap' = (heap \ {op[t].block}) \cup {block}
          /\ Step(t, "add", block)
          /\ UNCHANGED failed
     \/ /\ failed' = TRUE
        /\ op' = [op EXCEPT ![t] = Idle]
        /\ UNCHANGED heap
  /\ UNCHANGED <<tableVars, owned, ended>>

(* std_allocator_fini, which its caller begins when no operation is left.  *)
Fini ==
  /\ ~ended
  /\ \A t \in Threads : op[t] = Idle
  /\ heap' = heap \ Blocks(items)
  /\ items' = [slot \in DOMAIN items |-> TOMBSTONE]
  /\ owned' = {}
  /\ ended' = TRUE
  /\ UNCHANGED <<size, deleted, old, next, op, failed>>

Next ==
  \/ \E t \in Threads :
       \/ Malloc(t) \/ Add(t) \/ RehashSlot(t) \/ RehashDone(t) \/ Discard(t)
       \/ GiveUp(t) \/ RemoveBlock(t) \/ FreeBlock(t) \/ Realloc(t)
  \/ Fini

Spec == Init /\ [][Next]_stdVars

-----------------------------------------------------------------------------
Removing == {"remove_free", "remove_realloc"}
Places == {"idle", "add", "rehash", "discard", "free", "realloc"} \cup Removing

IsTable(table) ==
  /\ Capacity(table) \in Nat
  /\ table \in [0 .. Capacity(table) - 1 -> Address \cup {NULL, TOMBSTONE}]

(* The shape of the state.                                                 *)
TypeOK ==
  /\ IsTable(items) /\ PowerOfTwo(Capacity(items)) /\ IsTable(old)
  /\ size \in Nat /\ deleted \in Nat /\ next \in 0 .. Capacity(old)
  /\ heap \subseteq Address /\ owned \subseteq heap
  /\ op \in [Threads -> [at : Places, block : Address \cup {NULL}]]
  /\ failed \in BOOLEAN /\ ended \in BOOLEAN

Held(places) == {op[t].block : t \in {u \in Threads : op[u].at \in places}}

(* A block has one user: the program, or one thread inside the allocator,  *)
(* though its address is free for malloc as soon as it is freed.  Whether  *)
(* the library's calls fail or not.                                        *)
OneUser ==
  /\ Held(Places \ {"idle"}) \subseteq heap \ owned
  /\ \A t, u \in Threads : t # u /\ op[t] # Idle => op[t].block # op[u].block

(* While no call failed, the table holds each block of the program once,   *)
(* so that std_allocator_fini frees all that is left and nothing twice.    *)
FiniIsExact ==
  ~failed =>
    /\ ~ended /\ ~Rehashing => Blocks(items) = owned \cup Held(Removing)
    /\ \A r, s \in DOMAIN items : r # s /\ items[r] = items[s] => items[r] \in {NULL, TOMBSTONE}
    /\ heap = owned \cup Held(Places \ {"idle"})

(* Whenever the mutex is free, std_allocator_remove would find every block *)
(* of the program, whatever was removed or moved since it was added        *)
(* between the block and the slot its search begins at.                    *)
EveryBlockFound ==
  ~ended /\ ~Rehashing =>
    \A block \in owned \cup Held(Removing) :
      Find(items, block) # -1 /\ items[Find(items, block)] = block

Filled(table) == {slot \in DOMAIN table : table[slot] # NULL}

(* The counts that decide when the table grows do not fall behind what     *)
(* fills it, and leave an empty slot while no calloc failed.               *)
LoadBounded ==
  ~ended =>
    /\ Cardinality(Filled(items)) <= size + deleted
    /\ ~failed => size + deleted < Capacity(items)

(* The adds of a rehash do not begin another one: "This cannot fail since  *)
(* the capacity is strictly greater" (allocator_std.c:89).                 *)
RehashFits ==
  Rehashing => size <= next /\ deleted = 0 /\ Capacity(items) = 2 * Capacity(old)
               /\ (next < Capacity(old) => Fits(size + 1, deleted, Capacity(items)))

(* While no calloc failed every search ends, for a block that is in the    *)
(* table and for one that is not.                                          *)
SearchesEnd ==
  ~failed /\ ~ended =>
    \A block \in Address \cup {NULL, TOMBSTONE} :
      Free(items, block) # -1 /\ Find(items, block) # -1

(* The table: its shape, its load, and that its searches end.              *)
TableInv == TypeOK /\ LoadBounded /\ RehashFits /\ SearchesEnd
=============================================================================
