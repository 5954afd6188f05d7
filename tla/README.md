# A verification development of Codin

Codin (`src/`) is an Odin-to-C compiler in C11. It parses the files of a program on a pool of
threads, reads the results on the main thread, and dumps the syntax trees or emits C99. This
directory holds TLA+ models of its parts, the TLC configurations that check them, and theorems
about them that TLAPS checks. `PROJECT.json` gives, for every definition that models code, the
lines it stands for; it also lists the runs, the mutants, the hazards and the findings.

Paths below are relative to `src/src/` unless they say otherwise.

## 1. The system

| Component | Files | State | Operations | What makes it correct | Modelled in |
|---|---|---|---|---|---|
| thread pool | `threadpool.c` | a stack of jobs and `quit`, under a mutex with a condition variable; the threads | `threadpool_init`, `_queue`, `_fini`, the worker loop | each job runs and is freed once; no thread sleeps beside work; the shutdown drains the stack and ends | `ThreadPool` |
| thread primitives | `thread.c` | mutexes, condition variables, threads | lock, wait, signal, broadcast, create, join | as in POSIX, spurious wakeups included | in `ThreadPool`, `SchedAsync` |
| asynchronous scheduler | `sched_async.c` | `count`, under a second mutex with a condition variable | init, queue, the work function, wait, fini | `count` is exact; wait returns only when nothing is left | `SchedAsync` |
| synchronous scheduler | `sched_sync.c` | an array of works | the same | the same | `SchedSync` |
| scheduler interface | `sched.c`, `sched.h`, `sched_null.c` | the selected operations | `sched_init`, `_queue`, `_wait`, `_fini` | whichever is selected keeps one promise | `Scheduler` |
| build driver | `build.c`, `main.c` | `build->work`, the collections, the exit status | add a package, list it, queue its files; parse a file and add its imports; verdict; output; `build_fini` | every file once, none missing, an honest status, an end | `Build` |
| project | `project.c` | the packages and their trees, each under a mutex | check and insert a package, add a tree | no package twice | `Build` |
| paths | `path.c` | none | listing, canonical pathname | nothing is assumed of a failed call | `Build`, by its answers |
| context | `context.c` | allocator, profiler and jump buffer of a thread | init, fini, `THROW` | every jump lands, and what it skips is not needed | the landing, in the schedulers and `Build` |
| allocators | `allocator*.c` | the arena's regions; the standard allocator's hash set of blocks | allocate, reallocate, deallocate, fini | blocks do not overlap; each is freed once | `StdAllocator`, `Arena` |
| arrays | `array.c`, `array.h` | capacity and size before the first element | push, expand, resize, pop, clear, free | no element outside the block | `DynamicArray` |
| profiler | `profiler*.c` | a shared file with a count of its users, a buffer per thread | init, fini, enter, leave | opened and closed once around all its uses | `ProfiledPool`, without enter and leave |
| lexer | `lexer.c`, `lexemes.h` | the input, the queue of peeked tokens, the last token | next, peek, the inserted semicolons | the token sequence does not depend on peeking; the longest operator; a newline is a token where it ends a statement | `Lexer` |
| parser | `parser.c` | two tokens, the depth of nesting, three permissions | one procedure per construct | precedence; brackets match; what a procedure sets it takes back; each file is accepted or rejected | `TokenReader`, `ParserMachine`, `ParseTypes`, `ParseExpressions`, `ParseStatements`, `Parser`; in `Build` by its outcomes |
| semantic analysis, emitter | `sema.c`, `c99.c` | tables of globals and locals, the indentation | collect globals, three passes of emission | each declaration written once; declared before used; a name has the type C gives it | `Sema`, `C99`; in `Build` by their outcome |
| intermediate representation | `ir.c` | none | `ir_lower_range_for` | only loops over a range are lowered | `Sema` |
| strings, diagnostics | `string.c`, `strbuf.c`, `report.c` | an array of bytes | put a byte, rune, string, number, format | what is put can be read back | not modelled |
| tree, dump, utility, support, vendor | | none of their own | constructors, a printer, macros, third-party code | | not modelled |
| experimental passes | `src/tools/`, `src/scripts/` | | scripts that patch a copy of `c99.c` | | not modelled |

How they interact. `main.c` calls `build_init`, which makes a scheduler of kind "async" with
a pool of 16 threads. `build_add_package` runs on the main thread and queues one work per file;
each work runs `build_worker` on a pool thread, parses its file and may add further packages,
which queue further works. A work that meets a syntax error leaves by `THROW` (longjmp) to the
setjmp in the scheduler's work function. `build_wait` blocks the main thread until the
scheduler's count is zero. Then `main.c` reads `work->error` of every work and the trees, whose
memory belongs to the pool threads' contexts, and `build_fini` frees the trees and ends the
threads.

On its thread a work runs the lexer under the parser, one token at a time and one ahead; on the
main thread `c99_emit_build` goes over the trees of all files three times with the tables of
`sema.c`.

The hard part of what is concurrent is in four places: the two mutexes of scheduler and pool, which
are never held together, so that a work is counted, pushed, run and discounted in steps that
interleave; works that add works while the owner waits; packages that import each other at the same
time; and errors, which return by a jump past the code that would record them. What is sequential
is hard where much code shares a little state: the queue of peeked tokens, the five fields by which
the parser's functions tell each other how to go on, the table of locals. `PROJECT.json` lists the
hazards line by line, with the properties that would catch each, or why there are none.

## 2. The modules

| Module | Models | Composes |
|---|---|---|
| `ThreadPool` | `threadpool.c` over `thread.c` | |
| `ProfiledPool` | `profiler_spall.c`, `context.c` in each thread of the pool and in main | extends `ThreadPool` |
| `Scheduler` | the promise of `sched.h` (abstract) | |
| `SchedAsync` | `sched_async.c` | extends `ThreadPool`; refines `Scheduler` |
| `SchedSync` | `sched_sync.c` | refines `Scheduler` |
| `SelectedSched` | `sched.c` | extends `SchedAsync`, an instance of `SchedSync`; refines `Scheduler` |
| `Build` | `main.c`, `build.c`, `project.c` | an instance of `Scheduler` |
| `Lexemes` | the tables of `lexemes.h` | |
| `Lexer` | `lexer.c` | extends `Lexemes` |
| `TokenReader` | the lexer's interface as the parser uses it | extends `Lexemes` |
| `ParserMachine` | how the functions of `parser.c` call, test, expect and throw | extends `TokenReader` |
| `ParseTypes`, `ParseExpressions`, `ParseStatements` | the parse functions, by what they parse | extend `ParserMachine` |
| `Parser` | `parse` | extends the three |
| `Sema` | `sema.c`, `ir.c` | |
| `C99` | `c99.c` | extends `Sema` |
| `StdAllocator` | `allocator_std.c` | |
| `Arena` | `allocator_arena.c` | |
| `DynamicArray` | `array.c`, `array.h` | extends `Arena` |
| `ThreadPoolProofs` | theorems about `ThreadPool`, `ProfiledPool` and `SchedAsync` | extends the three |
| `SchedSyncProofs`, `BuildProofs`, `LexerProofs`, `ParserProofs`, `C99Proofs`, `StdAllocatorProofs`, `DynamicArrayProofs` | theorems about the modules they are named for | |
| `MC...` | small instances for TLC | |

**ThreadPool.** One action is one critical section of the pool's mutex: `Wait`, `Take` and
`Leave` are the three ways through the top of `threadpool_worker`'s loop, `Queue`, `Shutdown`
the sections of `threadpool_queue` and `threadpool_fini`. A thread in `cond_wait` is in `pc`
state "waiting"; `CondSignal` moves one of them to "ready", `CondBroadcast` all, and
`SpuriousWakeup` any. A ready thread contends for the mutex; the order in which it gets it is
open. `FunctionReturn`, `Dispose`, `ThreadExit` are what a thread does outside the mutex. The
stack is last-in first-out: a thread takes the last element and shrinks the size (threadpool.c:33).
`submitted`, `calls` and `frees` are history.

**ProfiledPool.** Each thread of the pool, and main as thread 0, has a profiler in its context.
`spall_shared_init` and `spall_shared_fini` are the two sections of the spinlock of `g_spall`,
`spall_buffer_init` and `spall_buffer_quit` the work on the thread's own buffer between them. The
pool's actions wait for the profiler: a thread enters `threadpool_worker`'s loop when its context
is set up, and `threadpool_fini` joins it after its context is gone. The file may fail to open
(`file` is then "failed"), in which case `spall.h` drops what is written. `written` is the history
of whose events are in the file.

**SchedAsync.** The pool's actions, with the scheduler's `count`, the place `at` of each thread
inside `_sched_async_work_func`, and the work each client has counted but not yet pushed
(`hand`): `QueueCount` and `QueuePush` are two actions because `sched_async_queue` releases its
mutex before it calls `threadpool_queue`. Client 0 is the main thread, which follows `main.c`
through `main`. A function that returns and one that leaves by `THROW` are the same action,
`FuncReturn`, since both go on at the same line.

**Scheduler** has two variables: how far each item is (new, queued, running, ran, disposed) and
how far its owner is. `SchedAsync` and `SchedSync` map their state to it (`ItemState`,
`OwnerState`); the mapping is the definition `Sched`.

**SchedSync.** One thread; the loop indices and the array's size are the state. A work may queue
works while the first loop runs over the array.

**SelectedSched.** `operations` is what `sched_init` selected; the operations of that scheduler are
the steps, and the other keeps its initial state. The map to `Scheduler` is that of the selected
one (`Promise`). `sched_null` is left out: its operations do nothing.

**Build.** A work is its index in `build->work`; caller 0 is the main thread, caller w the thread
that runs work w. `AddPackage` is `build_add_package_internal` up to its loop, with one disjunct
for each outcome: the package is there (`OldPackage`), is inserted and listed (`NewPackage`), or
is inserted and cannot be listed (`MissingPackage`). `AddWork` and `QueueWork` are the loop's
body. `Parsed` chooses what the file turns out to contain; `ParseWell`, `ParseMisplaced`,
`ParseThrows` and `ParseEmpty` are `build_worker` up to the imports. Undefined behaviour has the
outcomes the build can show: reading the size of a null array or the first element of an empty
one ends the program (the address is eight bytes below zero, or a tag); a statement that is read
as a package declaration though it is none either ends it or goes on. The same holds of the
output: the tree of a procedure without results has a null array of them, and `dump_ast` and
the emitter read its size ("null results"). `exit` tells how the program ended. The scheduler's
part is an instance of `Scheduler`, which the two schedulers are shown to implement.

**Lexer.** A source is a sequence of runes and a position an index in it. `Tokenize` is
`lexer_tokenize`: from a position and `asi` it gives the token, with where it begins and ends, or
`ERROR` for a `LEX_ERROR`. The nested switches on punctuation become one set of cases (`Switch`),
of which the longest that the input begins with applies (`Longest`), since the cases are closed
under prefixes. `LexerNextQueued`, `LexerNextScanned` and
`LexerPeek` are the two interface procedures, `RawNext` the update of `asi` they share;
`delivered` and `result` are history. Keywords, named operators and directives are constants,
so that one letter can stand for each. UTF-8, the byte 0, the byte-order mark and the locations
are left out.

**Parser.** A parse function is an action that replaces its call, at the head of the stack, by a
sequence of tasks: another call, a token that is expected, accepted or tested for, a field that is
set, a node that is made. `ParserMachine` says what each kind of task does; the three modules of
functions then read like the grammar, with the order of the code kept. A task `Leave` at the end
of each function remembers the fields of `Parser` at its entry. `Throw` is a `PARSE_ERROR`; a null
expression that is looked into, a null statement, and the error report at parser.c:1358 whose
arguments are not those of its format are outcomes of their own, from which the program does not
come back. `value` is the node last returned, as far as the parser reads it: its kind, its
operator, whether it is a name, whether it is in parentheses or after a directive such as
`#partial`, which takes all of the expression that follows. `TokenReader` is `lexer_next` and
`lexer_peek` with the queue of peeked tokens (`peekp` reads the one that was last in the queue,
as `Lexer` has it), over any stream of tokens `lexer.c` can give: an identifier may be followed by
a newline that is a token, a comma may not. `brackets` and `lenient` are history.

**Sema and C99.** `Sema` holds the two tables, `sema_lookup` and `sema_infer_expression`, which
like the emitter of an expression are functions on the expressions of what is built (`Expression`,
closed under what an expression has inside); `C99` has one action per declaration of a pass, per
statement and per end of what a statement opens. The stack keeps what is still to be written. The
statements of a body are chosen from `build.body` when the emitter comes to them, which gives
every body within the budget. `out` is what was written at the top of the text, `visible` is what
C would see at this point, `leaked` the names of closed blocks and of parameters the table had no
room for, `undeclared` the uses of globals C did not know yet: all history. Each `unsupported` of
the code is the outcome "refused", a null array or a null body that is read "crashed".

**StdAllocator.** The table is a function from slots; a search is the first of the slots
`Slot(table, block, n)` where it may stop (`Search`), -1 if there is none and the code goes round
for ever. `Add` is the beginning of the critical section of `std_allocator_add` with its four
outcomes; a rehash goes on with one `RehashSlot` for each turn of the loop, which adds a slot of
the old table (`old`) to the new one, empty ones and tombstones too, and ends with `RehashDone`;
until then the mutex is held (`Rehashing`). `Malloc`, `Discard`, `FreeBlock`, `Realloc` are the
calls of the C library between the sections: an address is free for another thread from that step
on. After a `calloc` that failed a block stays in the table though its caller frees it. That a
block has one user and is found holds then too; that `std_allocator_fini` frees each block once,
and that every search ends, is stated while no call failed (`failed`), since the code does not
keep it.

**Arena and DynamicArray.** An allocation is one step, because the arena's mutex is held
throughout. Memory is kept cell by cell (`Over` writes a run of cells, `WriteHeader` a header); an
array's header is the value of its first cell, and `Fronts` is what an allocation may return. An
operation that needs room goes through `Begin`, `Create`, `Grow`, `Copy` and `Add`; the threads of
other arrays allocate in between. `expected` is the history the memory is compared with. An arena
without memory makes `Create` throw and `Grow` crash, since `arena_allocator_reallocate` copies to
the null it got.

The `Faulty...` definitions are mutants: each changes one definition as a plausible mistake in
the code would, and shows that a property can fail.

## 3. The runs

| Run | Instance | States | Shows |
|---|---|---|---|
| `thread_pool` | 3 threads and main, 4 jobs | 202 989 | `ExactlyOnce`, `WorkCovered`, `DestroyedQuiet`, the invariant `ProfiledInv` of the shared file and the liveness properties `JobsRun` and `ShutdownCompletes`, with jobs queued by the owner and by running jobs, spurious wakeups, a shutdown at any time and profilers that start and end in any order, whose file opens or does not |
| `sched` | either scheduler, 3 threads, 4 works | 86 334 | `CountIsOutstanding`, `WaitMeansDone`, the invariant `AsyncInv`, `SyncWaitMeansDone`, and `PromiseKept`: `Scheduler`'s steps and its fairness |
| `build` | 3 packages in 2 kinds of cycle, 4 files that are accepted and 3 that are not, 3 to 5 contents per file | 180 289 | `PathsOnce`, `BuildIsComplete`, `BuildErrorsFail`, `Terminates` and the invariant `BuildInv` |
| `lexer` | 7 293 sources: all strings over four alphabets of 6 to 13 runes, of length 3 or 4; up to 3 tokens ahead | 145 336 | `PeekInvisible`, `NewlinesSeparate`, `TokensInv`, `Progress`, `LongestMatch`, `RangeKept` |
| `parser` | 39 beginnings of files, each continued by every sequence of 3 to 6 tokens over an alphabet of its own | 654 741 | `ParserInv`, `StatementsFresh`, `PrecedenceKept`, `BracketsMatched`, `AbsentOnlyInTypes`, `PeekedIsNext`, `Terminates` |
| `c99` | all orders of 5 declarations, 9 odd declarations, bodies of 3 to 5 statements | 53 117 | `EmitterInv`, `DeclaredBeforeBodies`, `TypesAsVisible` |
| `std_allocator` | 2 threads, 3 addresses of which two begin in one slot, a table of 4 slots | 103 326 | `OneUser`, `FiniIsExact`, `EveryBlockFound`, `TableInv` |
| `dynamic_array` | 2 arrays of up to 3 elements, 2 regions of 8 units | 243 432 | `TypeOK`, `ContentsKept`, `BlocksApart`, `RoomWhenWritten` |
| `build_status`, `parser_in`, `c99_scope`, `lexer_assignment` | the instances of `build`, `c99` and `lexer`; one beginning of a file | | the findings of section 6 |

Why the bounds are enough. Three threads are the least with which one thread sleeps, one is
signalled and one takes the job the signal was for; with four jobs a running job can queue two
others while another is still queued. With four works a scheduled work can queue
two others while the owner waits for a fourth. Both runs check liveness, so neither declares
a symmetry set. In `Build` two files of one package import two packages in opposite order, and the
packages import each other and the root, so that every pair of importers races. `MaxWorks` is the
number of files that can be reached: the bound cuts nothing off while no file is a work twice.
In `Lexer` no operator is longer than three runes, and a comment or continuation between two tokens
and a newline fits in four; `MaxPeek` is 3, since one comment ahead makes `peekp` call `lexer_peek`
three times (the comment is scanned, then returned from the queue, then the token is), and a fourth
call differs from the third in nothing but how many tokens are queued. What `lexer_peek` itself
returns is the business of `PeekedIsNext` in `Parser`, where `peekp` calls it as often as the code
does: three scenarios have comments where the parser looks ahead, at one place twice for one token.
In `Parser` a scenario's prefix leads to one family of constructs and its alphabet holds
the tokens on which that family branches, with the brackets that nest them; the budget counts the
tokens after the prefix, newlines and the end of the file not among them, and a gap of up to two
lines before a token is what the look ahead for `else` and the attached brace distinguish. Two
operators of different precedence, a ternary and a parenthesis fit in five tokens. `C99` has
tables of 5 symbols for the 256 of `sema.h`, so that a body of five statements fills the one of
the locals beside a parameter, and six declarations or parameters overfill a table; five
statements nest a loop in a block in a clause. The allocator's table starts with 4 slots instead
of 4096 and grows twice: the first rehash carries tombstones and collisions over, and the second
begins with the count the first one inflated. An array of three elements grows three times, beyond
a region of eight units, which two arrays share. The counters `calls` and `frees` are bounded by
the number of jobs, `count` by that of works.

Deadlock is checked for the pool, the schedulers and the driver, where the end of the program is a
named stuttering step. It is not for the rest, which end: the runs on memory with an allocation
that failed, the lexer's with the end of the file or a `THROW`, the parser's and the emitter's
with an outcome. That the parser reaches one is `Terminates`.

The models of the lexer, the parser and the emitter were also compared with the built program, by
scripts that are not kept here: sources drawn from what TLC goes through, and others that are
longer, were written out, and the tokens, the acceptance, the refusals and the types of the locals
that the program shows for them are those of the models.

Fairness. Weak fairness of each thread's step (`PoolThread`, `ProfilerStep`, `MainThread`,
`WorkerStep`, `MainStep`) and of the parser's, which is alone on its thread (`Next`): the
operating system runs every thread that can run, and no thread's step is disabled by another
thread forever without being taken, since a mutex is held for a bounded time and is not a
variable of the models. Nothing is assumed of the order in which a mutex or a signal is granted,
of how often a condition variable wakes up by itself, or of when a job is queued or the pool shut
down. A function that a job calls is assumed to return; for `build_worker` that is what `Progress`
of the lexer and `Terminates` of the parser say within their bounds.

## 4. The theorems

For every number of threads and every set of jobs (`PoolAssumption`: at least one thread, and a
value that is no job):

* `ThreadPoolProofs`: `PoolCorrect`, `JobsExactlyOnce`, `FiniIsQuiet`, `NoJobSleptThrough`. The
  inductive invariant is `PoolInv`. `ExactlyOnce` is not inductive: that a job is not called twice
  needs that the stack holds it once and holds only jobs that have not been called (`StackOK`),
  that a thread holds its job alone (`HeldOK`), and that a job which has been called but not freed
  is in some thread's hands (`JobsOK`). That nothing is left when the primitives are destroyed
  needs `ExitOK`: the last thread to leave saw the stack empty, and only a running job could have
  refilled it. `WorkCovered` is inductive by itself over the types; its proof counts the ready
  threads. The steps are proved for `PoolAction`, in which the caller may be anybody who queues a
  new job while the pool is up, so that the scheduler can use the same lemma.
  With the profiler around the pool (`ProfiledCorrect`, `ProfiledImplementsPool`) the count is the
  number of threads that are counted, by the library's facts on cardinality; that the file stays
  open needs that main counts itself in before the first thread of the pool begins and out after
  the last one is joined (`ProfiledInv`), so the count is never zero in between and nothing a
  thread wrote is dropped. Every step is a step of `ThreadPool` or leaves its variables alone, so
  the theorems on the pool hold of it.
  With the asynchronous scheduler on the pool (`AsyncCorrect`, `CountIsExact`, `WaitIsComplete`,
  `WorksExactlyOnce`, `AsyncRefines`) each step is a pool action (`StepIsPoolAction`), so
  `PoolInv` carries over. `AsyncInv` adds where each work can be (`PlaceOK`, `HandOK`,
  `DisposedOK`), what main knows where it is (`MainOK`), and the count. `StepCases` says that a
  step moves one work or none; `OutstandingStep`, that the set of unfinished works changes by one
  element exactly where `count` does; the library's facts on cardinality do the rest.
  `AsyncRefines` proves `Scheduler`'s initial condition and steps under the mapping.
* `BuildProofs`: `BuildInvariant`, `NothingTwice`, `BuildComplete`, `BuildErrorsCount`, for every
  source tree, whatever its files contain and import, and every order of the works
  (`BuildAssumption` types the constants and asks no more of them than that a file's name ends in
  one of the endings that `accepted_file` tells apart). The inductive invariant is `BuildInv`,
  whose parts say where a file, a work or an import can be on its way: `FilesOK` and `WorksOK`,
  that a wanted file of a package is in one caller's loop or is a work, not both (from which
  `PathsOnce` follows for the works); `HandOK`, that a work the scheduler does not know is in the
  hand of its adder, who is still running; `ImportsOK`, that an import the worker has passed is a
  package; `ReachedOK`, that nothing is a package which the root does not lead to, because a set
  of pathnames that is closed under the imports after a step was closed before it
  (`ClosedBefore`); `ErrorOK`, that every `BUILD_ERROR` is in the verdict; `MainOK`, where main and
  the scheduler's owner can be together. `BuildComplete` then reads off that with every work
  disposed of no hand, loop or import is left. The scheduler is `Scheduler`'s promise, which
  `AsyncRefines` proves of the asynchronous one. `MaxWorks` is a parameter of these theorems too:
  a build that would need more works stops in the model and never reaches the scan, so for each
  tree they speak of the builds that fit, and any number will do.

* `SchedSyncProofs`: `SyncCorrect`, `SyncWaitIsComplete`, `SyncRefines`, for every set of works.
  `SyncInv` says by where the two loops of `sched_sync_wait` are which elements of the array have
  run and been disposed of, while works that run append to it; no work is in the array twice.
* `StdAllocatorProofs`: `StdCorrect`, `StdOneUser`, `StdFiniIsExact`, `StdEveryBlockFound`,
  `StdTable`, for any threads, any addresses and any power of two as capacity. The inductive
  invariant is `StdInv`. `EveryBlockFound` is not inductive: it needs that a search passes nothing
  where it would stop on its way to any block (`ReachInv`), and while a rehash is under way nothing
  that may be overwritten either, since the loop adds the empty slots too; and that each block is
  in the new table or in the part of the old one that is still to be moved, once (`StoredInv`,
  `OnceInv`). `TableInv` needs that the counts are at least those of the slots (`LoadInv`), so that
  a slot is free, and that the stride reaches it: no odd number above 1 divides a power of two, so
  probes in steps of PRIME2, which is odd, are distinct until they have been everywhere. Where an
  induction would be used, the proofs take a least element of a set of natural numbers.
* `DynamicArrayProofs`: `DynCorrect`, `DynShape`, `DynContents`, `DynBlocksApart`, `DynRoom`, for
  any number of arrays, any size of a region and of a header. `DynInv` says of every array where
  its block is, in which region and with which header, and how far its operation has come; a block
  that is still being copied to counts as a second one of the same array. `ContentsKept` is not
  inductive without `BlocksApart`, and neither without what the arena has given out. One array's
  step leaves the others alone (`OtherKept`), which turns each step into one about a single array.
* `LexerProofs`: `LexCorrect`, `LexPeek`, `LexNewlines`, `LexTokens`, `LexProgress`, `LexRange`,
  `LexLongest`, for every source of ASCII runes that is not empty (`lexer_init` refuses an empty
  one, lexer.c:322), every table of keywords and directives, and however far the parser looks
  ahead. `TokenizeFacts` says what one call of `lexer_tokenize` gives: a token after blanks only,
  that takes a rune of its own, spelled as the tables have it. For literals and block comments,
  whose end the model finds by recursion, `RecursionExists` shows that such a function exists and
  `RecursionBound` that it does not go back, by a least counterexample. `LexInv` adds that what was
  delivered and what is queued is one chain of such calls (`Chain`), from which the order and the
  independence of the look ahead follow, as `Stream` is the only function that fits it; that the
  last answer of `lexer_peek` is in the queue (`Peeked`); and for `Progress` that a token which
  takes no rune is a newline at the end of the source, after which newlines count no more
  (`Spent`).

* `ParserProofs`: `StackLeadsToEnd`, `FieldsRestored`, `StatementsAtDepth0`,
  `OperandsBindTighter`, `BracketsClosed`, `AbsentInTypes`, for every file: every set of scenarios
  of tokens with any alphabet and any budget (`ScenarioAssumption` types them, and asks that the
  beginning is one the lexer can give). None of the properties is inductive, because what the
  parser will do depends on the whole stack, which no bound limits. The invariant `IInv` therefore
  says what the stack is good for: `Holds(stack, {Current}, Final)`, that it leads from the present
  state to the end of the file with no bracket open (`StackInv`). A state is what the stack can
  depend on: the fields, the node, the token, the open brackets, and whether a loop is being left.
  `Holds(l, A, B)` is a logic of programs in the manner of Hoare. It says of a list of tasks `l`
  that it never meets what it cannot work with from any state of `A` and ends in a state of `B`,
  and it is defined as membership of a set of such triples that is closed under the rule of each
  kind of task (`Valid`), so that loops and calls need no induction. Each parse function has a
  contract: `Pre` is what it relies on (the depth a statement has, the operand an operator is
  given, the bracket to be closed), `Results`, `Ends` and `OpenAfter` are the node, the token and
  the brackets it leaves, and it leaves the fields as they were. The proof has two
  halves: each action of `ParserMachine` takes a stack that holds to one that does (`MachineInv`),
  and for each of the parse functions the tasks it puts on the stack meet its contract, given those
  of the functions it calls, itself included. The properties are then read off the task at the head
  of the stack. Precedence climbing needs of `operators` that the node so far binds at least as
  tightly as the precedence asked for and that what it stops at binds less (`Stops`); the brackets,
  that a function that closes one it did not open (`Closers`) finds that one last.
* `C99Proofs`: `C99Correct`, `DeclaredFirst`, `LocalsAsVisible`, `Emitted`, for every build, every
  order of its declarations and every capacity of the tables (`CapacityAssumption`; and
  `ScenarioAssumption`, `ExpressionAssumption` for the shape of builds and expressions). The
  inductive invariant `C99Inv` says how far the pass is (`OrderInv`), what the table of globals
  holds (`GlobalsInv`), and that what was written is exactly what belongs to the passes and
  declarations behind it (`OutInv`), from which `EmitterInv` and `DeclaredBeforeBodies` follow.
  `TypesAsVisible` is not inductive: when a loop ends, the locals go back to what they were when it
  began, so the end of a loop that waits on the stack must remember a table that agrees with what C
  saw then, but for the names that had leaked by then, and the ends inside it must remember no less
  (`ScopeInv`). That the braces balance is a count over the stack (`DepthInv`): there is a function
  that counts, from below, the tasks that close one, and ends in `depth`.

TLAPS proves safety: every invariant that a passing run checks is stated by a theorem, except
`PeekedIsNext`, which is model-checked only: `IInv` says nothing of the queue of peeked tokens.
`JobsRun`, `ShutdownCompletes`, the two `Terminates` and the fairness of the two refinements are
model-checked only too, since liveness under fairness is not for this prover. That the model's recursive functions
compute what the code computes is not proved either: the types of expressions, the names in them,
and the ends of comments and literals enter the theorems as functions of which only what their
definitions say at once is used.

## 5. What is left out

Not modelled, of what has a state: allocation failure (`THROW(ERROR_OOM)`, on worker threads with a
mutex held, on the main thread without a setjmp), which is on the list of hazards; in the
allocators the calls of the C library may fail, but what the callers make of it is left out. The
failure of an operating system call in `thread.c`, which aborts, and Windows. The events a thread
puts into its profiler's buffer, which no line of the program reads again. `WaitGroup` and
`sched_null`, which nothing uses. `strbuf.c` and `report.c`: a buffer that is written and printed,
where all that could be said is about text (strbuf.c:67 copies the terminator
with the digits).

Of the lexer UTF-8, the byte 0, the byte-order mark and the locations; of the parser the flags of
blocks and calling conventions, which it passes on, and recursion too deep for the stack; of the
emitter the text, except for what is declared and used in it.

`tree.c` constructs what its callers tell it to and `dump.c` prints it, each in one recursive
pass without state; `utility.c` and `support.h` wrap the platform. `unity.c` at the top of the
repository includes neither `c99.c` nor `sema.c` nor `ir.c`; the models follow the `Makefile`'s
build.

## 6. Findings

Each of the first four is the counterexample of a run that checks what the code, a comment or the
workflow states; `PROJECT.json` quotes the lines.

1. `build_status`: a syntax error does not reach `work->error`. The program outputs what it parsed
   and ends with the status for success.
2. `parser_in`: in a procedure written in the condition of an `if` or in a `case`, `in` is an
   operator in the header of a `for`, since `allow_in` is not taken back for the body.
3. `c99_scope`: a block's or a switch's locals stay in the table after its end, and what is
   declared after it may get their type.
4. `lexer_assignment`: `%=` is scanned as `/=` (lexer.c:541) and `&&=` as `&=` (lexer.c:696), where
   lexemes.h:63 and lexemes.h:71 have assignments of their own for them. `LongestMatch` therefore
   leaves open which assignment these two texts are.
5. The comment at parser.c:2247 gives the `if` and `when` of a ternary expression "highest
   precedence", the line below it the lowest: `a + b if c else d` is a choice between `a + b` and
   `d`. This one has no run, since the comment and the line it stands on show it by themselves;
   `PrecedenceKept` speaks of the operators of `PRECEDENCE` only and says nothing of the ternary.

What else came up in reading the code and building the models, without a run of its own because
nothing in the repository promises otherwise, or because the model has it as an outcome:

* Driver: `build.c:157` takes the size of the null array that `path_list` returns for a directory
  it cannot open, as it does for every import from a collection, since `main.c` adds none;
  `build.c:218` reads the first statement of a file that has none or could not be read; a root
  given by a relative pathname is built twice when a package imports it (build.c:113).
* Lexer: `lexer_peek` scans a token at every call and returns the one that was last in the queue,
  which is the next one only while the queue holds no more than one when it is called. After peek,
  peek, next, a second peek returns the token after the next one. The parser meets this where a
  comment lies between a newline and the `{` of a block whose header was ended by a separator that
  looked ahead itself: `if x`, a newline and `/* c */ {` is rejected, as the built program shows.
  `PeekedIsNext` leaves this one case out, and holds everywhere else the parser looks ahead.
* Parser, what it rejects or takes otherwise than it seems to mean: a written `;` has no string,
  so the test at parser.c:193 never holds and the newline it would allow is an error; a newline
  after `)` or `]` is dropped, because it is fetched before the depth is put back; `package`,
  branch statements, `foreign import` and `#assert` need no separator after them; an operator after
  a `.` is dropped without an error; `parse_union_type_expression` tests an array of parameters
  that is never null; the report of an empty parenthesized expression cannot be reached;
  `allow_type` is not taken back for a body, nor `this_procedure` ever; `#partial` and six other
  directives read a whole expression where an operand begins, so that `x * #partial a + b` is
  `x * (a + b)` (parser.c:1539, which the proof of `OperandsBindTighter` came upon).
* Parser, where it fails: parser.c:1358 passes a `String` for the length and the pointer of
  `%.*s`; `foreign` before anything but a block or an import returns null, which parser.c:3371
  reads.
* Emitter: every procedure without `->` ends `emit-c` (sema.c:61, under a comment on line 68 that
  says the macro cannot do that); an inclusive range whose limit is the greatest value of its type
  does not end in C, and the limit is computed in each turn (c99.c:329); the clauses of a switch
  are written without braces, where C99 takes no declaration after a label; `x := x` refers in C
  to the new variable; a parameter beyond the 256th is ignored; types and constants are written in
  the order of the files, so that one may use another that C does not know yet (which is why
  `DeclaredBeforeBodies` speaks of bodies only); that order depends on the threads, while
  `c99.yml:40` compares outputs byte by byte, for a package of one file.

## 7. Plan

Done: the pool with its profiler, the schedulers, the build driver, the lexer, the parser, the
emitter with its tables, the allocators and arrays, and proofs of every invariant the passing runs
check but `PeekedIsNext`.
Next, in order:

1. Allocation failure in the pool and the schedulers, and the mutexes that a `THROW` leaves locked.
2. The hazards that no property covers yet: what the driver does with a file that could not be
   read, the two spellings of the root's pathname, the report at parser.c:1358.
