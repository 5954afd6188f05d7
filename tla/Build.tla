-------------------------------- MODULE Build --------------------------------
(***************************************************************************)
(* The build driver: main.c, build.c and project.c over a scheduler.       *)
(*                                                                         *)
(* main.c adds the root package.  Adding a package that the project does   *)
(* not have yet lists its directory and queues one work per accepted file; *)
(* a work parses its file and adds the packages the file imports.  When    *)
(* sched_wait has returned, main.c reads every work's verdict and tree.    *)
(*                                                                         *)
(* A work is its index in build->work.  Caller 0 is the main thread;       *)
(* caller w is the scheduler's thread that runs work w.  project->mutex    *)
(* and build->mutex are held for one action each.  What the scheduler      *)
(* does is taken from its abstract specification.                          *)
(***************************************************************************)
EXTENDS Integers, SequencesExt

CONSTANTS
  Path,       \* the pathnames
  Root,       \* the pathname on the command line
  Canonical,  \* path_canonicalize, which never sees the root's pathname
  Entries,    \* the files of each pathname that names a directory
  Suffix,     \* what the name of each file ends with
  Target,     \* settings.target_platform
  Contents,   \* what each file may turn out to contain
  MaxWorks    \* bound: how many works are modelled

Work == 1 .. MaxWorks
MainCaller == 0
Caller == {MainCaller} \cup Work
File == DOMAIN Suffix
FileOfPackage == Path \X File
Platform == {"linux", "freebsd", "darwin", "windows"}
Import == [kind : {"builtin", "found", "unfound"}, path : Path]
Result == {"whole", "misnamed", "misplaced", "thrown", "blank", "unreadable"}
Content == [result : Result, imports : Seq(Import)]

ASSUME BuildAssumption ==
  /\ Root \in Path
  /\ Canonical \in [Path -> Path]
  /\ DOMAIN Entries \subseteq Path
  /\ \A p \in DOMAIN Entries : Entries[p] \subseteq File
  /\ \A f \in File : Suffix[f] \in Platform \cup {"unix", "odin", "other"}
  /\ Target \in Platform
  /\ \A f \in File : Contents[f] \subseteq Content
  /\ MaxWorks \in Nat

NoContent == [result |-> "none", imports |-> << >>]

VARIABLES
  packages,   \* the pathnames of project->packages
  works,      \* build->work: the package and the file of each work
  error,      \* the works whose error is set
  content,    \* history: what parsing each work's file yielded
  imports,    \* the imports each work has not come to yet
  files,      \* the files each caller's loop over a listing has left
  hand,       \* the work each caller has added but not yet queued, or 0
  main,       \* where main.c is
  exit,       \* how the program ended, if it did
  item,       \* the scheduler's view of each work
  owner       \* the scheduler's view of its owner

buildVars == <<packages, works, error, content, imports, files, hand, main, exit>>
vars == <<buildVars, item, owner>>

S == INSTANCE Scheduler WITH Item <- Work

TypeOK ==
  /\ packages \in Seq(Path)
  /\ works \in Seq(FileOfPackage)
  /\ Len(works) <= MaxWorks
  /\ error \subseteq DOMAIN works
  /\ content \in [Work -> Content \cup {NoContent}]
  /\ imports \in [Work -> Seq(Import)]
  /\ files \in [Caller -> SUBSET FileOfPackage]
  /\ hand \in [Caller -> {0} \cup Work]
  /\ \A c \in Caller : hand[c] <= Len(works)
  /\ main \in {"init", "adding", "waiting", "scanning", "output", "success", "failure"}
  /\ exit \in {"running", "success", "failure",
               "null listing", "null results", "no statement", "miscast"}
  /\ S!TypeOK

Init ==
  /\ packages = << >>
  /\ works = << >>
  /\ error = {}
  /\ content = [w \in Work |-> NoContent]
  /\ imports = [w \in Work |-> << >>]
  /\ files = [c \in Caller |-> {}]
  /\ hand = [c \in Caller |-> 0]
  /\ main = "init"
  /\ exit = "running"
  /\ S!Init

-----------------------------------------------------------------------------
\* A faulty variant of Accepted: the test for a platform is left out.
FaultyAccepted(f) == Suffix[f] # "other"

(* accepted_file, after the test for ".odin".                              *)
Accepted(f) ==
  CASE Suffix[f] \in Platform -> Suffix[f] = Target
    [] Suffix[f] = "unix" -> Target # "windows"
    [] Suffix[f] = "odin" -> TRUE
    [] Suffix[f] = "other" -> FALSE

Listing(p) == {<<p, f>> : f \in {g \in Entries[p] : Accepted(g)}}

(* A caller between two iterations of its loop over a listing, or outside. *)
Free(c) == files[c] = {} /\ hand[c] = 0

-----------------------------------------------------------------------------
(* Faulty variants: mistakes a change to the code could make.              *)

\* The check for an existing package is left out.
FaultyNewPackage(c, p) ==
  /\ p \in DOMAIN Entries
  /\ packages' = Append(packages, p)
  /\ files' = [files EXCEPT ![c] = Listing(p)]
  /\ UNCHANGED exit

\* The loop's continue skips its increment.
FaultySkipImport(w) ==
  /\ item[w] = "running"
  /\ imports[w] # << >>
  /\ Head(imports[w]).kind = "builtin"
  /\ UNCHANGED vars

\* build_package goes on without waiting.
FaultyWaitReturns ==
  /\ main = "waiting"
  /\ main' = "scanning"
  /\ owner' = "reading"
  /\ UNCHANGED <<packages, works, error, content, imports, files, hand, exit, item>>

\* main.c looks at the last work only.
FaultyScan ==
  /\ main = "scanning"
  /\ main' = IF Len(works) \in error THEN "failure" ELSE "output"
  /\ UNCHANGED <<packages, works, error, content, imports, files, hand, exit, item, owner>>

-----------------------------------------------------------------------------
(* build_add_package_internal: project_add_package_internal finds the      *)
(* package, under project->mutex ...                                       *)
OldPackage(c, p) ==
  /\ p \in Range(packages)
  /\ UNCHANGED <<packages, files, exit>>

(* ... or adds it, and path_list lists its directory ...                   *)
NewPackage(c, p) ==
  /\ p \notin Range(packages)
  /\ p \in DOMAIN Entries
  /\ packages' = Append(packages, p)
  /\ files' = [files EXCEPT ![c] = Listing(p)]
  /\ UNCHANGED exit

(* ... or path_list returns 0, and array_size reads the size of the array  *)
(* at address 0.                                                           *)
MissingPackage(c, p) ==
  /\ p \notin Range(packages)
  /\ p \notin DOMAIN Entries
  /\ packages' = Append(packages, p)
  /\ exit' = "null listing"
  /\ UNCHANGED files

AddPackage(c, p) == OldPackage(c, p) \/ NewPackage(c, p) \/ MissingPackage(c, p)

(* build_add_work: package_add_tree, to a package no other caller adds to, *)
(* and the push to build->work under build->mutex.                         *)
AddWork(c) ==
  /\ hand[c] = 0
  /\ Len(works) < MaxWorks
  /\ \E pf \in files[c] :
       /\ works' = Append(works, pf)
       /\ files' = [files EXCEPT ![c] = @ \ {pf}]
  /\ hand' = [hand EXCEPT ![c] = Len(works) + 1]
  /\ UNCHANGED <<packages, error, content, imports, main, exit, item, owner>>

(* sched_queue                                                             *)
QueueWork(c) ==
  /\ hand[c] # 0
  /\ S!Queue(hand[c])
  /\ hand' = [hand EXCEPT ![c] = 0]
  /\ UNCHANGED <<packages, works, error, content, imports, files, main, exit>>

-----------------------------------------------------------------------------
(* build_worker.  The file's content is what parse makes of it:            *)
(*   whole       a tree that begins with a package declaration             *)
(*   misnamed    the package's name is reserved                            *)
(*   misplaced   the first statement is something else                     *)
(*   thrown      an error in lexing or parsing, which leaves by THROW      *)
(*   blank       no statement at all                                       *)
(*   unreadable  the file cannot be read, so no statement either           *)
Parsed(w, results) ==
  /\ item[w] = "running"
  /\ content[w] = NoContent
  /\ \E c \in Contents[works[w][2]] :
       /\ c.result \in results
       /\ content' = [content EXCEPT ![w] = c]
  /\ UNCHANGED <<packages, works, files, hand, main, owner>>

(* The first statement is a package declaration.                           *)
ParseWell(w) ==
  /\ Parsed(w, {"whole", "misnamed"})
  /\ imports' = [imports EXCEPT ![w] = content'[w].imports]
  /\ error' = IF content'[w].result = "misnamed" THEN error \cup {w} ELSE error
  /\ UNCHANGED <<exit, item>>

(* It is not, and is read as one all the same: whatever the name's string  *)
(* turns out to be is compared, or cannot be read.                         *)
ParseMisplaced(w) ==
  /\ Parsed(w, {"misplaced"})
  /\ error' = error \cup {w}
  /\ imports' = [imports EXCEPT ![w] = content'[w].imports]
  /\ exit' \in {"running", "miscast"}
  /\ UNCHANGED item

(* THROW returns to the scheduler's setjmp; the work's error stays unset.  *)
ParseThrows(w) ==
  /\ Parsed(w, {"thrown"})
  /\ item' = [item EXCEPT ![w] = "ran"]
  /\ UNCHANGED <<imports, error, exit>>

(* tree->statements[0] of an array with no element, whose pointer is only  *)
(* a tag.                                                                  *)
ParseEmpty(w) ==
  /\ Parsed(w, {"blank", "unreadable"})
  /\ error' = IF content'[w].result = "unreadable" THEN error \cup {w} ELSE error
  /\ exit' = "no statement"
  /\ UNCHANGED <<imports, item>>

Importing(w) == item[w] = "running" /\ imports[w] # << >> /\ Free(w)

(* The imports "core:intrinsics" and "core:builtin" are skipped.           *)
SkipImport(w) ==
  /\ Importing(w)
  /\ Head(imports[w]).kind = "builtin"
  /\ imports' = [imports EXCEPT ![w] = Tail(@)]
  /\ UNCHANGED <<packages, works, error, content, files, hand, main, exit, item, owner>>

(* Any other import is added, also when its collection was not found.      *)
ImportPackage(w) ==
  /\ Importing(w)
  /\ Head(imports[w]).kind # "builtin"
  /\ error' = IF Head(imports[w]).kind = "unfound" THEN error \cup {w} ELSE error
  /\ AddPackage(w, Canonical[Head(imports[w]).path])
  /\ imports' = [imports EXCEPT ![w] = Tail(@)]
  /\ UNCHANGED <<works, content, hand, main, item, owner>>

(* The end of build_worker.                                                *)
Return(w) ==
  /\ Free(w)
  /\ content[w] # NoContent
  /\ imports[w] = << >>
  /\ S!Return(w)
  /\ UNCHANGED buildVars

-----------------------------------------------------------------------------
(* build_package: build_init, build_add_package with the pathname as       *)
(* given ...                                                               *)
AddRoot ==
  /\ main = "init"
  /\ main' = "adding"
  /\ AddPackage(MainCaller, Root)
  /\ UNCHANGED <<works, error, content, imports, hand, item, owner>>

(* ... build_wait ...                                                      *)
CallWait ==
  /\ main = "adding"
  /\ Free(MainCaller)
  /\ main' = "waiting"
  /\ S!CallWait
  /\ UNCHANGED <<packages, works, error, content, imports, files, hand, exit>>

WaitReturns ==
  /\ main = "waiting"
  /\ main' = "scanning"
  /\ S!WaitReturns
  /\ UNCHANGED <<packages, works, error, content, imports, files, hand, exit>>

(* ... and the loop over the works' error.                                 *)
Scan ==
  /\ main = "scanning"
  /\ main' = IF error # {} THEN "failure" ELSE "output"
  /\ UNCHANGED <<packages, works, error, content, imports, files, hand, exit, item, owner>>

(* dump_ast and emit_c: the trees are read; opening or writing the output  *)
(* may fail, and the emitter may not support the program.  A procedure     *)
(* without results has a null array of them, whose size is read.           *)
Output ==
  /\ main = "output"
  /\ \/ main' \in {"success", "failure"} /\ UNCHANGED exit
     \/ exit' = "null results" /\ UNCHANGED main
  /\ UNCHANGED <<packages, works, error, content, imports, files, hand, item, owner>>

(* build_fini frees the trees, then ends the threads whose memory they are *)
(* in; main returns the status.                                            *)
Fini ==
  /\ main \in {"success", "failure"}
  /\ S!Fini
  /\ exit' = main
  /\ UNCHANGED <<packages, works, error, content, imports, files, hand, main>>

-----------------------------------------------------------------------------
MainStep ==
  \/ AddRoot
  \/ AddWork(MainCaller)
  \/ QueueWork(MainCaller)
  \/ CallWait
  \/ WaitReturns
  \/ Scan
  \/ Output
  \/ Fini

WorkerStep(w) ==
  \/ ParseWell(w)
  \/ ParseMisplaced(w)
  \/ ParseThrows(w)
  \/ ParseEmpty(w)
  \/ SkipImport(w)
  \/ ImportPackage(w)
  \/ AddWork(w)
  \/ QueueWork(w)
  \/ Return(w)

(* The scheduler starts works and completes them.                          *)
SchedStep(w) == (S!Start(w) \/ S!DisposeItem(w)) /\ UNCHANGED buildVars

Running ==
  /\ exit = "running"
  /\ MainStep \/ \E w \in Work : WorkerStep(w) \/ SchedStep(w)

Ended == exit # "running" /\ UNCHANGED vars

Next == Running \/ Ended

(* Every thread is scheduled, and the scheduler keeps its promise to start *)
(* and complete what is queued.                                            *)
Fairness ==
  /\ WF_vars(exit = "running" /\ MainStep)
  /\ \A w \in Work : /\ WF_vars(exit = "running" /\ WorkerStep(w))
                     /\ WF_vars(exit = "running" /\ SchedStep(w))

Spec == Init /\ [][Next]_vars /\ Fairness

-----------------------------------------------------------------------------
(* No pathname is a package twice and no file a work twice, however the    *)
(* works that import the same package interleave in                        *)
(* project_add_package_internal.                                           *)
PathsOnce ==
  /\ \A i, k \in DOMAIN packages : packages[i] = packages[k] => i = k
  /\ \A i, k \in DOMAIN works : works[i] = works[k] => i = k

(* What a file that was parsed to its end asks build_worker to import.     *)
Imported(w) ==
  IF content[w].result = "thrown" THEN {}
  ELSE {Canonical[i.path] : i \in {j \in Range(content[w].imports) : j.kind # "builtin"}}

(* The files a build for the target is made of: those whose name names no  *)
(* platform, or the target's.                                              *)
Wanted(p) ==
  {<<p, f>> : f \in {g \in Entries[p] :
                       \/ Suffix[g] \in {"odin", Target}
                       \/ Suffix[g] = "unix" /\ Target # "windows"}}

ClosedUnderImports(paths) ==
  /\ Root \in paths
  /\ \A w \in DOMAIN works : works[w][1] \in paths => Imported(w) \subseteq paths

(* When main.c reads the works, the build is complete: the packages are    *)
(* the root and what is imported from it, directly or not, and no others;  *)
(* every file of theirs that the target accepts is a work, every work has  *)
(* been parsed, and nothing is still running that could add one.           *)
BuildIsComplete ==
  main \in {"scanning", "output", "success", "failure"} =>
    /\ ClosedUnderImports(Range(packages))
    /\ \A paths \in SUBSET Path : ClosedUnderImports(paths) => Range(packages) \subseteq paths
    /\ Range(works) = UNION {Wanted(p) : p \in Range(packages)}
    /\ \A w \in DOMAIN works : content[w] # NoContent
    /\ \A w \in Work : item[w] \in {"new", "disposed"}

(* What build_worker reports itself, by BUILD_ERROR: that the file could   *)
(* not be opened, that the package declaration is missing or its name not  *)
(* allowed, and that the collection of an import is unknown.  What parse   *)
(* reports before it throws (parser.c:10, lexer.c:53) is not among it.     *)
BuildError(w) ==
  \/ content[w].result \in {"unreadable", "misplaced", "misnamed"}
  \/ /\ content[w].result = "whole"
     /\ \E i \in Range(content[w].imports) : i.kind = "unfound"

(* A program that met a BUILD_ERROR in one of its works, whichever thread  *)
(* that ran on, does not end with the status for success.  Of the errors   *)
(* that parse throws this is not so: see SuccessMeansParsed.               *)
BuildErrorsFail == exit = "success" => \A w \in DOMAIN works : ~BuildError(w)

(* The program comes to an end: imports that form cycles do not keep the   *)
(* works coming, and sched_wait returns.                                   *)
Terminates == <>(exit # "running")

(* The status for success means that every file was parsed to its end, as  *)
(* the workflow that runs the program and looks at nothing but its status  *)
(* takes for granted.                                                      *)
SuccessMeansParsed ==
  exit = "success" => \A w \in DOMAIN works : content[w].result = "whole"
-----------------------------------------------------------------------------
(* The inductive invariant behind PathsOnce, BuildIsComplete and           *)
(* BuildErrorsFail.                                                        *)

\* The file a caller's loop has left is nobody else's, and no work yet.
FilesOK ==
  \A c \in Caller : \A pf \in files[c] :
    /\ pf[1] \in Range(packages)
    /\ pf \in Wanted(pf[1])
    /\ pf \notin Range(works)
    /\ \A d \in Caller \ {c} : pf \notin files[d]

\* A work is a file of a package; a file of a package is a work, or is left
\* in some caller's loop.
WorksOK ==
  /\ \A w \in DOMAIN works : works[w][1] \in Range(packages) /\ works[w] \in Wanted(works[w][1])
  /\ exit # "null listing" => Range(packages) \subseteq DOMAIN Entries
  /\ \A p \in Range(packages) \cap DOMAIN Entries :
       \A pf \in Wanted(p) : pf \in Range(works) \/ \E c \in Caller : pf \in files[c]

\* A work the scheduler does not know yet is in the hand of its adder.
HandOK ==
  /\ \A w \in DOMAIN works : item[w] = "new" => \E c \in Caller : hand[c] = w
  /\ \A w \in Work : item[w] # "new" => w \in DOMAIN works
  /\ ~Free(MainCaller) => main = "adding"
  /\ \A w \in Work : ~Free(w) => item[w] = "running" /\ content[w] # NoContent

\* What is left of a work's imports are imports of its file, and what is
\* not left has been added.
ImportsOK ==
  \A w \in Work :
    /\ item[w] \in {"new", "queued"} => content[w] = NoContent
    /\ item[w] \in {"ran", "disposed"} => content[w] # NoContent /\ imports[w] = << >>
    /\ content[w].result \in {"none", "thrown"} => imports[w] = << >>
    /\ Range(imports[w]) \subseteq Range(content[w].imports)
    /\ content[w].result \in {"whole", "misnamed", "misplaced"} =>
         \A i \in Range(content[w].imports) \ Range(imports[w]) :
           i.kind # "builtin" => Canonical[i.path] \in Range(packages)

\* Nothing is a package but the root and what it leads to.
ReachedOK ==
  /\ main # "init" => Root \in Range(packages)
  /\ \A paths \in SUBSET Path : ClosedUnderImports(paths) => Range(packages) \subseteq paths

\* Every BUILD_ERROR that was met is on record.
ErrorOK ==
  \A w \in DOMAIN works :
    /\ content[w].result \in {"misnamed", "misplaced"} => w \in error
    /\ content[w].result \in {"blank", "unreadable"} => exit = "no statement"
    /\ content[w].result = "whole" =>
         \A i \in Range(content[w].imports) \ Range(imports[w]) : i.kind = "unfound" => w \in error

\* Where main.c is, the scheduler's owner is; it goes on from the scan
\* without errors only.
MainOK ==
  /\ main \in {"init", "adding"} => owner = "queueing"
  /\ main = "waiting" => owner = "waiting"
  /\ main \in {"scanning", "output", "success", "failure"} =>
       owner = IF exit \in {"success", "failure"} THEN "finished" ELSE "reading"
  /\ main \in {"scanning", "output", "success", "failure"} =>
       \A w \in Work : item[w] \in {"new", "disposed"}
  /\ main \in {"output", "success"} => error = {}
  /\ main = "init" => packages = << >>
  /\ exit = "success" => main = "success"
  /\ exit \in {"null listing", "no statement", "miscast"} => main \in {"adding", "waiting"}

(* The packages, the works, the listings the callers hold and the imports  *)
(* they have left account for each other in every state of the build.      *)
BuildInv ==
  /\ TypeOK
  /\ PathsOnce
  /\ FilesOK
  /\ WorksOK
  /\ HandOK
  /\ ImportsOK
  /\ ReachedOK
  /\ ErrorOK
  /\ MainOK

=============================================================================
