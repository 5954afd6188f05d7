----------------------------- MODULE BuildProofs -----------------------------
(***************************************************************************)
(* What the build driver guarantees for every source tree, every content   *)
(* of its files and every order in which its works run: theorems about     *)
(* Build, over the abstract scheduler.                                     *)
(***************************************************************************)
EXTENDS Build, TLAPS

(* A push adds its element to the range of the sequence, at the end.       *)
LEMMA PushRange ==
  ASSUME NEW T, NEW s \in Seq(T), NEW e \in T
  PROVE  /\ Append(s, e) \in Seq(T)
         /\ Len(Append(s, e)) = Len(s) + 1
         /\ DOMAIN s = 1 .. Len(s)
         /\ DOMAIN Append(s, e) = 1 .. Len(s) + 1
         /\ \A i \in 1 .. Len(s) : Append(s, e)[i] = s[i]
         /\ Append(s, e)[Len(s) + 1] = e
         /\ Range(Append(s, e)) = Range(s) \cup {e}
<1>1. /\ Append(s, e) \in Seq(T)
      /\ Len(Append(s, e)) = Len(s) + 1
      /\ DOMAIN s = 1 .. Len(s)
      /\ DOMAIN Append(s, e) = 1 .. Len(s) + 1
      /\ \A i \in 1 .. Len(s) : Append(s, e)[i] = s[i]
      /\ Append(s, e)[Len(s) + 1] = e
      /\ Len(s) \in Nat
  OBVIOUS
<1>2. Range(Append(s, e)) = Range(s) \cup {e}
  BY <1>1 DEF Range
<1> QED  BY <1>1, <1>2

(* Taking the head away leaves every other element, or one equal to it.    *)
LEMMA TailRange ==
  ASSUME NEW T, NEW s \in Seq(T), s # << >>
  PROVE  /\ Tail(s) \in Seq(T)
         /\ Head(s) \in Range(s)
         /\ Head(s) \in T
         /\ Range(Tail(s)) \subseteq Range(s)
         /\ \A x \in Range(s) : x = Head(s) \/ x \in Range(Tail(s))
<1>1. /\ Tail(s) \in Seq(T)
      /\ Head(s) = s[1]
      /\ Len(s) \in Nat \ {0}
      /\ DOMAIN s = 1 .. Len(s)
      /\ DOMAIN Tail(s) = 1 .. Len(s) - 1
      /\ \A i \in 1 .. Len(s) - 1 : Tail(s)[i] = s[i + 1]
  OBVIOUS
<1>2. Head(s) \in Range(s) /\ Head(s) \in T
  BY <1>1 DEF Range
<1>3. Range(Tail(s)) \subseteq Range(s)
  <2> SUFFICES ASSUME NEW i \in 1 .. Len(s) - 1 PROVE Tail(s)[i] \in Range(s)
    BY <1>1 DEF Range
  <2>1. i + 1 \in DOMAIN s  BY <1>1
  <2> QED  BY <1>1, <2>1 DEF Range
<1>4. ASSUME NEW x \in Range(s), x # Head(s) PROVE x \in Range(Tail(s))
  <2>1. PICK i \in 1 .. Len(s) : s[i] = x  BY <1>1 DEF Range
  <2>2. i # 1 /\ i - 1 \in 1 .. Len(s) - 1  BY <1>1, <1>4, <2>1
  <2>3. Tail(s)[i - 1] = x  BY <1>1, <2>1, <2>2
  <2> QED  BY <1>1, <2>2, <2>3 DEF Range
<1> QED  BY <1>1, <1>2, <1>3, <1>4

(* The files a listing hands to the loop are those the target wants.       *)
LEMMA ListingIsWanted ==
  ASSUME NEW p \in DOMAIN Entries
  PROVE  /\ Listing(p) = Wanted(p)
         /\ Wanted(p) \subseteq FileOfPackage
         /\ \A pf \in Wanted(p) : pf[1] = p
<1>1. ASSUME NEW f \in File
      PROVE  Accepted(f) <=> \/ Suffix[f] \in {"odin", Target}
                             \/ Suffix[f] = "unix" /\ Target # "windows"
  BY BuildAssumption DEF Accepted, Platform
<1>2. Entries[p] \subseteq File /\ p \in Path
  BY BuildAssumption
<1> QED  BY <1>1, <1>2 DEF Listing, Wanted, FileOfPackage

(* What a worker knows when it comes to an import: one of its file's, that *)
(* leads to a pathname.                                                    *)
LEMMA ImportFacts ==
  ASSUME TypeOK, ImportsOK, NEW w \in Work, Importing(w)
  PROVE  /\ Head(imports[w]) \in Import
         /\ Head(imports[w]) \in Range(content[w].imports)
         /\ Tail(imports[w]) \in Seq(Import)
         /\ Range(Tail(imports[w])) \subseteq Range(imports[w])
         /\ \A i \in Range(imports[w]) : i = Head(imports[w]) \/ i \in Range(Tail(imports[w]))
         /\ Canonical[Head(imports[w]).path] \in Path
         /\ content[w].result \notin {"none", "thrown"}
<1>1. imports[w] \in Seq(Import) /\ imports[w] # << >>
  BY DEF TypeOK, Importing
<1>2. Head(imports[w]) \in Import /\ Head(imports[w]) \in Range(imports[w])
  BY <1>1, TailRange
<1>3. Head(imports[w]).path \in Path  BY <1>2 DEF Import
<1> QED  BY <1>1, <1>2, <1>3, TailRange, BuildAssumption DEF ImportsOK, Importing

(* Adding a package keeps the types of what it touches.                    *)
LEMMA AddTypes ==
  ASSUME TypeOK, NEW c \in Caller, NEW p \in Path, AddPackage(c, p)
  PROVE  /\ packages' \in Seq(Path)
         /\ files' \in [Caller -> SUBSET FileOfPackage]
         /\ exit' \in {exit, "null listing"}
<1>0. packages \in Seq(Path) /\ files \in [Caller -> SUBSET FileOfPackage]
  BY DEF TypeOK
<1>1. CASE OldPackage(c, p)  BY <1>0, <1>1 DEF OldPackage
<1>2. CASE NewPackage(c, p)
  <2>1. Listing(p) \in SUBSET FileOfPackage  BY <1>2, ListingIsWanted DEF NewPackage
  <2> QED  BY <1>0, <1>2, <2>1, PushRange DEF NewPackage
<1>3. CASE MissingPackage(c, p)  BY <1>0, <1>3, PushRange DEF MissingPackage
<1> QED  BY <1>1, <1>2, <1>3 DEF AddPackage

(* The works and the hands, in the terms the steps use.                    *)
LEMMA WorkTypes ==
  ASSUME TypeOK
  PROVE  /\ works \in Seq(FileOfPackage)
         /\ Len(works) \in Nat
         /\ DOMAIN works = 1 .. Len(works)
         /\ DOMAIN works \subseteq Work
         /\ hand \in [Caller -> {0} \cup Work]
         /\ \A c \in Caller : hand[c] \in Nat /\ hand[c] <= Len(works)
<1>1. works \in Seq(FileOfPackage) /\ Len(works) <= MaxWorks  BY DEF TypeOK
<1>2. Len(works) \in Nat /\ DOMAIN works = 1 .. Len(works)  BY <1>1
<1>3. hand \in [Caller -> {0} \cup Work] /\ \A c \in Caller : hand[c] <= Len(works)
  BY DEF TypeOK
<1>4. \A c \in Caller : hand[c] \in Nat  BY <1>3, BuildAssumption DEF Work
<1>5. DOMAIN works \subseteq Work  BY <1>1, <1>2, BuildAssumption DEF Work
<1> QED  BY <1>1, <1>2, <1>3, <1>4, <1>5

(* Every step keeps the types of the state.                                *)
LEMMA TypeStep ==
  ASSUME BuildInv, [Next]_vars
  PROVE  TypeOK'
<1>0. TypeOK /\ ImportsOK  BY DEF BuildInv
<1>1. CASE AddRoot
  <2>1. Root \in Path /\ MainCaller \in Caller  BY BuildAssumption DEF Caller
  <2>2. /\ packages' \in Seq(Path)
        /\ files' \in [Caller -> SUBSET FileOfPackage]
        /\ exit' \in {exit, "null listing"}
    BY <1>0, <1>1, <2>1, AddTypes DEF AddRoot
  <2> QED  BY <1>0, <1>1, <2>2 DEF AddRoot, TypeOK, S!TypeOK
<1>2. ASSUME NEW c \in Caller, AddWork(c)  PROVE TypeOK'
  <2>1. PICK pf \in files[c] : /\ works' = Append(works, pf)
                               /\ files' = [files EXCEPT ![c] = @ \ {pf}]
    BY <1>2 DEF AddWork
  <2>2. pf \in FileOfPackage  BY <1>0, <2>1 DEF TypeOK
  <2>6. works \in Seq(FileOfPackage) /\ Len(works) \in Nat  BY <1>0, WorkTypes
  <2>3. /\ works' \in Seq(FileOfPackage)
        /\ Len(works') = Len(works) + 1
        /\ DOMAIN works = 1 .. Len(works)
        /\ DOMAIN works' = 1 .. Len(works) + 1
    BY <2>1, <2>2, <2>6, PushRange
  <2>4. Len(works) + 1 \in Work /\ Len(works) \in Nat
    BY <1>2, <2>6, BuildAssumption DEF AddWork, Work
  <2>5. hand' \in [Caller -> {0} \cup Work] /\ \A d \in Caller : hand'[d] <= Len(works')
    <3>1. hand \in [Caller -> {0} \cup Work] /\ \A d \in Caller : hand[d] \in Nat /\ hand[d] <= Len(works)
      BY <1>0, WorkTypes
    <3> QED  BY <1>2, <2>3, <2>4, <2>6, <3>1 DEF AddWork
  <2>7. files' \in [Caller -> SUBSET FileOfPackage]  BY <1>0, <2>1 DEF TypeOK
  <2>8. Len(works') <= MaxWorks  BY <2>3, <2>4, BuildAssumption DEF Work
  <2>9. error' \subseteq DOMAIN works'
    <3>1. error \subseteq DOMAIN works /\ error' = error  BY <1>0, <1>2 DEF AddWork, TypeOK
    <3> QED  BY <2>3, <2>6, <3>1
  <2> QED  BY <1>0, <1>2, <2>3, <2>5, <2>7, <2>8, <2>9 DEF AddWork, TypeOK, S!TypeOK
<1>3. ASSUME NEW c \in Caller, QueueWork(c)  PROVE TypeOK'
  <2>0. Len(works) \in Nat /\ hand \in [Caller -> {0} \cup Work]  BY <1>0, WorkTypes
  <2>1. hand' \in [Caller -> {0} \cup Work] /\ \A d \in Caller : hand'[d] <= Len(works)
    <3>1. \A d \in Caller : hand[d] <= Len(works)  BY <1>0, WorkTypes
    <3> QED  BY <1>3, <2>0, <3>1 DEF QueueWork
  <2> QED  BY <1>0, <1>3, <2>1 DEF QueueWork, TypeOK, S!Queue, S!TypeOK
<1>4. ASSUME NEW w \in Work, ParseWell(w) \/ ParseMisplaced(w) \/ ParseThrows(w) \/ ParseEmpty(w)
      PROVE  TypeOK'
  <2>1. PICK f \in File : \E e \in Contents[f] : content' = [content EXCEPT ![w] = e]
    <3>1. item[w] # "new"  BY <1>4 DEF ParseWell, ParseMisplaced, ParseThrows, ParseEmpty, Parsed
    <3>2. w \in DOMAIN works  BY <3>1 DEF BuildInv, HandOK
    <3>3. works[w] \in FileOfPackage
      <4>1. works \in Seq(FileOfPackage)  BY <1>0 DEF TypeOK
      <4> QED  BY <3>2, <4>1
    <3>4. works[w][2] \in File  BY <3>3 DEF FileOfPackage
    <3> QED  BY <1>4, <3>4 DEF ParseWell, ParseMisplaced, ParseThrows, ParseEmpty, Parsed
  <2>2. PICK e \in Content : content' = [content EXCEPT ![w] = e]
    BY <2>1, BuildAssumption
  <2>3. content' \in [Work -> Content \cup {NoContent}] /\ content'[w] = e
    BY <1>0, <2>2 DEF TypeOK
  <2>4. e.imports \in Seq(Import)  BY <2>2 DEF Content
  <2>5. w \in DOMAIN works
    BY <1>4 DEF BuildInv, HandOK, ParseWell, ParseMisplaced, ParseThrows, ParseEmpty, Parsed
  <2>6. imports' \in [Work -> Seq(Import)] /\ error' \subseteq DOMAIN works
    BY <1>0, <1>4, <2>3, <2>4, <2>5
    DEF ParseWell, ParseMisplaced, ParseThrows, ParseEmpty, TypeOK
  <2> QED
    BY <1>0, <1>4, <2>3, <2>6
    DEF ParseWell, ParseMisplaced, ParseThrows, ParseEmpty, Parsed, TypeOK, S!TypeOK
<1>5. ASSUME NEW w \in Work, SkipImport(w)  PROVE TypeOK'
  <2>1. Tail(imports[w]) \in Seq(Import)  BY <1>0, <1>5, ImportFacts DEF SkipImport
  <2> QED  BY <1>0, <1>5, <2>1 DEF SkipImport, TypeOK, S!TypeOK
<1>6. ASSUME NEW w \in Work, ImportPackage(w)  PROVE TypeOK'
  <2>1. /\ Tail(imports[w]) \in Seq(Import)
        /\ Canonical[Head(imports[w]).path] \in Path
    BY <1>0, <1>6, ImportFacts DEF ImportPackage
  <2>2. /\ packages' \in Seq(Path)
        /\ files' \in [Caller -> SUBSET FileOfPackage]
        /\ exit' \in {exit, "null listing"}
    BY <1>0, <1>6, <2>1, AddTypes DEF ImportPackage, Caller
  <2>3. w \in DOMAIN works
    BY <1>6 DEF BuildInv, HandOK, ImportPackage, Importing
  <2>4. imports' \in [Work -> Seq(Import)] /\ error' \subseteq DOMAIN works
    BY <1>0, <1>6, <2>1, <2>3 DEF ImportPackage, TypeOK
  <2> QED  BY <1>0, <1>6, <2>2, <2>4 DEF ImportPackage, TypeOK, S!TypeOK
<1>7. ASSUME NEW w \in Work, Return(w) \/ SchedStep(w)  PROVE TypeOK'
  BY <1>0, <1>7
  DEF Return, SchedStep, S!Return, S!Start, S!DisposeItem, S!Running, buildVars, TypeOK, S!TypeOK
<1>8. CASE CallWait \/ WaitReturns \/ Scan \/ Output \/ Fini
  BY <1>0, <1>8
  DEF CallWait, WaitReturns, Scan, Output, Fini, S!CallWait, S!WaitReturns, S!Fini, TypeOK, S!TypeOK
<1>9. CASE UNCHANGED vars
  BY <1>0, <1>9 DEF vars, buildVars, TypeOK, S!TypeOK
<1> QED
  BY <1>1, <1>2, <1>3, <1>4, <1>5, <1>6, <1>7, <1>8, <1>9
  DEF Next, Running, Ended, MainStep, WorkerStep, Caller

-----------------------------------------------------------------------------
(* What a step does to the packages, the works and the listings: nothing,  *)
(* or it adds a package for a caller without a listing, or a work.  No     *)
(* step leads back from a null listing.                                    *)
LEMMA PackageSteps ==
  ASSUME BuildInv, [Next]_vars
  PROVE  /\ exit' # "null listing" => exit # "null listing"
         /\ \/ UNCHANGED <<packages, works, files>>
            \/ \E c \in Caller : AddWork(c)
            \/ \E c \in Caller, p \in Path : Free(c) /\ NewPackage(c, p) /\ UNCHANGED works
            \/ \E c \in Caller, p \in Path : MissingPackage(c, p) /\ UNCHANGED works
<1>0. TypeOK /\ ImportsOK /\ HandOK /\ MainOK  BY DEF BuildInv
<1>1. CASE AddRoot
  <2>1. Root \in Path /\ MainCaller \in Caller  BY BuildAssumption DEF Caller
  <2>2. Free(MainCaller)  BY <1>0, <1>1 DEF HandOK, AddRoot
  <2> QED  BY <1>1, <2>1, <2>2 DEF AddRoot, AddPackage, OldPackage, NewPackage, MissingPackage
<1>2. ASSUME NEW w \in Work, ImportPackage(w), exit = "running"
      PROVE  /\ exit' # "null listing" => exit # "null listing"
             /\ \/ UNCHANGED <<packages, works, files>>
                \/ \E c \in Caller, p \in Path : Free(c) /\ NewPackage(c, p) /\ UNCHANGED works
                \/ \E c \in Caller, p \in Path : MissingPackage(c, p) /\ UNCHANGED works
  <2>1. Canonical[Head(imports[w]).path] \in Path /\ Importing(w)
    BY <1>0, <1>2, ImportFacts DEF ImportPackage
  <2>2. w \in Caller /\ Free(w)  BY <2>1 DEF Importing, Caller
  <2> QED  BY <1>2, <2>1, <2>2 DEF ImportPackage, AddPackage, OldPackage
<1>3. ASSUME NEW w \in Work,
             ParseWell(w) \/ ParseMisplaced(w) \/ ParseThrows(w) \/ ParseEmpty(w)
             \/ SkipImport(w) \/ Return(w) \/ SchedStep(w)
      PROVE  UNCHANGED <<packages, works, files>>
  BY <1>3 DEF ParseWell, ParseMisplaced, ParseThrows, ParseEmpty, Parsed, SkipImport, Return,
              SchedStep, buildVars
<1>4. ASSUME NEW c \in Caller, QueueWork(c)  PROVE UNCHANGED <<packages, works, files>>
  BY <1>4 DEF QueueWork
<1>5. ASSUME CallWait \/ WaitReturns \/ Scan \/ Output \/ Fini
      PROVE  UNCHANGED <<packages, works, files>>
  BY <1>5 DEF CallWait, WaitReturns, Scan, Output, Fini
<1>6. CASE UNCHANGED vars  BY <1>6 DEF vars, buildVars
<1>7. Next => exit = "running" \/ UNCHANGED vars  BY DEF Next, Running, Ended
<1> QED
  BY <1>1, <1>2, <1>3, <1>4, <1>5, <1>6, <1>7
  DEF Next, Running, Ended, MainStep, WorkerStep, Caller

(* What AddWork does, with the file it takes named.                        *)
LEMMA AddWorkFacts ==
  ASSUME BuildInv, NEW c \in Caller, AddWork(c)
  PROVE  /\ packages' = packages
         /\ hand[c] = 0
         /\ hand' = [hand EXCEPT ![c] = Len(works) + 1]
         /\ Len(works) + 1 \in Work
         /\ \E pf \in files[c] :
              /\ files' = [files EXCEPT ![c] = @ \ {pf}]
              /\ pf \in FileOfPackage /\ pf \notin Range(works)
              /\ pf[1] \in Range(packages) /\ pf \in Wanted(pf[1])
              /\ Range(works') = Range(works) \cup {pf}
              /\ DOMAIN works' = DOMAIN works \cup {Len(works) + 1}
              /\ Len(works) + 1 \notin DOMAIN works
              /\ \A w \in DOMAIN works : works'[w] = works[w]
              /\ works'[Len(works) + 1] = pf
<1>0. TypeOK /\ FilesOK  BY DEF BuildInv
<1>1. PICK pf \in files[c] : works' = Append(works, pf) /\ files' = [files EXCEPT ![c] = @ \ {pf}]
  BY DEF AddWork
<1>2. pf \in FileOfPackage  BY <1>0, <1>1 DEF TypeOK
<1>3. pf \notin Range(works) /\ pf[1] \in Range(packages) /\ pf \in Wanted(pf[1])
  BY <1>0, <1>1 DEF FilesOK
<1>4. works \in Seq(FileOfPackage) /\ Len(works) \in Nat /\ DOMAIN works = 1 .. Len(works)
  BY <1>0, WorkTypes
<1>5. /\ DOMAIN works' = 1 .. Len(works) + 1
      /\ \A i \in 1 .. Len(works) : works'[i] = works[i]
      /\ works'[Len(works) + 1] = pf
      /\ Range(works') = Range(works) \cup {pf}
  BY <1>1, <1>2, <1>4, PushRange
<1>6. DOMAIN works' = DOMAIN works \cup {Len(works) + 1} /\ Len(works) + 1 \notin DOMAIN works
  BY <1>4, <1>5
<1>7. Len(works) + 1 \in Work  BY <1>4, BuildAssumption DEF AddWork, Work
<1> QED  BY <1>1, <1>2, <1>3, <1>4, <1>5, <1>6, <1>7 DEF AddWork

(* What a new package does to the packages.                                *)
LEMMA NewPackageFacts ==
  ASSUME BuildInv, NEW p \in Path, p \notin Range(packages), packages' = Append(packages, p)
  PROVE  /\ Range(packages') = Range(packages) \cup {p}
         /\ PathsOnce /\ UNCHANGED works => PathsOnce'
<1>1. packages \in Seq(Path)  BY DEF BuildInv, TypeOK
<1>2. /\ Range(packages') = Range(packages) \cup {p}
      /\ DOMAIN packages = 1 .. Len(packages)
      /\ DOMAIN packages' = 1 .. Len(packages) + 1
      /\ \A i \in 1 .. Len(packages) : packages'[i] = packages[i]
      /\ packages'[Len(packages) + 1] = p
      /\ Len(packages) \in Nat
  BY <1>1, PushRange
<1>3. ASSUME PathsOnce, UNCHANGED works  PROVE PathsOnce'
  <2>1. \A i \in 1 .. Len(packages) : packages[i] # p  BY <1>2 DEF Range
  <2> QED  BY <1>2, <1>3, <2>1 DEF PathsOnce
<1> QED  BY <1>2, <1>3

-----------------------------------------------------------------------------
(* A package is added once, and a file becomes a work once.                *)
LEMMA PathsOnceStep ==
  ASSUME BuildInv, [Next]_vars
  PROVE  PathsOnce'
<1>0. PathsOnce  BY DEF BuildInv
<1>1. CASE UNCHANGED <<packages, works, files>>  BY <1>0, <1>1 DEF PathsOnce
<1>2. ASSUME NEW c \in Caller, AddWork(c)  PROVE PathsOnce'
  <2>1. PICK pf \in files[c] :
          /\ pf \notin Range(works)
          /\ DOMAIN works' = DOMAIN works \cup {Len(works) + 1}
          /\ \A w \in DOMAIN works : works'[w] = works[w]
          /\ works'[Len(works) + 1] = pf
    BY <1>2, AddWorkFacts
  <2>2. \A w \in DOMAIN works : works[w] # pf  BY <2>1 DEF Range
  <2>3. packages' = packages  BY <1>2, AddWorkFacts
  <2> QED  BY <1>0, <2>1, <2>2, <2>3 DEF PathsOnce
<1>3. ASSUME NEW c \in Caller, NEW p \in Path,
             NewPackage(c, p) \/ MissingPackage(c, p), UNCHANGED works
      PROVE  PathsOnce'
  BY <1>0, <1>3, NewPackageFacts DEF NewPackage, MissingPackage
<1> QED  BY <1>1, <1>2, <1>3, PackageSteps

(* The files of a new package's listing are in nobody else's.              *)
LEMMA FilesStep ==
  ASSUME BuildInv, [Next]_vars
  PROVE  FilesOK'
<1>0. TypeOK /\ FilesOK /\ WorksOK  BY DEF BuildInv
<1>f. files \in [Caller -> SUBSET FileOfPackage]  BY <1>0 DEF TypeOK
<1>w. \A p : Wanted(p)' = Wanted(p)  BY DEF Wanted
<1>1. CASE UNCHANGED <<packages, works, files>>  BY <1>0, <1>1, <1>w DEF FilesOK
<1>2. ASSUME NEW c \in Caller, AddWork(c)  PROVE FilesOK'
  <2>1. PICK pf \in files[c] :
          /\ files' = [files EXCEPT ![c] = @ \ {pf}]
          /\ Range(works') = Range(works) \cup {pf}
    BY <1>2, AddWorkFacts
  <2>2. packages' = packages  BY <1>2, AddWorkFacts
  <2>3. SUFFICES ASSUME NEW d \in Caller, NEW g \in files'[d]
                 PROVE  /\ g[1] \in Range(packages)
                        /\ g \in Wanted(g[1])
                        /\ g \notin Range(works')
                        /\ \A e \in Caller \ {d} : g \notin files'[e]
    BY <2>2, <1>w DEF FilesOK
  <2>4. g \in files[d] /\ \A e \in Caller : files'[e] \subseteq files[e]
    BY <1>f, <2>1, <2>3
  <2>5. g # pf
    <3>1. CASE d = c  BY <1>f, <2>1, <2>3, <3>1
    <3>2. CASE d # c  BY <1>0, <2>1, <2>4, <3>2 DEF FilesOK
    <3> QED  BY <3>1, <3>2
  <2> QED  BY <1>0, <2>1, <2>4, <2>5 DEF FilesOK
<1>3. ASSUME NEW c \in Caller, NEW p \in Path, Free(c), NewPackage(c, p), UNCHANGED works
      PROVE  FilesOK'
  <2>1. Range(packages') = Range(packages) \cup {p}  BY <1>3, NewPackageFacts DEF NewPackage
  <2>2. /\ files' = [files EXCEPT ![c] = Wanted(p)]
        /\ \A g \in Wanted(p) : g[1] = p
    BY <1>3, ListingIsWanted DEF NewPackage
  <2>3. \A g \in Range(works) : g[1] \in Range(packages)
    BY <1>0 DEF WorksOK, Range
  <2>4. p \notin Range(packages)  BY <1>3 DEF NewPackage
  <2>5. SUFFICES ASSUME NEW d \in Caller, NEW g \in files'[d]
                 PROVE  /\ g[1] \in Range(packages')
                        /\ g \in Wanted(g[1])
                        /\ g \notin Range(works)
                        /\ \A e \in Caller \ {d} : g \notin files'[e]
    BY <1>3, <1>w DEF FilesOK
  <2>6. CASE d = c
    <3>1. g \in Wanted(p) /\ g[1] = p  BY <1>f, <2>2, <2>5, <2>6
    <3>2. \A e \in Caller \ {d} : g \notin files'[e]
      BY <1>0, <1>f, <2>2, <2>4, <2>6, <3>1 DEF FilesOK
    <3> QED  BY <2>1, <2>3, <2>4, <3>1, <3>2
  <2>7. CASE d # c
    <3>1. g \in files[d]  BY <1>f, <2>2, <2>5, <2>7
    <3>2. g[1] \in Range(packages) /\ g[1] # p  BY <1>0, <2>4, <3>1 DEF FilesOK
    <3>3. \A e \in Caller \ {d} : g \notin files'[e]
      BY <1>0, <1>f, <2>2, <3>1, <3>2 DEF FilesOK
    <3> QED  BY <1>0, <2>1, <3>1, <3>2, <3>3 DEF FilesOK
  <2> QED  BY <2>6, <2>7
<1>4. ASSUME NEW c \in Caller, NEW p \in Path, MissingPackage(c, p), UNCHANGED works
      PROVE  FilesOK'
  <2>1. Range(packages') = Range(packages) \cup {p} /\ files' = files
    BY <1>4, NewPackageFacts DEF MissingPackage
  <2> QED  BY <1>0, <1>4, <1>w, <2>1 DEF FilesOK
<1> QED  BY <1>1, <1>2, <1>3, <1>4, PackageSteps

(* Every wanted file of a package is on its way to be a work, or is one.   *)
LEMMA WorksStep ==
  ASSUME BuildInv, [Next]_vars
  PROVE  WorksOK'
<1>0. TypeOK /\ FilesOK /\ WorksOK  BY DEF BuildInv
<1>f. files \in [Caller -> SUBSET FileOfPackage]  BY <1>0 DEF TypeOK
<1>w. \A p : Wanted(p)' = Wanted(p)  BY DEF Wanted
<1>x. exit' # "null listing" => exit # "null listing"  BY PackageSteps
<1>1. CASE UNCHANGED <<packages, works, files>>  BY <1>0, <1>1, <1>w, <1>x DEF WorksOK
<1>2. ASSUME NEW c \in Caller, AddWork(c)  PROVE WorksOK'
  <2>1. PICK pf \in files[c] :
          /\ files' = [files EXCEPT ![c] = @ \ {pf}]
          /\ pf[1] \in Range(packages) /\ pf \in Wanted(pf[1])
          /\ Range(works') = Range(works) \cup {pf}
          /\ DOMAIN works' = DOMAIN works \cup {Len(works) + 1}
          /\ \A w \in DOMAIN works : works'[w] = works[w]
          /\ works'[Len(works) + 1] = pf
    BY <1>2, AddWorkFacts
  <2>2. packages' = packages  BY <1>2, AddWorkFacts
  <2>3. \A w \in DOMAIN works' : works'[w][1] \in Range(packages') /\ works'[w] \in Wanted(works'[w][1])
    BY <1>0, <2>1, <2>2 DEF WorksOK
  <2>4. \A g, d : d \in Caller /\ g \in files[d] => g \in files'[d] \/ g = pf
    BY <1>f, <2>1
  <2>5. \A p \in Range(packages') \cap DOMAIN Entries :
          \A g \in Wanted(p) : g \in Range(works') \/ \E d \in Caller : g \in files'[d]
    BY <1>0, <2>1, <2>2, <2>4 DEF WorksOK
  <2> QED  BY <1>0, <1>w, <1>x, <2>2, <2>3, <2>5 DEF WorksOK
<1>3. ASSUME NEW c \in Caller, NEW p \in Path, Free(c), NewPackage(c, p), UNCHANGED works
      PROVE  WorksOK'
  <2>1. Range(packages') = Range(packages) \cup {p} /\ p \in DOMAIN Entries
    BY <1>3, NewPackageFacts DEF NewPackage
  <2>2. files' = [files EXCEPT ![c] = Wanted(p)] /\ files[c] = {}
    BY <1>3, ListingIsWanted DEF NewPackage, Free
  <2>3. files'[c] = Wanted(p) /\ \A d \in Caller : files[d] \subseteq files'[d]
    BY <1>f, <2>2
  <2>4. \A q \in Range(packages') \cap DOMAIN Entries :
          \A g \in Wanted(q) : g \in Range(works) \/ \E d \in Caller : g \in files'[d]
    BY <1>0, <2>1, <2>3 DEF WorksOK
  <2> QED  BY <1>0, <1>3, <1>w, <1>x, <2>1, <2>4 DEF WorksOK
<1>4. ASSUME NEW c \in Caller, NEW p \in Path, MissingPackage(c, p), UNCHANGED works
      PROVE  WorksOK'
  <2>1. Range(packages') = Range(packages) \cup {p} /\ files' = files
    BY <1>4, NewPackageFacts DEF MissingPackage
  <2> QED  BY <1>0, <1>4, <1>w, <2>1 DEF WorksOK, MissingPackage
<1> QED  BY <1>1, <1>2, <1>3, <1>4, PackageSteps

-----------------------------------------------------------------------------
(* What holds before and after a file is parsed.                           *)
LEMMA ParseFacts ==
  ASSUME BuildInv, NEW w \in Work, NEW R, Parsed(w, R)
  PROVE  /\ w \in DOMAIN works
         /\ item[w] = "running" /\ Free(w)
         /\ content[w] = NoContent /\ content[w].result = "none" /\ imports[w] = << >>
         /\ content'[w] \in Content /\ content'[w].result \in R /\ content'[w] # NoContent
         /\ content' = [content EXCEPT ![w] = content'[w]]
         /\ UNCHANGED <<packages, works, files, hand, main, owner>>
<1>0. TypeOK /\ ImportsOK /\ HandOK  BY DEF BuildInv
<1>1. w \in DOMAIN works /\ item[w] = "running" /\ Free(w)  BY <1>0 DEF HandOK, Parsed
<1>2. content[w] = NoContent /\ content[w].result = "none"  BY DEF Parsed, NoContent
<1>3. imports[w] = << >>  BY <1>0, <1>2 DEF ImportsOK
<1>4. works[w][2] \in File
  <2>1. works \in Seq(FileOfPackage)  BY <1>0, WorkTypes
  <2>2. works[w] \in FileOfPackage  BY <1>1, <2>1
  <2> QED  BY <2>2 DEF FileOfPackage
<1>5. PICK c \in Contents[works[w][2]] : c.result \in R /\ content' = [content EXCEPT ![w] = c]
  BY DEF Parsed
<1>6. c \in Content /\ c # NoContent
  <2>1. c \in Content  BY <1>4, <1>5, BuildAssumption
  <2> QED  BY <2>1 DEF Content, Result, NoContent
<1>7. content'[w] = c  BY <1>0, <1>5 DEF TypeOK
<1> QED  BY <1>1, <1>2, <1>3, <1>5, <1>6, <1>7 DEF Parsed

(* Adding a package changes no other caller's listing, takes no package    *)
(* away, and leaves the package in the project.                            *)
LEMMA PackageFrame ==
  ASSUME TypeOK, NEW c \in Caller, NEW p \in Path, AddPackage(c, p)
  PROVE  /\ \A d \in Caller \ {c} : files'[d] = files[d]
         /\ Range(packages') = Range(packages) \cup {p}
         /\ exit' \in {exit, "null listing"}
<1>1. packages \in Seq(Path) /\ files \in [Caller -> SUBSET FileOfPackage]  BY DEF TypeOK
<1>2. CASE OldPackage(c, p)  BY <1>2 DEF OldPackage
<1>3. CASE NewPackage(c, p) \/ MissingPackage(c, p)
  <2>1. packages' = Append(packages, p)  BY <1>3 DEF NewPackage, MissingPackage
  <2>2. Range(packages') = Range(packages) \cup {p}  BY <1>1, <2>1, PushRange
  <2> QED  BY <1>1, <1>3, <2>2 DEF NewPackage, MissingPackage
<1> QED  BY <1>2, <1>3 DEF AddPackage

(* A step is one of these, and is taken while the program runs.            *)
LEMMA Steps ==
  ASSUME [Next]_vars
  PROVE  \/ UNCHANGED vars
         \/ /\ exit = "running"
            /\ \/ AddRoot
               \/ \E c \in Caller : AddWork(c)
               \/ \E c \in Caller : QueueWork(c)
               \/ \E w \in Work : \/ ParseWell(w)
                                  \/ ParseMisplaced(w)
                                  \/ ParseThrows(w)
                                  \/ ParseEmpty(w)
                                  \/ SkipImport(w)
                                  \/ ImportPackage(w)
                                  \/ Return(w)
                                  \/ SchedStep(w)
               \/ CallWait \/ WaitReturns \/ Scan \/ Output \/ Fini
<1>1. CASE Next /\ ~Ended
  <2>1. exit = "running" /\ (MainStep \/ \E w \in Work : WorkerStep(w) \/ SchedStep(w))
    BY <1>1 DEF Next, Running
  <2>2. CASE MainStep  BY <2>1, <2>2 DEF MainStep, Caller
  <2>3. ASSUME NEW w \in Work, WorkerStep(w) \/ SchedStep(w)
        PROVE  \/ \E c \in Caller : AddWork(c)
               \/ \E c \in Caller : QueueWork(c)
               \/ ParseWell(w) \/ ParseMisplaced(w) \/ ParseThrows(w) \/ ParseEmpty(w)
               \/ SkipImport(w) \/ ImportPackage(w) \/ Return(w) \/ SchedStep(w)
    BY <2>3 DEF WorkerStep, Caller
  <2> QED  BY <2>1, <2>2, <2>3
<1> QED  BY <1>1 DEF Ended

(* A work that the scheduler does not have is in a hand; a loop runs in    *)
(* main.c while it adds, or in a running work that has parsed its file.    *)
LEMMA HandStep ==
  ASSUME BuildInv, [Next]_vars
  PROVE  HandOK'
<1>0. TypeOK /\ ImportsOK /\ HandOK /\ MainOK  BY DEF BuildInv
<1>t. /\ files \in [Caller -> SUBSET FileOfPackage]
      /\ content \in [Work -> Content \cup {NoContent}]
      /\ item \in [Work -> {"new", "queued", "running", "ran", "disposed"}]
      /\ hand \in [Caller -> {0} \cup Work]
      /\ \A w \in Work : w # 0 /\ w # MainCaller /\ w \in Caller
  <2>1. \A w \in Work : w # 0 /\ w # MainCaller /\ w \in Caller
    BY BuildAssumption DEF Work, MainCaller, Caller
  <2> QED  BY <1>0, <2>1 DEF TypeOK, S!TypeOK
<1>m. MainCaller \in Caller  BY DEF Caller
<1>1. CASE AddRoot
  <2>1. \A d \in Work : files'[d] = files[d]
    BY <1>0, <1>1, <1>t, <1>m, PackageFrame, BuildAssumption DEF AddRoot
  <2> QED  BY <1>0, <1>1, <2>1 DEF AddRoot, HandOK, Free
<1>2. ASSUME NEW c \in Caller, AddWork(c)  PROVE HandOK'
  <2>1. PICK pf \in files[c] :
          /\ files' = [files EXCEPT ![c] = @ \ {pf}]
          /\ DOMAIN works' = DOMAIN works \cup {Len(works) + 1}
          /\ Len(works) + 1 \in Work
          /\ hand[c] = 0
          /\ hand' = [hand EXCEPT ![c] = Len(works) + 1]
    BY <1>2, AddWorkFacts
  <2>2. ~Free(c)  BY <2>1 DEF Free
  <2>3. UNCHANGED <<item, main, content>>  BY <1>2 DEF AddWork
  <2>4. \A w \in DOMAIN works' : item[w] = "new" => \E d \in Caller : hand'[d] = w
    <3>1. ASSUME NEW w \in DOMAIN works, item[w] = "new"  PROVE \E d \in Caller : hand'[d] = w
      <4>1. PICK d \in Caller : hand[d] = w  BY <1>0, <3>1 DEF HandOK
      <4>2. w \in Work  BY <1>0, <3>1, WorkTypes
      <4>3. d # c  BY <1>t, <2>1, <4>1, <4>2
      <4> QED  BY <1>t, <2>1, <4>1, <4>3
    <3>2. hand'[c] = Len(works) + 1  BY <1>t, <2>1
    <3> QED  BY <2>1, <3>1, <3>2
  <2>5. \A d \in Caller : ~Free(d)' => ~Free(d)  BY <1>t, <2>1, <2>2 DEF Free
  <2> QED  BY <1>0, <1>m, <1>t, <2>1, <2>3, <2>4, <2>5 DEF HandOK
<1>3. ASSUME NEW c \in Caller, QueueWork(c)  PROVE HandOK'
  <2>1. /\ hand[c] # 0 /\ hand[c] \in Work
        /\ item' = [item EXCEPT ![hand[c]] = "queued"]
        /\ item[hand[c]] = "new"
        /\ hand' = [hand EXCEPT ![c] = 0]
        /\ UNCHANGED <<works, files, main, content>>
    BY <1>3, <1>t DEF QueueWork, S!Queue
  <2>2. hand[c] \in DOMAIN works
    <3>1. hand[c] \in Nat /\ hand[c] <= Len(works) /\ Len(works) \in Nat /\ DOMAIN works = 1 .. Len(works)
      BY <1>0, WorkTypes
    <3> QED  BY <2>1, <3>1
  <2>3. \A w \in DOMAIN works' : item'[w] = "new" => \E d \in Caller : hand'[d] = w
    <3>1. SUFFICES ASSUME NEW w \in DOMAIN works, item'[w] = "new"
                   PROVE  \E d \in Caller : hand'[d] = w
      BY <2>1
    <3>2. w \in Work  BY <1>0, WorkTypes
    <3>3. w # hand[c] /\ item[w] = "new"  BY <1>t, <2>1, <3>1, <3>2
    <3>4. PICK d \in Caller : hand[d] = w  BY <1>0, <3>3 DEF HandOK
    <3> QED  BY <1>t, <2>1, <3>3, <3>4
  <2>4. \A d \in Caller : ~Free(d)' => ~Free(d)  BY <1>t, <2>1 DEF Free
  <2>5. \A w \in Work : item[w] = "running" => item'[w] = "running"  BY <1>t, <2>1
  <2>6. \A w \in Work : item'[w] # "new" => w \in DOMAIN works'  BY <1>0, <1>t, <2>1, <2>2 DEF HandOK
  <2> QED  BY <1>0, <1>m, <1>t, <2>1, <2>3, <2>4, <2>5, <2>6 DEF HandOK
<1>4. ASSUME NEW w \in Work, ParseWell(w) \/ ParseMisplaced(w) \/ ParseThrows(w) \/ ParseEmpty(w)
      PROVE  HandOK'
  <2>1. PICK R : Parsed(w, R)  BY <1>4 DEF ParseWell, ParseMisplaced, ParseThrows, ParseEmpty
  <2>2. /\ item' = item \/ item' = [item EXCEPT ![w] = "ran"]
        /\ item[w] = "running" /\ Free(w)
        /\ content' = [content EXCEPT ![w] = content'[w]]
        /\ UNCHANGED <<packages, works, files, hand, main>>
    BY <1>4, <2>1, ParseFacts DEF ParseWell, ParseMisplaced, ParseThrows, ParseEmpty
  <2>3. \A v \in Work : v # w => item'[v] = item[v] /\ content'[v] = content[v]  BY <1>t, <2>2
  <2>4. item'[w] \in {"running", "ran"}  BY <1>t, <2>2
  <2>5. \A v \in DOMAIN works : v \in Work  BY <1>0, WorkTypes
  <2> QED  BY <1>0, <1>t, <2>2, <2>3, <2>4, <2>5 DEF HandOK, Free
<1>5. ASSUME NEW w \in Work, SkipImport(w)  PROVE HandOK'
  BY <1>0, <1>5 DEF SkipImport, HandOK, Free
<1>6. ASSUME NEW w \in Work, ImportPackage(w)  PROVE HandOK'
  <2>1. \A d \in Caller \ {w} : files'[d] = files[d]
    BY <1>0, <1>6, <1>t, ImportFacts, PackageFrame DEF ImportPackage
  <2>2. content[w] # NoContent
    BY <1>0, <1>6, ImportFacts DEF ImportPackage, NoContent
  <2>3. item[w] = "running" /\ UNCHANGED <<works, item, hand, main, content>>
    BY <1>6 DEF ImportPackage, Importing
  <2> QED  BY <1>0, <1>m, <1>t, <2>1, <2>2, <2>3 DEF HandOK, Free
<1>7. ASSUME NEW w \in Work, Return(w) \/ SchedStep(w)  PROVE HandOK'
  <2>1. /\ \/ item[w] = "running" /\ Free(w) /\ item' = [item EXCEPT ![w] = "ran"]
           \/ item[w] = "queued" /\ item' = [item EXCEPT ![w] = "running"]
           \/ item[w] = "ran" /\ item' = [item EXCEPT ![w] = "disposed"]
        /\ UNCHANGED buildVars
    BY <1>7 DEF Return, SchedStep, S!Return, S!Start, S!DisposeItem, S!Running
  <2>2. item[w] # "new" /\ item'[w] # "new" /\ Free(w) /\ \A v \in Work \ {w} : item'[v] = item[v]
    BY <1>0, <1>t, <2>1 DEF HandOK
  <2>3. \A v \in DOMAIN works : v \in Work  BY <1>0, WorkTypes
  <2> QED  BY <1>0, <2>1, <2>2, <2>3 DEF HandOK, Free, buildVars
<1>8. CASE CallWait \/ WaitReturns \/ Scan \/ Output \/ Fini
  <2>1. UNCHANGED <<works, item, files, hand, content>> /\ (main' = main \/ Free(MainCaller))
    BY <1>0, <1>8 DEF CallWait, WaitReturns, Scan, Output, Fini, S!CallWait, S!WaitReturns, S!Fini, HandOK
  <2> QED  BY <1>0, <2>1 DEF HandOK, Free
<1>9. CASE UNCHANGED vars  BY <1>0, <1>9 DEF vars, buildVars, HandOK, Free
<1> QED  BY <1>1, <1>2, <1>3, <1>4, <1>5, <1>6, <1>7, <1>8, <1>9, Steps

(* The imports a work has come to are packages.                            *)
LEMMA ImportsStep ==
  ASSUME BuildInv, [Next]_vars
  PROVE  ImportsOK'
<1>0. TypeOK /\ ImportsOK /\ HandOK  BY DEF BuildInv
<1>t. /\ content \in [Work -> Content \cup {NoContent}]
      /\ imports \in [Work -> Seq(Import)]
      /\ item \in [Work -> {"new", "queued", "running", "ran", "disposed"}]
      /\ hand \in [Caller -> {0} \cup Work]
  BY <1>0 DEF TypeOK, S!TypeOK
<1>p. Range(packages) \subseteq Range(packages')
  <2>1. ASSUME NEW p \in Path, NEW c \in Caller, NewPackage(c, p) \/ MissingPackage(c, p)
        PROVE  Range(packages) \subseteq Range(packages')
    BY <2>1, NewPackageFacts DEF NewPackage, MissingPackage
  <2>2. ASSUME NEW c \in Caller, AddWork(c)  PROVE Range(packages) \subseteq Range(packages')
    BY <2>2 DEF AddWork
  <2> QED  BY <2>1, <2>2, PackageSteps
<1> DEFINE OK(w) ==
      /\ item[w] \in {"new", "queued"} => content[w] = NoContent
      /\ item[w] \in {"ran", "disposed"} => content[w] # NoContent /\ imports[w] = << >>
      /\ content[w].result \in {"none", "thrown"} => imports[w] = << >>
      /\ Range(imports[w]) \subseteq Range(content[w].imports)
      /\ content[w].result \in {"whole", "misnamed", "misplaced"} =>
           \A i \in Range(content[w].imports) \ Range(imports[w]) :
             i.kind # "builtin" => Canonical[i.path] \in Range(packages)
<1>d. (ImportsOK <=> \A w \in Work : OK(w)) /\ (ImportsOK' <=> \A w \in Work : OK(w)')
  BY DEF ImportsOK
<1>e. ASSUME NEW w \in Work, content'[w] = content[w], imports'[w] = imports[w], item'[w] = item[w]
      PROVE  OK(w)'
  BY <1>0, <1>p, <1>e DEF ImportsOK
<1> HIDE DEF OK
<1>1. CASE AddRoot
  BY <1>1, <1>d, <1>e DEF AddRoot
<1>2. ASSUME NEW c \in Caller, AddWork(c)  PROVE ImportsOK'
  BY <1>2, <1>d, <1>e DEF AddWork
<1>3. ASSUME NEW c \in Caller, QueueWork(c)  PROVE ImportsOK'
  <2>1. PICK w \in Work : /\ item[w] = "new" /\ item' = [item EXCEPT ![w] = "queued"]
                          /\ UNCHANGED <<content, imports>>
    BY <1>3, <1>t DEF QueueWork, S!Queue
  <2>2. OK(w)'
    <3>1. OK(w)  BY <1>0, <1>d
    <3>2. item'[w] = "queued" /\ content'[w] = content[w] /\ imports'[w] = imports[w]
      BY <1>t, <2>1
    <3> QED  BY <1>p, <2>1, <3>1, <3>2 DEF OK
  <2> QED  BY <1>d, <1>e, <1>t, <2>1, <2>2
<1>4. ASSUME NEW w \in Work, ParseWell(w) \/ ParseMisplaced(w) \/ ParseThrows(w) \/ ParseEmpty(w)
      PROVE  ImportsOK'
  <2>1. PICK R : /\ Parsed(w, R)
                 /\ \/ ParseWell(w) /\ R = {"whole", "misnamed"}
                    \/ ParseMisplaced(w) /\ R = {"misplaced"}
                    \/ ParseThrows(w) /\ R = {"thrown"}
                    \/ ParseEmpty(w) /\ R = {"blank", "unreadable"}
    BY <1>4 DEF ParseWell, ParseMisplaced, ParseThrows, ParseEmpty
  <2>2. /\ item[w] = "running" /\ imports[w] = << >>
        /\ content'[w].result \in R /\ content'[w] # NoContent
        /\ content' = [content EXCEPT ![w] = content'[w]]
        /\ content'[w] \in Content
    BY <2>1, ParseFacts
  <2>3. \/ ParseWell(w) \/ ParseMisplaced(w)
        \/ ParseThrows(w) /\ content'[w].result = "thrown"
        \/ ParseEmpty(w) /\ content'[w].result \notin {"whole", "misnamed", "misplaced"}
    BY <2>1, <2>2
  <2>e. Range(<< >>) = {}  BY DEF Range
  <2>4. OK(w)'
    <3>1. CASE ParseWell(w) \/ ParseMisplaced(w)
      <4>1. imports'[w] = content'[w].imports /\ content'[w].result \notin {"none", "thrown"}
        BY <1>t, <2>1, <2>2, <3>1 DEF ParseWell, ParseMisplaced, ParseThrows, ParseEmpty
      <4>2. item'[w] = "running"  BY <2>2, <3>1 DEF ParseWell, ParseMisplaced
      <4> QED  BY <4>1, <4>2 DEF OK
    <3>2. CASE (ParseThrows(w) \/ ParseEmpty(w)) /\ content'[w].result \notin {"whole", "misnamed", "misplaced"}
      <4>1. imports'[w] = << >> /\ item'[w] \in {"running", "ran"}
        BY <1>t, <2>2, <3>2 DEF ParseThrows, ParseEmpty
      <4> QED  BY <2>2, <2>e, <3>2, <4>1 DEF OK
    <3> QED  BY <2>3, <3>1, <3>2
  <2>5. ASSUME NEW v \in Work, v # w  PROVE OK(v)'
    <3>1. content'[v] = content[v] /\ imports'[v] = imports[v] /\ item'[v] = item[v]
      BY <1>t, <1>4, <2>2, <2>5 DEF ParseWell, ParseMisplaced, ParseThrows, ParseEmpty
    <3> QED  BY <1>e, <3>1
  <2> QED  BY <1>d, <2>4, <2>5
<1>5. ASSUME NEW w \in Work, SkipImport(w) \/ ImportPackage(w)  PROVE ImportsOK'
  <2>1. /\ Importing(w) /\ item[w] = "running"
        /\ imports' = [imports EXCEPT ![w] = Tail(imports[w])]
        /\ UNCHANGED <<content, item>>
    BY <1>5 DEF SkipImport, ImportPackage, Importing
  <2>2. /\ Range(Tail(imports[w])) \subseteq Range(imports[w])
        /\ \A i \in Range(imports[w]) : i = Head(imports[w]) \/ i \in Range(Tail(imports[w]))
        /\ Canonical[Head(imports[w]).path] \in Path
        /\ content[w].result \notin {"none", "thrown"}
    BY <1>0, <2>1, ImportFacts
  <2>3. Head(imports[w]).kind # "builtin" => Canonical[Head(imports[w]).path] \in Range(packages')
    BY <1>0, <1>5, <2>2, PackageFrame DEF SkipImport, ImportPackage, Caller
  <2>4. OK(w)'
    <3>1. imports'[w] = Tail(imports[w]) /\ content'[w] = content[w] /\ item'[w] = "running"
      BY <1>t, <2>1
    <3>2. OK(w)  BY <1>0, <1>d
    <3> QED  BY <1>p, <2>2, <2>3, <3>1, <3>2 DEF OK
  <2>5. ASSUME NEW v \in Work, v # w  PROVE OK(v)'
    BY <1>e, <1>t, <2>1, <2>5
  <2> QED  BY <1>d, <2>4, <2>5
<1>7. ASSUME NEW w \in Work, Return(w) \/ SchedStep(w)  PROVE ImportsOK'
  <2>1. /\ \/ /\ content[w] # NoContent /\ imports[w] = << >>
              /\ item[w] = "running" /\ item' = [item EXCEPT ![w] = "ran"]
           \/ item[w] = "queued" /\ item' = [item EXCEPT ![w] = "running"]
           \/ item[w] = "ran" /\ item' = [item EXCEPT ![w] = "disposed"]
        /\ UNCHANGED buildVars
    BY <1>7 DEF Return, SchedStep, S!Return, S!Start, S!DisposeItem, S!Running
  <2>2. OK(w)'
    <3>1. OK(w)  BY <1>0, <1>d
    <3> QED  BY <1>t, <2>1, <3>1 DEF OK, buildVars
  <2> QED  BY <1>d, <1>e, <1>t, <2>1, <2>2 DEF buildVars
<1>8. CASE CallWait \/ WaitReturns \/ Scan \/ Output \/ Fini
  BY <1>8, <1>d, <1>e DEF CallWait, WaitReturns, Scan, Output, Fini, S!CallWait, S!WaitReturns, S!Fini
<1>9. CASE UNCHANGED vars  BY <1>9, <1>d, <1>e DEF vars, buildVars
<1> QED  BY <1>1, <1>2, <1>3, <1>4, <1>5, <1>7, <1>8, <1>9, Steps

(* What a step does to the works' files and contents, seen from a set that *)
(* is closed under imports: it was closed before.                          *)
LEMMA ClosedBefore ==
  ASSUME BuildInv, [Next]_vars, NEW paths \in SUBSET Path, ClosedUnderImports(paths)'
  PROVE  ClosedUnderImports(paths)
<1>0. TypeOK /\ ImportsOK /\ HandOK  BY DEF BuildInv
<1>t. content \in [Work -> Content \cup {NoContent}] /\ DOMAIN works \subseteq Work
  BY <1>0, WorkTypes DEF TypeOK
<1>1. ASSUME NEW w \in DOMAIN works  PROVE w \in DOMAIN works' /\ works'[w] = works[w]
  BY <1>1, PackageSteps, AddWorkFacts
<1>2. ASSUME NEW w \in Work  PROVE content'[w] = content[w] \/ content[w] = NoContent
  <2>1. ASSUME NEW v \in Work,
               ParseWell(v) \/ ParseMisplaced(v) \/ ParseThrows(v) \/ ParseEmpty(v)
        PROVE  content'[w] = content[w] \/ content[w] = NoContent
    <3>1. PICK R : Parsed(v, R)  BY <2>1 DEF ParseWell, ParseMisplaced, ParseThrows, ParseEmpty
    <3>2. content[v] = NoContent /\ content' = [content EXCEPT ![v] = content'[v]]
      BY <3>1, ParseFacts
    <3> QED  BY <1>t, <3>2
  <2>2. ASSUME NEW v \in Work, SkipImport(v) \/ ImportPackage(v) \/ Return(v) \/ SchedStep(v)
        PROVE  content' = content
    BY <2>2 DEF SkipImport, ImportPackage, Return, SchedStep, buildVars
  <2>3. ASSUME NEW c \in Caller, AddWork(c) \/ QueueWork(c)  PROVE content' = content
    BY <2>3 DEF AddWork, QueueWork
  <2>4. CASE AddRoot \/ CallWait \/ WaitReturns \/ Scan \/ Output \/ Fini \/ UNCHANGED vars
    BY <2>4 DEF AddRoot, CallWait, WaitReturns, Scan, Output, Fini, vars, buildVars
  <2> QED  BY <2>1, <2>2, <2>3, <2>4, Steps
<1>3. ASSUME NEW w \in DOMAIN works  PROVE Imported(w) \subseteq Imported(w)'
  <2>1. CASE content'[w] = content[w]  BY <2>1 DEF Imported
  <2>2. CASE content[w] = NoContent
    <3>1. Range(content[w].imports) = {}  BY <2>2 DEF NoContent, Range
    <3>2. Imported(w) = {}  BY <3>1 DEF Imported
    <3> QED  BY <3>2
  <2> QED  BY <1>2, <1>t, <1>3, <2>1, <2>2
<1> QED  BY <1>1, <1>3 DEF ClosedUnderImports

(* Nothing becomes a package but the root and what a work imports.         *)
LEMMA ReachedStep ==
  ASSUME BuildInv, [Next]_vars
  PROVE  ReachedOK'
<1>0. TypeOK /\ ImportsOK /\ HandOK /\ WorksOK /\ ReachedOK /\ MainOK  BY DEF BuildInv
<1>1. CASE AddRoot
  <2>1. Range(packages') = Range(packages) \cup {Root}
    BY <1>0, <1>1, PackageFrame, BuildAssumption DEF AddRoot, Caller
  <2>2. ASSUME NEW paths \in SUBSET Path, ClosedUnderImports(paths)'
        PROVE  Range(packages') \subseteq paths
    <3>1. Range(packages) \subseteq paths  BY <1>0, <2>2, ClosedBefore DEF ReachedOK
    <3>2. Root \in paths  BY <2>2 DEF ClosedUnderImports
    <3> QED  BY <2>1, <3>1, <3>2
  <2> QED  BY <2>1, <2>2 DEF ReachedOK
<1>2. ASSUME NEW w \in Work, ImportPackage(w)  PROVE ReachedOK'
  <2>0. Importing(w) /\ Head(imports[w]).kind # "builtin" /\ UNCHANGED <<main, works, content>>
    BY <1>2 DEF ImportPackage
  <2>1. /\ Head(imports[w]) \in Range(content[w].imports)
        /\ Canonical[Head(imports[w]).path] \in Path
        /\ content[w].result # "thrown"
    BY <1>0, <2>0, ImportFacts
  <2>2. Range(packages') = Range(packages) \cup {Canonical[Head(imports[w]).path]}
    BY <1>0, <1>2, <2>1, PackageFrame DEF ImportPackage, Caller
  <2>3. w \in DOMAIN works  BY <1>0, <2>0 DEF HandOK, Importing
  <2>4. works[w][1] \in Range(packages)  BY <1>0, <2>3 DEF WorksOK
  <2>5. Canonical[Head(imports[w]).path] \in Imported(w)  BY <2>0, <2>1 DEF Imported
  <2>6. ASSUME NEW paths \in SUBSET Path, ClosedUnderImports(paths)'
        PROVE  Range(packages') \subseteq paths
    <3>1. ClosedUnderImports(paths)  BY <2>6, ClosedBefore
    <3>2. Range(packages) \subseteq paths  BY <1>0, <3>1 DEF ReachedOK
    <3>3. Imported(w) \subseteq paths  BY <2>3, <2>4, <3>1, <3>2 DEF ClosedUnderImports
    <3> QED  BY <2>2, <2>5, <3>2, <3>3
  <2> QED  BY <1>0, <2>0, <2>2, <2>6 DEF ReachedOK
<1>3. ASSUME UNCHANGED packages, main = "init" => main' = "init"  PROVE ReachedOK'
  <2>1. main' # "init" => Root \in Range(packages')
    BY <1>0, <1>3 DEF ReachedOK
  <2>2. ASSUME NEW paths \in SUBSET Path, ClosedUnderImports(paths)'
        PROVE  Range(packages') \subseteq paths
    BY <1>0, <1>3, <2>2, ClosedBefore DEF ReachedOK
  <2> QED  BY <2>1, <2>2 DEF ReachedOK
<1>4. ASSUME NEW w \in Work,
             ParseWell(w) \/ ParseMisplaced(w) \/ ParseThrows(w) \/ ParseEmpty(w)
             \/ SkipImport(w) \/ Return(w) \/ SchedStep(w)
      PROVE  UNCHANGED <<packages, main>>
  BY <1>4 DEF ParseWell, ParseMisplaced, ParseThrows, ParseEmpty, Parsed, SkipImport, Return,
              SchedStep, buildVars
<1>5. ASSUME NEW c \in Caller, AddWork(c) \/ QueueWork(c)  PROVE UNCHANGED <<packages, main>>
  BY <1>5 DEF AddWork, QueueWork
<1>6. CASE CallWait \/ WaitReturns \/ Scan \/ Output \/ Fini
  BY <1>3, <1>6 DEF CallWait, WaitReturns, Scan, Output, Fini
<1>7. CASE UNCHANGED vars  BY <1>3, <1>7 DEF vars, buildVars
<1> QED  BY <1>1, <1>2, <1>3, <1>4, <1>5, <1>6, <1>7, Steps

(* An error that was found is on record, or the program has ended on it.   *)
LEMMA ErrorStep ==
  ASSUME BuildInv, [Next]_vars
  PROVE  ErrorOK'
<1>0. TypeOK /\ ImportsOK /\ HandOK /\ ErrorOK  BY DEF BuildInv
<1>t. /\ content \in [Work -> Content \cup {NoContent}]
      /\ imports \in [Work -> Seq(Import)]
      /\ DOMAIN works \subseteq Work
      /\ DOMAIN works' \subseteq Work
  <2>1. works' \in Seq(FileOfPackage) /\ Len(works') <= MaxWorks  BY TypeStep DEF TypeOK
  <2>2. DOMAIN works' \subseteq Work  BY <2>1, BuildAssumption DEF Work
  <2> QED  BY <1>0, <2>2, WorkTypes DEF TypeOK
<1>e. Range(<< >>) = {}  BY DEF Range
<1> DEFINE OK(w) ==
      /\ content[w].result \in {"misnamed", "misplaced"} => w \in error
      /\ content[w].result \in {"blank", "unreadable"} => exit = "no statement"
      /\ content[w].result = "whole" =>
           \A i \in Range(content[w].imports) \ Range(imports[w]) : i.kind = "unfound" => w \in error
<1>d. (ErrorOK <=> \A w \in DOMAIN works : OK(w)) /\ (ErrorOK' <=> \A w \in DOMAIN works' : OK(w)')
  BY DEF ErrorOK
<1>n. ASSUME NEW w \in Work, content[w] = NoContent  PROVE OK(w)
  BY <1>n DEF NoContent
<1>o. ASSUME NEW w \in DOMAIN works'  PROVE OK(w)
  <2>1. CASE w \in DOMAIN works  BY <1>0, <1>d, <2>1
  <2>2. CASE w \notin DOMAIN works
    <3>1. w \in Work /\ item[w] = "new"  BY <1>0, <1>t, <2>2 DEF HandOK
    <3>2. content[w] = NoContent  BY <1>0, <3>1 DEF ImportsOK
    <3> QED  BY <1>n, <3>1, <3>2
  <2> QED  BY <2>1, <2>2
<1>k. ASSUME NEW w \in DOMAIN works', content'[w] = content[w], imports'[w] = imports[w],
             error \subseteq error', exit = "running" \/ exit' = exit
      PROVE  OK(w)'
  BY <1>o, <1>k
<1> HIDE DEF OK
<1>1. CASE exit = "running" /\ (AddRoot \/ CallWait \/ WaitReturns \/ Scan \/ Output \/ Fini)
  BY <1>1, <1>d, <1>k DEF AddRoot, CallWait, WaitReturns, Scan, Output, Fini
<1>2. ASSUME NEW c \in Caller, AddWork(c) \/ QueueWork(c)  PROVE ErrorOK'
  BY <1>2, <1>d, <1>k DEF AddWork, QueueWork
<1>3. ASSUME NEW w \in Work, exit = "running",
             ParseWell(w) \/ ParseMisplaced(w) \/ ParseThrows(w) \/ ParseEmpty(w)
      PROVE  ErrorOK'
  <2>1. PICK R : /\ Parsed(w, R)
                 /\ \/ ParseWell(w) /\ R = {"whole", "misnamed"}
                    \/ ParseMisplaced(w) /\ R = {"misplaced"}
                    \/ ParseThrows(w) /\ R = {"thrown"}
                    \/ ParseEmpty(w) /\ R = {"blank", "unreadable"}
    BY <1>3 DEF ParseWell, ParseMisplaced, ParseThrows, ParseEmpty
  <2>2. content'[w].result \in R /\ content' = [content EXCEPT ![w] = content'[w]]
    BY <2>1, ParseFacts
  <2>3. OK(w)'
    <3>1. CASE ParseWell(w) /\ R = {"whole", "misnamed"}
      <4>1. imports'[w] = content'[w].imports /\ (content'[w].result = "misnamed" => w \in error')
        BY <1>t, <3>1 DEF ParseWell
      <4> QED  BY <2>2, <3>1, <4>1 DEF OK
    <3>2. CASE ParseMisplaced(w) /\ R = {"misplaced"}
      BY <2>2, <3>2 DEF OK, ParseMisplaced
    <3>3. CASE ParseThrows(w) /\ R = {"thrown"}
      BY <2>2, <3>3 DEF OK
    <3>4. CASE ParseEmpty(w) /\ R = {"blank", "unreadable"}
      BY <2>2, <3>4 DEF OK, ParseEmpty
    <3> QED  BY <2>1, <3>1, <3>2, <3>3, <3>4
  <2>4. ASSUME NEW v \in DOMAIN works', v # w  PROVE OK(v)'
    <3>1. content'[v] = content[v] /\ imports'[v] = imports[v]
      BY <1>t, <1>3, <2>2, <2>4 DEF ParseWell, ParseMisplaced, ParseThrows, ParseEmpty
    <3>2. error \subseteq error'
      BY <1>3 DEF ParseWell, ParseMisplaced, ParseThrows, ParseEmpty
    <3> QED  BY <1>3, <1>k, <3>1, <3>2
  <2> QED  BY <1>d, <2>3, <2>4
<1>4. ASSUME NEW w \in Work, exit = "running", SkipImport(w) \/ ImportPackage(w)  PROVE ErrorOK'
  <2>1. /\ Importing(w) /\ error \subseteq error' /\ UNCHANGED <<content>>
        /\ imports' = [imports EXCEPT ![w] = Tail(imports[w])]
    BY <1>4 DEF SkipImport, ImportPackage
  <2>2. \A i \in Range(imports[w]) : i = Head(imports[w]) \/ i \in Range(Tail(imports[w]))
    BY <1>0, <2>1, ImportFacts
  <2>3. Head(imports[w]).kind = "unfound" => w \in error'
    BY <1>4 DEF SkipImport, ImportPackage
  <2>4. content[w].result \notin {"blank", "unreadable"} \/ w \notin DOMAIN works
    <3>1. w \in DOMAIN works => OK(w)  BY <1>0, <1>d
    <3> QED  BY <1>4, <3>1 DEF OK
  <2>5. w \in DOMAIN works' => OK(w)'
    <3>1. imports'[w] = Tail(imports[w]) /\ content'[w] = content[w] /\ DOMAIN works' = DOMAIN works
      BY <1>t, <1>4, <2>1 DEF SkipImport, ImportPackage
    <3>2. w \in DOMAIN works' => OK(w)  BY <1>o
    <3> QED  BY <2>1, <2>2, <2>3, <2>4, <3>1, <3>2 DEF OK
  <2>6. ASSUME NEW v \in DOMAIN works', v # w  PROVE OK(v)'
    BY <1>4, <1>k, <1>t, <2>1, <2>6
  <2> QED  BY <1>d, <2>5, <2>6
<1>5. ASSUME NEW w \in Work, Return(w) \/ SchedStep(w)  PROVE ErrorOK'
  BY <1>5, <1>d, <1>k DEF Return, SchedStep, buildVars
<1>6. CASE UNCHANGED vars  BY <1>6, <1>d, <1>k DEF vars, buildVars
<1> QED  BY <1>1, <1>2, <1>3, <1>4, <1>5, <1>6, Steps

(* main.c goes on when no work is left to run, and no step after that      *)
(* brings one back.                                                        *)
LEMMA MainStepOK ==
  ASSUME BuildInv, [Next]_vars
  PROVE  MainOK'
<1>0. TypeOK /\ HandOK /\ WorksOK /\ MainOK  BY DEF BuildInv
<1>t. /\ item \in [Work -> {"new", "queued", "running", "ran", "disposed"}]
      /\ packages \in Seq(Path) /\ hand \in [Caller -> {0} \cup Work]
  BY <1>0 DEF TypeOK, S!TypeOK
<1>m. main \in {"init", "adding", "waiting", "scanning", "output", "success", "failure"}
  BY <1>0 DEF TypeOK
\* While a work runs, main.c is between the root's package and the wait's return.
<1>r. ASSUME NEW w \in Work, item[w] \notin {"new", "disposed"}  PROVE main \in {"adding", "waiting"}
  <2>1. main \notin {"scanning", "output", "success", "failure"}  BY <1>0, <1>r DEF MainOK
  <2>2. w \in DOMAIN works  BY <1>0, <1>r DEF HandOK
  <2>3. works[w][1] \in Range(packages)  BY <1>0, <2>2 DEF WorksOK
  <2>4. packages # << >>  BY <2>3 DEF Range
  <2>5. main # "init"  BY <1>0, <2>4 DEF MainOK
  <2> QED  BY <1>m, <2>1, <2>5
<1>h. ASSUME NEW c \in Caller, ~Free(c)  PROVE main \in {"adding", "waiting"}
  <2>1. CASE c = MainCaller  BY <1>0, <1>h, <2>1 DEF HandOK
  <2>2. CASE c \in Work
    <3>1. item[c] = "running"  BY <1>0, <1>h, <2>2 DEF HandOK
    <3> QED  BY <1>r, <2>2, <3>1
  <2> QED  BY <2>1, <2>2 DEF Caller
<1>k. ASSUME exit = "running", main \in {"adding", "waiting"}, main' = main, owner' = owner,
             exit' \in {"running", "null listing", "no statement", "miscast"}
      PROVE  MainOK'
  BY <1>0, <1>k DEF MainOK
<1>1. CASE exit = "running" /\ AddRoot
  <2>1. exit' \in {"running", "null listing"}
    BY <1>0, <1>1, PackageFrame, BuildAssumption DEF AddRoot, Caller
  <2>2. main = "init" /\ main' = "adding" /\ owner' = owner  BY <1>1 DEF AddRoot
  <2> QED  BY <1>0, <2>1, <2>2 DEF MainOK
<1>2. ASSUME exit = "running", NEW c \in Caller, AddWork(c) \/ QueueWork(c)  PROVE MainOK'
  <2>1. ~Free(c) /\ UNCHANGED <<main, exit, owner>>
    BY <1>2 DEF AddWork, QueueWork, Free, S!Queue
  <2> QED  BY <1>2, <1>h, <1>k, <2>1
<1>3. ASSUME exit = "running", NEW w \in Work,
             ParseWell(w) \/ ParseMisplaced(w) \/ ParseThrows(w) \/ ParseEmpty(w) \/ SkipImport(w)
      PROVE  MainOK'
  <2>1. /\ item[w] = "running" /\ UNCHANGED <<main, owner>>
        /\ exit' \in {"running", "no statement", "miscast"}
    BY <1>3 DEF ParseWell, ParseMisplaced, ParseThrows, ParseEmpty, Parsed, SkipImport, Importing
  <2> QED  BY <1>3, <1>k, <1>r, <2>1
<1>4. ASSUME exit = "running", NEW w \in Work, ImportPackage(w)  PROVE MainOK'
  <2>1. Canonical[Head(imports[w]).path] \in Path
    BY <1>4, ImportFacts DEF BuildInv, ImportPackage
  <2>2. exit' \in {"running", "null listing"}
    BY <1>0, <1>4, <2>1, PackageFrame DEF ImportPackage, Caller
  <2>3. item[w] = "running" /\ UNCHANGED <<main, owner>>
    BY <1>4 DEF ImportPackage, Importing
  <2> QED  BY <1>4, <1>k, <1>r, <2>2, <2>3
<1>5. ASSUME exit = "running", NEW w \in Work, Return(w) \/ SchedStep(w)  PROVE MainOK'
  <2>1. item[w] \notin {"new", "disposed"} /\ UNCHANGED <<main, owner, exit>>
    BY <1>5 DEF Return, SchedStep, S!Return, S!Start, S!DisposeItem, S!Running, buildVars
  <2> QED  BY <1>5, <1>k, <1>r, <2>1
<1>6. CASE exit = "running" /\ CallWait
  BY <1>0, <1>6 DEF CallWait, S!CallWait, MainOK
<1>7. CASE exit = "running" /\ WaitReturns
  BY <1>0, <1>7 DEF WaitReturns, S!WaitReturns, S!Idle, MainOK
<1>8. CASE exit = "running" /\ Scan
  BY <1>0, <1>8 DEF Scan, MainOK
<1>9. CASE exit = "running" /\ Output
  BY <1>0, <1>9 DEF Output, MainOK
<1>10. CASE exit = "running" /\ Fini
  BY <1>0, <1>10 DEF Fini, S!Fini, MainOK
<1>11. CASE UNCHANGED vars  BY <1>0, <1>11 DEF vars, buildVars, MainOK
<1> QED  BY <1>1, <1>2, <1>3, <1>4, <1>5, <1>6, <1>7, <1>8, <1>9, <1>10, <1>11, Steps

-----------------------------------------------------------------------------
(* The initial state satisfies the invariant.                              *)
LEMMA BuildInit ==
  ASSUME Init
  PROVE  BuildInv
<1>0. MainCaller \in Caller /\ (\A w \in Work : w \in Caller) /\ Range(<< >>) = {} /\ Len(<< >>) = 0
  BY DEF Caller, Range
<1>1. TypeOK
  <2>1. 0 <= MaxWorks  BY BuildAssumption
  <2>2. << >> \in Seq(Path) /\ << >> \in Seq(FileOfPackage) /\ << >> \in Seq(Import)  OBVIOUS
  <2> QED  BY <1>0, <2>1, <2>2 DEF Init, S!Init, TypeOK, S!TypeOK
<1>2. PathsOnce  BY DEF Init, PathsOnce
<1>3. FilesOK  BY DEF Init, FilesOK
<1>4. WorksOK  BY <1>0 DEF Init, WorksOK
<1>5. HandOK  BY <1>0 DEF Init, S!Init, HandOK, Free
<1>6. ImportsOK  BY <1>0 DEF Init, S!Init, ImportsOK, NoContent
<1>7. ReachedOK  BY <1>0 DEF Init, ReachedOK
<1>8. ErrorOK  BY DEF Init, ErrorOK
<1>9. MainOK  BY DEF Init, S!Init, MainOK
<1> QED  BY <1>1, <1>2, <1>3, <1>4, <1>5, <1>6, <1>7, <1>8, <1>9 DEF BuildInv

(* The packages, the works, the listings and the imports that are left     *)
(* account for each other in every state, whatever the source tree.        *)
THEOREM BuildInvariant == Spec => []BuildInv
<1>1. Init => BuildInv  BY BuildInit
<1>2. BuildInv /\ [Next]_vars => BuildInv'
  BY TypeStep, PathsOnceStep, FilesStep, WorksStep, HandStep, ImportsStep, ReachedStep, ErrorStep,
     MainStepOK
  DEF BuildInv
<1> QED  BY <1>1, <1>2, PTL DEF Spec

(* No pathname is ever a package twice, and no file a work twice: the      *)
(* check and the insertion in project_add_package_internal are one step.   *)
THEOREM NothingTwice == Spec => []PathsOnce
<1>1. BuildInv => PathsOnce  BY DEF BuildInv
<1> QED  BY <1>1, BuildInvariant, PTL

(* When the wait has returned, no work is left and nothing is in a hand.   *)
LEMMA AfterWait ==
  ASSUME BuildInv, main \in {"scanning", "output", "success", "failure"}
  PROVE  /\ \A w \in Work : item[w] \in {"new", "disposed"}
         /\ \A c \in Caller : Free(c)
         /\ \A w \in DOMAIN works : /\ w \in Work
                                    /\ content[w] # NoContent
                                    /\ content[w] \in Content
                                    /\ Range(imports[w]) = {}
         /\ exit \notin {"null listing", "no statement", "miscast"}
<1>0. TypeOK /\ HandOK /\ ImportsOK /\ MainOK  BY DEF BuildInv
<1>1. /\ \A w \in Work : item[w] \in {"new", "disposed"}
      /\ exit \notin {"null listing", "no statement", "miscast"}
  BY <1>0 DEF MainOK
<1>2. \A c \in Caller : Free(c)  BY <1>0, <1>1 DEF HandOK, Caller
<1>3. ASSUME NEW w \in DOMAIN works
      PROVE  w \in Work /\ content[w] # NoContent /\ content[w] \in Content /\ Range(imports[w]) = {}
  <2>1. w \in Work  BY <1>0, WorkTypes
  <2>2. item[w] # "new"
    <3>1. SUFFICES ASSUME item[w] = "new"  PROVE FALSE  OBVIOUS
    <3>2. PICK c \in Caller : hand[c] = w  BY <1>0, <3>1 DEF HandOK
    <3>3. w # 0  BY <2>1, BuildAssumption DEF Work
    <3> QED  BY <1>2, <3>2, <3>3 DEF Free
  <2>3. content[w] # NoContent /\ imports[w] = << >>  BY <1>0, <1>1, <2>1, <2>2 DEF ImportsOK
  <2>4. content[w] \in Content  BY <1>0, <2>1, <2>3 DEF TypeOK
  <2> QED  BY <2>1, <2>3, <2>4 DEF Range
<1> QED  BY <1>1, <1>2, <1>3

(* When main.c reads the works, the packages are the root and what it      *)
(* leads to, the works are their files, and every one has been parsed: for *)
(* every tree, whichever of its files import each other.                   *)
THEOREM BuildComplete == Spec => []BuildIsComplete
<1>1. ASSUME BuildInv, main \in {"scanning", "output", "success", "failure"}
      PROVE  /\ ClosedUnderImports(Range(packages))
             /\ \A paths \in SUBSET Path : ClosedUnderImports(paths) => Range(packages) \subseteq paths
             /\ Range(works) = UNION {Wanted(p) : p \in Range(packages)}
             /\ \A w \in DOMAIN works : content[w] # NoContent
             /\ \A w \in Work : item[w] \in {"new", "disposed"}
  <2>0. WorksOK /\ ReachedOK /\ ErrorOK /\ ImportsOK  BY <1>1 DEF BuildInv
  <2>1. ASSUME NEW w \in DOMAIN works  PROVE Imported(w) \subseteq Range(packages)
    <3>1. w \in Work /\ content[w] \in Content /\ Range(imports[w]) = {} /\ exit # "no statement"
      BY <1>1, AfterWait
    <3>2. content[w].result \in {"whole", "misnamed", "misplaced", "thrown"}
      <4>1. content[w].result \in Result  BY <3>1 DEF Content
      <4>2. content[w].result \notin {"blank", "unreadable"}  BY <2>0, <3>1 DEF ErrorOK
      <4> QED  BY <4>1, <4>2 DEF Result
    <3>3. CASE content[w].result = "thrown"  BY <3>3 DEF Imported
    <3>4. CASE content[w].result # "thrown"
      <4>1. \A i \in Range(content[w].imports) :
              i.kind # "builtin" => Canonical[i.path] \in Range(packages)
        BY <2>0, <3>1, <3>2, <3>4 DEF ImportsOK
      <4> QED  BY <3>4, <4>1 DEF Imported
    <3> QED  BY <3>3, <3>4
  <2>2. ClosedUnderImports(Range(packages))
    BY <1>1, <2>0, <2>1 DEF ClosedUnderImports, ReachedOK
  <2>3. Range(works) \subseteq UNION {Wanted(p) : p \in Range(packages)}
    BY <2>0 DEF WorksOK, Range
  <2>4. ASSUME NEW p \in Range(packages), NEW pf \in Wanted(p)  PROVE pf \in Range(works)
    <3>1. p \in DOMAIN Entries  BY <1>1, <2>0, AfterWait DEF WorksOK
    <3>2. \A c \in Caller : files[c] = {}  BY <1>1, AfterWait DEF Free
    <3> QED  BY <2>0, <2>4, <3>1, <3>2 DEF WorksOK
  <2> QED  BY <1>1, <2>0, <2>2, <2>3, <2>4, AfterWait DEF ReachedOK
<1>2. BuildInv => BuildIsComplete  BY <1>1 DEF BuildIsComplete
<1> QED  BY <1>2, BuildInvariant, PTL

(* A program that ends with the status for success met no BUILD_ERROR in   *)
(* any of its works.                                                       *)
THEOREM BuildErrorsCount == Spec => []BuildErrorsFail
<1>1. ASSUME BuildInv, exit = "success", NEW w \in DOMAIN works
      PROVE  ~BuildError(w)
  <2>1. main = "success" /\ error = {}  BY <1>1 DEF BuildInv, MainOK
  <2>2. Range(imports[w]) = {}  BY <1>1, <2>1, AfterWait
  <2>3. ErrorOK  BY <1>1 DEF BuildInv
  <2> QED  BY <1>1, <2>1, <2>2, <2>3 DEF ErrorOK, BuildError
<1>2. BuildInv => BuildErrorsFail  BY <1>1 DEF BuildErrorsFail
<1> QED  BY <1>2, BuildInvariant, PTL
=============================================================================
