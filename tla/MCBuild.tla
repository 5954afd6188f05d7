------------------------------- MODULE MCBuild -------------------------------
(***************************************************************************)
(* A small source tree for Build: three packages that may import each      *)
(* other in cycles, files for other platforms, a file that is no source,   *)
(* and imports of what does not exist.  "r" is the root's pathname as one  *)
(* would type it, "/r" the same directory's canonical one.                 *)
(***************************************************************************)
EXTENDS Build

MCPath == {"r", "/r", "/p", "/q", "/fmt", ""}

MCCanonical == [p \in MCPath |-> IF p = "r" THEN "/r" ELSE IF p = "/fmt" THEN "" ELSE p]

RootFiles == {"a.odin", "b.odin", "a_windows.odin", "README"}

MCEntries ==
  [p \in {"r", "/r", "/p", "/q"} |->
     CASE p \in {"r", "/r"} -> RootFiles
       [] p = "/p" -> {"c_unix.odin", "c_darwin.odin"}
       [] p = "/q" -> {"d_linux.odin"}]

MCSuffix ==
  [f \in UNION {MCEntries[p] : p \in DOMAIN MCEntries} |->
     CASE f \in {"a.odin", "b.odin"} -> "odin"
       [] f = "a_windows.odin" -> "windows"
       [] f = "c_unix.odin" -> "unix"
       [] f = "c_darwin.odin" -> "darwin"
       [] f = "d_linux.odin" -> "linux"
       [] f = "README" -> "other"]

Found(p) == [kind |-> "found", path |-> p]
Builtin == [kind |-> "builtin", path |-> "/fmt"]
Unfound == [kind |-> "unfound", path |-> "/fmt"]
Holding(result, list) == [result |-> result, imports |-> list]

MCContents ==
  [f \in DOMAIN MCSuffix |->
     CASE f = "a.odin" ->
            {Holding("whole", <<Builtin, Found("/p"), Found("/q")>>), Holding("whole", <<Unfound>>),
             Holding("misnamed", <<Found("/q")>>), Holding("thrown", << >>), Holding("blank", << >>)}
       [] f = "b.odin" ->
            {Holding("whole", <<Found("/q"), Found("/p")>>), Holding("thrown", << >>),
             Holding("unreadable", << >>)}
       [] f = "c_unix.odin" ->
            {Holding("whole", <<Found("/r")>>), Holding("whole", <<Found("/q")>>),
             Holding("misplaced", << >>)}
       [] f = "d_linux.odin" ->
            {Holding("whole", <<Found("/p")>>), Holding("whole", << >>), Holding("misnamed", << >>)}
       [] OTHER -> {Holding("whole", << >>)}]
=============================================================================
