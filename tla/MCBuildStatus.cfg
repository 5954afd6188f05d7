CONSTANTS
  Path <- MCPath
  Root = "/r"
  Canonical <- MCCanonical
  Entries <- MCEntries
  Suffix <- MCSuffix
  Target = "linux"
  Contents <- MCContents
  MaxWorks = 4

SPECIFICATION Spec

INVARIANT SuccessMeansParsed
