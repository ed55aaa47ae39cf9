\* One request, while up to four branches or repositories come and go; three pages of one.
SPECIFICATION MCSpec
CONSTANTS
  Null = Null
  Length = 4
  Items <- MCItems
  PerPage = 1
  MaxPages = 3
  Requests = {q1}
  Folded <- MCFolded
INVARIANTS
  TypeOK
  RefusalIsRight
  SelectsExisting
  ListIsComplete
  EmptyNeedsInstallation
