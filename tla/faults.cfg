\* Every fault, overlapping requests on one repository.
SPECIFICATION Spec
CONSTANTS
  Null = Null
  Exited = Exited
  readme = readme
  guide = guide
  code = code
  b1 = b1
  b2 = b2
  binary = binary
  c1 = c1
  c2 = c2
  c3 = c3
  main = main
  dev = dev
  Paths <- MCPaths
  Markdown <- MCMarkdown
  Blobs <- MCBlobs
  Unstorable <- MCUnstorable
  Commits <- MCCommits
  Branches <- MCBranches
  Tree <- MCTree
  CommitsOf <- MCCommitsOf
  Repos = {r1}
  Codes = {internal}
  Stamps = {t1, t2}
  Workers = {w1, w2}
  Syncers = {s1}
  Patchers = {p1}
  QueueSize = 1
  Faults = {"client", "claim", "unclaim", "mark", "record", "commit", "reset"}
  MaxRestarts = 1
SYMMETRY Interchangeable
INVARIANTS
  TypeOK
  RowShape
  DocsMatchSyncedCommit
  SyncedOnTrackedBranch
  PlanIsCurrent
PROPERTIES
  ClaimIsReversible
  BranchChangeResets
  ImplementsStore
