\* Two PATCH requests overlap.
SPECIFICATION Spec
CONSTANTS
  Null = Null
  Exited = Exited
  readme = readme
  b1 = b1
  c1 = c1
  c2 = c2
  main = main
  dev = dev
  Paths <- MCFiles
  Markdown <- MCFiles
  Blobs <- MCBlobs
  Unstorable <- MCUnstorable
  Commits <- MCCommits
  Branches <- MCBranches
  Tree <- MCTree
  CommitsOf <- MCCommitsOf
  Repos = {r1}
  Codes = {internal}
  Stamps = {t1, t2}
  Workers = {w1, w2}
  Syncers = {s1}
  Patchers = {p1, p2}
  QueueSize = 1
  Faults = {}
  MaxRestarts = 0
SYMMETRY Interchangeable
PROPERTY
  BranchChangeResets
