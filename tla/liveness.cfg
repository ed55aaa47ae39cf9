\* No statement fails: two repositories share one slot of the queue.
SPECIFICATION FairSpec
CONSTANTS
  Null = Null
  Exited = Exited
  readme = readme
  b1 = b1
  c1 = c1
  c2 = c2
  main = main
  dev = dev
  Paths <- MCFiles
  Markdown <- MCFiles
  Blobs <- MCBlobs
  Unstorable <- MCUnstorable
  Commits <- MCCommits
  Branches <- MCBranches
  Tree <- MCTree
  CommitsOf <- MCCommitsOf
  Repos = {r1, r2}
  Codes = {internal}
  Stamps = {t1, t2, t3}
  Workers = {w1, w2}
  Syncers = {s1}
  Patchers = {}
  QueueSize = 1
  Faults = {}
  MaxRestarts = 1
INVARIANTS
  BusyIsAttended
  OneJob
PROPERTY
  BusyEventuallyIdle
