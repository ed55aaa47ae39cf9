---------------------------- MODULE MCSyncEngine ----------------------------
(***************************************************************************)
(* A small instance of SyncEngine.  Two branches share a commit.  Between  *)
(* the commits a Markdown file is added, changed and removed, one changes  *)
(* to a blob that cannot be stored, and a file is not Markdown.            *)
(***************************************************************************)
EXTENDS SyncEngine, FiniteSets, TLC

CONSTANTS readme, guide, code, b1, b2, binary, c1, c2, c3, main, dev

MCPaths == {readme, guide, code}
MCMarkdown == {readme, guide}
MCBlobs == {b1, b2, binary}
MCUnstorable == {binary}
MCCommits == {c1, c2, c3}
MCBranches == {main, dev}

File(a, b, c) ==
  [p \in MCPaths |-> CASE p = readme -> a [] p = guide -> b [] p = code -> c]

MCTree == (c1 :> File(b1, Null, b1))
       @@ (c2 :> File(b2, b1, b1))
       @@ (c3 :> File(binary, b2, b2))

MCCommitsOf == (main :> {c1, c2}) @@ (dev :> {c2, c3})

(* A run always finds a fresh stamp.                                       *)
ASSUME EnoughStamps ==
  Cardinality(Stamps) + 1 >= Cardinality(Workers) + Cardinality(Repos)

Interchangeable ==
  Permutations(Repos) \cup Permutations(Workers) \cup Permutations(Stamps)
    \cup Permutations(Syncers) \cup Permutations(Patchers)
=============================================================================
