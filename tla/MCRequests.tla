----------------------------- MODULE MCRequests -----------------------------
(***************************************************************************)
(* The smallest contents that still move, for the runs that are about      *)
(* requests, jobs and the life of the server: one file, and one commit on  *)
(* each of two branches.                                                   *)
(***************************************************************************)
EXTENDS SyncEngine, FiniteSets, TLC

CONSTANTS readme, b1, c1, c2, main, dev

MCFiles == {readme}
MCBlobs == {b1}
MCUnstorable == {}
MCCommits == {c1, c2}
MCBranches == {main, dev}

MCTree == [c \in MCCommits |-> [p \in MCFiles |-> b1]]

MCCommitsOf == (main :> {c1}) @@ (dev :> {c2})

(* A run always finds a fresh stamp.                                       *)
ASSUME EnoughStamps ==
  Cardinality(Stamps) + 1 >= Cardinality(Workers) + Cardinality(Repos)

Interchangeable ==
  Permutations(Repos) \cup Permutations(Workers) \cup Permutations(Stamps)
    \cup Permutations(Syncers) \cup Permutations(Patchers)
=============================================================================
