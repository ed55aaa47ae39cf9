---------------------------- MODULE DocumentTree ----------------------------
(***************************************************************************)
(* The pure part of a sync (reposync.Service.sync): comparing the tree of  *)
(* a commit with the stored documents and computing what to write.  A      *)
(* document is identified by its path; its content is a function of the    *)
(* blob SHA, because git objects are addressed by content.  A tree, and    *)
(* the documents of a repository, are functions from Paths to blobs or     *)
(* Null.                                                                   *)
(***************************************************************************)
CONSTANTS
  Paths,       \* paths of the regular files a tree or the documents can hold
  Markdown,    \* the paths that end in ".md", in any letter case
  Blobs,       \* blob SHAs
  Unstorable,  \* blobs over MaxBlobContentBytes, or that are not UTF-8 text
  Commits,     \* commit SHAs
  Tree,        \* Tree[c][p]: the blob at path p in commit c, or Null
  Null         \* SQL NULL, and the absence of a file, document or job

ASSUME TreeAssumption ==
  /\ Markdown \subseteq Paths
  /\ Unstorable \subseteq Blobs
  /\ Null \notin Blobs \cup Commits
  /\ Tree \in [Commits -> [Paths -> Blobs \cup {Null}]]

-----------------------------------------------------------------------------
Documents == [Paths -> Blobs \cup {Null}]

NoDocuments == [p \in Paths |-> Null]

(* liveTree: the Markdown files of the tree of commit c.                   *)
Live(c) == [p \in Paths |-> IF p \in Markdown THEN Tree[c][p] ELSE Null]

Added(stored, c) == {p \in Paths : stored[p] = Null /\ Live(c)[p] # Null}

(* Mutant: the comparison looks at the paths only, never at the SHAs.      *)
Changed_PathsOnly(stored, c) == {}

Changed(stored, c) ==
  {p \in Paths : /\ stored[p] # Null
                 /\ Live(c)[p] # Null
                 /\ stored[p] # Live(c)[p]}

Removed(stored, c) == {p \in Paths : stored[p] # Null /\ Live(c)[p] = Null}

(* The parameters of UpsertDocument: GetBlob is called for every added and *)
(* changed file, and a file that cannot be stored is skipped.              *)
Upserts(stored, c) ==
  {p \in Added(stored, c) \cup Changed(stored, c) :
     Live(c)[p] \notin Unstorable}

(* UpsertDocument for the paths of put, then DeleteDocuments for del.      *)
Rewritten(stored, c, put, del) ==
  [p \in Paths |-> IF p \in del THEN Null
                  ELSE IF p \in put THEN Live(c)[p] ELSE stored[p]]

-----------------------------------------------------------------------------
(***************************************************************************)
(* What a sync promises, without the diff: after a sync of commit c every  *)
(* Markdown file of c is stored, nothing else is, and a file that cannot   *)
(* be stored leaves the document it had.                                   *)
(***************************************************************************)
Snapshot(stored, c) ==
  [p \in Paths |-> IF Live(c)[p] \in Unstorable THEN stored[p]
                  ELSE Live(c)[p]]

(* The documents stored are those a sync of c leaves behind.               *)
Reflects(stored, c) == stored = Snapshot(stored, c)
=============================================================================
