---------------------------- MODULE DocumentStore ---------------------------
(***************************************************************************)
(* What the sync engine promises to the reader of documents, as an         *)
(* abstract specification: the documents of a repository change only as a  *)
(* whole.  A sync replaces them in one step by the snapshot of a commit    *)
(* and publishes the commit in the same step; a branch change forgets the  *)
(* commit and keeps the documents; untracking drops both.  A sync that     *)
(* fails, is interrupted or is superseded changes nothing.                 *)
(***************************************************************************)
EXTENDS DocumentTree

CONSTANT Repos

VARIABLES
  synced,  \* synced[r]: repositories.synced_commit, or Null
  docs     \* docs[r]: the rows of documents whose repository_id is r

storeVars == <<synced, docs>>

StoreInit ==
  /\ synced = [r \in Repos |-> Null]
  /\ docs = [r \in Repos |-> NoDocuments]

Publish(r, c) ==
  /\ synced' = [synced EXCEPT ![r] = c]
  /\ docs' = [docs EXCEPT ![r] = Snapshot(docs[r], c)]

Forget(r) ==
  /\ synced' = [synced EXCEPT ![r] = Null]
  /\ UNCHANGED docs

Drop(r) ==
  /\ synced' = [synced EXCEPT ![r] = Null]
  /\ docs' = [docs EXCEPT ![r] = NoDocuments]

StoreNext ==
  \E r \in Repos :
    \/ \E c \in Commits : Publish(r, c)
    \/ Forget(r)
    \/ Drop(r)

StoreSpec == StoreInit /\ [][StoreNext]_storeVars
=============================================================================
