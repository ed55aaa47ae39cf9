---------------------------- MODULE Repositories ----------------------------
(***************************************************************************)
(* The tables repositories and documents, and the statements of            *)
(* database/queries.sql that write them: one operator per statement.       *)
(* Every statement is a single UPDATE whose WHERE clause is its guard, so  *)
(* it is one atomic step, and a statement that matches no row is an        *)
(* operator that is not enabled.  A row keeps the columns that take part   *)
(* in syncing; user_id, the names, auto_sync, last_sync_at and updated_at  *)
(* decide nothing and are left out.  One user owns every row.              *)
(***************************************************************************)
EXTENDS DocumentTree

CONSTANTS
  Repos,     \* repository ids
  Branches,  \* branch names
  Codes,     \* the codes of sync_error
  Stamps     \* values of sync_started_at

VARIABLES
  repo,  \* repo[r]: the row of repository r
  docs   \* docs[r]: its documents

Idle == {"pending", "ok", "failed"}
Busy == {"queued", "running"}

Rows ==
  [status : Idle \cup Busy \cup {"untracked"},  \* sync_status
   branch : Branches \cup {Null},               \* tracked_branch
   synced : Commits \cup {Null},                \* synced_commit
   error : Codes \cup {Null},                   \* sync_error
   started : Stamps \cup {Null}]                \* sync_started_at

Row(status, branch, synced, error, started) ==
  [status |-> status, branch |-> branch, synced |-> synced, error |-> error,
   started |-> started]

(* There is no row.                                                        *)
NoRow == Row("untracked", Null, Null, Null, Null)

(* The column defaults, and what reset_sync leaves.                        *)
PendingRow(b) == Row("pending", b, Null, Null, Null)

Tracked(r) == repo[r].status # "untracked"

(* Mutant: the run token is not compared.                                  *)
Owns_AnyToken(r, t) == repo[r].status = "running"

(* WHERE sync_status = 'running' AND sync_started_at = t                   *)
Owns(r, t) == repo[r].status = "running" /\ repo[r].started = t

TablesInit ==
  /\ repo = [r \in Repos |-> NoRow]
  /\ docs = [r \in Repos |-> NoDocuments]

-----------------------------------------------------------------------------
CreateRepository(r, b) ==
  /\ ~Tracked(r)
  /\ repo' = [repo EXCEPT ![r] = PendingRow(b)]
  /\ UNCHANGED docs

(* Mutant: the sync state survives a branch change.                        *)
UpdateRepository_NeverResets(r, b, reset) ==
  /\ Tracked(r)
  /\ repo' = [repo EXCEPT ![r] =
                Row(@.status, b, @.synced, @.error, @.started)]
  /\ UNCHANGED docs

UpdateRepository(r, b, reset) ==
  /\ Tracked(r)
  /\ repo' = [repo EXCEPT ![r] =
                IF reset THEN PendingRow(b)
                ELSE Row(@.status, b, @.synced, @.error, @.started)]
  /\ UNCHANGED docs

(* documents.repository_id is ON DELETE CASCADE.                           *)
DeleteRepository(r) ==
  /\ Tracked(r)
  /\ repo' = [repo EXCEPT ![r] = NoRow]
  /\ docs' = [docs EXCEPT ![r] = NoDocuments]

(* Mutant: the claim clears sync_error, as the start of a run does.        *)
ClaimRepositorySync_ClearsError(r) ==
  /\ repo[r].status \in Idle
  /\ repo' = [repo EXCEPT ![r] =
                Row("queued", @.branch, @.synced, Null, @.started)]
  /\ UNCHANGED docs

(* Mutant: a repository that is queued already can be claimed again.       *)
ClaimRepositorySync_Again(r) ==
  /\ repo[r].status \in Idle \cup {"queued"}
  /\ repo' = [repo EXCEPT ![r] =
                Row("queued", @.branch, @.synced, @.error, @.started)]
  /\ UNCHANGED docs

ClaimRepositorySync(r) ==
  /\ repo[r].status \in Idle
  /\ repo' = [repo EXCEPT ![r] =
                Row("queued", @.branch, @.synced, @.error, @.started)]
  /\ UNCHANGED docs

(* The status a queued row goes back to; no column holds it.               *)
Restored(row) ==
  IF row.error # Null THEN "failed"
  ELSE IF row.synced = Null THEN "pending" ELSE "ok"

UnclaimRepositorySync(r) ==
  /\ repo[r].status = "queued"
  /\ repo' = [repo EXCEPT ![r] =
                Row(Restored(@), @.branch, @.synced, @.error, @.started)]
  /\ UNCHANGED docs

(* Mutant: sync_error is not cleared.                                      *)
MarkRepositorySyncAsRunning_KeepsError(r, t) ==
  /\ repo[r].status = "queued"
  /\ repo' = [repo EXCEPT ![r] =
                Row("running", @.branch, @.synced, @.error, t)]
  /\ UNCHANGED docs

MarkRepositorySyncAsRunning(r, t) ==
  /\ repo[r].status = "queued"
  /\ repo' = [repo EXCEPT ![r] = Row("running", @.branch, @.synced, Null, t)]
  /\ UNCHANGED docs

MarkRepositorySyncAsFailed(r, t, code) ==
  /\ Owns(r, t)
  /\ repo' = [repo EXCEPT ![r] = Row("failed", @.branch, @.synced, code, Null)]
  /\ UNCHANGED docs

FinalizeRepositorySync(r, t, c) ==
  /\ Owns(r, t)
  /\ repo' = [repo EXCEPT ![r] = Row("ok", @.branch, c, Null, Null)]

(* Mutant: the jobs that were waiting in the channel are forgotten.        *)
Stuck_RunningOnly == {r \in Repos : repo[r].status = "running"}

Stuck == {r \in Repos : repo[r].status \in Busy}

ResetStuckRepositorySyncs ==
  /\ repo' = [r \in Repos |->
                IF r \in Stuck
                THEN Row("queued", repo[r].branch, repo[r].synced, repo[r].error, Null)
                ELSE repo[r]]
  /\ UNCHANGED docs
=============================================================================
