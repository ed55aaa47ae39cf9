----------------------------- MODULE SyncEngine -----------------------------
(***************************************************************************)
(* The sync engine of the API server: the requests that claim, re-point,   *)
(* track and untrack repositories (routers/repositories.go), the workers   *)
(* of the pool that sync them (reposync.Service.Sync), and the life of the *)
(* server around both (main.go): start, SIGTERM, exit, crash, restart.     *)
(* Requests and workers share only the database and the channel.  A step   *)
(* is one statement or one transaction, with the local work around it; a   *)
(* call to the provider returns some answer that is possible, or fails.    *)
(***************************************************************************)
EXTENDS Repositories, Naturals

CONSTANTS
  Workers,      \* goroutines of the pool
  QueueSize,    \* capacity of the channel
  Exited,       \* see SyncPool
  Syncers,      \* concurrent POST .../sync requests
  Patchers,     \* concurrent PATCH requests
  CommitsOf,    \* CommitsOf[b]: the commits the head of branch b can be at
  Faults,       \* what can go wrong: a subset of AllFaults
  MaxRestarts   \* bound: how often the server is stopped or crashes

(* "client": a client goes away while its request waits in Enqueue.  The   *)
(* others name a statement that can fail.  The caller cannot tell whether  *)
(* one that failed was executed: the connection can be lost, or the        *)
(* context end, after the server executed it.  A statement under the       *)
(* context of the server also fails when that is cancelled.                *)
AllFaults == {"client", "claim", "unclaim", "mark", "record", "commit", "reset"}

ASSUME EngineAssumption ==
  /\ CommitsOf \in [Branches -> SUBSET Commits]
  /\ Null \notin Repos \cup Branches \cup Codes \cup Stamps \cup Syncers
  /\ Exited \notin Repos \cup {Null}
  /\ QueueSize \in Nat \ {0}
  /\ Faults \subseteq AllFaults
  /\ MaxRestarts \in Nat

VARIABLES
  jobs, held, ctx,  \* see SyncPool
  run,      \* run[w]: the local variables of worker w's call of Sync
  call,     \* call[h]: a POST .../sync request past its claim
  patch,    \* patch[p]: a PATCH request past its read
  backlog,  \* the ids main.go's goroutine has still to re-enqueue
  restarts, \* how often the server was stopped or crashed
  claimant  \* history: claimant[r]: the latest request to claim r, until it ends

Pool == INSTANCE SyncPool WITH Ids <- Repos, NoJob <- Null

tableVars == <<repo, docs>>
poolVars == <<jobs, held, ctx>>
requestVars == <<call, patch, claimant>>
serverVars == <<backlog, restarts>>
vars ==
  <<repo, docs, jobs, held, ctx, run, call, patch, claimant, backlog, restarts>>

-----------------------------------------------------------------------------
(* at is the next statement of Sync; token is startedAt, commit the head   *)
(* GetBranch returned, put and del the parameters of the upserts and of    *)
(* the delete.                                                             *)
Stages == {"mark", "load", "touch", "diff", "store", "record"}

Runs == [at : Stages \cup {"idle"},
         token : Stamps \cup {Null},
         commit : Commits \cup {Null},
         put : SUBSET Paths,
         del : SUBSET Paths]

Run(at, token, commit, put, del) ==
  [at |-> at, token |-> token, commit |-> commit, put |-> put, del |-> del]

NoRun == Run("idle", Null, Null, {}, {})

Calls == [at : {"enqueue", "unclaim"}, repo : Repos]
NoCall == [at |-> "idle", repo |-> Null]

Patches == [repo : Repos, branch : Branches, reset : BOOLEAN]
NoPatch == [repo |-> Null, branch |-> Null, reset |-> FALSE]

TypeOK ==
  /\ repo \in [Repos -> Rows]
  /\ \A r \in Repos : Tracked(r) <=> repo[r].branch # Null
  /\ docs \in [Repos -> Documents]
  /\ Pool!PoolTypeOK
  /\ run \in [Workers -> Runs]
  /\ \A w \in Workers :
       /\ run[w].at = "idle" <=> held[w] \notin Repos
       /\ run[w].at \in {"touch", "diff", "store"} => run[w].commit \in Commits
  /\ call \in [Syncers -> Calls \cup {NoCall}]
  /\ patch \in [Patchers -> Patches \cup {NoPatch}]
  /\ backlog \subseteq Repos
  /\ restarts \in 0 .. MaxRestarts
  /\ claimant \in [Repos -> Syncers \cup {Null}]

Up == ctx # "down"

Init ==
  /\ TablesInit
  /\ Pool!Empty
  /\ run = [w \in Workers |-> NoRun]
  /\ call = [h \in Syncers |-> NoCall]
  /\ patch = [p \in Patchers |-> NoPatch]
  /\ backlog = {}
  /\ restarts = 0
  /\ claimant = [r \in Repos |-> Null]

-----------------------------------------------------------------------------
(* Worker w, running Sync.                                                 *)

TakeJob(w) ==
  /\ Pool!Receive(w)
  /\ run' = [run EXCEPT ![w] = Run("mark", Null, Null, {}, {})]
  /\ UNCHANGED <<tableVars, requestVars, serverVars>>

Finish(w) ==
  /\ Pool!Release(w)
  /\ run' = [run EXCEPT ![w] = NoRun]

(* NOW() never returns a stamp that is still compared with another: only   *)
(* the tokens of the runs and of the rows are.                             *)
FreshStamps ==
  Stamps \ ({run[w].token : w \in Workers} \cup {repo[r].started : r \in Repos})

StartRun(w) ==
  /\ run[w].at = "mark"
  /\ \/ \E t \in FreshStamps :
          /\ MarkRepositorySyncAsRunning(held[w], t)
          /\ run' = [run EXCEPT ![w] = Run("load", t, Null, {}, {})]
          /\ UNCHANGED poolVars
     \/ /\ repo[held[w]].status # "queued"  \* stale job
        /\ UNCHANGED tableVars
        /\ Finish(w)
  /\ UNCHANGED <<requestVars, serverVars>>

StartRunFails(w) ==
  /\ run[w].at = "mark"
  /\ "mark" \in Faults \/ ctx = "cancelled"
  /\ \/ UNCHANGED tableVars
     \/ \E t \in FreshStamps : MarkRepositorySyncAsRunning(held[w], t)
  /\ Finish(w)
  /\ UNCHANGED <<requestVars, serverVars>>

(* GetRepositoryByID and GetBranch.  The head of the branch moves as it    *)
(* likes, so what GetBranch returns is one of its commits whenever it is   *)
(* called.                                                                 *)
Load(w) ==
  /\ run[w].at = "load"
  /\ \/ /\ ~Tracked(held[w])  \* deleted while the job was running
        /\ Finish(w)
     \/ /\ Tracked(held[w])
        /\ \E c \in CommitsOf[repo[held[w]].branch] :
             run' = [run EXCEPT ![w] =
                       Run(IF c = repo[held[w]].synced THEN "touch" ELSE "diff",
                           @.token, c, {}, {})]
        /\ UNCHANGED poolVars
  /\ UNCHANGED <<tableVars, requestVars, serverVars>>

(* GetTree, ListDocumentShas, the comparison and GetBlob: a tree and a     *)
(* blob never change, so only the read of the documents is a step.         *)
Diff(w) ==
  /\ run[w].at = "diff"
  /\ LET c == run[w].commit
         stored == docs[held[w]]
     IN run' = [run EXCEPT ![w] =
                  Run("store", @.token, c, Upserts(stored, c), Removed(stored, c))]
  /\ UNCHANGED <<tableVars, poolVars, requestVars, serverVars>>

(* The transaction: the upserts, the delete, Finalize, and Commit, or the  *)
(* deferred Rollback when Finalize matches no row.  Without a diff         *)
(* ("touch") only Finalize is executed.                                    *)
Commit(w) ==
  /\ FinalizeRepositorySync(held[w], run[w].token, run[w].commit)
  /\ docs' = IF run[w].at = "touch" THEN docs
             ELSE [docs EXCEPT ![held[w]] =
                     Rewritten(@, run[w].commit, run[w].put, run[w].del)]

(* Mutant: a run that lost the row commits its upserts and its delete.     *)
Publish_NoRollback(w) ==
  /\ run[w].at \in {"touch", "store"}
  /\ \/ Commit(w)
     \/ /\ ~Owns(held[w], run[w].token)
        /\ docs' = [docs EXCEPT ![held[w]] =
                      Rewritten(@, run[w].commit, run[w].put, run[w].del)]
        /\ UNCHANGED repo
  /\ Finish(w)
  /\ UNCHANGED <<requestVars, serverVars>>

Publish(w) ==
  /\ run[w].at \in {"touch", "store"}
  /\ \/ Commit(w)
     \/ /\ ~Owns(held[w], run[w].token)
        /\ UNCHANGED tableVars
  /\ Finish(w)
  /\ UNCHANGED <<requestVars, serverVars>>

(* Mutant: the failure is logged and not recorded.                         *)
AfterError_Unrecorded(w) == Finish(w)

(* sync returned an error.  When the job's context was cancelled Sync      *)
(* leaves the row running; a deadline that passed before the cancellation  *)
(* is recorded all the same.                                               *)
AfterError(w) ==
  \/ /\ run' = [run EXCEPT ![w] = Run("record", @.token, Null, {}, {})]
     /\ UNCHANGED poolVars
  \/ ctx = "cancelled" /\ Finish(w)

(* A provider call, a credential, a read or the transaction failed, the    *)
(* job timed out, or sync panicked.                                        *)
Fail(w) ==
  /\ run[w].at \in {"load", "diff", "touch", "store"}
  /\ AfterError(w)
  /\ UNCHANGED <<tableVars, requestVars, serverVars>>

CommitUnconfirmed(w) ==
  /\ "commit" \in Faults \/ ctx = "cancelled"
  /\ run[w].at \in {"touch", "store"}
  /\ Commit(w)
  /\ AfterError(w)
  /\ UNCHANGED <<requestVars, serverVars>>

(* syncErrorCode is abstracted to any of its codes.                        *)
RecordFailure(w) ==
  /\ run[w].at = "record"
  /\ \/ \E code \in Codes :
          MarkRepositorySyncAsFailed(held[w], run[w].token, code)
     \/ /\ ~Owns(held[w], run[w].token) \/ "record" \in Faults
        /\ UNCHANGED tableVars
  /\ Finish(w)
  /\ UNCHANGED <<requestVars, serverVars>>

WorkerReturns(w) ==
  /\ Pool!Return(w)
  /\ UNCHANGED <<tableVars, run, requestVars, serverVars>>

SyncStep(w) ==
  \/ StartRun(w)
  \/ StartRunFails(w)
  \/ Load(w)
  \/ Diff(w)
  \/ Publish(w)
  \/ Fail(w)
  \/ CommitUnconfirmed(w)
  \/ RecordFailure(w)

-----------------------------------------------------------------------------
(* Request h, syncRepository.                                              *)

ClaimSync(h, r) ==
  /\ Up
  /\ call[h].at = "idle"
  /\ ClaimRepositorySync(r)
  /\ call' = [call EXCEPT ![h] = [at |-> "enqueue", repo |-> r]]
  /\ claimant' = [claimant EXCEPT ![r] = h]
  /\ UNCHANGED <<poolVars, run, patch, serverVars>>

(* The claim is executed but the request sees an error: it answers 500     *)
(* and neither enqueues nor unclaims.                                      *)
ClaimUnconfirmed(h, r) ==
  /\ "claim" \in Faults
  /\ Up
  /\ call[h].at = "idle"
  /\ ClaimRepositorySync(r)
  /\ claimant' = [claimant EXCEPT ![r] = Null]
  /\ UNCHANGED <<poolVars, run, call, patch, serverVars>>

RequestEnds(h) ==
  /\ call' = [call EXCEPT ![h] = NoCall]
  /\ claimant' = [claimant EXCEPT ![call[h].repo] = IF @ = h THEN Null ELSE @]

(* Enqueue succeeds, and the request answers 202.                          *)
Enqueue(h) ==
  /\ call[h].at = "enqueue"
  /\ Pool!Send(call[h].repo)
  /\ RequestEnds(h)
  /\ UNCHANGED <<tableVars, run, patch, serverVars>>

(* Mutant: the claim is not given back.                                    *)
EnqueueFails_KeepsClaim(h) ==
  /\ call[h].at = "enqueue"
  /\ Pool!Full \/ "client" \in Faults
  /\ RequestEnds(h)
  /\ UNCHANGED <<tableVars, poolVars, run, patch, serverVars>>

(* The 100 ms passed with no free slot, or the client went away.           *)
EnqueueFails(h) ==
  /\ call[h].at = "enqueue"
  /\ Pool!Full \/ "client" \in Faults
  /\ call' = [call EXCEPT ![h] = [at |-> "unclaim", repo |-> @.repo]]
  /\ UNCHANGED <<tableVars, poolVars, run, patch, claimant, serverVars>>

(* The request answers 503, or 500.                                        *)
UnclaimSync(h) ==
  /\ call[h].at = "unclaim"
  /\ \/ UnclaimRepositorySync(call[h].repo)
     \/ /\ repo[call[h].repo].status # "queued" \/ "unclaim" \in Faults
        /\ UNCHANGED tableVars
  /\ RequestEnds(h)
  /\ UNCHANGED <<poolVars, run, patch, serverVars>>

-----------------------------------------------------------------------------
(* Request p, updateRepository: it reads the row, asks the provider for    *)
(* the branches when the branch is to change, and writes back both columns *)
(* PATCH owns: the branch it was sent, or the one it read.                 *)

PatchRead(p, r) ==
  /\ Up
  /\ patch[p] = NoPatch
  /\ Tracked(r)
  /\ \E b \in Branches :
       patch' = [patch EXCEPT ![p] = [repo |-> r, branch |-> b,
                                      reset |-> b # repo[r].branch]]
  /\ UNCHANGED <<tableVars, poolVars, run, call, claimant, serverVars>>

PatchWrite(p) ==
  /\ patch[p] # NoPatch
  /\ UpdateRepository(patch[p].repo, patch[p].branch, patch[p].reset)
  /\ patch' = [patch EXCEPT ![p] = NoPatch]
  /\ UNCHANGED <<poolVars, run, call, claimant, serverVars>>

(* The branch is refused or unknown, a call fails, or the row is gone.     *)
PatchRefused(p) ==
  /\ patch[p] # NoPatch
  /\ patch' = [patch EXCEPT ![p] = NoPatch]
  /\ UNCHANGED <<tableVars, poolVars, run, call, claimant, serverVars>>

(* Ids are never reused, so r can stand for a new row once nothing holds   *)
(* the id of the old one.                                                  *)
Referenced(r) ==
  \/ r \in Pool!Waiting \cup backlog
  \/ \E w \in Workers : held[w] = r
  \/ \E h \in Syncers : call[h].repo = r
  \/ \E p \in Patchers : patch[p].repo = r

TrackRepository(r) ==
  /\ Up
  /\ ~Referenced(r)
  /\ \E b \in Branches : CreateRepository(r, b)
  /\ UNCHANGED <<poolVars, run, requestVars, serverVars>>

DeleteTracked(r) ==
  /\ Up
  /\ DeleteRepository(r)
  /\ UNCHANGED <<poolVars, run, requestVars, serverVars>>

-----------------------------------------------------------------------------
(* The server, main.go.                                                    *)

(* Everything in memory is gone.                                           *)
Forget ==
  /\ run' = [w \in Workers |-> NoRun]
  /\ call' = [h \in Syncers |-> NoCall]
  /\ patch' = [p \in Patchers |-> NoPatch]
  /\ backlog' = {}
  /\ claimant' = [r \in Repos |-> Null]

(* The workers start, stuck rows are reset and their ids left to a         *)
(* goroutine, and only then does the server listen.  A failed reset is     *)
(* logged and the start goes on.                                           *)
Boot ==
  /\ Pool!Start
  /\ \/ ResetStuckRepositorySyncs /\ backlog' = Stuck
     \/ "reset" \in Faults /\ ResetStuckRepositorySyncs /\ backlog' = {}
     \/ "reset" \in Faults /\ UNCHANGED <<repo, docs, backlog>>
  /\ run' = [w \in Workers |-> NoRun]
  /\ UNCHANGED <<requestVars, restarts>>

Reenqueue(r) ==
  /\ r \in backlog
  /\ Pool!Send(r)
  /\ backlog' = backlog \ {r}
  /\ UNCHANGED <<tableVars, run, requestVars, restarts>>

ReenqueueStops ==
  /\ ctx = "cancelled"
  /\ backlog # {}
  /\ backlog' = {}
  /\ UNCHANGED <<tableVars, poolVars, run, requestVars, restarts>>

(* SIGINT or SIGTERM.                                                      *)
Stop ==
  /\ restarts < MaxRestarts
  /\ Pool!Cancel
  /\ restarts' = restarts + 1
  /\ UNCHANGED <<tableVars, run, requestVars, backlog>>

(* Requests had 5 seconds to finish, and main returned with the workers.   *)
Exit ==
  /\ ctx = "cancelled"
  /\ Pool!AllReturned
  /\ Pool!Vanish
  /\ Forget
  /\ UNCHANGED <<tableVars, restarts>>

Crash ==
  /\ restarts < MaxRestarts
  /\ Pool!Vanish
  /\ Forget
  /\ restarts' = restarts + 1
  /\ UNCHANGED tableVars

-----------------------------------------------------------------------------
Next ==
  \/ \E w \in Workers : TakeJob(w) \/ SyncStep(w) \/ WorkerReturns(w)
  \/ \E h \in Syncers :
       \/ \E r \in Repos : ClaimSync(h, r) \/ ClaimUnconfirmed(h, r)
       \/ Enqueue(h) \/ EnqueueFails(h) \/ UnclaimSync(h)
  \/ \E p \in Patchers :
       \/ \E r \in Repos : PatchRead(p, r)
       \/ PatchWrite(p) \/ PatchRefused(p)
  \/ \E r \in Repos : TrackRepository(r) \/ DeleteTracked(r) \/ Reenqueue(r)
  \/ ReenqueueStops \/ Boot \/ Stop \/ Exit \/ Crash

Spec == Init /\ [][Next]_vars

(* Liveness.  Goroutines and the server run on; a worker whose context is  *)
(* cancelled returns in the end, because select picks at random among its  *)
(* ready cases; a sender blocked on the channel is served in the end,      *)
(* because a channel serves its senders in order.  Nothing makes a user    *)
(* send a request, or an administrator stop the server.                    *)
Fairness ==
  /\ \A w \in Workers : WF_vars(TakeJob(w)) /\ WF_vars(SyncStep(w))
  /\ \A w \in Workers : SF_vars(WorkerReturns(w))
  /\ \A h \in Syncers : WF_vars(Enqueue(h) \/ EnqueueFails(h) \/ UnclaimSync(h))
  /\ SF_vars(\E r \in Repos : Reenqueue(r))
  /\ WF_vars(Exit) /\ WF_vars(Boot)

FairSpec == Spec /\ Fairness

-----------------------------------------------------------------------------
(* While a repository is queued its row still describes the last finished  *)
(* run, a failed row has a code, and only a running row has a run token    *)
(* (sync-engine.md, Invariants).                                           *)
RowShape ==
  \A r \in Repos : LET row == repo[r] IN
    /\ row.started # Null <=> row.status = "running"
    /\ row.status = "failed" => row.error # Null
    /\ row.error # Null => row.status \in {"failed", "queued"}
    /\ row.status = "ok" => row.synced # Null
    /\ row.status = "pending" => row.synced = Null

(* The documents of a repository are at every moment exactly what a sync   *)
(* of its synced_commit stores: no partial result, no result of a run that *)
(* lost the row, whatever fails, stops or runs at the same time.           *)
DocsMatchSyncedCommit ==
  \A r \in Repos :
    repo[r].synced # Null => Reflects(docs[r], repo[r].synced)

(* The commit a client is told was synced belongs to the tracked branch    *)
(* it is shown with.  Holds as long as PATCH requests do not overlap.      *)
SyncedOnTrackedBranch ==
  \A r \in Repos :
    repo[r].synced # Null => repo[r].synced \in CommitsOf[repo[r].branch]

(* What a run is about to write is computed against the documents that are *)
(* stored now, although it read them in an earlier statement: no other run *)
(* can have changed them, or this run has lost the row.                    *)
PlanIsCurrent ==
  \A w \in Workers :
    LET r == held[w]
        c == run[w].commit
    IN run[w].at \in {"touch", "store"} /\ Owns(r, run[w].token)
         => /\ run[w].at = "touch" => c = repo[r].synced
            /\ run[w].at = "store" =>
                 Rewritten(docs[r], c, run[w].put, run[w].del)
                   = Snapshot(docs[r], c)

(* Unclaiming can rebuild the status from the columns: a claim, and all    *)
(* that happens to a row while it is queued, keep what it will go back to. *)
ClaimIsReversible ==
  [][\A r \in Repos :
       repo'[r].status = "queued" /\ repo[r].status \in Idle \cup {"queued"}
         => Restored(repo'[r]) = IF repo[r].status = "queued"
                                 THEN Restored(repo[r])
                                 ELSE repo[r].status]_vars

(* While the server is up and no statement fails, a busy repository is     *)
(* never forgotten: a queued one has a job, or somebody about to enqueue   *)
(* or unclaim it; a running one has the worker whose run owns it.          *)
BusyIsAttended ==
  ctx = "live" =>
    \A r \in Repos :
      /\ repo[r].status = "queued" =>
           \/ r \in Pool!Waiting \cup backlog
           \/ \E h \in Syncers : call[h].repo = r
           \/ \E w \in Workers : held[w] = r /\ run[w].at = "mark"
      /\ repo[r].status = "running" =>
           \E w \in Workers : held[w] = r /\ run[w].token = repo[r].started

(* Who can still start a run of r: the request that claimed it, a job in   *)
(* the channel, the goroutine of main, or a worker that has taken the job. *)
Starters(r) ==
       {<<"request", h>> : h \in {g \in Syncers : call[g].repo = r}}
  \cup {<<"job", i>> : i \in {j \in DOMAIN jobs : jobs[j] = r}}
  \cup {<<"backlog", q>> : q \in backlog \cap {r}}
  \cup {<<"worker", w>> : w \in {v \in Workers : held[v] = r /\ run[v].at = "mark"}}

(* A claim makes one job, and a job one run, across failures, crashes and  *)
(* restarts: a repository never has two, and one that can be claimed has   *)
(* none left from an earlier claim.  Holds as long as no PATCH sets the    *)
(* row to pending while the job of its claim is still queued; the reset    *)
(* at the start, which sync-engine.md:113 names as another source of       *)
(* duplicates, makes none, since the jobs died with the process.           *)
OneJob ==
  \A r \in Repos :
    /\ \A s, t \in Starters(r) : s = t
    /\ Starters(r) # {} => repo[r].status \in {"queued", "untracked"}

(* A busy repository becomes idle again (or is deleted), across stops,     *)
(* crashes and restarts, if no statement fails.                            *)
BusyEventuallyIdle ==
  \A r \in Repos :
    repo[r].status \in Busy ~> repo[r].status \notin Busy

(* The documents change only as the abstract store allows: a whole         *)
(* snapshot together with its commit, or not at all.                       *)
Store == INSTANCE DocumentStore WITH synced <- [r \in Repos |-> repo[r].synced]

ImplementsStore == Store!StoreSpec

(* What a request's unclaim finds: the row it claimed, still queued, or    *)
(* moved on by a branch change or a deletion.  No other request claimed    *)
(* the row meanwhile (sync-engine.md:73).                                  *)
UnclaimOnlyOwnClaim ==
  [][\A h \in Syncers :
       LET r == call[h].repo IN
         UnclaimSync(h) /\ repo' # repo => claimant[r] = h]_vars

(* A tracked branch that changes resets the sync state (api.md:312).       *)
(* Holds as long as PATCH requests do not overlap.                         *)
BranchChangeResets ==
  [][\A r \in Repos :
       Tracked(r) /\ repo'[r].branch \notin {repo[r].branch, Null}
         => repo'[r].status = "pending"]_vars
=============================================================================
