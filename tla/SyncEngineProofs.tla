-------------------------- MODULE SyncEngineProofs --------------------------
(***************************************************************************)
(* What holds of the sync engine for any number of repositories, workers   *)
(* and requests, any contents, and any faults.                             *)
(***************************************************************************)
EXTENDS SyncEngine, Sequences, TLAPS

(* Writing the diff of the stored documents and a commit stores its        *)
(* snapshot.                                                               *)
LEMMA DiffYieldsSnapshot ==
  ASSUME NEW stored \in Documents, NEW c \in Commits
  PROVE  Rewritten(stored, c, Upserts(stored, c), Removed(stored, c))
           = Snapshot(stored, c)
  BY TreeAssumption
  DEF Documents, Rewritten, Upserts, Added, Changed, Removed, Snapshot, Live

(* A sync of the same commit again changes nothing.                        *)
LEMMA SnapshotIsStable ==
  ASSUME NEW stored \in Documents, NEW c \in Commits
  PROVE  /\ Snapshot(stored, c) \in Documents
         /\ Reflects(Snapshot(stored, c), c)
  BY TreeAssumption DEF Documents, Snapshot, Reflects, Live

-----------------------------------------------------------------------------
(* Every variable keeps its type, and a worker has a run exactly while it  *)
(* holds a job.                                                            *)
LEMMA TypeInit == Init => TypeOK
  BY EngineAssumption
  DEF Init, TypeOK, TablesInit, NoRow, Row, Rows, Idle, Busy, NoDocuments, Documents, Pool!Empty,
      Pool!PoolTypeOK, Run, NoRun, Runs, NoCall, Calls, NoPatch, Patches, Tracked

USE DEF tableVars, poolVars, requestVars, serverVars

TablesTypeOK ==
  /\ repo \in [Repos -> Rows]
  /\ \A r \in Repos : Tracked(r) <=> repo[r].branch # Null
  /\ docs \in [Repos -> Documents]

RunsTypeOK ==
  /\ Pool!PoolTypeOK
  /\ run \in [Workers -> Runs]
  /\ \A w \in Workers :
       /\ run[w].at = "idle" <=> held[w] \notin Repos
       /\ run[w].at \in {"touch", "diff", "store"} => run[w].commit \in Commits

(* The statements keep the types of the tables.                            *)
LEMMA StatementTypes ==
  ASSUME TablesTypeOK, NEW r \in Repos
  PROVE  /\ \A b \in Branches : CreateRepository(r, b) => TablesTypeOK'
         /\ \A b \in Branches, reset \in BOOLEAN :
              UpdateRepository(r, b, reset) => TablesTypeOK'
         /\ DeleteRepository(r) => TablesTypeOK'
         /\ ClaimRepositorySync(r) => TablesTypeOK'
         /\ UnclaimRepositorySync(r) => TablesTypeOK'
         /\ \A t \in Stamps : MarkRepositorySyncAsRunning(r, t) => TablesTypeOK'
         /\ \A t \in Stamps \cup {Null}, code \in Codes :
              MarkRepositorySyncAsFailed(r, t, code) => TablesTypeOK'
<1> USE EngineAssumption DEF TablesTypeOK, Rows, Row, Idle, Busy, Tracked
<1>1. \A b \in Branches : CreateRepository(r, b) => TablesTypeOK'
  BY DEF CreateRepository, PendingRow
<1>2. \A b \in Branches, reset \in BOOLEAN :
        UpdateRepository(r, b, reset) => TablesTypeOK'
  BY DEF UpdateRepository, PendingRow
<1>3. DeleteRepository(r) => TablesTypeOK'
  BY DEF DeleteRepository, NoRow, NoDocuments, Documents
<1>4. ClaimRepositorySync(r) => TablesTypeOK'
  BY DEF ClaimRepositorySync
<1>5. UnclaimRepositorySync(r) => TablesTypeOK'
  BY DEF UnclaimRepositorySync, Restored
<1>6. \A t \in Stamps : MarkRepositorySyncAsRunning(r, t) => TablesTypeOK'
  BY DEF MarkRepositorySyncAsRunning
<1>7. \A t \in Stamps \cup {Null}, code \in Codes :
        MarkRepositorySyncAsFailed(r, t, code) => TablesTypeOK'
  BY DEF MarkRepositorySyncAsFailed, Owns
<1> QED BY <1>1, <1>2, <1>3, <1>4, <1>5, <1>6, <1>7

LEMMA ResetTypes ==
  ASSUME TablesTypeOK, ResetStuckRepositorySyncs
  PROVE  TablesTypeOK'
  BY DEF TablesTypeOK, ResetStuckRepositorySyncs, Stuck, Rows, Row, Idle, Busy, Tracked

(* A worker that works has a repository.                                   *)
LEMMA WorkerHolds ==
  ASSUME TypeOK, NEW w \in Workers, run[w].at # "idle"
  PROVE  held[w] \in Repos
  BY DEF TypeOK

LEMMA FinishTypes ==
  ASSUME TypeOK, NEW w \in Workers, Finish(w)
  PROVE  RunsTypeOK'
  BY EngineAssumption
  DEF TypeOK, RunsTypeOK, Finish, Pool!Release, Pool!PoolTypeOK, Run, NoRun, Runs

LEMMA AfterErrorTypes ==
  ASSUME TypeOK, NEW w \in Workers, run[w].at # "idle", AfterError(w)
  PROVE  RunsTypeOK'
<1>1. CASE Finish(w)
  BY <1>1, FinishTypes
<1>2. CASE run' = [run EXCEPT ![w] = Run("record", @.token, Null, {}, {})]
             /\ UNCHANGED poolVars
  <2>1. Run("record", run[w].token, Null, {}, {}) \in Runs
    BY DEF TypeOK, Run, Runs, Stages
  <2>2. run' \in [Workers -> Runs] /\ Pool!PoolTypeOK'
    BY <1>2, <2>1 DEF TypeOK, Pool!PoolTypeOK
  <2>3. run'[w].at = "record" /\ held' = held
    BY <1>2 DEF TypeOK, Run
  <2> QED BY <1>2, <2>2, <2>3, WorkerHolds DEF TypeOK, RunsTypeOK
<1> QED BY <1>1, <1>2 DEF AfterError

(* The commit writes rows and documents of the right type.                 *)
LEMMA CommitTypes ==
  ASSUME TypeOK, NEW w \in Workers, run[w].at \in {"touch", "store"}, Commit(w)
  PROVE  TablesTypeOK'
<1>1. held[w] \in Repos /\ run[w].commit \in Commits
  BY WorkerHolds DEF TypeOK
<1>2. repo' \in [Repos -> Rows] /\ \A r \in Repos : (Tracked(r) <=> repo[r].branch # Null)'
  BY <1>1 DEF TypeOK, Commit, FinalizeRepositorySync, Owns, Rows, Row, Idle, Busy, Tracked
<1>3. docs' \in [Repos -> Documents]
  BY <1>1, TreeAssumption DEF TypeOK, Commit, Rewritten, Live, Documents
<1> QED BY <1>2, <1>3 DEF TablesTypeOK

RequestsTypeOK ==
  /\ call \in [Syncers -> Calls \cup {NoCall}]
  /\ patch \in [Patchers -> Patches \cup {NoPatch}]
  /\ claimant \in [Repos -> Syncers \cup {Null}]

ServerTypeOK == backlog \subseteq Repos /\ restarts \in 0 .. MaxRestarts

LEMMA TypeParts ==
  /\ TypeOK <=> TablesTypeOK /\ RunsTypeOK /\ RequestsTypeOK /\ ServerTypeOK
  /\ TypeOK' <=> TablesTypeOK' /\ RunsTypeOK' /\ RequestsTypeOK' /\ ServerTypeOK'
  BY DEF TypeOK, TablesTypeOK, RunsTypeOK, RequestsTypeOK, ServerTypeOK

LEMMA TypeWorker ==
  ASSUME TypeOK, NEW w \in Workers, TakeJob(w) \/ SyncStep(w) \/ WorkerReturns(w)
  PROVE  TypeOK'
<1>1. RequestsTypeOK' /\ ServerTypeOK'
  BY TypeParts DEF TakeJob, SyncStep, WorkerReturns, StartRun, StartRunFails, Load, Diff,
     Publish, Fail, CommitUnconfirmed, RecordFailure, RequestsTypeOK, ServerTypeOK
<1>2. TablesTypeOK /\ RunsTypeOK
  BY TypeParts
<1>3. CASE TakeJob(w)
  <2>1. Head(jobs) \in Repos /\ Tail(jobs) \in Seq(Repos) /\ Len(Tail(jobs)) <= QueueSize
    BY <1>3, EngineAssumption DEF TypeOK, Pool!PoolTypeOK, TakeJob, Pool!Receive
  <2> QED BY <1>3, <1>1, <1>2, <2>1, EngineAssumption, TypeParts
          DEF TakeJob, Pool!Receive, Pool!PoolTypeOK, TablesTypeOK, Tracked,
              RunsTypeOK, Run, Runs, Stages
<1>4. CASE StartRun(w)
  <2>1. held[w] \in Repos
    BY <1>4, WorkerHolds DEF StartRun
  <2>2. TablesTypeOK'
    BY <1>4, <2>1, <1>2, StatementTypes DEF StartRun, FreshStamps, TablesTypeOK, Tracked
  <2>3. CASE Finish(w)
    BY <2>3, <2>2, <1>1, FinishTypes, TypeParts
  <2>4. CASE ~Finish(w)
    <3>1. PICK t \in Stamps : /\ run' = [run EXCEPT ![w] = Run("load", t, Null, {}, {})]
                              /\ UNCHANGED poolVars
      BY <1>4, <2>4 DEF StartRun, FreshStamps
    <3>2. RunsTypeOK'
      BY <3>1, <2>1, <1>2 DEF RunsTypeOK, Pool!PoolTypeOK, Run, Runs, Stages
    <3> QED BY <3>2, <2>2, <1>1, TypeParts
  <2> QED BY <2>3, <2>4
<1>5. CASE StartRunFails(w)
  <2>1. held[w] \in Repos
    BY <1>5, WorkerHolds DEF StartRunFails
  <2>2. TablesTypeOK'
    BY <1>5, <2>1, <1>2, StatementTypes DEF StartRunFails, FreshStamps, TablesTypeOK, Tracked
  <2> QED BY <1>5, <2>2, <1>1, FinishTypes, TypeParts DEF StartRunFails
<1>6. CASE Load(w)
  <2>1. TablesTypeOK'
    BY <1>6, <1>2 DEF Load, TablesTypeOK, Tracked
  <2>2. CASE Finish(w)
    BY <2>2, <2>1, <1>1, FinishTypes, TypeParts
  <2>3. CASE ~Finish(w)
    <3>1. held[w] \in Repos /\ repo[held[w]].branch \in Branches
      BY <1>6, <2>3, WorkerHolds DEF Load, TypeOK, Rows
    <3>2. PICK c \in Commits, stage \in {"touch", "diff"} :
            /\ run' = [run EXCEPT ![w] = Run(stage, @.token, c, {}, {})]
            /\ UNCHANGED poolVars
      BY <1>6, <2>3, <3>1, EngineAssumption DEF Load
    <3>3. RunsTypeOK'
      BY <3>1, <3>2, <1>2 DEF RunsTypeOK, Pool!PoolTypeOK, Run, Runs, Stages
    <3> QED BY <3>3, <2>1, <1>1, TypeParts
  <2> QED BY <2>2, <2>3
<1>7. CASE Diff(w)
  <2>1. run[w].commit \in Commits /\ held[w] \in Repos
    BY <1>7, WorkerHolds DEF Diff, TypeOK
  <2>2. Upserts(docs[held[w]], run[w].commit) \in SUBSET Paths
    BY DEF Upserts, Added, Changed
  <2>3. Removed(docs[held[w]], run[w].commit) \in SUBSET Paths
    BY DEF Removed
  <2>4. RunsTypeOK'
    BY <1>7, <1>2, <2>1, <2>2, <2>3 DEF Diff, RunsTypeOK, Pool!PoolTypeOK, Run, Runs, Stages
  <2> QED BY <1>7, <2>4, <1>1, <1>2, TypeParts DEF Diff, TablesTypeOK, Tracked
<1>8. CASE Publish(w)
  BY <1>8, <1>1, <1>2, CommitTypes, FinishTypes, TypeParts DEF Publish, TablesTypeOK, Tracked
<1>9. CASE Fail(w)
  BY <1>9, <1>1, <1>2, AfterErrorTypes, TypeParts DEF Fail, TablesTypeOK, Tracked
<1>10. CASE CommitUnconfirmed(w)
  BY <1>10, <1>1, CommitTypes, AfterErrorTypes, TypeParts DEF CommitUnconfirmed
<1>11. CASE RecordFailure(w)
  <2>1. held[w] \in Repos
    BY <1>11, WorkerHolds DEF RecordFailure
  <2>0. run[w].token \in Stamps \cup {Null}
    BY DEF TypeOK, Runs
  <2>2. TablesTypeOK'
    BY <1>11, <2>0, <2>1, <1>2, StatementTypes DEF RecordFailure, TablesTypeOK, Tracked
  <2> QED BY <1>11, <2>2, <1>1, FinishTypes, TypeParts DEF RecordFailure
<1>12. CASE WorkerReturns(w)
  <2>1. RunsTypeOK'
    BY <1>12, <1>2, EngineAssumption DEF WorkerReturns, Pool!Return, RunsTypeOK, Pool!PoolTypeOK
  <2> QED BY <1>12, <2>1, <1>1, <1>2, TypeParts DEF WorkerReturns, TablesTypeOK, Tracked
<1> QED BY <1>3, <1>4, <1>5, <1>6, <1>7, <1>8, <1>9, <1>10, <1>11, <1>12 DEF SyncStep

(* Sending a job keeps the channel a sequence of ids within its capacity.  *)
LEMMA SendTypes ==
  ASSUME RunsTypeOK, NEW r \in Repos, Pool!Send(r), UNCHANGED run
  PROVE  RunsTypeOK'
  BY EngineAssumption DEF RunsTypeOK, Pool!Send, Pool!Full, Pool!PoolTypeOK

LEMMA TypeRequest ==
  ASSUME TypeOK, NEW h \in Syncers,
         \/ \E r \in Repos : ClaimSync(h, r) \/ ClaimUnconfirmed(h, r)
         \/ Enqueue(h) \/ EnqueueFails(h) \/ UnclaimSync(h)
  PROVE  TypeOK'
<1>1. ServerTypeOK'
  BY TypeParts DEF ClaimSync, ClaimUnconfirmed, Enqueue, EnqueueFails, UnclaimSync, ServerTypeOK
<1>2. TablesTypeOK /\ RunsTypeOK /\ RequestsTypeOK
  BY TypeParts
<1>3. call[h].at # "idle" => call[h] \in Calls
  BY <1>2 DEF RequestsTypeOK, NoCall
<1>4. ASSUME NEW r \in Repos, ClaimSync(h, r) \/ ClaimUnconfirmed(h, r)
      PROVE  TypeOK'
  <2>1. TablesTypeOK'
    BY <1>4, <1>2, StatementTypes DEF ClaimSync, ClaimUnconfirmed
  <2>2. RunsTypeOK' /\ RequestsTypeOK'
    BY <1>4, <1>2 DEF ClaimSync, ClaimUnconfirmed, RunsTypeOK, Pool!PoolTypeOK, RequestsTypeOK, Calls
  <2> QED BY <2>1, <2>2, <1>1, TypeParts
<1>5. ASSUME Enqueue(h) \/ UnclaimSync(h)
      PROVE  RequestsTypeOK'
  BY <1>5, <1>2 DEF Enqueue, UnclaimSync, RequestEnds, RequestsTypeOK
<1>6. CASE Enqueue(h)
  <2>1. RunsTypeOK'
    BY <1>6, <1>2, <1>3, SendTypes DEF Enqueue, Calls
  <2> QED BY <1>6, <2>1, <1>1, <1>2, <1>5, TypeParts DEF Enqueue, TablesTypeOK, Tracked
<1>7. CASE EnqueueFails(h)
  <2>1. RequestsTypeOK' /\ RunsTypeOK' /\ TablesTypeOK'
    BY <1>7, <1>2, <1>3 DEF EnqueueFails, RequestsTypeOK, RunsTypeOK, Pool!PoolTypeOK,
       TablesTypeOK, Tracked, Calls
  <2> QED BY <2>1, <1>1, TypeParts
<1>8. CASE UnclaimSync(h)
  <2>1. TablesTypeOK'
    BY <1>8, <1>2, <1>3, StatementTypes DEF UnclaimSync, TablesTypeOK, Tracked, Calls
  <2>2. RunsTypeOK'
    BY <1>8, <1>2 DEF UnclaimSync, RunsTypeOK, Pool!PoolTypeOK
  <2> QED BY <2>1, <2>2, <1>1, <1>5, <1>8, TypeParts
<1> QED BY <1>4, <1>6, <1>7, <1>8

LEMMA TypePatch ==
  ASSUME TypeOK, NEW p \in Patchers,
         (\E r \in Repos : PatchRead(p, r)) \/ PatchWrite(p) \/ PatchRefused(p)
  PROVE  TypeOK'
<1>1. ServerTypeOK' /\ RunsTypeOK'
  BY TypeParts DEF PatchRead, PatchWrite, PatchRefused, ServerTypeOK, RunsTypeOK, Pool!PoolTypeOK
<1>2. TablesTypeOK /\ RequestsTypeOK
  BY TypeParts
<1>3. RequestsTypeOK'
  <2>1. ASSUME NEW r \in Repos, PatchRead(p, r)
        PROVE  RequestsTypeOK'
    <3>1. PICK b \in Branches :
            patch' = [patch EXCEPT ![p] = [repo |-> r, branch |-> b,
                                           reset |-> b # repo[r].branch]]
      BY <2>1 DEF PatchRead
    <3>2. (b # repo[r].branch) \in BOOLEAN
      OBVIOUS
    <3>3. [repo |-> r, branch |-> b, reset |-> b # repo[r].branch] \in Patches
      BY <3>2, Zenon DEF Patches
    <3> QED BY <2>1, <1>2, <3>1, <3>3 DEF PatchRead, RequestsTypeOK
  <2> QED BY <1>2, <2>1 DEF PatchWrite, PatchRefused, RequestsTypeOK
<1>4. TablesTypeOK'
  BY <1>2, StatementTypes
  DEF PatchRead, PatchWrite, PatchRefused, RequestsTypeOK, Patches, TablesTypeOK, Tracked
<1> QED BY <1>1, <1>3, <1>4, TypeParts

LEMMA TypeServer ==
  ASSUME TypeOK,
         \/ \E r \in Repos : TrackRepository(r) \/ DeleteTracked(r) \/ Reenqueue(r)
         \/ ReenqueueStops \/ Boot \/ Stop \/ Exit \/ Crash
  PROVE  TypeOK'
<1>1. TablesTypeOK /\ RunsTypeOK /\ RequestsTypeOK /\ ServerTypeOK
  BY TypeParts
<1>2. ASSUME NEW r \in Repos, TrackRepository(r) \/ DeleteTracked(r)
      PROVE  TypeOK'
  <2>1. TablesTypeOK'
    BY <1>1, <1>2, StatementTypes DEF TrackRepository, DeleteTracked
  <2> QED BY <2>1, <1>1, <1>2, TypeParts
          DEF TrackRepository, DeleteTracked, RunsTypeOK, Pool!PoolTypeOK, RequestsTypeOK,
              ServerTypeOK
<1>3. ASSUME NEW r \in Repos, Reenqueue(r)
      PROVE  TypeOK'
  <2>1. RunsTypeOK'
    BY <1>1, <1>3, SendTypes DEF Reenqueue
  <2> QED BY <2>1, <1>1, <1>3, TypeParts
          DEF Reenqueue, TablesTypeOK, Tracked, RequestsTypeOK, ServerTypeOK
<1>4. CASE ReenqueueStops
  BY <1>4, <1>1, TypeParts
  DEF ReenqueueStops, TablesTypeOK, Tracked, RunsTypeOK, Pool!PoolTypeOK, RequestsTypeOK,
      ServerTypeOK
<1>5. CASE Boot
  <2>1. TablesTypeOK'
    BY <1>5, <1>1, ResetTypes DEF Boot, TablesTypeOK, Tracked
  <2>2. RunsTypeOK'
    BY <1>5, <1>1, EngineAssumption 
    DEF Boot, Pool!Start, RunsTypeOK, Pool!PoolTypeOK, Run, NoRun, Runs
  <2> QED BY <2>1, <2>2, <1>5, <1>1, TypeParts DEF Boot, RequestsTypeOK, ServerTypeOK, Stuck
<1>6. CASE Stop
  BY <1>6, <1>1, EngineAssumption, TypeParts
  DEF Stop, Pool!Cancel, TablesTypeOK, Tracked, RunsTypeOK, Pool!PoolTypeOK, RequestsTypeOK,
      ServerTypeOK
<1>7. CASE Exit \/ Crash
  <2>1. RunsTypeOK'
    <3>1. /\ jobs' = <<>> /\ ctx' = "down"
          /\ held' = [w \in Workers |-> Exited]
          /\ run' = [w \in Workers |-> NoRun]
      BY <1>7 DEF Exit, Crash, Forget, Pool!Vanish
    <3> QED BY <3>1, EngineAssumption DEF RunsTypeOK, Pool!PoolTypeOK, Run, NoRun, Runs
  <2>2. RequestsTypeOK' /\ ServerTypeOK' /\ TablesTypeOK'
    BY <1>7, <1>1, EngineAssumption
    DEF Exit, Crash, Forget, RequestsTypeOK, ServerTypeOK, TablesTypeOK, Tracked
  <2> QED BY <2>1, <2>2, TypeParts
<1> QED BY <1>2, <1>3, <1>4, <1>5, <1>6, <1>7

LEMMA TypeStep == TypeOK /\ [Next]_vars => TypeOK'
<1> SUFFICES ASSUME TypeOK, [Next]_vars PROVE TypeOK'
  OBVIOUS
<1>1. CASE UNCHANGED vars
  BY <1>1 DEF vars, TypeOK, Pool!PoolTypeOK, Tracked
<1> QED BY <1>1, TypeWorker, TypeRequest, TypePatch, TypeServer DEF Next

THEOREM TypeCorrect == Spec => []TypeOK
  BY TypeInit, TypeStep, PTL DEF Spec

-----------------------------------------------------------------------------
(***************************************************************************)
(* The invariant behind the safety properties.  A run has a token from     *)
(* StartRun on, and no two runs share one: sync_started_at identifies the  *)
(* run.  So when a row carries the token of a run, that run is the only    *)
(* one that can write the row or its documents, and what it read is still  *)
(* what is stored (PlanIsCurrent), which makes its commit store exactly a  *)
(* snapshot.                                                               *)
(***************************************************************************)
Started(w) == run[w].at \notin {"idle", "mark"}

TokensDistinct ==
  /\ \A w \in Workers : Started(w) <=> run[w].token # Null
  /\ \A v, w \in Workers :
       v # w /\ run[v].token # Null => run[v].token # run[w].token

IInv ==
  /\ TypeOK
  /\ RowShape
  /\ TokensDistinct
  /\ PlanIsCurrent
  /\ DocsMatchSyncedCommit

LEMMA InvInit == Init => IInv
<1> SUFFICES ASSUME Init PROVE IInv
  OBVIOUS
<1>1. TypeOK
  BY TypeInit
<1>2. RowShape /\ DocsMatchSyncedCommit
  BY DEF Init, TablesInit, NoRow, Row, RowShape, DocsMatchSyncedCommit
<1>3. TokensDistinct /\ PlanIsCurrent
  BY DEF Init, Run, NoRun, Started, TokensDistinct, PlanIsCurrent
<1> QED BY <1>1, <1>2, <1>3 DEF IInv

(* A step that changes what a run relies on takes the row from the run.    *)
WillOwn(r, t) == repo'[r].status = "running" /\ repo'[r].started = t

RunsUndisturbed ==
  \A v \in Workers : LET r == held[v] IN
    run[v].at \in {"touch", "store"} /\ WillOwn(r, run[v].token)
      => /\ Owns(r, run[v].token)
         /\ repo'[r].synced = repo[r].synced
         /\ docs'[r] = docs[r]

(* Statements of the requests and of the startup: none makes a row         *)
(* running, none publishes a commit, and one that changes the documents    *)
(* or the commit of a row leaves the row without an owner.                 *)
Quiet ==
  /\ RowShape'
  /\ DocsMatchSyncedCommit'
  /\ \A q \in Repos, t \in Stamps :
       Owns(q, t)' => Owns(q, t) /\ repo'[q].synced = repo[q].synced /\ docs'[q] = docs[q]

LEMMA RequestStatements ==
  ASSUME TablesTypeOK, RowShape, DocsMatchSyncedCommit, NEW r \in Repos
  PROVE  /\ \A b \in Branches : CreateRepository(r, b) => Quiet
         /\ \A b \in Branches, reset \in BOOLEAN : UpdateRepository(r, b, reset) => Quiet
         /\ DeleteRepository(r) => Quiet
         /\ ClaimRepositorySync(r) => Quiet
         /\ UnclaimRepositorySync(r) => Quiet
<1> USE EngineAssumption
    DEF TablesTypeOK, Quiet, RowShape, DocsMatchSyncedCommit, Owns, Rows, Row, Idle, Busy,
        Tracked
<1>1. \A b \in Branches : CreateRepository(r, b) => Quiet
  BY DEF CreateRepository, PendingRow
<1>2. \A b \in Branches, reset \in BOOLEAN : UpdateRepository(r, b, reset) => Quiet
  BY DEF UpdateRepository, PendingRow
<1>3. DeleteRepository(r) => Quiet
  BY DEF DeleteRepository, NoRow
<1>4. ClaimRepositorySync(r) => Quiet
  BY DEF ClaimRepositorySync
<1>5. UnclaimRepositorySync(r) => Quiet
  BY DEF UnclaimRepositorySync, Restored
<1> QED BY <1>1, <1>2, <1>3, <1>4, <1>5

LEMMA ResetStatement ==
  ASSUME TablesTypeOK, RowShape, DocsMatchSyncedCommit, ResetStuckRepositorySyncs
  PROVE  Quiet
  BY DEF TablesTypeOK, Quiet, RowShape, DocsMatchSyncedCommit, Owns, Rows, Row, Idle, Busy, Tracked,
         ResetStuckRepositorySyncs, Stuck

LEMMA QuietUndisturbed ==
  ASSUME TypeOK, TokensDistinct, Quiet
  PROVE  RunsUndisturbed
<1> SUFFICES ASSUME NEW v \in Workers, run[v].at \in {"touch", "store"}
             PROVE  LET r == held[v] IN
                      WillOwn(r, run[v].token)
                        => /\ Owns(r, run[v].token)
                           /\ repo'[r].synced = repo[r].synced
                           /\ docs'[r] = docs[r]
  BY DEF RunsUndisturbed
<1>1. held[v] \in Repos /\ run[v].token \in Stamps
  BY WorkerHolds DEF TypeOK, TokensDistinct, Started, Runs
<1> QED BY <1>1 DEF Quiet, Owns, WillOwn

(* A plan stays current while its run stands still and is not disturbed.   *)
LEMMA PlansKept ==
  ASSUME TypeOK, PlanIsCurrent, RunsUndisturbed,
         \A v \in Workers :
           \/ run'[v] = run[v] /\ held'[v] = held[v]
           \/ run'[v].at \notin {"touch", "store"}
  PROVE  PlanIsCurrent'
  BY DEF PlanIsCurrent, RunsUndisturbed, WillOwn, Owns

(* Tokens stay distinct when a run ends, keeps its token or takes a fresh  *)
(* one.                                                                    *)
LEMMA TokensKept ==
  ASSUME TypeOK, TokensDistinct, NEW w \in Workers,
         \A v \in Workers \ {w} : run'[v] = run[v],
         run' \in [Workers -> Runs],
         \/ run'[w].at \in {"idle", "mark"} /\ run'[w].token = Null
         \/ Started(w) /\ Started(w)' /\ run'[w].token = run[w].token
         \/ Started(w)' /\ run'[w].token \in FreshStamps
  PROVE  TokensDistinct'
  BY EngineAssumption DEF TypeOK, TokensDistinct, Started, FreshStamps

(* The steps that write neither rows nor documents.                        *)
LEMMA NothingWritten ==
  ASSUME TypeOK, RowShape, DocsMatchSyncedCommit, UNCHANGED tableVars
  PROVE  RowShape' /\ DocsMatchSyncedCommit' /\ RunsUndisturbed
  BY DEF RowShape, DocsMatchSyncedCommit, RunsUndisturbed, WillOwn, Owns, Tracked

(* What a finished worker leaves.                                          *)
LEMMA FinishLeaves ==
  ASSUME TypeOK, NEW w \in Workers, Finish(w)
  PROVE  /\ run'[w] = NoRun
         /\ \A v \in Workers \ {w} : run'[v] = run[v] /\ held'[v] = held[v]
  BY DEF TypeOK, Finish, Pool!Release, Pool!PoolTypeOK

LEMMA AfterErrorLeaves ==
  ASSUME TypeOK, NEW w \in Workers, AfterError(w)
  PROVE  /\ \/ run'[w].at = "idle" /\ run'[w].token = Null
            \/ run'[w].at = "record" /\ run'[w].token = run[w].token
         /\ \A v \in Workers \ {w} : run'[v] = run[v] /\ held'[v] = held[v]
<1>1. CASE Finish(w)
  BY <1>1, FinishLeaves DEF NoRun, Run
<1>2. CASE /\ run' = [run EXCEPT ![w] = Run("record", @.token, Null, {}, {})]
           /\ UNCHANGED poolVars
  BY <1>2 DEF TypeOK, Run
<1> QED BY <1>1, <1>2 DEF AfterError

(* Marking a row running gives it an owner no other run can be.            *)
LEMMA MarkUndisturbed ==
  ASSUME IInv, NEW r \in Repos, NEW t \in FreshStamps, MarkRepositorySyncAsRunning(r, t)
  PROVE  RowShape' /\ DocsMatchSyncedCommit' /\ RunsUndisturbed
<1>1. RowShape' /\ DocsMatchSyncedCommit'
  BY EngineAssumption
  DEF IInv, TypeOK, RowShape, DocsMatchSyncedCommit, MarkRepositorySyncAsRunning, FreshStamps, Rows,
      Row, Tracked
<1>2. RunsUndisturbed
  BY WorkerHolds
  DEF IInv, TypeOK, RunsUndisturbed, WillOwn, Owns, MarkRepositorySyncAsRunning, FreshStamps, Rows,
      Row
<1> QED BY <1>1, <1>2

(* The commit of the run that owns the row stores a snapshot, and no other *)
(* run owns that row.                                                      *)
LEMMA CommitStoresSnapshot ==
  ASSUME IInv, NEW w \in Workers, run[w].at \in {"touch", "store"}, Commit(w)
  PROVE  LET r == held[w]
             c == run[w].commit
         IN /\ c \in Commits
            /\ repo'[r].synced = c
            /\ repo' = [repo EXCEPT ![r] = repo'[r]]
            /\ docs' = [docs EXCEPT ![r] = Snapshot(@, c)]
<1>1. held[w] \in Repos /\ run[w].commit \in Commits
  BY WorkerHolds DEF IInv, TypeOK
<1>2. Owns(held[w], run[w].token) /\ docs[held[w]] \in Documents
  BY <1>1 DEF Commit, FinalizeRepositorySync, IInv, TypeOK
<1>3. repo'[held[w]].synced = run[w].commit /\ repo' = [repo EXCEPT ![held[w]] = repo'[held[w]]]
  BY <1>1 DEF Commit, FinalizeRepositorySync, IInv, TypeOK, Row
<1>4. CASE run[w].at = "touch"
  <2>1. docs[held[w]] = Snapshot(docs[held[w]], run[w].commit)
    BY <1>1, <1>2, <1>4, TreeAssumption
    DEF IInv, PlanIsCurrent, DocsMatchSyncedCommit, Reflects
  <2> QED BY <1>1, <1>3, <1>4, <2>1 DEF Commit, IInv, TypeOK
<1>5. CASE run[w].at = "store"
  <2>1. Rewritten(docs[held[w]], run[w].commit, run[w].put, run[w].del)
          = Snapshot(docs[held[w]], run[w].commit)
    BY <1>2, <1>5 DEF IInv, PlanIsCurrent
  <2> QED BY <1>1, <1>3, <1>5, <2>1 DEF Commit, IInv, TypeOK
<1> QED BY <1>4, <1>5

LEMMA CommitUndisturbed ==
  ASSUME IInv, NEW w \in Workers, run[w].at \in {"touch", "store"}, Commit(w)
  PROVE  RowShape' /\ DocsMatchSyncedCommit' /\ RunsUndisturbed
<1>1. held[w] \in Repos /\ run[w].commit \in Commits /\ docs[held[w]] \in Documents
  BY WorkerHolds DEF IInv, TypeOK
<1>2. RowShape'
  BY <1>1, TreeAssumption, EngineAssumption
  DEF IInv, TypeOK, RowShape, Commit, FinalizeRepositorySync, Rows, Row, Tracked
<1>3. DocsMatchSyncedCommit'
  BY <1>1, CommitStoresSnapshot, SnapshotIsStable
  DEF IInv, TypeOK, DocsMatchSyncedCommit
<1>4. RunsUndisturbed
  BY <1>1, WorkerHolds
  DEF IInv, TypeOK, RunsUndisturbed, WillOwn, Owns, Commit, FinalizeRepositorySync, Row
<1> QED BY <1>2, <1>3, <1>4

LEMMA FailureUndisturbed ==
  ASSUME IInv, NEW r \in Repos, NEW t, NEW code \in Codes, MarkRepositorySyncAsFailed(r, t, code)
  PROVE  RowShape' /\ DocsMatchSyncedCommit' /\ RunsUndisturbed
<1>1. RowShape' /\ DocsMatchSyncedCommit'
  BY EngineAssumption
  DEF IInv, TypeOK, RowShape, DocsMatchSyncedCommit, MarkRepositorySyncAsFailed, Rows, Row, Tracked
<1>2. RunsUndisturbed
  BY WorkerHolds
  DEF IInv, TypeOK, RunsUndisturbed, WillOwn, Owns, MarkRepositorySyncAsFailed, Rows, Row
<1> QED BY <1>1, <1>2

-----------------------------------------------------------------------------
LEMMA InvWorker ==
  ASSUME IInv, NEW w \in Workers, TakeJob(w) \/ SyncStep(w) \/ WorkerReturns(w)
  PROVE  IInv'
<1>1. TypeOK /\ RowShape /\ TokensDistinct /\ PlanIsCurrent /\ DocsMatchSyncedCommit
  BY DEF IInv
<1>2. TypeOK' /\ run' \in [Workers -> Runs]
  BY <1>1, TypeWorker DEF TypeOK
<1>3. ASSUME RowShape', DocsMatchSyncedCommit', RunsUndisturbed, Finish(w)
      PROVE  IInv'
  <2>1. TokensDistinct'
    BY <1>1, <1>2, <1>3, FinishLeaves, TokensKept DEF NoRun, Run
  <2>2. PlanIsCurrent'
    BY <1>1, <1>3, FinishLeaves, PlansKept DEF NoRun, Run
  <2> QED BY <1>2, <1>3, <2>1, <2>2 DEF IInv
<1>4. ASSUME RowShape', DocsMatchSyncedCommit', RunsUndisturbed, Started(w), AfterError(w)
      PROVE  IInv'
  <2>1. TokensDistinct'
    BY <1>1, <1>2, <1>4, AfterErrorLeaves, TokensKept DEF Started
  <2>2. PlanIsCurrent'
    BY <1>1, <1>4, AfterErrorLeaves, PlansKept
  <2> QED BY <1>2, <1>4, <2>1, <2>2 DEF IInv
<1>5. CASE TakeJob(w)
  <2>1. /\ run'[w] = Run("mark", Null, Null, {}, {})
        /\ \A v \in Workers \ {w} : run'[v] = run[v] /\ held'[v] = held[v]
    BY <1>1, <1>5 DEF TakeJob, Pool!Receive, TypeOK, Pool!PoolTypeOK
  <2>2. RowShape' /\ DocsMatchSyncedCommit' /\ RunsUndisturbed
    BY <1>1, <1>5, NothingWritten DEF TakeJob
  <2>3. TokensDistinct' /\ PlanIsCurrent'
    BY <1>1, <1>2, <2>1, <2>2, TokensKept, PlansKept DEF Run
  <2> QED BY <1>2, <2>2, <2>3 DEF IInv
<1>6. CASE StartRun(w)
  <2>1. held[w] \in Repos
    BY <1>1, <1>6, WorkerHolds DEF StartRun
  <2>2. RowShape' /\ DocsMatchSyncedCommit' /\ RunsUndisturbed
    BY <1>1, <1>6, <2>1, NothingWritten, MarkUndisturbed DEF StartRun
  <2>3. CASE Finish(w)
    BY <1>3, <2>2, <2>3
  <2>4. CASE ~Finish(w)
    <3>1. PICK t \in FreshStamps : run' = [run EXCEPT ![w] = Run("load", t, Null, {}, {})]
      BY <1>6, <2>4 DEF StartRun
    <3>2. held' = held
      BY <1>6, <2>4 DEF StartRun
    <3>3. /\ run'[w].at = "load" /\ run'[w].token \in FreshStamps
          /\ \A v \in Workers \ {w} : run'[v] = run[v]
      BY <1>1, <3>1 DEF TypeOK, Run
    <3>4. TokensDistinct'
      BY <1>1, <1>2, <3>3, TokensKept DEF Started
    <3>5. PlanIsCurrent'
      BY <1>1, <2>2, <3>2, <3>3, PlansKept
    <3> QED BY <1>2, <2>2, <3>4, <3>5 DEF IInv
  <2> QED BY <2>3, <2>4
<1>7. CASE StartRunFails(w)
  <2>1. held[w] \in Repos
    BY <1>1, <1>7, WorkerHolds DEF StartRunFails
  <2> QED BY <1>1, <1>3, <1>7, <2>1, NothingWritten, MarkUndisturbed DEF StartRunFails
<1>8. CASE Load(w)
  <2>1. RowShape' /\ DocsMatchSyncedCommit' /\ RunsUndisturbed
    BY <1>1, <1>8, NothingWritten DEF Load
  <2>2. CASE Finish(w)
    BY <1>3, <2>1, <2>2
  <2>3. CASE ~Finish(w)
    <3>1. PICK c : run' = [run EXCEPT ![w] =
                             Run(IF c = repo[held[w]].synced THEN "touch" ELSE "diff",
                                 @.token, c, {}, {})]
      BY <1>8, <2>3 DEF Load
    <3>2. UNCHANGED <<held, repo, docs>> /\ run[w].at = "load"
      BY <1>8, <2>3 DEF Load
    <3>3. /\ run'[w].token = run[w].token
          /\ run'[w].at = IF c = repo[held[w]].synced THEN "touch" ELSE "diff"
          /\ run'[w].commit = c
          /\ \A v \in Workers \ {w} : run'[v] = run[v]
      BY <1>1, <3>1 DEF TypeOK, Run
    <3>4. TokensDistinct'
      BY <1>1, <1>2, <3>2, <3>3, TokensKept DEF Started
    <3>5. PlanIsCurrent'
      BY <1>1, <3>2, <3>3 DEF PlanIsCurrent, Owns
    <3> QED BY <1>2, <2>1, <3>4, <3>5 DEF IInv
  <2> QED BY <2>2, <2>3
<1>9. CASE Diff(w)
  <2>1. RowShape' /\ DocsMatchSyncedCommit' /\ UNCHANGED <<held, repo, docs>>
    BY <1>1, <1>9, NothingWritten DEF Diff
  <2>2. run[w].commit \in Commits /\ docs[held[w]] \in Documents
    BY <1>1, <1>9, WorkerHolds DEF Diff, TypeOK
  <2>3. /\ run[w].at = "diff" /\ run'[w].at = "store"
        /\ run'[w].token = run[w].token /\ run'[w].commit = run[w].commit
        /\ run'[w].put = Upserts(docs[held[w]], run[w].commit)
        /\ run'[w].del = Removed(docs[held[w]], run[w].commit)
        /\ \A v \in Workers \ {w} : run'[v] = run[v]
    BY <1>1, <1>9 DEF Diff, TypeOK, Run
  <2>4. TokensDistinct'
    BY <1>1, <1>2, <2>3, TokensKept DEF Started
  <2>5. PlanIsCurrent'
    BY <1>1, <2>1, <2>2, <2>3, DiffYieldsSnapshot DEF PlanIsCurrent, Owns
  <2> QED BY <1>2, <2>1, <2>4, <2>5 DEF IInv
<1>10. CASE Publish(w)
  BY <1>1, <1>3, <1>10, NothingWritten, CommitUndisturbed DEF Publish
<1>11. CASE Fail(w)
  BY <1>1, <1>4, <1>11, NothingWritten DEF Fail, Started
<1>12. CASE CommitUnconfirmed(w)
  BY <1>1, <1>4, <1>12, CommitUndisturbed DEF CommitUnconfirmed, Started
<1>13. CASE RecordFailure(w)
  <2>1. held[w] \in Repos
    BY <1>1, <1>13, WorkerHolds DEF RecordFailure
  <2> QED BY <1>1, <1>3, <1>13, <2>1, NothingWritten, FailureUndisturbed DEF RecordFailure
<1>14. CASE WorkerReturns(w)
  <2>1. RowShape' /\ DocsMatchSyncedCommit' /\ RunsUndisturbed
    BY <1>1, <1>14, NothingWritten DEF WorkerReturns
  <2>2. run' = run /\ run[w].at = "idle" /\ \A v \in Workers \ {w} : held'[v] = held[v]
    BY <1>1, <1>14, EngineAssumption DEF WorkerReturns, Pool!Return, TypeOK, Pool!PoolTypeOK
  <2>3. PlanIsCurrent' /\ TokensDistinct'
    BY <1>1, <2>1, <2>2, PlansKept DEF TokensDistinct, Started
  <2> QED BY <1>2, <2>1, <2>3 DEF IInv
<1> QED BY <1>5, <1>6, <1>7, <1>8, <1>9, <1>10, <1>11, <1>12, <1>13, <1>14 DEF SyncStep

(* A step of no worker: it executes at most one statement, and leaves the  *)
(* runs alone or ends them all.                                            *)
LEMMA InvOther ==
  ASSUME IInv, TypeOK',
         Quiet \/ UNCHANGED tableVars,
         UNCHANGED <<run, held>> \/ run' = [w \in Workers |-> NoRun]
  PROVE  IInv'
<1>1. RowShape' /\ DocsMatchSyncedCommit' /\ RunsUndisturbed
  BY NothingWritten, QuietUndisturbed DEF IInv, Quiet
<1>2. CASE UNCHANGED <<run, held>>
  <2>1. TokensDistinct' /\ PlanIsCurrent'
    BY <1>1, <1>2, PlansKept DEF IInv, TokensDistinct, Started
  <2> QED BY <1>1, <2>1 DEF IInv
<1>3. CASE run' = [w \in Workers |-> NoRun]
  <2>1. TokensDistinct' /\ PlanIsCurrent'
    BY <1>3 DEF TokensDistinct, Started, PlanIsCurrent, NoRun, Run
  <2> QED BY <1>1, <2>1 DEF IInv
<1> QED BY <1>2, <1>3

LEMMA InvStep == IInv /\ [Next]_vars => IInv'
<1> SUFFICES ASSUME IInv, [Next]_vars PROVE IInv'
  OBVIOUS
<1>1. TypeOK /\ TablesTypeOK /\ RequestsTypeOK /\ RowShape /\ DocsMatchSyncedCommit
  BY TypeParts DEF IInv
<1>2. TypeOK'
  BY <1>1, TypeStep
<1>3. ASSUME NEW h \in Syncers, NEW r \in Repos, ClaimSync(h, r) \/ ClaimUnconfirmed(h, r)
      PROVE  IInv'
  BY <1>1, <1>2, <1>3, RequestStatements, InvOther DEF ClaimSync, ClaimUnconfirmed
<1>4. ASSUME NEW h \in Syncers, Enqueue(h) \/ EnqueueFails(h)
      PROVE  IInv'
  BY <1>2, <1>4, InvOther DEF Enqueue, EnqueueFails, Pool!Send
<1>5. ASSUME NEW h \in Syncers, UnclaimSync(h)
      PROVE  IInv'
  <2>1. call[h].repo \in Repos
    BY <1>1, <1>5 DEF UnclaimSync, RequestsTypeOK, Calls, NoCall
  <2> QED BY <1>1, <1>2, <1>5, <2>1, RequestStatements, InvOther DEF UnclaimSync
<1>6. ASSUME NEW p \in Patchers,
             (\E r \in Repos : PatchRead(p, r)) \/ PatchWrite(p) \/ PatchRefused(p)
      PROVE  IInv'
  <2>1. CASE PatchWrite(p)
    <3>1. patch[p] \in Patches
      BY <1>1, <2>1 DEF PatchWrite, RequestsTypeOK
    <3>2. Quiet
      BY <1>1, <2>1, <3>1, RequestStatements DEF PatchWrite, Patches
    <3> QED BY <1>2, <2>1, <3>2, InvOther DEF PatchWrite
  <2> QED BY <1>2, <1>6, <2>1, InvOther DEF PatchRead, PatchRefused
<1>7. ASSUME NEW r \in Repos, TrackRepository(r) \/ DeleteTracked(r)
      PROVE  IInv'
  BY <1>1, <1>2, <1>7, RequestStatements, InvOther DEF TrackRepository, DeleteTracked
<1>8. ASSUME NEW r \in Repos, Reenqueue(r)
      PROVE  IInv'
  BY <1>2, <1>8, InvOther DEF Reenqueue, Pool!Send
<1>9. CASE ReenqueueStops \/ Stop
  BY <1>2, <1>9, InvOther DEF ReenqueueStops, Stop, Pool!Cancel
<1>10. CASE Exit \/ Crash
  BY <1>2, <1>10, InvOther DEF Exit, Crash, Forget
<1>11. CASE Boot
  <2>1. Quiet \/ UNCHANGED tableVars
    BY <1>1, <1>11, ResetStatement DEF Boot
  <2> QED BY <1>2, <1>11, <2>1, InvOther DEF Boot
<1>12. CASE UNCHANGED vars
  BY <1>2, <1>12, InvOther DEF vars
<1> QED BY <1>3, <1>4, <1>5, <1>6, <1>7, <1>8, <1>9, <1>10, <1>11, <1>12, InvWorker DEF Next

THEOREM Invariant == Spec => []IInv
  BY InvInit, InvStep, PTL DEF Spec

(* Statuses, codes and run tokens always agree (RowShape).                 *)
THEOREM RowsConsistent == Spec => []RowShape
<1>1. IInv => RowShape
  BY DEF IInv
<1> QED BY <1>1, Invariant, PTL

(* The plan of a run that owns its row is computed from what is stored.    *)
THEOREM PlansCurrent == Spec => []PlanIsCurrent
<1>1. IInv => PlanIsCurrent
  BY DEF IInv
<1> QED BY <1>1, Invariant, PTL

(* The documents are always those a sync of synced_commit stores.          *)
THEOREM DocumentsMatch == Spec => []DocsMatchSyncedCommit
<1>1. IInv => DocsMatchSyncedCommit
  BY DEF IInv
<1> QED BY <1>1, Invariant, PTL

-----------------------------------------------------------------------------
(* The refinement.  A statement on row r that is not a commit keeps the    *)
(* documents and keeps or forgets the commit, or drops both.               *)
StoreStep == [Store!StoreNext]_(Store!storeVars)

LEMMA StoreUnchanged ==
  ASSUME UNCHANGED tableVars
  PROVE  StoreStep
  BY DEF StoreStep, Store!storeVars

LEMMA StoreKeepsOrForgets ==
  ASSUME NEW r \in Repos,
         \A q \in Repos \ {r} : repo'[q].synced = repo[q].synced,
         repo'[r].synced \in {repo[r].synced, Null},
         UNCHANGED docs
  PROVE  StoreStep
<1>1. CASE repo'[r].synced = repo[r].synced
  BY <1>1 DEF StoreStep, Store!storeVars
<1>2. CASE repo'[r].synced = Null
  <2>1. Store!Forget(r)
    BY <1>2 DEF Store!Forget
  <2> QED BY <2>1 DEF StoreStep, Store!StoreNext
<1> QED BY <1>1, <1>2

LEMMA StatementRefines ==
  ASSUME TablesTypeOK, NEW r \in Repos
  PROVE  /\ \A b \in Branches : CreateRepository(r, b) => StoreStep
         /\ \A b \in Branches, reset \in BOOLEAN : UpdateRepository(r, b, reset) => StoreStep
         /\ DeleteRepository(r) => StoreStep
         /\ ClaimRepositorySync(r) => StoreStep
         /\ UnclaimRepositorySync(r) => StoreStep
         /\ \A t \in Stamps : MarkRepositorySyncAsRunning(r, t) => StoreStep
         /\ \A t \in Stamps \cup {Null}, code \in Codes :
              MarkRepositorySyncAsFailed(r, t, code) => StoreStep
<1> USE DEF TablesTypeOK, Row
<1>1. \A b \in Branches : CreateRepository(r, b) => StoreStep
  BY StoreKeepsOrForgets DEF CreateRepository, PendingRow
<1>2. \A b \in Branches, reset \in BOOLEAN : UpdateRepository(r, b, reset) => StoreStep
  BY StoreKeepsOrForgets DEF UpdateRepository, PendingRow
<1>3. ASSUME DeleteRepository(r) PROVE StoreStep
  <2>1. Store!Drop(r)
    BY <1>3 DEF DeleteRepository, NoRow, Store!Drop, NoDocuments, Store!NoDocuments
  <2> QED BY <2>1 DEF StoreStep, Store!StoreNext
<1>4. ClaimRepositorySync(r) => StoreStep
  BY StoreKeepsOrForgets DEF ClaimRepositorySync
<1>5. UnclaimRepositorySync(r) => StoreStep
  BY StoreKeepsOrForgets DEF UnclaimRepositorySync
<1>6. \A t \in Stamps : MarkRepositorySyncAsRunning(r, t) => StoreStep
  BY StoreKeepsOrForgets DEF MarkRepositorySyncAsRunning
<1>7. \A t \in Stamps \cup {Null}, code \in Codes :
        MarkRepositorySyncAsFailed(r, t, code) => StoreStep
  BY StoreKeepsOrForgets DEF MarkRepositorySyncAsFailed
<1> QED BY <1>1, <1>2, <1>3, <1>4, <1>5, <1>6, <1>7

LEMMA ResetRefines ==
  ASSUME TablesTypeOK, ResetStuckRepositorySyncs
  PROVE  StoreStep
  BY DEF TablesTypeOK, Row, ResetStuckRepositorySyncs, StoreStep, Store!storeVars

LEMMA CommitRefines ==
  ASSUME IInv, NEW w \in Workers, run[w].at \in {"touch", "store"}, Commit(w)
  PROVE  StoreStep
<1>1. PICK r \in Repos, c \in Commits : r = held[w] /\ c = run[w].commit
  BY WorkerHolds DEF IInv, TypeOK
<1>2. /\ repo'[r].synced = c
      /\ repo' = [repo EXCEPT ![r] = repo'[r]]
      /\ docs' = [docs EXCEPT ![r] = Snapshot(@, c)]
  BY <1>1, CommitStoresSnapshot
<1>3. Store!Snapshot(docs[r], c) = Snapshot(docs[r], c)
  BY DEF Store!Snapshot, Store!Live, Snapshot, Live
<1>4. Store!Publish(r, c)
  BY <1>2, <1>3 DEF Store!Publish, IInv, TypeOK
<1> QED BY <1>4 DEF StoreStep, Store!StoreNext

LEMMA StepRefines == IInv /\ [Next]_vars => StoreStep
<1> SUFFICES ASSUME IInv, [Next]_vars PROVE StoreStep
  OBVIOUS
<1>1. TypeOK /\ TablesTypeOK /\ RequestsTypeOK
  BY TypeParts DEF IInv
<1>2. ASSUME NEW w \in Workers, TakeJob(w) \/ SyncStep(w) \/ WorkerReturns(w)
      PROVE  StoreStep
  <2>1. CASE UNCHANGED tableVars
    BY <2>1, StoreUnchanged
  <2>2. CASE run[w].at \in {"touch", "store"} /\ Commit(w)
    BY <2>2, CommitRefines
  <2>3. CASE run[w].at # "idle" /\ \E t \in Stamps : MarkRepositorySyncAsRunning(held[w], t)
    BY <1>1, <2>3, WorkerHolds, StatementRefines
  <2>4. CASE run[w].at # "idle"
             /\ \E code \in Codes : MarkRepositorySyncAsFailed(held[w], run[w].token, code)
    <3>1. run[w].token \in Stamps \cup {Null}
      BY <1>1 DEF TypeOK, Runs
    <3> QED BY <1>1, <2>4, <3>1, WorkerHolds, StatementRefines
  <2> QED BY <1>2, <2>1, <2>2, <2>3, <2>4
          DEF SyncStep, TakeJob, StartRun, StartRunFails, Load, Diff, Publish, Fail,
              CommitUnconfirmed, RecordFailure, WorkerReturns, FreshStamps
<1>3. ASSUME NEW h \in Syncers, NEW r \in Repos, ClaimSync(h, r) \/ ClaimUnconfirmed(h, r)
      PROVE  StoreStep
  BY <1>1, <1>3, StatementRefines DEF ClaimSync, ClaimUnconfirmed
<1>4. ASSUME NEW h \in Syncers, Enqueue(h) \/ EnqueueFails(h) \/ UnclaimSync(h)
      PROVE  StoreStep
  <2>1. call[h].at = "unclaim" => call[h].repo \in Repos
    BY <1>1 DEF RequestsTypeOK, Calls, NoCall
  <2> QED BY <1>1, <1>4, <2>1, StatementRefines, StoreUnchanged
          DEF Enqueue, EnqueueFails, UnclaimSync
<1>5. ASSUME NEW p \in Patchers,
             (\E r \in Repos : PatchRead(p, r)) \/ PatchWrite(p) \/ PatchRefused(p)
      PROVE  StoreStep
  <2>1. patch[p] # NoPatch => patch[p] \in Patches
    BY <1>1 DEF RequestsTypeOK
  <2> QED BY <1>1, <1>5, <2>1, StatementRefines, StoreUnchanged
          DEF PatchRead, PatchWrite, PatchRefused, Patches
<1>6. ASSUME NEW r \in Repos, TrackRepository(r) \/ DeleteTracked(r) \/ Reenqueue(r)
      PROVE  StoreStep
  BY <1>1, <1>6, StatementRefines, StoreUnchanged DEF TrackRepository, DeleteTracked, Reenqueue
<1>7. CASE ReenqueueStops \/ Stop \/ Exit \/ Crash \/ UNCHANGED vars
  BY <1>7, StoreUnchanged DEF ReenqueueStops, Stop, Exit, Crash, vars
<1>8. CASE Boot
  BY <1>1, <1>8, ResetRefines, StoreUnchanged DEF Boot
<1> QED BY <1>2, <1>3, <1>4, <1>5, <1>6, <1>7, <1>8 DEF Next

(* The engine implements the abstract store: whatever fails, stops or runs *)
(* at the same time, a reader sees whole snapshots, each with its commit.  *)
THEOREM Refinement == Spec => ImplementsStore
<1>1. Init => Store!StoreInit
  BY DEF Init, TablesInit, NoRow, Row, NoDocuments, Store!NoDocuments, Store!StoreInit
<1>2. IInv /\ [Next]_vars => [Store!StoreNext]_(Store!storeVars)
  BY StepRefines DEF StoreStep
<1> QED BY <1>1, <1>2, Invariant, PTL DEF Spec, ImplementsStore, Store!StoreSpec

-----------------------------------------------------------------------------
(* A step executes at most one statement.                                  *)
Statement(q) ==
  \/ \E b \in Branches : CreateRepository(q, b)
  \/ \E b \in Branches, reset \in BOOLEAN : UpdateRepository(q, b, reset)
  \/ DeleteRepository(q)
  \/ ClaimRepositorySync(q)
  \/ UnclaimRepositorySync(q)
  \/ \E t \in Stamps : MarkRepositorySyncAsRunning(q, t)
  \/ \E t, code : MarkRepositorySyncAsFailed(q, t, code)
  \/ \E t, c : FinalizeRepositorySync(q, t, c)
  \/ ResetStuckRepositorySyncs
  \/ UNCHANGED repo

(* What an unclaim would restore is kept by whatever happens to a queued   *)
(* row, and a claim keeps the status it found.                             *)
LEMMA StatementReversible ==
  ASSUME TablesTypeOK, RowShape, NEW q \in Repos, NEW r \in Repos,
         repo'[r].status = "queued", repo[r].status \in Idle \cup {"queued"},
         Statement(q)
  PROVE  Restored(repo'[r]) =
           IF repo[r].status = "queued" THEN Restored(repo[r]) ELSE repo[r].status
  BY DEF Statement, TablesTypeOK, RowShape, Restored, Rows, Row, NoRow, PendingRow, Idle, Busy, Stuck,
         CreateRepository, UpdateRepository, DeleteRepository, ClaimRepositorySync,
         UnclaimRepositorySync, MarkRepositorySyncAsRunning, MarkRepositorySyncAsFailed,
         FinalizeRepositorySync, ResetStuckRepositorySyncs

LEMMA StepIsStatement ==
  ASSUME TypeOK, Next, Repos # {}
  PROVE  \E q \in Repos : Statement(q)
<1>1. RequestsTypeOK
  BY TypeParts
<1>2. PICK any \in Repos : TRUE
  OBVIOUS
<1>3. CASE UNCHANGED repo
  BY <1>2, <1>3 DEF Statement
<1>4. ASSUME NEW w \in Workers, TakeJob(w) \/ SyncStep(w) \/ WorkerReturns(w), repo' # repo
      PROVE  \E q \in Repos : Statement(q)
  <2>1. run[w].at # "idle"
    BY <1>4 DEF SyncStep, TakeJob, StartRun, StartRunFails, Load, Diff, Publish, Fail,
       CommitUnconfirmed, RecordFailure, WorkerReturns
  <2>2. PICK q \in Repos : q = held[w]
    BY <2>1, WorkerHolds
  <2>3. Statement(q)
    BY <1>4, <2>2
    DEF SyncStep, TakeJob, StartRun, StartRunFails, Load, Diff, Publish, Commit, Fail,
        CommitUnconfirmed, RecordFailure, WorkerReturns, FreshStamps, Statement
  <2> QED BY <2>3
<1>5. ASSUME NEW h \in Syncers, UnclaimSync(h), repo' # repo
      PROVE  \E q \in Repos : Statement(q)
  <2>1. PICK q \in Repos : q = call[h].repo
    BY <1>1, <1>5 DEF UnclaimSync, RequestsTypeOK, Calls, NoCall
  <2>2. Statement(q)
    BY <1>5, <2>1 DEF UnclaimSync, Statement
  <2> QED BY <2>2
<1>6. ASSUME NEW p \in Patchers, PatchWrite(p)
      PROVE  \E q \in Repos : Statement(q)
  <2>1. PICK q \in Repos, b \in Branches, reset \in BOOLEAN :
          q = patch[p].repo /\ b = patch[p].branch /\ reset = patch[p].reset
    BY <1>1, <1>6 DEF PatchWrite, RequestsTypeOK, Patches
  <2>2. Statement(q)
    BY <1>6, <2>1 DEF PatchWrite, Statement
  <2> QED BY <2>2
<1>7. CASE \E r \in Repos : \/ \E h \in Syncers : ClaimSync(h, r) \/ ClaimUnconfirmed(h, r)
                            \/ TrackRepository(r) \/ DeleteTracked(r)
  BY <1>7 DEF ClaimSync, ClaimUnconfirmed, TrackRepository, DeleteTracked, Statement
<1>8. CASE Boot
  BY <1>2, <1>8 DEF Boot, Statement
<1>9. CASE \/ \E h \in Syncers : Enqueue(h) \/ EnqueueFails(h)
           \/ \E p \in Patchers : PatchRefused(p) \/ \E r \in Repos : PatchRead(p, r)
           \/ \E r \in Repos : Reenqueue(r)
           \/ ReenqueueStops \/ Stop \/ Exit \/ Crash
  BY <1>3, <1>9
  DEF Enqueue, EnqueueFails, PatchRefused, PatchRead, Reenqueue, ReenqueueStops, Stop, Exit,
      Crash
<1> QED BY <1>3, <1>4, <1>5, <1>6, <1>7, <1>8, <1>9 DEF Next

(* What a request's unclaim goes back to is kept by every step             *)
(* (ClaimIsReversible).                                                    *)
THEOREM ClaimsReversible == Spec => ClaimIsReversible
<1> DEFINE Reversible ==
      \A r \in Repos :
        repo'[r].status = "queued" /\ repo[r].status \in Idle \cup {"queued"}
          => Restored(repo'[r]) = IF repo[r].status = "queued"
                                  THEN Restored(repo[r])
                                  ELSE repo[r].status
<1>1. ASSUME IInv, Next PROVE Reversible
  <2> SUFFICES ASSUME NEW r \in Repos, repo'[r].status = "queued",
                      repo[r].status \in Idle \cup {"queued"}
               PROVE  Restored(repo'[r]) = IF repo[r].status = "queued"
                                           THEN Restored(repo[r]) ELSE repo[r].status
    OBVIOUS
  <2>1. TypeOK /\ TablesTypeOK /\ RowShape
    BY <1>1, TypeParts DEF IInv
  <2>2. PICK q \in Repos : Statement(q)
    BY <1>1, <2>1, StepIsStatement
  <2> QED BY <2>1, <2>2, StatementReversible
<1>2. IInv /\ [Next]_vars => [Reversible]_vars
  BY <1>1
<1> QED BY <1>2, Invariant, PTL DEF Spec, ClaimIsReversible
=============================================================================
