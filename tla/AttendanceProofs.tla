--------------------------- MODULE AttendanceProofs ---------------------------
(***************************************************************************)
(* What needs an assumption on the environment of the sync engine: that no *)
(* busy repository is forgotten, when no statement fails; that the commit  *)
(* of a row is on its branch, and that a change of the branch resets it,   *)
(* when no two PATCH requests overlap; that a claim makes one job and is   *)
(* taken back by its own request only, when no PATCH resets a queued row.  *)
(***************************************************************************)
EXTENDS SyncEngineProofs

USE DEF tableVars, poolVars, requestVars, serverVars

-----------------------------------------------------------------------------
(* No busy repository is forgotten.  An id travels from the request or the *)
(* goroutine of main to the channel, and from there to a worker; the       *)
(* invariant must hold at each of the places.                              *)

(* Somebody will look at the queued row of r.                              *)
Hinted(r) ==
  \/ r \in Pool!Waiting \cup backlog
  \/ \E h \in Syncers : call[h].repo = r
  \/ \E w \in Workers : held[w] = r /\ run[w].at = "mark"

(* The run that owns the running row of r is in progress.                  *)
Owned(r) == \E w \in Workers : held[w] = r /\ run[w].token = repo[r].started

Attended(r) ==
  /\ repo[r].status = "queued" => Hinted(r)
  /\ repo[r].status = "running" => Owned(r)

LEMMA BusyIsAttendedParts ==
  /\ BusyIsAttended <=> (ctx = "live" => \A r \in Repos : Attended(r))
  /\ BusyIsAttended' <=> (ctx' = "live" => \A r \in Repos : Attended(r)')
  BY DEF BusyIsAttended, Attended, Hinted, Owned

LEMMA SendWaits ==
  ASSUME TypeOK, NEW id \in Repos, Pool!Send(id)
  PROVE  Pool!Waiting' = Pool!Waiting \cup {id}
<1>1. jobs \in Seq(Repos) /\ jobs' = Append(jobs, id)
  BY DEF TypeOK, Pool!PoolTypeOK, Pool!Send
<1>2. /\ DOMAIN jobs = 1 .. Len(jobs) /\ Len(jobs) \in Nat
      /\ DOMAIN jobs' = 1 .. Len(jobs) + 1
      /\ \A i \in 1 .. Len(jobs) : jobs'[i] = jobs[i]
      /\ jobs'[Len(jobs) + 1] = id
  BY <1>1
<1> QED BY <1>2 DEF Pool!Waiting

LEMMA ReceiveWaits ==
  ASSUME TypeOK, NEW w \in Workers, Pool!Receive(w)
  PROVE  /\ held'[w] \in Repos
         /\ Pool!Waiting \subseteq Pool!Waiting' \cup {held'[w]}
<1>1. jobs \in Seq(Repos) /\ jobs # <<>> /\ jobs' = Tail(jobs) /\ held'[w] = Head(jobs)
  BY DEF TypeOK, Pool!PoolTypeOK, Pool!Receive
<1>2. /\ DOMAIN jobs = 1 .. Len(jobs) /\ Len(jobs) \in Nat \ {0}
      /\ DOMAIN jobs' = 1 .. Len(jobs) - 1
      /\ \A i \in 1 .. Len(jobs) - 1 : jobs'[i] = jobs[i + 1]
      /\ held'[w] = jobs[1] /\ held'[w] \in Repos
  BY <1>1
<1>3. ASSUME NEW i \in 1 .. Len(jobs), i # 1
      PROVE  jobs[i] \in Pool!Waiting'
  <2>1. i - 1 \in 1 .. Len(jobs) - 1 /\ jobs'[i - 1] = jobs[i]
    BY <1>2, <1>3
  <2> QED BY <1>2, <2>1 DEF Pool!Waiting
<1> QED BY <1>2, <1>3 DEF Pool!Waiting

-----------------------------------------------------------------------------
(* A step of worker w touches only the repository it works on, and what it *)
(* leaves there is idle, or has another attendant, or is its own run.      *)
LEMMA WorkerAttends ==
  ASSUME TypeOK, NEW w \in Workers, \A r \in Repos : Attended(r),
         UNCHANGED <<jobs, backlog, call>>,
         \A v \in Workers \ {w} : run'[v] = run[v] /\ held'[v] = held[v],
         \A r \in Repos \ {held[w]} : repo'[r] = repo[r],
         LET row == repo'[held[w]] IN
           \/ row.status \notin Busy
           \/ row.status = "running" /\ held'[w] = held[w] /\ run'[w].token = row.started
           \/ /\ row = repo[held[w]]
              /\ run[w].at # "mark" \/ row.status # "queued"
              /\ \/ held'[w] = held[w] /\ run'[w].token = run[w].token
                 \/ ~Owns(held[w], run[w].token)
  PROVE  \A r \in Repos : Attended(r)'
<1> SUFFICES ASSUME NEW r \in Repos PROVE Attended(r)'
  OBVIOUS
<1>1. CASE r # held[w]
  <2>1. Hinted(r) => Hinted(r)'
    BY <1>1 DEF Hinted, Pool!Waiting
  <2>2. Owned(r) => Owned(r)'
    BY <1>1 DEF Owned
  <2> QED BY <1>1, <2>1, <2>2 DEF Attended
<1>2. CASE r = held[w] /\ repo'[r].status \notin Busy
  BY <1>2 DEF Attended, Busy
<1>3. CASE r = held[w] /\ repo'[r].status = "running" /\ held'[w] = r
             /\ run'[w].token = repo'[r].started
  BY <1>3 DEF Attended, Owned
<1>4. CASE /\ r = held[w]
           /\ repo'[r] = repo[r]
           /\ run[w].at # "mark" \/ repo[r].status # "queued"
           /\ \/ held'[w] = r /\ run'[w].token = run[w].token
              \/ ~Owns(r, run[w].token)
  <2>1. repo[r].status = "queued" => Hinted(r)'
    BY <1>4 DEF Hinted, Attended, Pool!Waiting
  <2>2. repo[r].status = "running" => Owned(r)'
    BY <1>4 DEF Owned, Attended, Owns
  <2> QED BY <1>4, <2>1, <2>2 DEF Attended
<1> QED BY <1>1, <1>2, <1>3, <1>4

(* A run that lost its row, or never had one, owns nothing.                *)
LEMMA MarkOwnsNothing ==
  ASSUME IInv, NEW w \in Workers, run[w].at = "mark"
  PROVE  ~Owns(held[w], run[w].token)
<1>1. held[w] \in Repos /\ run[w].token = Null
  BY WorkerHolds DEF IInv, TokensDistinct, Started
<1> QED BY <1>1 DEF IInv, RowShape, Owns

LEMMA AttendedWorker ==
  ASSUME IInv, \A r \in Repos : Attended(r), Faults \subseteq {"client"}, ctx = "live",
         NEW w \in Workers, TakeJob(w) \/ SyncStep(w) \/ WorkerReturns(w)
  PROVE  \A r \in Repos : Attended(r)'
<1> USE DEF IInv
<1>t. TypeOK
  OBVIOUS
<1>c. ctx # "cancelled" /\ ~("mark" \in Faults) /\ ~("commit" \in Faults) /\ ~("record" \in Faults)
  OBVIOUS
<1>h. run[w].at # "idle" => held[w] \in Repos
  BY <1>t, WorkerHolds
<1>1. CASE TakeJob(w)
  <2>1. /\ held[w] = Null /\ Null \notin Repos
        /\ \A v \in Workers \ {w} : run'[v] = run[v] /\ held'[v] = held[v]
        /\ run'[w].at = "mark"
        /\ UNCHANGED <<repo, call, backlog>>
    BY <1>1, EngineAssumption DEF TakeJob, Pool!Receive, TypeOK, Pool!PoolTypeOK, Run
  <2>2. held'[w] \in Repos /\ Pool!Waiting \subseteq Pool!Waiting' \cup {held'[w]}
    BY <1>1, <1>t, ReceiveWaits DEF TakeJob
  <2> SUFFICES ASSUME NEW r \in Repos PROVE Attended(r)'
    OBVIOUS
  <2>3. Hinted(r) => Hinted(r)'
    BY <2>1, <2>2 DEF Hinted
  <2>4. Owned(r) => Owned(r)'
    BY <2>1 DEF Owned
  <2> QED BY <2>1, <2>3, <2>4 DEF Attended
<1>2. CASE StartRun(w)
  <2>1. held[w] \in Repos /\ run[w].at = "mark" /\ UNCHANGED <<jobs, backlog, call>>
    BY <1>2, <1>h DEF StartRun, Finish, Pool!Release
  <2>2. CASE \E t \in FreshStamps :
               /\ MarkRepositorySyncAsRunning(held[w], t)
               /\ run' = [run EXCEPT ![w] = Run("load", t, Null, {}, {})]
               /\ UNCHANGED poolVars
    <3>1. /\ \A v \in Workers \ {w} : run'[v] = run[v] /\ held'[v] = held[v]
          /\ \A r \in Repos \ {held[w]} : repo'[r] = repo[r]
          /\ repo'[held[w]].status = "running" /\ held'[w] = held[w]
          /\ run'[w].token = repo'[held[w]].started
      BY <2>1, <2>2 DEF MarkRepositorySyncAsRunning, Row, Run, TypeOK
    <3> QED BY <1>t, <2>1, <3>1, WorkerAttends
  <2>3. CASE repo[held[w]].status # "queued" /\ UNCHANGED tableVars /\ Finish(w)
    <3>1. \A v \in Workers \ {w} : run'[v] = run[v] /\ held'[v] = held[v]
      BY <1>t, <2>3, FinishLeaves
    <3> QED BY <1>t, <2>1, <2>3, <3>1, MarkOwnsNothing, WorkerAttends
  <2> QED BY <1>2, <2>2, <2>3 DEF StartRun
<1>3. CASE StartRunFails(w)
  BY <1>3, <1>c DEF StartRunFails
<1>4. CASE Load(w)
  <2>1. held[w] \in Repos /\ run[w].at = "load" /\ UNCHANGED <<jobs, backlog, call, repo>>
    BY <1>4, <1>h DEF Load, Finish, Pool!Release
  <2>2. CASE ~Tracked(held[w]) /\ Finish(w)
    <3>1. \A v \in Workers \ {w} : run'[v] = run[v] /\ held'[v] = held[v]
      BY <1>t, <2>2, FinishLeaves
    <3>2. repo'[held[w]].status \notin Busy
      BY <2>1, <2>2 DEF Tracked, Busy
    <3> QED BY <1>t, <2>1, <3>1, <3>2, WorkerAttends
  <2>3. CASE Tracked(held[w]) /\ UNCHANGED poolVars
    <3>1. PICK c : run' = [run EXCEPT ![w] =
                             Run(IF c = repo[held[w]].synced THEN "touch" ELSE "diff",
                                 @.token, c, {}, {})]
      BY <1>4, <2>3 DEF Load
    <3>2. /\ \A v \in Workers \ {w} : run'[v] = run[v] /\ held'[v] = held[v]
          /\ held'[w] = held[w] /\ run'[w].token = run[w].token
      BY <2>3, <3>1 DEF Run, TypeOK
    <3> QED BY <1>t, <2>1, <3>2, WorkerAttends
  <2> QED BY <1>4, <2>2, <2>3 DEF Load
<1>5. CASE Diff(w)
  <2>1. /\ held[w] \in Repos /\ run[w].at = "diff" /\ UNCHANGED <<jobs, backlog, call, repo>>
        /\ \A v \in Workers \ {w} : run'[v] = run[v] /\ held'[v] = held[v]
        /\ held'[w] = held[w] /\ run'[w].token = run[w].token
    BY <1>5, <1>h DEF Diff, Run, TypeOK
  <2> QED BY <1>t, <2>1, WorkerAttends
<1>6. CASE Publish(w)
  <2>1. /\ held[w] \in Repos /\ run[w].at # "mark" /\ UNCHANGED <<jobs, backlog, call>>
        /\ \A v \in Workers \ {w} : run'[v] = run[v] /\ held'[v] = held[v]
    BY <1>t, <1>6, <1>h, FinishLeaves DEF Publish, Finish, Pool!Release
  <2>2. CASE Commit(w)
    <3>1. /\ \A r \in Repos \ {held[w]} : repo'[r] = repo[r]
          /\ repo'[held[w]].status \notin Busy
      BY <2>1, <2>2 DEF Commit, FinalizeRepositorySync, Row, TypeOK, Busy
    <3> QED BY <1>t, <2>1, <3>1, WorkerAttends
  <2>3. CASE ~Owns(held[w], run[w].token) /\ UNCHANGED tableVars
    BY <1>t, <2>1, <2>3, WorkerAttends
  <2> QED BY <1>6, <2>2, <2>3 DEF Publish
<1>7. CASE Fail(w)
  <2>1. /\ held[w] \in Repos /\ run[w].at # "mark" /\ UNCHANGED <<jobs, backlog, call, repo>>
        /\ run' = [run EXCEPT ![w] = Run("record", @.token, Null, {}, {})]
        /\ held' = held
    BY <1>7, <1>c, <1>h DEF Fail, AfterError
  <2>2. /\ \A v \in Workers \ {w} : run'[v] = run[v] /\ held'[v] = held[v]
        /\ run'[w].token = run[w].token
    BY <2>1 DEF Run, TypeOK
  <2> QED BY <1>t, <2>1, <2>2, WorkerAttends
<1>8. CASE CommitUnconfirmed(w)
  BY <1>8, <1>c DEF CommitUnconfirmed
<1>9. CASE RecordFailure(w)
  <2>1. /\ held[w] \in Repos /\ run[w].at # "mark" /\ UNCHANGED <<jobs, backlog, call>>
        /\ \A v \in Workers \ {w} : run'[v] = run[v] /\ held'[v] = held[v]
    BY <1>t, <1>9, <1>h, FinishLeaves DEF RecordFailure, Finish, Pool!Release
  <2>2. CASE \E code \in Codes : MarkRepositorySyncAsFailed(held[w], run[w].token, code)
    <3>1. /\ \A r \in Repos \ {held[w]} : repo'[r] = repo[r]
          /\ repo'[held[w]].status \notin Busy
      BY <2>1, <2>2 DEF MarkRepositorySyncAsFailed, Row, TypeOK, Busy
    <3> QED BY <1>t, <2>1, <3>1, WorkerAttends
  <2>3. CASE ~Owns(held[w], run[w].token) /\ UNCHANGED tableVars
    BY <1>t, <2>1, <2>3, WorkerAttends
  <2> QED BY <1>9, <1>c, <2>2, <2>3 DEF RecordFailure
<1>10. CASE WorkerReturns(w)
  BY <1>10, <1>c DEF WorkerReturns, Pool!Return
<1> QED BY <1>1, <1>2, <1>3, <1>4, <1>5, <1>6, <1>7, <1>8, <1>9, <1>10 DEF SyncStep

-----------------------------------------------------------------------------
(* Steps of requests and of the server that write at most the row of r0.   *)
LEMMA OthersAttend ==
  ASSUME TypeOK, \A r \in Repos : Attended(r),
         UNCHANGED <<run, held>>,
         NEW r0 \in Repos,
         \A r \in Repos \ {r0} : repo'[r] = repo[r],
         Pool!Waiting \cup backlog \subseteq Pool!Waiting' \cup backlog',
         \A h \in Syncers : call[h].repo \in Repos \ {r0} => call'[h].repo = call[h].repo,
         \/ repo'[r0].status \notin Busy
         \/ repo'[r0].status = "queued" /\ Hinted(r0)'
         \/ /\ repo'[r0].status = repo[r0].status
            /\ repo'[r0].started = repo[r0].started
            /\ repo[r0].status = "queued" => Hinted(r0)'
  PROVE  \A r \in Repos : Attended(r)'
<1> SUFFICES ASSUME NEW r \in Repos PROVE Attended(r)'
  OBVIOUS
<1>1. CASE r # r0
  <2>1. Hinted(r) => Hinted(r)'
    BY <1>1 DEF Hinted
  <2> QED BY <1>1, <2>1 DEF Attended, Owned
<1>2. CASE r = r0
  BY <1>2 DEF Attended, Owned, Busy
<1> QED BY <1>1, <1>2

LEMMA AttendedRequest ==
  ASSUME TypeOK, \A r \in Repos : Attended(r), Faults \subseteq {"client"},
         NEW h \in Syncers,
         \/ \E r \in Repos : ClaimSync(h, r) \/ ClaimUnconfirmed(h, r)
         \/ Enqueue(h) \/ EnqueueFails(h) \/ UnclaimSync(h)
  PROVE  \A r \in Repos : Attended(r)'
<1>n. Null \notin Repos /\ NoCall.repo = Null /\ NoCall.at = "idle"
  BY EngineAssumption DEF NoCall
<1>f. ~("claim" \in Faults) /\ ~("unclaim" \in Faults)
  OBVIOUS
<1>r. call[h].at # "idle" => call[h].repo \in Repos
  BY <1>n DEF TypeOK, Calls
<1>1. ASSUME NEW r \in Repos, ClaimSync(h, r)
      PROVE  \A q \in Repos : Attended(q)'
  <2>1. /\ call[h].at = "idle" /\ UNCHANGED <<run, held, jobs, backlog>>
        /\ call'[h].repo = r /\ \A k \in Syncers \ {h} : call'[k] = call[k]
        /\ repo'[r].status = "queued" /\ \A q \in Repos \ {r} : repo'[q] = repo[q]
    BY <1>1 DEF ClaimSync, ClaimRepositorySync, TypeOK, Row
  <2>2. call[h].repo \notin Repos
    BY <1>n, <2>1 DEF TypeOK, Calls
  <2>3. Hinted(r)' /\ Pool!Waiting' = Pool!Waiting
    BY <2>1 DEF Hinted, Pool!Waiting
  <2> QED BY <2>1, <2>2, <2>3, OthersAttend
<1>2. ASSUME NEW r \in Repos, ClaimUnconfirmed(h, r)
      PROVE  FALSE
  BY <1>2, <1>f DEF ClaimUnconfirmed
<1>3. CASE Enqueue(h)
  <2>1. PICK r \in Repos : r = call[h].repo
    BY <1>3, <1>r DEF Enqueue
  <2>2. /\ Pool!Send(r) /\ UNCHANGED <<run, held, repo, backlog>>
        /\ \A k \in Syncers \ {h} : call'[k] = call[k]
    BY <1>3, <2>1 DEF Enqueue, RequestEnds, Pool!Send, TypeOK
  <2>3. Pool!Waiting' = Pool!Waiting \cup {r}
    BY <2>2, SendWaits
  <2>4. Hinted(r)'
    BY <2>3 DEF Hinted
  <2> QED BY <2>1, <2>2, <2>3, <2>4, OthersAttend
<1>4. CASE EnqueueFails(h)
  <2>1. /\ call[h].repo \in Repos /\ UNCHANGED <<run, held, repo, jobs, backlog>>
        /\ \A k \in Syncers : call'[k].repo = call[k].repo
    BY <1>4, <1>r DEF EnqueueFails, TypeOK
  <2>2. Hinted(call[h].repo)' /\ Pool!Waiting' = Pool!Waiting
    BY <2>1 DEF Hinted, Pool!Waiting
  <2> QED BY <2>1, <2>2, OthersAttend
<1>5. CASE UnclaimSync(h)
  <2>1. /\ call[h].repo \in Repos /\ UNCHANGED <<run, held, jobs, backlog>>
        /\ \A k \in Syncers \ {h} : call'[k] = call[k]
    BY <1>5, <1>r DEF UnclaimSync, RequestEnds, TypeOK
  <2>2. Pool!Waiting' = Pool!Waiting
    BY <2>1 DEF Pool!Waiting
  <2>3. CASE UnclaimRepositorySync(call[h].repo)
    <3>1. /\ \A r \in Repos \ {call[h].repo} : repo'[r] = repo[r]
          /\ repo'[call[h].repo].status \notin Busy
      BY <2>1, <2>3 DEF UnclaimRepositorySync, Restored, Row, Busy, TypeOK
    <3> QED BY <2>1, <2>2, <3>1, OthersAttend
  <2>4. CASE repo[call[h].repo].status # "queued" /\ UNCHANGED tableVars
    BY <2>1, <2>2, <2>4, OthersAttend
  <2> QED BY <1>5, <1>f, <2>3, <2>4 DEF UnclaimSync
<1> QED BY <1>1, <1>2, <1>3, <1>4, <1>5

(* Steps that keep every job and claim where it is.                        *)
LEMMA UserAttended ==
  ASSUME TypeOK, \A r \in Repos : Attended(r),
         \/ \E p \in Patchers : \/ \E r \in Repos : PatchRead(p, r)
                                \/ PatchWrite(p) \/ PatchRefused(p)
         \/ \E r \in Repos : TrackRepository(r) \/ DeleteTracked(r)
  PROVE  \A r \in Repos : Attended(r)'
<1>1. /\ UNCHANGED <<run, held, jobs, backlog, call>>
      /\ Pool!Waiting' = Pool!Waiting
  BY DEF PatchRead, PatchWrite, PatchRefused, TrackRepository, DeleteTracked, Pool!Waiting
<1>2. \A r \in Repos : Hinted(r) => Hinted(r)'
  BY <1>1 DEF Hinted
<1>3. CASE UNCHANGED repo
  BY <1>1, <1>2, <1>3 DEF Attended, Owned
<1>4. ASSUME NEW p \in Patchers, PatchWrite(p)
      PROVE  \A r \in Repos : Attended(r)'
  <2>1. patch[p].repo \in Repos
    BY <1>4 DEF PatchWrite, TypeOK, Patches
  <2>2. /\ \A r \in Repos \ {patch[p].repo} : repo'[r] = repo[r]
        /\ \/ repo'[patch[p].repo].status \notin Busy
           \/ /\ repo'[patch[p].repo].status = repo[patch[p].repo].status
              /\ repo'[patch[p].repo].started = repo[patch[p].repo].started
    BY <1>4, <2>1 DEF PatchWrite, UpdateRepository, PendingRow, Row, Busy, TypeOK
  <2> QED BY <1>1, <1>2, <2>1, <2>2, OthersAttend DEF Attended
<1>5. ASSUME NEW r \in Repos, TrackRepository(r) \/ DeleteTracked(r)
      PROVE  \A q \in Repos : Attended(q)'
  <2>1. /\ \A q \in Repos \ {r} : repo'[q] = repo[q]
        /\ repo'[r].status \notin Busy
    BY <1>5 DEF TrackRepository, CreateRepository, PendingRow, DeleteTracked, DeleteRepository,
       NoRow, Row, Busy, TypeOK
  <2> QED BY <1>1, <2>1, OthersAttend
<1> QED BY <1>3, <1>4, <1>5 DEF PatchRead, PatchRefused

LEMMA AttendedServer ==
  ASSUME TypeOK, ctx = "live" => \A r \in Repos : Attended(r), Faults \subseteq {"client"},
         ctx' = "live",
         \/ \E r \in Repos : Reenqueue(r)
         \/ ReenqueueStops \/ Boot \/ Stop \/ Exit \/ Crash
  PROVE  \A r \in Repos : Attended(r)'
<1>1. ASSUME NEW r \in Repos, Reenqueue(r)
      PROVE  \A q \in Repos : Attended(q)'
  <2>1. /\ Pool!Send(r) /\ ctx = "live"
        /\ UNCHANGED <<run, held, repo, call>>
        /\ backlog' = backlog \ {r}
    BY <1>1 DEF Reenqueue, Pool!Send
  <2>2. Pool!Waiting \cup backlog \subseteq Pool!Waiting' \cup backlog'
    BY <2>1, SendWaits
  <2>3. \A q \in Repos : Hinted(q) => Hinted(q)'
    BY <2>1, <2>2 DEF Hinted
  <2> QED BY <2>1, <2>3 DEF Attended, Owned
<1>2. CASE Boot
  <2>1. ResetStuckRepositorySyncs /\ backlog' = Stuck
    BY <1>2 DEF Boot
  <2>2. \A r \in Stuck : repo'[r].status = "queued"
    BY <2>1 DEF ResetStuckRepositorySyncs, Stuck, Row
  <2>3. \A r \in Repos \ Stuck : repo'[r].status \notin Busy
    BY <2>1 DEF ResetStuckRepositorySyncs, Stuck
  <2>4. \A r \in Stuck : Hinted(r)'
    BY <2>1 DEF Hinted
  <2> QED BY <2>2, <2>3, <2>4 DEF Attended, Busy
<1>3. CASE ReenqueueStops \/ Stop \/ Exit \/ Crash
  BY <1>3 DEF ReenqueueStops, Stop, Exit, Crash, Pool!Cancel, Pool!Vanish
<1> QED BY <1>1, <1>2, <1>3

LEMMA AttendedStep ==
  ASSUME IInv, Faults \subseteq {"client"}, BusyIsAttended, [Next]_vars
  PROVE  BusyIsAttended'
<1> SUFFICES ASSUME ctx' = "live" PROVE \A r \in Repos : Attended(r)'
  BY BusyIsAttendedParts
<1>1. TypeOK /\ (ctx = "live" => \A r \in Repos : Attended(r))
  BY BusyIsAttendedParts DEF IInv
<1>2. ASSUME NEW w \in Workers, TakeJob(w) \/ SyncStep(w) \/ WorkerReturns(w)
      PROVE  \A r \in Repos : Attended(r)'
  <2>1. ctx = "live"
    BY <1>2 DEF TakeJob, SyncStep, WorkerReturns, StartRun, StartRunFails, Load, Diff, Publish,
       Fail, AfterError, CommitUnconfirmed, RecordFailure, Finish, Pool!Receive, Pool!Release,
       Pool!Return
  <2> QED BY <1>1, <1>2, <2>1, AttendedWorker
<1>3. ASSUME NEW h \in Syncers,
             \/ \E r \in Repos : ClaimSync(h, r) \/ ClaimUnconfirmed(h, r)
             \/ Enqueue(h) \/ EnqueueFails(h) \/ UnclaimSync(h)
      PROVE  \A r \in Repos : Attended(r)'
  <2>1. ctx = "live"
    BY <1>3 DEF ClaimSync, ClaimUnconfirmed, Enqueue, EnqueueFails, UnclaimSync, Pool!Send
  <2> QED BY <1>1, <1>3, <2>1, AttendedRequest
<1>4. CASE \/ \E p \in Patchers : \/ \E r \in Repos : PatchRead(p, r)
                                  \/ PatchWrite(p) \/ PatchRefused(p)
           \/ \E r \in Repos : TrackRepository(r) \/ DeleteTracked(r)
  <2>1. ctx = "live"
    BY <1>4 DEF PatchRead, PatchWrite, PatchRefused, TrackRepository, DeleteTracked
  <2> QED BY <1>1, <1>4, <2>1, UserAttended
<1>5. CASE \/ \E r \in Repos : Reenqueue(r)
           \/ ReenqueueStops \/ Boot \/ Stop \/ Exit \/ Crash
  BY <1>1, <1>5, AttendedServer
<1>6. CASE UNCHANGED vars
  BY <1>1, <1>6 DEF vars, Attended, Hinted, Owned, Pool!Waiting
<1> QED BY <1>2, <1>3, <1>4, <1>5, <1>6 DEF Next

(* While the server is up and no statement fails, a queued repository has  *)
(* a job or somebody about to enqueue or unclaim it, and a running one has *)
(* the run that owns it (BusyIsAttended), whatever users do and however    *)
(* often the server stops or crashes.                                      *)
THEOREM BusyAttended ==
  ASSUME Faults \subseteq {"client"}
  PROVE  Spec => []BusyIsAttended
<1>1. Init => BusyIsAttended
  BY DEF Init, Pool!Empty, BusyIsAttended
<1>2. IInv /\ BusyIsAttended /\ [Next]_vars => BusyIsAttended'
  BY AttendedStep
<1> QED BY <1>1, <1>2, Invariant, PTL DEF Spec

-----------------------------------------------------------------------------
(* The commit of a row is on its branch.  The run publishes the commit it  *)
(* read under the branch the row had then, and a PATCH writes back the     *)
(* branch it read, so both must still know the branch when they write.     *)

RunKnowsBranch ==
  \A w \in Workers :
    run[w].at \in {"touch", "diff", "store"} /\ Owns(held[w], run[w].token)
      => run[w].commit \in CommitsOf[repo[held[w]].branch]

PatchKnowsBranch ==
  \A p \in Patchers :
    LET r == patch[p].repo IN
      r \in Repos /\ Tracked(r) /\ ~patch[p].reset => patch[p].branch = repo[r].branch

BranchInv == SyncedOnTrackedBranch /\ RunKnowsBranch /\ PatchKnowsBranch

(* What a step of a worker writes to the rows: nothing, or one of the      *)
(* three statements of its run.                                            *)
RowWritten(w) ==
  \/ UNCHANGED repo
  \/ run[w].at = "mark" /\ \E t \in FreshStamps : MarkRepositorySyncAsRunning(held[w], t)
  \/ \E code \in Codes : MarkRepositorySyncAsFailed(held[w], run[w].token, code)
  \/ run[w].at \in {"touch", "store"} /\ Commit(w)

LEMMA WorkerWrites ==
  ASSUME TypeOK, NEW w \in Workers, TakeJob(w) \/ SyncStep(w) \/ WorkerReturns(w)
  PROVE  /\ RowWritten(w)
         /\ repo' # repo => held[w] \in Repos
         /\ UNCHANGED patch
  BY WorkerHolds
  DEF RowWritten, TakeJob, SyncStep, WorkerReturns, StartRun, StartRunFails, Load, Diff, Publish,
      Fail, CommitUnconfirmed, RecordFailure

(* A run that has a commit keeps it, or has just read it.                  *)
LEMMA WorkerMoves ==
  ASSUME TypeOK, NEW w \in Workers, TakeJob(w) \/ SyncStep(w) \/ WorkerReturns(w)
  PROVE  /\ \A v \in Workers \ {w} : run'[v] = run[v] /\ held'[v] = held[v]
         /\ run'[w].at \in {"touch", "diff", "store"} =>
              /\ UNCHANGED repo
              /\ held'[w] = held[w] /\ run'[w].token = run[w].token
              /\ \/ run'[w].commit \in CommitsOf[repo[held[w]].branch]
                 \/ run[w].at = "diff" /\ run'[w].commit = run[w].commit
                 \/ run'[w] = run[w]
<1>1. CASE TakeJob(w)
  BY <1>1 DEF TypeOK, TakeJob, Pool!Receive, Pool!PoolTypeOK, Run
<1>2. CASE Finish(w)
  BY <1>2, FinishLeaves DEF NoRun, Run
<1>3. CASE AfterError(w)
  BY <1>3, AfterErrorLeaves
<1>4. CASE StartRun(w)
  BY <1>2, <1>4 DEF TypeOK, StartRun, Run
<1>5. CASE Load(w)
  BY <1>2, <1>5 DEF TypeOK, Load, Run
<1>6. CASE Diff(w)
  BY <1>6 DEF TypeOK, Diff, Run
<1>7. CASE WorkerReturns(w)
  BY <1>7, EngineAssumption DEF TypeOK, WorkerReturns, Pool!Return, Pool!PoolTypeOK
<1> QED BY <1>1, <1>2, <1>3, <1>4, <1>5, <1>6, <1>7
    DEF SyncStep, StartRunFails, Publish, Fail, CommitUnconfirmed, RecordFailure

(* No step of a worker changes a branch, only a commit changes synced, and *)
(* a row gets an owner only with a fresh token.                            *)
LEMMA RowEffects ==
  ASSUME TypeOK, NEW w \in Workers, RowWritten(w), repo' # repo => held[w] \in Repos,
         NEW r \in Repos
  PROVE  /\ repo'[r].branch = repo[r].branch
         /\ Tracked(r)' <=> Tracked(r)
         /\ \/ repo'[r].synced = repo[r].synced
            \/ /\ run[w].at \in {"touch", "store"} /\ held[w] = r
               /\ Owns(r, run[w].token) /\ repo'[r].synced = run[w].commit
         /\ repo'[r].status = "running" =>
              repo'[r].started \in FreshStamps \/ Owns(r, repo'[r].started)
<1>1. CASE UNCHANGED repo
  BY <1>1 DEF Tracked, Owns
<1>2. CASE repo' # repo
  <2>1. PICK q \in Repos : q = held[w]
    BY <1>2
  <2>2. repo \in [Repos -> Rows]
    BY DEF TypeOK
  <2>3. ASSUME NEW t \in FreshStamps, MarkRepositorySyncAsRunning(q, t)
        PROVE  /\ repo'[r].branch = repo[r].branch
               /\ Tracked(r)' <=> Tracked(r)
               /\ repo'[r].synced = repo[r].synced
               /\ repo'[r].status = "running" =>
                    repo'[r].started = t \/ Owns(r, repo'[r].started)
    BY <2>2, <2>3 DEF MarkRepositorySyncAsRunning, Row, Rows, Tracked, Owns
  <2>4. ASSUME NEW code \in Codes, MarkRepositorySyncAsFailed(q, run[w].token, code)
        PROVE  /\ repo'[r].branch = repo[r].branch
               /\ Tracked(r)' <=> Tracked(r)
               /\ repo'[r].synced = repo[r].synced
               /\ repo'[r].status = "running" => Owns(r, repo'[r].started)
    BY <2>2, <2>4 DEF MarkRepositorySyncAsFailed, Row, Rows, Tracked, Owns
  <2>5. ASSUME run[w].at \in {"touch", "store"},
               FinalizeRepositorySync(q, run[w].token, run[w].commit)
        PROVE  /\ repo'[r].branch = repo[r].branch
               /\ Tracked(r)' <=> Tracked(r)
               /\ repo'[r].synced # repo[r].synced =>
                    /\ q = r /\ Owns(r, run[w].token) /\ repo'[r].synced = run[w].commit
               /\ repo'[r].status = "running" => Owns(r, repo'[r].started)
    BY <2>2, <2>5 DEF FinalizeRepositorySync, Row, Rows, Tracked, Owns
  <2> QED BY <1>2, <2>1, <2>3, <2>4, <2>5 DEF RowWritten, Commit
<1> QED BY <1>1, <1>2

LEMMA BranchWorker ==
  ASSUME IInv, BranchInv, NEW w \in Workers, TakeJob(w) \/ SyncStep(w) \/ WorkerReturns(w)
  PROVE  BranchInv'
<1>1. TypeOK /\ RowWritten(w) /\ (repo' # repo => held[w] \in Repos) /\ UNCHANGED patch
  BY WorkerWrites DEF IInv
<1>2. \A r \in Repos : repo'[r].branch = repo[r].branch /\ (Tracked(r)' <=> Tracked(r))
  BY <1>1, RowEffects
<1>3. SyncedOnTrackedBranch'
  <2> SUFFICES ASSUME NEW r \in Repos, repo'[r].synced # Null
               PROVE  repo'[r].synced \in CommitsOf[repo[r].branch]
    BY <1>2 DEF SyncedOnTrackedBranch
  <2>1. CASE repo'[r].synced = repo[r].synced
    BY <2>1 DEF BranchInv, SyncedOnTrackedBranch
  <2>2. CASE repo'[r].synced # repo[r].synced
    <3>1. /\ run[w].at \in {"touch", "store"} /\ held[w] = r
          /\ Owns(r, run[w].token) /\ repo'[r].synced = run[w].commit
      BY <1>1, <2>2, RowEffects
    <3> QED BY <3>1 DEF BranchInv, RunKnowsBranch
  <2> QED BY <2>1, <2>2
<1>4. ASSUME NEW v \in Workers, Started(v), repo'[held[v]].status = "running",
             repo'[held[v]].started = run[v].token
      PROVE  Owns(held[v], run[v].token) /\ repo'[held[v]].branch = repo[held[v]].branch
  <2>1. held[v] \in Repos
    BY <1>1, <1>4, WorkerHolds DEF Started
  <2>2. run[v].token \notin FreshStamps
    BY DEF FreshStamps
  <2> QED BY <1>1, <1>2, <1>4, <2>1, <2>2, RowEffects
<1>5. RunKnowsBranch'
  <2> SUFFICES ASSUME NEW v \in Workers, run'[v].at \in {"touch", "diff", "store"},
                      Owns(held[v], run[v].token)'
               PROVE  run'[v].commit \in CommitsOf[repo'[held'[v]].branch]
    BY DEF RunKnowsBranch
  <2>1. repo'[held'[v]].status = "running" /\ repo'[held'[v]].started = run'[v].token
    BY DEF Owns
  <2>2. CASE run'[v] = run[v] /\ held'[v] = held[v]
    BY <1>4, <2>1, <2>2 DEF BranchInv, RunKnowsBranch, Started
  <2>3. CASE v = w
    BY <1>1, <2>1, <2>2, <2>3, WorkerMoves DEF BranchInv, RunKnowsBranch, Owns
  <2> QED BY <1>1, <2>2, <2>3, WorkerMoves
<1>6. PatchKnowsBranch'
  BY <1>1, <1>2 DEF BranchInv, PatchKnowsBranch
<1> QED BY <1>3, <1>5, <1>6 DEF BranchInv

(* The other steps keep commit, branch and owner of a row, or leave a row  *)
(* without commit and owner.                                               *)
KeepsOrResets ==
  \A r \in Repos :
    \/ /\ repo'[r].branch = repo[r].branch /\ repo'[r].synced = repo[r].synced
       /\ repo'[r].status = "running" => Owns(r, repo'[r].started)
    \/ repo'[r].synced = Null /\ repo'[r].status # "running"

LEMMA BranchKept ==
  ASSUME TypeOK, BranchInv, KeepsOrResets,
         \/ UNCHANGED <<run, held>>
         \/ \A w \in Workers : run'[w].at = "idle"
  PROVE  SyncedOnTrackedBranch' /\ RunKnowsBranch'
<1>1. SyncedOnTrackedBranch'
  BY DEF KeepsOrResets, BranchInv, SyncedOnTrackedBranch
<1>2. ASSUME NEW w \in Workers, run'[w].at \in {"touch", "diff", "store"},
             repo'[held'[w]].status = "running", repo'[held'[w]].started = run'[w].token
      PROVE  run'[w].commit \in CommitsOf[repo'[held'[w]].branch]
  <2>1. UNCHANGED <<run, held>>
    BY <1>2
  <2>2. held[w] \in Repos
    BY <1>2, <2>1, WorkerHolds
  <2> QED BY <1>2, <2>1, <2>2 DEF KeepsOrResets, BranchInv, RunKnowsBranch
<1> QED BY <1>1, <1>2 DEF RunKnowsBranch, Owns

(* The statements that are not part of a run.                              *)
LEMMA StatementKeeps ==
  ASSUME TypeOK, NEW r \in Repos
  PROVE  /\ \A b \in Branches : CreateRepository(r, b) => KeepsOrResets
         /\ \A b \in Branches, reset \in BOOLEAN :
              UpdateRepository(r, b, reset) /\ (reset \/ b = repo[r].branch) => KeepsOrResets
         /\ DeleteRepository(r) => KeepsOrResets
         /\ ClaimRepositorySync(r) => KeepsOrResets
         /\ UnclaimRepositorySync(r) => KeepsOrResets
         /\ ResetStuckRepositorySyncs => KeepsOrResets
         /\ UNCHANGED repo => KeepsOrResets
<1>t. repo \in [Repos -> Rows]
  BY DEF TypeOK
<1> USE <1>t DEF KeepsOrResets, Rows, Row, Owns
<1>1. \A b \in Branches : CreateRepository(r, b) => KeepsOrResets
  BY DEF CreateRepository, PendingRow
<1>2. \A b \in Branches, reset \in BOOLEAN :
        UpdateRepository(r, b, reset) /\ (reset \/ b = repo[r].branch) => KeepsOrResets
  BY DEF UpdateRepository, PendingRow
<1>3. DeleteRepository(r) => KeepsOrResets
  BY DEF DeleteRepository, NoRow
<1>4. ClaimRepositorySync(r) => KeepsOrResets
  BY DEF ClaimRepositorySync
<1>5. UnclaimRepositorySync(r) => KeepsOrResets
  <2>1. Restored(repo[r]) # "running"
    BY DEF Restored
  <2> QED BY <2>1 DEF UnclaimRepositorySync
<1>6. ResetStuckRepositorySyncs => KeepsOrResets
  BY DEF ResetStuckRepositorySyncs, Stuck, Busy
<1>7. UNCHANGED repo => KeepsOrResets
  OBVIOUS
<1> QED BY <1>1, <1>2, <1>3, <1>4, <1>5, <1>6, <1>7

OnePatcher == \A p, q \in Patchers : p = q

LEMMA BranchPatch ==
  ASSUME TypeOK, BranchInv, OnePatcher, NEW p \in Patchers,
         \/ \E r \in Repos : PatchRead(p, r)
         \/ PatchWrite(p) \/ PatchRefused(p)
  PROVE  BranchInv'
<1>n. NoPatch.repo \notin Repos
  BY EngineAssumption DEF NoPatch
<1>1. ASSUME NEW r \in Repos, PatchRead(p, r)
      PROVE  BranchInv'
  <2>1. UNCHANGED <<repo, run, held>> /\ KeepsOrResets
    BY <1>1, StatementKeeps DEF PatchRead
  <2>2. PICK b \in Branches : patch'[p] = [repo |-> r, branch |-> b,
                                          reset |-> b # repo[r].branch]
    BY <1>1 DEF PatchRead, TypeOK
  <2>3. ASSUME NEW q \in Patchers, ~patch'[q].reset
        PROVE  patch'[q].branch = repo'[patch'[q].repo].branch
    <3>1. q = p
      BY DEF OnePatcher
    <3>2. /\ patch'[p].repo = r /\ patch'[p].branch = b
          /\ patch'[p].reset = (b # repo[r].branch)
      BY <2>2
    <3>3. b = repo[r].branch
      BY <2>3, <3>1, <3>2, Zenon
    <3> QED BY <2>1, <3>1, <3>2, <3>3
  <2>4. PatchKnowsBranch'
    BY <2>3 DEF PatchKnowsBranch
  <2> QED BY <2>1, <2>4, BranchKept DEF BranchInv
<1>2. CASE PatchWrite(p)
  <2>1. /\ patch[p].repo \in Repos /\ patch[p].branch \in Branches /\ patch[p].reset \in BOOLEAN
        /\ UpdateRepository(patch[p].repo, patch[p].branch, patch[p].reset)
        /\ UNCHANGED <<run, held>>
    BY <1>2 DEF PatchWrite, TypeOK, Patches
  <2>2. patch[p].reset \/ patch[p].branch = repo[patch[p].repo].branch
    BY <2>1 DEF BranchInv, PatchKnowsBranch, UpdateRepository
  <2>3. KeepsOrResets
    BY <2>1, <2>2, StatementKeeps
  <2>4. PatchKnowsBranch'
    BY <1>n, <1>2 DEF PatchWrite, PatchKnowsBranch, OnePatcher, TypeOK
  <2> QED BY <2>1, <2>3, <2>4, BranchKept DEF BranchInv
<1>3. CASE PatchRefused(p)
  <2>1. UNCHANGED <<repo, run, held>>
    BY <1>3 DEF PatchRefused
  <2>2. KeepsOrResets
    BY <2>1 DEF KeepsOrResets, Owns
  <2>3. PatchKnowsBranch'
    BY <1>n, <1>3 DEF PatchRefused, PatchKnowsBranch, OnePatcher, TypeOK
  <2> QED BY <2>1, <2>2, <2>3, BranchKept DEF BranchInv
<1> QED BY <1>1, <1>2, <1>3

(* The steps in which no PATCH takes part.                                 *)
LEMMA BranchOther ==
  ASSUME TypeOK, BranchInv,
         \/ \E h \in Syncers : \/ \E r \in Repos : ClaimSync(h, r) \/ ClaimUnconfirmed(h, r)
                               \/ Enqueue(h) \/ EnqueueFails(h) \/ UnclaimSync(h)
         \/ \E r \in Repos : TrackRepository(r) \/ DeleteTracked(r) \/ Reenqueue(r)
         \/ ReenqueueStops \/ Boot \/ Stop \/ Exit \/ Crash
  PROVE  BranchInv'
<1>1. KeepsOrResets
  <2>1. CASE UNCHANGED repo
    BY <2>1 DEF KeepsOrResets, Owns
  <2>2. ASSUME NEW h \in Syncers, UnclaimSync(h)
        PROVE  KeepsOrResets
    <3>1. call[h].repo \in Repos
      BY <2>2 DEF UnclaimSync, TypeOK, Calls, NoCall
    <3> QED BY <2>1, <2>2, <3>1, StatementKeeps DEF UnclaimSync
  <2>3. ASSUME NEW r \in Repos,
               \/ \E h \in Syncers : ClaimSync(h, r) \/ ClaimUnconfirmed(h, r)
               \/ TrackRepository(r) \/ DeleteTracked(r)
        PROVE  KeepsOrResets
    BY <2>3, StatementKeeps DEF ClaimSync, ClaimUnconfirmed, TrackRepository, DeleteTracked
  <2>4. CASE Boot
    <3>1. CASE ResetStuckRepositorySyncs
      BY <3>1 DEF ResetStuckRepositorySyncs, Stuck, Busy, Row, Owns, KeepsOrResets
    <3> QED BY <2>1, <2>4, <3>1 DEF Boot
  <2> QED BY <2>1, <2>2, <2>3, <2>4
          DEF Enqueue, EnqueueFails, Reenqueue, ReenqueueStops, Stop, Exit, Crash
<1>2. \/ UNCHANGED <<run, held>>
      \/ \A w \in Workers : run'[w].at = "idle"
  BY DEF ClaimSync, ClaimUnconfirmed, Enqueue, EnqueueFails, UnclaimSync, TrackRepository,
     DeleteTracked, Reenqueue, ReenqueueStops, Boot, Stop, Exit, Crash, Forget, NoRun, Run,
     Pool!Send, Pool!Cancel
<1>3. PatchKnowsBranch'
  <2>1. CASE Exit \/ Crash
    BY <2>1, EngineAssumption DEF Exit, Crash, Forget, PatchKnowsBranch, NoPatch
  <2>2. ASSUME NEW r \in Repos, TrackRepository(r)
        PROVE  PatchKnowsBranch'
    BY <2>2 DEF TrackRepository, Referenced, CreateRepository, BranchInv, PatchKnowsBranch, Tracked
  <2>3. ASSUME NEW r \in Repos, DeleteTracked(r)
        PROVE  PatchKnowsBranch'
    BY <2>3 DEF DeleteTracked, DeleteRepository, NoRow, Row, BranchInv, PatchKnowsBranch, Tracked,
       TypeOK
  <2>4. ASSUME UNCHANGED patch,
               \A r \in Repos : repo'[r].branch = repo[r].branch /\ (Tracked(r)' <=> Tracked(r))
        PROVE  PatchKnowsBranch'
    BY <2>4 DEF BranchInv, PatchKnowsBranch
  <2>5. CASE UNCHANGED <<patch, repo>>
    BY <2>4, <2>5 DEF Tracked
  <2>6. ASSUME NEW r \in Repos, ClaimRepositorySync(r) \/ UnclaimRepositorySync(r), UNCHANGED patch
        PROVE  PatchKnowsBranch'
    BY <2>4, <2>6 DEF ClaimRepositorySync, UnclaimRepositorySync, Restored, Row, Tracked, Idle, TypeOK
  <2>7. CASE Boot
    BY <2>4, <2>5, <2>7 DEF Boot, ResetStuckRepositorySyncs, Stuck, Busy, Row, Tracked
  <2>8. CASE \E h \in Syncers : UnclaimSync(h)
    BY <2>5, <2>6, <2>8 DEF UnclaimSync, TypeOK, Calls, NoCall
  <2> QED BY <2>1, <2>2, <2>3, <2>5, <2>6, <2>7, <2>8
          DEF ClaimSync, ClaimUnconfirmed, Enqueue, EnqueueFails, Reenqueue, ReenqueueStops, Stop
<1> QED BY <1>1, <1>2, <1>3, BranchKept DEF BranchInv

LEMMA BranchInvariant ==
  ASSUME OnePatcher
  PROVE  Spec => []BranchInv
<1>1. Init => BranchInv
  BY EngineAssumption
  DEF Init, TablesInit, NoRow, Row, NoRun, Run, NoPatch, BranchInv, SyncedOnTrackedBranch,
      RunKnowsBranch, PatchKnowsBranch
<1>2. IInv /\ BranchInv /\ [Next]_vars => BranchInv'
  <2> SUFFICES ASSUME IInv, BranchInv, [Next]_vars PROVE BranchInv'
    OBVIOUS
  <2>1. TypeOK
    BY DEF IInv
  <2>2. CASE UNCHANGED vars
    BY <2>2 DEF vars, BranchInv, SyncedOnTrackedBranch, RunKnowsBranch, PatchKnowsBranch, Owns,
       Tracked
  <2> QED BY <2>1, <2>2, BranchWorker, BranchPatch, BranchOther DEF Next
<1> QED BY <1>1, <1>2, Invariant, PTL DEF Spec

(* When PATCH requests do not overlap, the commit a row shows is one of    *)
(* its tracked branch (SyncedOnTrackedBranch), whatever runs were in       *)
(* progress when the branch changed and whatever fails.                    *)
THEOREM CommitOnBranch ==
  ASSUME OnePatcher
  PROVE  Spec => []SyncedOnTrackedBranch
<1>1. BranchInv => SyncedOnTrackedBranch
  BY DEF BranchInv
<1> QED BY <1>1, BranchInvariant, PTL

(* A branch that changes resets the sync state (BranchChangeResets), under *)
(* every fault, when PATCH requests do not overlap: what undoes a change   *)
(* of the branch is only the write of a PATCH that had read the row before *)
(* it.                                                                     *)
THEOREM BranchChangesReset ==
  ASSUME OnePatcher
  PROVE  Spec => BranchChangeResets
<1>1. ASSUME TypeOK, BranchInv, [Next]_vars, NEW r \in Repos, Tracked(r),
             repo'[r].branch \notin {repo[r].branch, Null}
      PROVE  repo'[r].status = "pending"
  <2>1. CASE \E w \in Workers : TakeJob(w) \/ SyncStep(w) \/ WorkerReturns(w)
    BY <1>1, <2>1, WorkerWrites, RowEffects
  <2>2. ASSUME NEW p \in Patchers, PatchWrite(p)
        PROVE  repo'[r].status = "pending"
    <3>1. UpdateRepository(patch[p].repo, patch[p].branch, patch[p].reset)
      BY <2>2 DEF PatchWrite
    <3>2. patch[p].repo \in Repos
      BY <1>1, <2>2 DEF PatchWrite, TypeOK, Patches
    <3>3. patch[p].reset \/ patch[p].branch = repo[patch[p].repo].branch
      BY <1>1, <3>1, <3>2 DEF BranchInv, PatchKnowsBranch, UpdateRepository
    <3> QED BY <1>1, <3>1, <3>2, <3>3 DEF UpdateRepository, PendingRow, Row, TypeOK
  <2>3. CASE UNCHANGED repo
    BY <1>1, <2>3
  <2>4. ASSUME NEW q \in Repos, TrackRepository(q) \/ DeleteTracked(q)
        PROVE  FALSE
    BY <1>1, <2>4
    DEF TrackRepository, CreateRepository, Tracked, DeleteTracked, DeleteRepository, NoRow, Row,
        TypeOK
  <2>5. ASSUME NEW q \in Repos,
               ClaimRepositorySync(q) \/ UnclaimRepositorySync(q) \/ ResetStuckRepositorySyncs
        PROVE  FALSE
    BY <1>1, <2>5
    DEF ClaimRepositorySync, UnclaimRepositorySync, ResetStuckRepositorySyncs, Row, TypeOK
  <2>6. ASSUME NEW h \in Syncers, UnclaimSync(h)
        PROVE  FALSE
    BY <1>1, <2>3, <2>5, <2>6 DEF UnclaimSync, TypeOK, Calls, NoCall
  <2> QED BY <1>1, <2>1, <2>2, <2>3, <2>4, <2>5, <2>6
    DEF Next, vars, ClaimSync, ClaimUnconfirmed, Enqueue, EnqueueFails, PatchRead, PatchRefused,
        Reenqueue, ReenqueueStops, Boot, Stop, Exit, Crash
<1>2. IInv /\ BranchInv /\ [Next]_vars =>
        [\A r \in Repos :
           Tracked(r) /\ repo'[r].branch \notin {repo[r].branch, Null}
             => repo'[r].status = "pending"]_vars
  BY <1>1 DEF IInv
<1>3. Spec => []BranchInv
  BY BranchInvariant
<1> QED BY <1>2, <1>3, Invariant, PTL DEF Spec, BranchChangeResets

-----------------------------------------------------------------------------
(* One job per claim.  The id of a repository is in one of four places at  *)
(* a time, the request that claimed it, the backlog, the channel or a      *)
(* worker about to start, and while it is in one the row is queued.  What  *)
(* breaks that is a PATCH that sets a queued row to pending: it can be     *)
(* claimed again, and then has two jobs.  Whether requests overlap in any  *)
(* other way does not matter.                                              *)

Marks(w, r) == held[w] = r /\ run[w].at = "mark"

(* Somebody can still start a run of r.                                    *)
Ticket(r) ==
  \/ \E h \in Syncers : call[h].repo = r
  \/ r \in Pool!Waiting \cup backlog
  \/ \E w \in Workers : Marks(w, r)

OneTicket(r) ==
  /\ \A h \in Syncers : call[h].repo = r =>
       /\ claimant[r] = h
       /\ r \notin Pool!Waiting \cup backlog
       /\ \A w \in Workers : ~Marks(w, r)
  /\ r \in Pool!Waiting \cup backlog => \A w \in Workers : ~Marks(w, r)
  /\ r \notin Pool!Waiting \cap backlog
  /\ \A v, w \in Workers : Marks(v, r) /\ Marks(w, r) => v = w
  /\ Ticket(r) => repo[r].status \in {"queued", "untracked"}

NoJobTwice == \A i, j \in DOMAIN jobs : jobs[i] = jobs[j] => i = j

TicketInv ==
  /\ \A r \in Repos : OneTicket(r)
  /\ NoJobTwice
  /\ ctx = "down" => \A r \in Repos : ~Ticket(r)

(* The branch change of a PATCH finds the row idle or running.             *)
SparesQueued ==
  \A p \in Patchers :
    PatchWrite(p) => ~(patch[p].reset /\ repo[patch[p].repo].status = "queued")

(* The row of a ticket stays a row of a ticket.                            *)
RowsSpared ==
  \A r \in Repos :
    Ticket(r) /\ Ticket(r)' => repo'[r].status \in {"queued", "untracked"}

(* Steps that issue no ticket and move none, but may use some up.          *)
LEMMA TicketsKept ==
  ASSUME TicketInv, RowsSpared, jobs' = jobs, backlog' \subseteq backlog,
         \A h \in Syncers : call'[h].repo \in Repos =>
           /\ call'[h].repo = call[h].repo
           /\ claimant[call[h].repo] = h => claimant'[call[h].repo] = h,
         \A w \in Workers : run'[w].at = "mark" => run[w].at = "mark" /\ held'[w] = held[w],
         ctx' # "down" \/ ctx = "down"
  PROVE  TicketInv'
<1>1. Pool!Waiting' = Pool!Waiting /\ NoJobTwice'
  BY DEF Pool!Waiting, TicketInv, NoJobTwice
<1>2. ASSUME NEW r \in Repos
      PROVE  /\ \A h \in Syncers : call'[h].repo = r => call[h].repo = r
             /\ \A w \in Workers : Marks(w, r)' => Marks(w, r)
             /\ Ticket(r)' => Ticket(r)
  BY <1>1, <1>2 DEF Marks, Ticket
<1>3. ASSUME NEW r \in Repos
      PROVE  OneTicket(r)'
  <2>1. OneTicket(r) /\ (Ticket(r)' => repo'[r].status \in {"queued", "untracked"})
    BY <1>2 DEF TicketInv, RowsSpared
  <2>2. ASSUME NEW h \in Syncers, call'[h].repo = r
        PROVE  claimant'[r] = h
    BY <2>1, <2>2 DEF OneTicket
  <2> QED BY <1>1, <1>2, <2>1, <2>2 DEF OneTicket
<1>4. ctx' = "down" => \A r \in Repos : ~Ticket(r)'
  BY <1>2 DEF TicketInv
<1> QED BY <1>1, <1>3, <1>4 DEF TicketInv

LEMMA TicketsTaken ==
  ASSUME TypeOK, TicketInv, NEW w \in Workers, TakeJob(w)
  PROVE  TicketInv'
<1>1. /\ jobs \in Seq(Repos) /\ jobs # <<>> /\ jobs' = Tail(jobs)
      /\ held[w] \notin Repos /\ held'[w] = Head(jobs)
      /\ \A v \in Workers \ {w} : run'[v] = run[v] /\ held'[v] = held[v]
      /\ run'[w].at = "mark"
      /\ UNCHANGED <<repo, call, claimant, backlog, ctx>>
  BY EngineAssumption DEF TakeJob, Pool!Receive, TypeOK, Pool!PoolTypeOK, Run
<1>2. /\ DOMAIN jobs = 1 .. Len(jobs) /\ Len(jobs) \in Nat \ {0}
      /\ DOMAIN jobs' = 1 .. Len(jobs) - 1
      /\ \A i \in 1 .. Len(jobs) - 1 : jobs'[i] = jobs[i + 1]
      /\ held'[w] = jobs[1] /\ held'[w] \in Repos
  BY <1>1
<1>3. NoJobTwice'
  <2> SUFFICES ASSUME NEW i \in 1 .. Len(jobs) - 1, NEW j \in 1 .. Len(jobs) - 1,
                      jobs'[i] = jobs'[j]
               PROVE  i = j
    BY <1>2 DEF NoJobTwice
  <2>1. i + 1 \in DOMAIN jobs /\ j + 1 \in DOMAIN jobs /\ jobs[i + 1] = jobs[j + 1]
    BY <1>2
  <2>2. i + 1 = j + 1
    BY <2>1 DEF TicketInv, NoJobTwice
  <2> QED BY <2>2
<1>4. Pool!Waiting' \subseteq Pool!Waiting /\ held'[w] \in Pool!Waiting
  <2>1. ASSUME NEW i \in 1 .. Len(jobs) - 1
        PROVE  jobs'[i] \in Pool!Waiting
    <3>1. i + 1 \in DOMAIN jobs
      BY <1>2
    <3> QED BY <1>2, <3>1 DEF Pool!Waiting
  <2>2. 1 \in DOMAIN jobs
    BY <1>2
  <2> QED BY <1>2, <2>1, <2>2 DEF Pool!Waiting
<1>5. held'[w] \notin Pool!Waiting'
  <2> SUFFICES ASSUME NEW i \in 1 .. Len(jobs) - 1, jobs'[i] = held'[w] PROVE FALSE
    BY <1>2 DEF Pool!Waiting
  <2>1. i + 1 \in DOMAIN jobs /\ 1 \in DOMAIN jobs /\ jobs[i + 1] = jobs[1]
    BY <1>2
  <2>2. i + 1 = 1
    BY <2>1 DEF TicketInv, NoJobTwice
  <2> QED BY <2>2
<1>6. ASSUME NEW r \in Repos
      PROVE  /\ \A v \in Workers : Marks(v, r)' <=> Marks(v, r) \/ (v = w /\ r = held'[w])
             /\ Ticket(r)' => Ticket(r)
  <2>1. \A v \in Workers : Marks(v, r)' <=> Marks(v, r) \/ (v = w /\ r = held'[w])
    BY <1>1, <1>6 DEF Marks
  <2> QED BY <1>1, <1>4, <2>1 DEF Ticket
<1>7. ASSUME NEW r \in Repos
      PROVE  OneTicket(r)'
  <2>1. OneTicket(r)
    BY DEF TicketInv
  <2> QED BY <1>1, <1>4, <1>5, <1>6, <2>1 DEF OneTicket
<1> QED BY <1>1, <1>3, <1>6, <1>7 DEF TicketInv

LEMMA TicketsOfWorker ==
  ASSUME IInv, TicketInv, NEW w \in Workers, TakeJob(w) \/ SyncStep(w) \/ WorkerReturns(w)
  PROVE  TicketInv'
<1>t. TypeOK
  BY DEF IInv
<1>1. CASE TakeJob(w)
  BY <1>t, <1>1, TicketsTaken
<1>2. CASE SyncStep(w)
  <2>1. /\ RowWritten(w) /\ (repo' # repo => held[w] \in Repos)
        /\ \A v \in Workers \ {w} : run'[v] = run[v] /\ held'[v] = held[v]
    BY <1>t, <1>2, WorkerWrites, WorkerMoves
  <2>2. UNCHANGED <<jobs, backlog, call, claimant, ctx>>
    BY <1>2 DEF SyncStep, StartRun, StartRunFails, Load, Diff, Publish, Fail, AfterError,
       CommitUnconfirmed, RecordFailure, Finish, Pool!Release
  <2>3. run'[w].at # "mark"
    <3>1. ASSUME Finish(w) \/ AfterError(w)
          PROVE  run'[w].at # "mark"
      BY <1>t, <3>1, FinishLeaves, AfterErrorLeaves DEF NoRun, Run
    <3> QED BY <1>t, <1>2, <3>1 DEF SyncStep, StartRun, StartRunFails, Load, Diff, Publish, Fail,
            CommitUnconfirmed, RecordFailure, Run, TypeOK
  <2>4. ASSUME NEW r \in Repos, Ticket(r), Ticket(r)'
        PROVE  repo'[r].status \in {"queued", "untracked"}
    <3>1. OneTicket(r) /\ repo[r].status \in {"queued", "untracked"}
      BY <2>4 DEF TicketInv, OneTicket
    <3>2. CASE repo'[r] = repo[r]
      BY <3>1, <3>2
    <3>3. CASE r = held[w] /\ run[w].at = "mark"
      <4>1. Marks(w, r)
        BY <3>3 DEF Marks
      <4>2. Ticket(r)' => \E v \in Workers : Marks(v, r)'
        BY <2>2, <3>1, <4>1 DEF OneTicket, Ticket, Pool!Waiting
      <4>3. PICK v \in Workers : Marks(v, r)'
        BY <2>4, <4>2
      <4>4. v # w /\ Marks(v, r)
        BY <2>1, <2>3, <4>3 DEF Marks
      <4> QED BY <3>1, <4>1, <4>4 DEF OneTicket
    <3>4. CASE held[w] # r
      BY <1>t, <2>1, <3>2, <3>4
      DEF RowWritten, MarkRepositorySyncAsRunning, MarkRepositorySyncAsFailed, Commit,
          FinalizeRepositorySync, TypeOK
    <3>5. CASE r = held[w] /\ Owns(r, run[w].token)
      BY <3>1, <3>5 DEF Owns
    <3> QED BY <2>1, <3>2, <3>3, <3>4, <3>5
            DEF RowWritten, MarkRepositorySyncAsFailed, Commit, FinalizeRepositorySync
  <2> QED BY <2>1, <2>2, <2>3, <2>4, TicketsKept DEF RowsSpared
<1>3. CASE WorkerReturns(w)
  <2>1. /\ UNCHANGED <<repo, run, jobs, backlog, call, claimant, ctx>>
        /\ held[w] = Null /\ Null \notin Repos
        /\ \A v \in Workers \ {w} : held'[v] = held[v]
    BY <1>t, <1>3, EngineAssumption DEF WorkerReturns, Pool!Return, TypeOK, Pool!PoolTypeOK
  <2>2. run[w].at # "mark"
    BY <1>t, <2>1, WorkerHolds
  <2>3. RowsSpared
    BY <2>1 DEF RowsSpared, TicketInv, OneTicket
  <2> QED BY <2>1, <2>2, <2>3, TicketsKept
<1> QED BY <1>1, <1>2, <1>3

(* An id is moved from a request or from the backlog to the channel.       *)
LEMMA TicketsSent ==
  ASSUME TypeOK, TicketInv, UNCHANGED <<repo, run>>,
         NEW r \in Repos, Ticket(r), Pool!Send(r),
         r \notin Pool!Waiting, \A w \in Workers : ~Marks(w, r),
         backlog' \subseteq backlog \ {r},
         \A h \in Syncers : call'[h].repo \in Repos =>
           /\ call'[h].repo = call[h].repo /\ call[h].repo # r
           /\ claimant[call[h].repo] = h => claimant'[call[h].repo] = h
  PROVE  TicketInv'
<1>1. Pool!Waiting' = Pool!Waiting \cup {r} /\ UNCHANGED <<held, ctx>>
  BY SendWaits DEF Pool!Send
<1>2. NoJobTwice'
  <2>1. jobs \in Seq(Repos) /\ jobs' = Append(jobs, r)
    BY DEF TypeOK, Pool!PoolTypeOK, Pool!Send
  <2>2. /\ DOMAIN jobs = 1 .. Len(jobs) /\ Len(jobs) \in Nat
        /\ DOMAIN jobs' = 1 .. Len(jobs) + 1
        /\ \A i \in 1 .. Len(jobs) : jobs'[i] = jobs[i]
        /\ jobs'[Len(jobs) + 1] = r
    BY <2>1
  <2>3. \A i \in 1 .. Len(jobs) : jobs[i] # r
    BY <2>2 DEF Pool!Waiting
  <2> QED BY <2>2, <2>3 DEF TicketInv, NoJobTwice
<1>3. ASSUME NEW q \in Repos
      PROVE  /\ Ticket(q)' => Ticket(q)
             /\ \A w \in Workers : Marks(w, q)' <=> Marks(w, q)
             /\ \A h \in Syncers : call'[h].repo = q => call[h].repo = q /\ q # r
  BY <1>1 DEF Ticket, Marks
<1>4. ASSUME NEW q \in Repos
      PROVE  OneTicket(q)'
  <2>1. OneTicket(q) /\ (Ticket(q)' => repo'[q].status \in {"queued", "untracked"})
    BY <1>3 DEF TicketInv, OneTicket
  <2>2. ASSUME NEW h \in Syncers, call'[h].repo = q
        PROVE  claimant'[q] = h
    BY <2>1, <2>2 DEF OneTicket
  <2> QED BY <1>1, <1>3, <2>1, <2>2 DEF OneTicket
<1> QED BY <1>1, <1>2, <1>3, <1>4 DEF TicketInv

LEMMA TicketsOfRequest ==
  ASSUME TypeOK, TicketInv, NEW h \in Syncers,
         \/ \E r \in Repos : ClaimSync(h, r) \/ ClaimUnconfirmed(h, r)
         \/ Enqueue(h) \/ EnqueueFails(h) \/ UnclaimSync(h)
  PROVE  TicketInv'
<1>n. Null \notin Repos /\ NoCall.repo = Null /\ NoCall.at = "idle"
  BY EngineAssumption DEF NoCall
<1>r. call[h].at # "idle" => call[h].repo \in Repos
  BY <1>n DEF TypeOK, Calls
<1>i. \A r \in Repos : repo[r].status \in Idle => ~Ticket(r)
  BY DEF TicketInv, OneTicket, Idle
<1>e. ASSUME call[h].repo \in Repos, RequestEnds(h)
      PROVE  \A k \in Syncers : call'[k].repo \in Repos =>
               /\ call'[k].repo = call[k].repo /\ call[k].repo # call[h].repo
               /\ claimant[call[k].repo] = k => claimant'[call[k].repo] = k
  <2>1. SUFFICES ASSUME NEW k \in Syncers, call'[k].repo \in Repos
        PROVE  /\ call'[k].repo = call[k].repo /\ call[k].repo # call[h].repo
               /\ claimant[call[k].repo] = k => claimant'[call[k].repo] = k
    OBVIOUS
  <2>2. k # h /\ call'[k] = call[k]
    BY <1>e, <1>n, <2>1 DEF RequestEnds, TypeOK
  <2>3. call[k].repo # call[h].repo
    BY <1>e, <2>2 DEF TicketInv, OneTicket
  <2> QED BY <1>e, <2>2, <2>3 DEF RequestEnds, TypeOK
<1>1. ASSUME NEW r \in Repos, ClaimSync(h, r)
      PROVE  TicketInv'
  <2>1. /\ ~Ticket(r) /\ ctx' # "down"
        /\ UNCHANGED <<run, held, jobs, backlog>>
        /\ call'[h].repo = r /\ claimant'[r] = h
        /\ \A k \in Syncers \ {h} : call'[k] = call[k]
        /\ \A q \in Repos \ {r} : repo'[q] = repo[q] /\ claimant'[q] = claimant[q]
        /\ repo'[r].status = "queued"
    BY <1>1, <1>i DEF ClaimSync, ClaimRepositorySync, Up, TypeOK, Row
  <2>2. Pool!Waiting' = Pool!Waiting /\ NoJobTwice'
    BY <2>1 DEF Pool!Waiting, TicketInv, NoJobTwice
  <2>3. ASSUME NEW q \in Repos
        PROVE  OneTicket(q)'
    <3>1. OneTicket(q) /\ \A w \in Workers : Marks(w, q)' <=> Marks(w, q)
      BY <2>1 DEF TicketInv, Marks
    <3>2. CASE q = r
      BY <2>1, <2>2, <3>1, <3>2 DEF OneTicket, Ticket
    <3>3. CASE q # r
      <4>1. \A k \in Syncers : call'[k].repo = q => call[k].repo = q /\ claimant'[q] = k
        BY <2>1, <3>1, <3>3 DEF OneTicket
      <4>2. Ticket(q)' => Ticket(q)
        BY <2>1, <2>2, <3>1, <4>1 DEF Ticket
      <4> QED BY <2>1, <2>2, <3>1, <3>3, <4>1, <4>2 DEF OneTicket
    <3> QED BY <3>2, <3>3
  <2> QED BY <2>1, <2>2, <2>3 DEF TicketInv
<1>2. ASSUME NEW r \in Repos, ClaimUnconfirmed(h, r)
      PROVE  TicketInv'
  <2>1. /\ ~Ticket(r)
        /\ UNCHANGED <<run, held, jobs, backlog, call, ctx>>
        /\ \A q \in Repos \ {r} : repo'[q] = repo[q] /\ claimant'[q] = claimant[q]
    BY <1>2, <1>i DEF ClaimUnconfirmed, ClaimRepositorySync, TypeOK
  <2>2. \A k \in Syncers : call[k].repo # r
    BY <2>1 DEF Ticket
  <2>3. RowsSpared
    BY <2>1 DEF RowsSpared, TicketInv, OneTicket
  <2> QED BY <2>1, <2>2, <2>3, TicketsKept
<1>3. CASE Enqueue(h)
  <2>1. PICK r \in Repos : r = call[h].repo
    BY <1>3, <1>r DEF Enqueue
  <2>2. Pool!Send(r) /\ RequestEnds(h) /\ UNCHANGED <<repo, run, backlog>>
    BY <1>3, <2>1 DEF Enqueue
  <2>3. Ticket(r) /\ r \notin Pool!Waiting \cup backlog /\ \A w \in Workers : ~Marks(w, r)
    BY <2>1 DEF TicketInv, OneTicket, Ticket
  <2> QED BY <1>e, <2>1, <2>2, <2>3, TicketsSent
<1>4. CASE EnqueueFails(h)
  <2>1. /\ UNCHANGED <<repo, run, held, jobs, backlog, claimant, ctx>>
        /\ \A k \in Syncers : call'[k].repo = call[k].repo
    BY <1>4 DEF EnqueueFails, TypeOK
  <2>2. RowsSpared
    BY <2>1 DEF RowsSpared, TicketInv, OneTicket
  <2> QED BY <2>1, <2>2, TicketsKept
<1>5. CASE UnclaimSync(h)
  <2>1. PICK r \in Repos : r = call[h].repo
    BY <1>5, <1>r DEF UnclaimSync
  <2>2. RequestEnds(h) /\ UNCHANGED <<run, held, jobs, backlog, ctx>>
        /\ \A q \in Repos \ {r} : repo'[q] = repo[q]
    BY <1>5, <2>1 DEF UnclaimSync, UnclaimRepositorySync, TypeOK
  <2>3. ~Ticket(r)'
    <3>1. r \notin Pool!Waiting \cup backlog /\ \A w \in Workers : ~Marks(w, r)
      BY <2>1 DEF TicketInv, OneTicket
    <3>2. \A k \in Syncers : call'[k].repo # r
      BY <1>e, <2>1, <2>2
    <3> QED BY <2>2, <3>1, <3>2 DEF Ticket, Marks, Pool!Waiting
  <2>4. RowsSpared
    BY <2>2, <2>3 DEF RowsSpared, TicketInv, OneTicket
  <2> QED BY <1>e, <2>1, <2>2, <2>4, TicketsKept
<1> QED BY <1>1, <1>2, <1>3, <1>4, <1>5

LEMMA TicketsOfUser ==
  ASSUME TypeOK, TicketInv, SparesQueued,
         \/ \E p \in Patchers : \/ \E r \in Repos : PatchRead(p, r)
                                \/ PatchWrite(p) \/ PatchRefused(p)
         \/ \E r \in Repos : TrackRepository(r) \/ DeleteTracked(r)
  PROVE  TicketInv'
<1>1. UNCHANGED <<run, held, jobs, backlog, call, claimant, ctx>>
  BY DEF PatchRead, PatchWrite, PatchRefused, TrackRepository, DeleteTracked
<1>2. ASSUME NEW r \in Repos, Ticket(r)
      PROVE  repo'[r].status \in {"queued", "untracked"}
  <2>1. repo[r].status \in {"queued", "untracked"}
    BY <1>2 DEF TicketInv, OneTicket
  <2>2. ASSUME NEW p \in Patchers, PatchWrite(p)
        PROVE  repo'[r].status \in {"queued", "untracked"}
    <3>1. /\ UpdateRepository(patch[p].repo, patch[p].branch, patch[p].reset)
          /\ ~(patch[p].reset /\ repo[patch[p].repo].status = "queued")
      BY <2>2 DEF PatchWrite, SparesQueued
    <3> QED BY <2>1, <3>1 DEF UpdateRepository, Tracked, Row, TypeOK
  <2>3. ASSUME NEW q \in Repos, TrackRepository(q)
        PROVE  repo'[r].status \in {"queued", "untracked"}
    <3>1. q # r
      BY <1>2, <2>3 DEF TrackRepository, Referenced, Ticket, Marks
    <3> QED BY <2>1, <2>3, <3>1 DEF TrackRepository, CreateRepository, TypeOK
  <2>4. ASSUME NEW q \in Repos, DeleteTracked(q)
        PROVE  repo'[r].status \in {"queued", "untracked"}
    BY <2>1, <2>4 DEF DeleteTracked, DeleteRepository, NoRow, Row, TypeOK
  <2>5. CASE UNCHANGED repo
    BY <2>1, <2>5
  <2> QED BY <2>2, <2>3, <2>4, <2>5 DEF PatchRead, PatchRefused
<1>3. RowsSpared
  BY <1>2 DEF RowsSpared
<1> QED BY <1>1, <1>3, TicketsKept

LEMMA TicketsOfServer ==
  ASSUME TypeOK, TicketInv,
         \/ \E r \in Repos : Reenqueue(r)
         \/ ReenqueueStops \/ Boot \/ Stop \/ Exit \/ Crash
  PROVE  TicketInv'
<1>n. NoCall.repo = Null /\ Null \notin Repos
  BY EngineAssumption DEF NoCall
<1>1. ASSUME NEW r \in Repos, Reenqueue(r)
      PROVE  TicketInv'
  <2>1. /\ r \in backlog /\ Pool!Send(r) /\ backlog' = backlog \ {r}
        /\ UNCHANGED <<repo, run, call, claimant>>
    BY <1>1 DEF Reenqueue
  <2>2. /\ Ticket(r) /\ r \notin Pool!Waiting
        /\ \A w \in Workers : ~Marks(w, r)
        /\ \A h \in Syncers : call[h].repo # r
    BY <2>1 DEF TicketInv, OneTicket, Ticket
  <2> QED BY <2>1, <2>2, TicketsSent
<1>2. CASE ReenqueueStops \/ Stop
  <2>1. /\ UNCHANGED <<repo, run, held, jobs, call, claimant>>
        /\ backlog' \subseteq backlog /\ ctx' # "down"
    BY <1>2 DEF ReenqueueStops, Stop, Pool!Cancel
  <2>2. RowsSpared
    BY <2>1 DEF RowsSpared, TicketInv, OneTicket
  <2> QED BY <2>1, <2>2, TicketsKept
<1>3. ASSUME jobs' = <<>>, \A w \in Workers : run'[w].at = "idle",
             \A h \in Syncers : call'[h].repo \notin Repos,
             \A r \in backlog' : repo'[r].status = "queued",
             ctx' = "down" => backlog' = {}
      PROVE  TicketInv'
  <2>1. Pool!Waiting' = {} /\ NoJobTwice'
    BY <1>3 DEF Pool!Waiting, NoJobTwice
  <2>2. \A r \in Repos : Ticket(r)' => r \in backlog'
    BY <1>3, <2>1 DEF Ticket, Marks
  <2>3. \A r \in Repos : OneTicket(r)'
    BY <1>3, <2>1, <2>2 DEF OneTicket, Marks
  <2> QED BY <1>3, <2>1, <2>2, <2>3 DEF TicketInv
<1>4. CASE Boot
  <2>1. /\ jobs' = <<>> /\ ctx' = "live" /\ UNCHANGED call
        /\ \A w \in Workers : run'[w].at = "idle"
        /\ \A r \in Repos : ~Ticket(r)
    BY <1>4 DEF Boot, Pool!Start, NoRun, Run, TicketInv
  <2>2. \A h \in Syncers : call'[h].repo \notin Repos
    BY <2>1 DEF Ticket
  <2>3. backlog = {}
    BY <2>1 DEF Ticket, TypeOK
  <2>4. \A r \in backlog' : repo'[r].status = "queued"
    BY <1>4, <2>3 DEF Boot, ResetStuckRepositorySyncs, Stuck, Row
  <2> QED BY <1>3, <2>1, <2>2, <2>4
<1>5. CASE Exit \/ Crash
  <2>1. /\ jobs' = <<>> /\ ctx' = "down" /\ backlog' = {}
        /\ \A w \in Workers : run'[w].at = "idle"
        /\ \A h \in Syncers : call'[h].repo \notin Repos
    BY <1>n, <1>5 DEF Exit, Crash, Pool!Vanish, Forget, NoRun, Run
  <2> QED BY <1>3, <2>1
<1> QED BY <1>1, <1>2, <1>4, <1>5

LEMMA TicketInvariant == Spec /\ [][SparesQueued]_vars => []TicketInv
<1>1. Init => TicketInv
  <2> SUFFICES ASSUME Init PROVE TicketInv
    OBVIOUS
  <2>1. Pool!Waiting = {} /\ NoJobTwice
    BY DEF Init, Pool!Empty, Pool!Waiting, NoJobTwice
  <2>2. \A r \in Repos : ~Ticket(r) /\ \A w \in Workers : ~Marks(w, r)
    BY <2>1, EngineAssumption DEF Init, Ticket, Marks, NoRun, Run, NoCall
  <2> QED BY <2>1, <2>2 DEF TicketInv, OneTicket, Ticket
<1>2. IInv /\ TicketInv /\ [Next]_vars /\ [SparesQueued]_vars => TicketInv'
  <2> SUFFICES ASSUME IInv, TicketInv, [Next]_vars, [SparesQueued]_vars PROVE TicketInv'
    OBVIOUS
  <2>1. TypeOK
    BY DEF IInv
  <2>2. CASE UNCHANGED vars
    <3>1. UNCHANGED <<repo, run, held, jobs, call, claimant, backlog, ctx>>
      BY <2>2 DEF vars
    <3>2. RowsSpared
      BY <3>1 DEF RowsSpared, TicketInv, OneTicket
    <3> QED BY <3>1, <3>2, TicketsKept
  <2>3. CASE Next /\ SparesQueued
    BY <2>1, <2>3, TicketsOfWorker, TicketsOfRequest, TicketsOfUser, TicketsOfServer DEF Next
  <2> QED BY <2>2, <2>3
<1> QED BY <1>1, <1>2, Invariant, PTL DEF Spec

(* A claim makes one job and a job one run, and what can be claimed has no *)
(* job left (OneJob), whatever fails, stops or crashes and whatever        *)
(* requests overlap, if no PATCH sets a row to pending while it is queued. *)
THEOREM OneJobPerClaim == Spec /\ [][SparesQueued]_vars => []OneJob
<1>1. TicketInv => OneJob
  <2> SUFFICES ASSUME TicketInv, NEW r \in Repos
               PROVE  /\ \A s, t \in Starters(r) : s = t
                      /\ Starters(r) # {} => repo[r].status \in {"queued", "untracked"}
    BY DEF OneJob
  <2>1. OneTicket(r) /\ NoJobTwice
    BY DEF TicketInv
  <2>2. ASSUME NEW s \in Starters(r)
        PROVE  \/ \E h \in Syncers : s = <<"request", h>> /\ call[h].repo = r
               \/ \E i \in DOMAIN jobs : s = <<"job", i>> /\ jobs[i] = r
               \/ s = <<"backlog", r>> /\ r \in backlog
               \/ \E w \in Workers : s = <<"worker", w>> /\ Marks(w, r)
    BY DEF Starters, Marks
  <2>3. \A i \in DOMAIN jobs : jobs[i] \in Pool!Waiting
    BY DEF Pool!Waiting
  <2>4. ASSUME NEW s \in Starters(r), NEW t \in Starters(r)
        PROVE  s = t
    <3>1. CASE \E h \in Syncers : s = <<"request", h>> /\ call[h].repo = r
      BY <2>1, <2>2, <2>3, <3>1 DEF OneTicket
    <3>2. CASE \E i \in DOMAIN jobs : s = <<"job", i>> /\ jobs[i] = r
      BY <2>1, <2>2, <2>3, <3>2 DEF OneTicket, NoJobTwice
    <3>3. CASE s = <<"backlog", r>> /\ r \in backlog
      BY <2>1, <2>2, <2>3, <3>3 DEF OneTicket
    <3>4. CASE \E w \in Workers : s = <<"worker", w>> /\ Marks(w, r)
      BY <2>1, <2>2, <2>3, <3>4 DEF OneTicket
    <3> QED BY <2>2, <3>1, <3>2, <3>3, <3>4
  <2>5. Starters(r) # {} => Ticket(r)
    BY <2>2, <2>3 DEF Ticket
  <2> QED BY <2>1, <2>4, <2>5 DEF OneTicket
<1> QED BY <1>1, TicketInvariant, PTL

(* Under the same condition a request takes back only the claim it made    *)
(* (UnclaimOnlyOwnClaim): the branch change of a queued row is the only    *)
(* way a request can undo the claim of another.                            *)
THEOREM UnclaimsOwnClaim == Spec /\ [][SparesQueued]_vars => UnclaimOnlyOwnClaim
<1>1. ASSUME TypeOK, TicketInv, NEW h \in Syncers, UnclaimSync(h)
      PROVE  claimant[call[h].repo] = h
  <2>1. call[h].repo \in Repos
    BY <1>1 DEF UnclaimSync, TypeOK, Calls, NoCall
  <2> QED BY <1>1, <2>1 DEF TicketInv, OneTicket
<1>2. IInv /\ TicketInv =>
        [\A h \in Syncers :
           LET r == call[h].repo IN
             UnclaimSync(h) /\ repo' # repo => claimant[r] = h]_vars
  BY <1>1 DEF IInv
<1> QED BY <1>2, Invariant, TicketInvariant, PTL DEF UnclaimOnlyOwnClaim

=============================================================================
