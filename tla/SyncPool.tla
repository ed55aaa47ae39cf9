------------------------------ MODULE SyncPool ------------------------------
(***************************************************************************)
(* syncqueue.SyncPool: a fixed set of workers fed by a bounded channel of  *)
(* repository ids.  A worker takes an id, or returns once the context that *)
(* Start was given is cancelled; when both are possible Go's select picks  *)
(* either.  What a worker does with an id is the Syncer's business and is  *)
(* left to the module that uses the pool.                                  *)
(***************************************************************************)
EXTENDS Naturals, Sequences

CONSTANTS
  Ids,        \* what a job can name
  Workers,
  QueueSize,  \* capacity of the channel, at least 1
  NoJob,      \* the worker waits in its select
  Exited      \* the worker's goroutine has returned

VARIABLES
  jobs,  \* the channel
  held,  \* held[w]: the id worker w is running, or NoJob or Exited
  ctx    \* the server's context: "live" or "cancelled"; "down" without server

poolVars == <<jobs, held, ctx>>

PoolTypeOK ==
  /\ jobs \in Seq(Ids)
  /\ Len(jobs) <= QueueSize
  /\ held \in [Workers -> Ids \cup {NoJob, Exited}]
  /\ ctx \in {"live", "cancelled", "down"}

Waiting == {jobs[i] : i \in DOMAIN jobs}

Full == Len(jobs) >= QueueSize

(* No server is running: the channel and the workers are in memory.        *)
Empty ==
  /\ jobs = <<>>
  /\ held = [w \in Workers |-> Exited]
  /\ ctx = "down"

-----------------------------------------------------------------------------
(* New, then Start with a fresh context.                                   *)
Start ==
  /\ ctx = "down"
  /\ ctx' = "live"
  /\ jobs' = <<>>
  /\ held' = [w \in Workers |-> NoJob]

(* Mutant: the channel is taken to be unbounded.                           *)
Send_Unbounded(id) ==
  /\ jobs' = Append(jobs, id)
  /\ UNCHANGED <<held, ctx>>

(* The branch of Enqueue and EnqueueWait that sends.                       *)
Send(id) ==
  /\ ~Full
  /\ jobs' = Append(jobs, id)
  /\ UNCHANGED <<held, ctx>>

Receive(w) ==
  /\ held[w] = NoJob
  /\ jobs # <<>>
  /\ held' = [held EXCEPT ![w] = Head(jobs)]
  /\ jobs' = Tail(jobs)
  /\ UNCHANGED ctx

(* Sync has returned, or has panicked and was recovered.                   *)
Release(w) ==
  /\ held[w] \in Ids
  /\ held' = [held EXCEPT ![w] = NoJob]
  /\ UNCHANGED <<jobs, ctx>>

Return(w) ==
  /\ held[w] = NoJob
  /\ ctx = "cancelled"
  /\ held' = [held EXCEPT ![w] = Exited]
  /\ UNCHANGED <<jobs, ctx>>

Cancel ==
  /\ ctx = "live"
  /\ ctx' = "cancelled"
  /\ UNCHANGED <<jobs, held>>

(* Shutdown returns.                                                       *)
AllReturned == \A w \in Workers : held[w] = Exited

(* The process ends, and the jobs still queued are dropped.                *)
Vanish ==
  /\ ctx # "down"
  /\ ctx' = "down"
  /\ jobs' = <<>>
  /\ held' = [w \in Workers |-> Exited]
=============================================================================
