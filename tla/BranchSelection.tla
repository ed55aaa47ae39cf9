-------------------------- MODULE BranchSelection --------------------------
(***************************************************************************)
(* The choice of the tracked branch (routers/repositories.go): POST and    *)
(* PATCH look for the name they were given in the branches the provider    *)
(* lists, up to letter case, while branches are pushed and deleted. What   *)
(* a change of the branch does to a sync is module SyncEngine.             *)
(***************************************************************************)
EXTENDS Pages

CONSTANTS
  Null,
  Requests,  \* POST, PATCH and DELETE requests for one repository
  Folded     \* Folded[b]: the name b without letter case

ASSUME SelectionAssumption ==
  /\ Folded \in [Items -> Items]
  /\ Null \notin Items

VARIABLES
  upstream,  \* the branches at the provider
  tracked,   \* tracked_branch of the row, or Null if there is none
  request    \* request[q]: a request and its answer, or Null

vars == <<upstream, tracked, request>>

Ended == {"ok", "refused"}

(* kind is the method; name is tracked_branch of the body; branch is what  *)
(* will be written; change is updateParams.ResetSync, or a name in a POST. *)
AllRequests ==
  [at : {"list", "write"} \cup Ended, kind : {"post", "patch"},
   name : Items \cup {Null}, branch : Items, change : BOOLEAN, loop : Loops]

Request(at, kind, name, branch, change, loop) ==
  [at |-> at, kind |-> kind, name |-> name, branch |-> branch,
   change |-> change, loop |-> loop]

TypeOK ==
  /\ upstream \subseteq Items
  /\ tracked \in Items \cup {Null}
  /\ request \in [Requests -> AllRequests \cup {Null}]

Init ==
  /\ upstream \in SUBSET Items
  /\ tracked = Null
  /\ request = [q \in Requests |-> Null]

Active(q) == request[q] # Null /\ request[q].at \notin Ended

At(q, stage) == request[q] # Null /\ request[q].at = stage

EqualFold(a, b) == Folded[a] = Folded[b]

(* Mutant: every branch is new.                                            *)
BranchExists_Any(list, name) == TRUE

(* branchExists, of a list as the set it is searched as.                   *)
BranchExists(list, name) == \E b \in list : EqualFold(b, name)

-----------------------------------------------------------------------------
(* Branches are pushed and deleted all the time.                           *)
Become(S) ==
  /\ upstream' = S
  /\ request' = [q \in Requests |->
       IF Active(q) THEN [request[q] EXCEPT !.loop = Watched(@, S)] ELSE request[q]]
  /\ UNCHANGED tracked

PushBranch(b) == b \notin upstream /\ Become(upstream \cup {b})
DeleteBranch(b) == b \in upstream /\ Become(upstream \ {b})

(* An answered request is forgotten when the next one takes its place.     *)
Starts(q, r) == ~Active(q) /\ request' = [request EXCEPT ![q] = r]

(* trackNewRepository up to ListBranches. GetRepository has told the       *)
(* default branch, which an empty repository has without having a branch.  *)
Track(q) ==
  /\ \/ \E b \in (IF upstream = {} THEN Items ELSE upstream) :
          Starts(q, Request("write", "post", Null, b, FALSE, NoLoop))
     \/ \E b \in Items :
          Starts(q, Request("list", "post", b, b, TRUE, Begin(upstream)))
  /\ UNCHANGED <<upstream, tracked>>

(* Mutant: the missing row is not noticed.                                 *)
Update_NoRow(q) ==
  /\ \E b \in Items \cup {Null} :
       Starts(q, Request("write", "patch", b, tracked, FALSE, NoLoop))
  /\ UNCHANGED <<upstream, tracked>>

(* updateRepository up to ListBranches, after it has read the row. The     *)
(* body has no branch, or one that differs from the row's, or not.         *)
Update(q) ==
  /\ tracked # Null
  /\ \/ \E b \in Items \cup {Null} :
          /\ b # Null => EqualFold(b, tracked)
          /\ Starts(q, Request("write", "patch", b, tracked, FALSE, NoLoop))
     \/ \E b \in Items :
          /\ ~EqualFold(b, tracked)
          /\ Starts(q, Request("list", "patch", b, b, TRUE, Begin(upstream)))
  /\ UNCHANGED <<upstream, tracked>>

Moves(q, stage) == request' = [request EXCEPT ![q].at = stage]

(* Any answer that says nothing of the branch: 404, 409, 500...            *)
Errs(q) == request' = [request EXCEPT ![q] = Null]

(* ListBranches asks for a page.                                           *)
FetchPage(q) ==
  /\ At(q, "list") /\ ~request[q].loop.done
  /\ request' = [request EXCEPT ![q].loop = Fetched(@, upstream)]
  /\ UNCHANGED <<upstream, tracked>>

(* ListBranches has returned.                                              *)
Check(q) ==
  /\ At(q, "list") /\ request[q].loop.done
  /\ Moves(q, IF BranchExists(request[q].loop.got, request[q].name)
              THEN "write" ELSE "refused")
  /\ UNCHANGED <<upstream, tracked>>

(* CreateRepository, or its unique violation.                              *)
Create(q) ==
  /\ At(q, "write") /\ request[q].kind = "post"
  /\ \/ tracked = Null /\ tracked' = request[q].branch /\ Moves(q, "ok")
     \/ tracked # Null /\ UNCHANGED tracked /\ Errs(q)
  /\ UNCHANGED upstream

(* UpdateRepository, which finds the row or not.                           *)
Write(q) ==
  /\ At(q, "write") /\ request[q].kind = "patch"
  /\ \/ tracked # Null /\ tracked' = request[q].branch /\ Moves(q, "ok")
     \/ tracked = Null /\ UNCHANGED tracked /\ Errs(q)
  /\ UNCHANGED upstream

(* The provider or PostgreSQL returns an error.                            *)
Fail(q) ==
  /\ Active(q)
  /\ Errs(q)
  /\ UNCHANGED <<upstream, tracked>>

Untrack ==
  /\ tracked # Null
  /\ tracked' = Null
  /\ UNCHANGED <<upstream, request>>

Next ==
  \/ \E b \in Items : PushBranch(b) \/ DeleteBranch(b)
  \/ \E q \in Requests :
       \/ Track(q) \/ Update(q) \/ FetchPage(q) \/ Check(q)
       \/ Create(q) \/ Write(q) \/ Fail(q)
  \/ Untrack

Spec == Init /\ [][Next]_vars

-----------------------------------------------------------------------------
(* A request is refused with 400 only if its branch is missing: no branch  *)
(* of this name, up to letter case, was at the provider from the first     *)
(* page to the last. A branch that is pushed meanwhile shifts those behind *)
(* it to later pages and hides none; only a deletion, or a list that is    *)
(* longer than the cap, can.                                               *)
RefusalIsRight ==
  \A q \in Requests : At(q, "refused") =>
    LET loop == request[q].loop IN
      Undisturbed(loop) => \A b \in loop.first : ~EqualFold(b, request[q].name)

(* A new tracked branch is, up to letter case, one the provider had while  *)
(* the request was looking, whatever was pushed and deleted then.          *)
SelectsExisting ==
  \A q \in Requests :
    (At(q, "write") \/ At(q, "ok")) /\ request[q].change
      => \E b \in request[q].loop.seen : EqualFold(b, request[q].branch)
=============================================================================
