------------------------- MODULE ProviderListsProofs -------------------------
(***************************************************************************)
(* The choice of the tracked branch is right for any lists of branches,    *)
(* page sizes and caps, any number of requests and any letter cases; and   *)
(* so is, at the same time, the list of repositories, by the theorems of   *)
(* RepositoryListProofs.                                                   *)
(***************************************************************************)
EXTENDS ProviderLists, PagesProofs

(* A request knows of the list what its loop may know; what is refused was *)
(* not found, and what will be written was found.                          *)
RequestInv(r, S) ==
  /\ LoopInv(r.loop, S)
  /\ r.at = "list" => r.name = r.branch
  /\ r.at # "list" => r.loop.done
  /\ r.at = "refused" => ~BranchExists(r.loop.got, r.name)
  /\ r.at \in {"write", "ok"} /\ r.change => BranchExists(r.loop.seen, r.branch)

SelectionInv == \A q \in Requests : request[q] # Null => RequestInv(request[q], upstream)

-----------------------------------------------------------------------------
(* A step of one request, which may also write the row.                    *)
LEMMA OneRequest ==
  ASSUME TypeOK, SelectionInv, upstream' = upstream, tracked' \in Items \cup {Null},
         NEW q \in Requests, NEW r,
         r # Null => r \in AllRequests /\ RequestInv(r, upstream),
         request' = [request EXCEPT ![q] = r]
  PROVE  TypeOK' /\ SelectionInv'
<1>1. TypeOK'
  BY DEF TypeOK
<1>2. ASSUME NEW p \in Requests, request'[p] # Null
      PROVE  RequestInv(request'[p], upstream)
  <2>1. CASE p = q
    BY <1>2, <2>1 DEF TypeOK
  <2>2. CASE p # q
    BY <1>2, <2>2 DEF TypeOK, SelectionInv
  <2> QED BY <2>1, <2>2
<1> QED BY <1>1, <1>2 DEF SelectionInv

(* A branch is pushed or deleted.                                          *)
LEMMA BecomeInv ==
  ASSUME TypeOK, SelectionInv, NEW S \in SUBSET Items, Become(S)
  PROVE  TypeOK' /\ SelectionInv'
<1>1. upstream \in SUBSET Items /\ upstream' = S /\ tracked' = tracked
  BY DEF TypeOK, Become
<1>2. ASSUME NEW q \in Requests, request[q] # Null
      PROVE  request'[q] \in AllRequests /\ RequestInv(request'[q], S)
  <2> DEFINE r == request[q]  w == Watched(r.loop, S)
  <2>1. r \in AllRequests /\ RequestInv(r, upstream)
    BY <1>2 DEF TypeOK, SelectionInv
  <2>2. LoopInv(w, S) /\ w \in Loops
    BY <1>1, <2>1, WatchedInv DEF RequestInv, LoopInv
  <2>3. r.loop.done => w = r.loop
    BY DEF Watched
  <2>4. CASE Active(q)
    <3>1. request'[q] = [r EXCEPT !.loop = w]
      BY <2>4 DEF Become
    <3>2. /\ request'[q].loop = w /\ request'[q].at = r.at /\ request'[q].name = r.name
          /\ request'[q].branch = r.branch /\ request'[q].change = r.change
          /\ request'[q] \in AllRequests
      <4> HIDE DEF w, r
      <4> QED BY <2>1, <2>2, <3>1 DEF AllRequests
    <3>3. r.at # "refused" /\ (r.at # "list" => w = r.loop)
      BY <2>1, <2>3, <2>4 DEF Active, Ended, RequestInv
    <3> QED
      <4> HIDE DEF w, r
      <4> QED BY <2>1, <2>2, <3>2, <3>3 DEF RequestInv
  <2>5. CASE ~Active(q)
    <3>1. request'[q] = r
      BY <2>5 DEF Become
    <3>2. r.at # "list"
      BY <1>2, <2>5 DEF Active, Ended
    <3>3. w = r.loop
      BY <2>1, <2>3, <3>2 DEF RequestInv
    <3> QED
      <4> HIDE DEF w, r
      <4> QED BY <2>1, <2>2, <3>1, <3>3 DEF RequestInv
  <2> QED BY <2>4, <2>5
<1>3. ASSUME NEW q \in Requests, request[q] = Null
      PROVE  request'[q] = Null
  BY <1>3 DEF Become, Active
<1>4. request' \in [Requests -> AllRequests \cup {Null}]
  <2>1. \A q \in Requests : request'[q] \in AllRequests \cup {Null}
    BY <1>2, <1>3
  <2>2. request' = [q \in Requests |-> request'[q]]
    BY DEF Become
  <2> QED BY <2>1, <2>2
<1>5. TypeOK'
  BY <1>1, <1>4 DEF TypeOK
<1>6. SelectionInv'
  BY <1>1, <1>2, <1>3 DEF SelectionInv
<1> QED BY <1>5, <1>6

(* A request that looks for the branch, and one that does not.             *)
LEMMA NewRequests ==
  ASSUME TypeOK, NEW kind \in {"post", "patch"}, NEW b \in Items
  PROVE  /\ LET r == Request("list", kind, b, b, TRUE, Begin(upstream)) IN
              r \in AllRequests /\ RequestInv(r, upstream)
         /\ \A name \in Items \cup {Null} :
              LET r == Request("write", kind, name, b, FALSE, NoLoop) IN
                r \in AllRequests /\ RequestInv(r, upstream)
<1>1. LoopInv(Begin(upstream), upstream) /\ LoopInv(NoLoop, upstream)
  BY BeginInv, NoLoopInv DEF TypeOK
<1>2. Begin(upstream) \in Loops /\ NoLoop \in Loops /\ NoLoop.done
  BY <1>1 DEF LoopInv, NoLoop
<1> HIDE DEF NoLoop
<1>3. LET r == Request("list", kind, b, b, TRUE, Begin(upstream)) IN
        r \in AllRequests /\ RequestInv(r, upstream)
  BY <1>1, <1>2 DEF Request, AllRequests, RequestInv
<1>4. ASSUME NEW name \in Items \cup {Null}
      PROVE  LET r == Request("write", kind, name, b, FALSE, NoLoop) IN
               r \in AllRequests /\ RequestInv(r, upstream)
  BY <1>1, <1>2 DEF Request, AllRequests, RequestInv
<1> QED BY <1>3, <1>4

LEMMA TrackInv ==
  ASSUME TypeOK, SelectionInv, NEW q \in Requests, Track(q)
  PROVE  TypeOK' /\ SelectionInv'
<1>1. upstream' = upstream /\ tracked' \in Items \cup {Null}
  BY DEF Track, TypeOK
<1>2. PICK r : r \in AllRequests /\ RequestInv(r, upstream)
                 /\ request' = [request EXCEPT ![q] = r]
  <2>1. CASE \E b \in (IF upstream = {} THEN Items ELSE upstream) :
               Starts(q, Request("write", "post", Null, b, FALSE, NoLoop))
    <3>1. PICK b \in Items : Starts(q, Request("write", "post", Null, b, FALSE, NoLoop))
      BY <2>1 DEF TypeOK
    <3> QED BY <3>1, NewRequests DEF Starts
  <2>2. CASE \E b \in Items :
               Starts(q, Request("list", "post", b, b, TRUE, Begin(upstream)))
    <3>1. PICK b \in Items :
                 Starts(q, Request("list", "post", b, b, TRUE, Begin(upstream)))
      BY <2>2
    <3> QED BY <3>1, NewRequests DEF Starts
  <2> QED BY <2>1, <2>2 DEF Track
<1> QED BY <1>1, <1>2, OneRequest

LEMMA UpdateInv ==
  ASSUME TypeOK, SelectionInv, NEW q \in Requests, Update(q)
  PROVE  TypeOK' /\ SelectionInv'
<1>1. upstream' = upstream /\ tracked' \in Items \cup {Null} /\ tracked \in Items
  BY DEF Update, TypeOK
<1>2. PICK r : r \in AllRequests /\ RequestInv(r, upstream)
                 /\ request' = [request EXCEPT ![q] = r]
  <2>1. CASE \E b \in Items \cup {Null} :
               Starts(q, Request("write", "patch", b, tracked, FALSE, NoLoop))
    <3>1. PICK b \in Items \cup {Null} :
                 Starts(q, Request("write", "patch", b, tracked, FALSE, NoLoop))
      BY <2>1
    <3> QED BY <1>1, <3>1, NewRequests DEF Starts
  <2>2. CASE \E b \in Items :
               Starts(q, Request("list", "patch", b, b, TRUE, Begin(upstream)))
    <3>1. PICK b \in Items :
                 Starts(q, Request("list", "patch", b, b, TRUE, Begin(upstream)))
      BY <2>2
    <3> QED BY <3>1, NewRequests DEF Starts
  <2> QED BY <2>1, <2>2 DEF Update
<1> QED BY <1>1, <1>2, OneRequest

LEMMA FetchPageInv ==
  ASSUME TypeOK, SelectionInv, NEW q \in Requests, FetchPage(q)
  PROVE  TypeOK' /\ SelectionInv'
<1> DEFINE r == request[q]  w == Fetched(r.loop, upstream)  n == [r EXCEPT !.loop = w]
<1>1. /\ r \in AllRequests /\ RequestInv(r, upstream)
      /\ r.at = "list" /\ ~r.loop.done /\ upstream \in SUBSET Items
  BY DEF FetchPage, At, TypeOK, SelectionInv
<1>2. LoopInv(w, upstream) /\ w \in Loops
  BY <1>1, FetchedInv DEF RequestInv, LoopInv
<1>3. request' = [request EXCEPT ![q] = n]
  BY DEF FetchPage, TypeOK
<1>4. n \in AllRequests /\ RequestInv(n, upstream)
  <2> HIDE DEF r, w
  <2> QED BY <1>1, <1>2 DEF AllRequests, RequestInv
<1>5. upstream' = upstream /\ tracked' \in Items \cup {Null}
  BY DEF FetchPage, TypeOK
<1> HIDE DEF n
<1> QED BY <1>3, <1>4, <1>5, OneRequest

LEMMA CheckInv ==
  ASSUME TypeOK, SelectionInv, NEW q \in Requests, Check(q)
  PROVE  TypeOK' /\ SelectionInv'
<1> DEFINE r == request[q]
           found == BranchExists(r.loop.got, r.name)
           n == [r EXCEPT !.at = IF found THEN "write" ELSE "refused"]
<1>1. /\ r \in AllRequests /\ RequestInv(r, upstream) /\ r.at = "list" /\ r.loop.done
  BY DEF Check, At, TypeOK, SelectionInv
<1>2. found => BranchExists(r.loop.seen, r.branch)
  BY <1>1 DEF RequestInv, LoopInv, BranchExists
<1>3. request' = [request EXCEPT ![q] = n]
  BY DEF Check, Moves, TypeOK
<1>4. n \in AllRequests /\ RequestInv(n, upstream)
  <2>1. /\ n.loop = r.loop /\ n.name = r.name /\ n.branch = r.branch /\ n.change = r.change
        /\ n.at = IF found THEN "write" ELSE "refused"
        /\ n \in AllRequests
    <3> HIDE DEF r, found
    <3> QED BY <1>1 DEF AllRequests, Ended
  <2> HIDE DEF n
  <2>2. CASE found
    BY <1>1, <1>2, <2>1, <2>2 DEF RequestInv
  <2>3. CASE ~found
    BY <1>1, <2>1, <2>3 DEF RequestInv
  <2> QED BY <2>1, <2>2, <2>3
<1>5. upstream' = upstream /\ tracked' \in Items \cup {Null}
  BY DEF Check, TypeOK
<1> HIDE DEF n
<1> QED BY <1>3, <1>4, <1>5, OneRequest

(* A request ends without an answer about the branch.                      *)
LEMMA ErrsInv ==
  ASSUME TypeOK, SelectionInv, NEW q \in Requests, Errs(q), UNCHANGED <<upstream, tracked>>
  PROVE  TypeOK' /\ SelectionInv'
BY OneRequest DEF Errs, TypeOK

(* The row is written.                                                     *)
LEMMA WriteInv ==
  ASSUME TypeOK, SelectionInv, NEW q \in Requests, Create(q) \/ Write(q)
  PROVE  TypeOK' /\ SelectionInv'
<1>1. CASE Errs(q) /\ UNCHANGED <<upstream, tracked>>
  BY <1>1, ErrsInv
<1>2. CASE Moves(q, "ok") /\ tracked' = request[q].branch /\ upstream' = upstream
  <2> DEFINE r == request[q]  n == [r EXCEPT !.at = "ok"]
  <2>1. r \in AllRequests /\ RequestInv(r, upstream) /\ r.at = "write"
    BY DEF Create, Write, At, TypeOK, SelectionInv
  <2>2. request' = [request EXCEPT ![q] = n]
    BY <1>2 DEF Moves, TypeOK
  <2>3. n \in AllRequests /\ RequestInv(n, upstream)
    <3> HIDE DEF r
    <3> QED BY <2>1 DEF AllRequests, Ended, RequestInv
  <2>4. tracked' \in Items
    BY <1>2, <2>1 DEF AllRequests
  <2> HIDE DEF n
  <2> QED BY <1>2, <2>2, <2>3, <2>4, OneRequest
<1> QED BY <1>1, <1>2 DEF Create, Write

-----------------------------------------------------------------------------
(* The inductive invariant: types, and what each request may conclude.     *)
THEOREM SelectionCorrect == Spec => [](TypeOK /\ SelectionInv)
<1>1. Init => TypeOK /\ SelectionInv
  BY DEF Init, TypeOK, SelectionInv
<1>2. TypeOK /\ SelectionInv /\ [Next]_vars => TypeOK' /\ SelectionInv'
  <2> SUFFICES ASSUME TypeOK, SelectionInv, [Next]_vars
               PROVE  TypeOK' /\ SelectionInv'
    OBVIOUS
  <2>1. CASE UNCHANGED vars
    BY <2>1 DEF vars, TypeOK, SelectionInv
  <2>2. CASE \E b \in Items : PushBranch(b) \/ DeleteBranch(b)
    <3>1. PICK b \in Items : PushBranch(b) \/ DeleteBranch(b)
      BY <2>2
    <3>2. PICK S \in SUBSET Items : Become(S)
      BY <3>1 DEF PushBranch, DeleteBranch, TypeOK
    <3> QED BY <3>2, BecomeInv
  <2>3. CASE Untrack
    BY <2>3 DEF Untrack, TypeOK, SelectionInv
  <2>4. ASSUME NEW q \in Requests, Fail(q)
        PROVE  TypeOK' /\ SelectionInv'
    BY <2>4, ErrsInv DEF Fail
  <2> QED
    BY <2>1, <2>2, <2>3, <2>4, TrackInv, UpdateInv, FetchPageInv, CheckInv, WriteInv
    DEF Next
<1> QED BY <1>1, <1>2, PTL DEF Spec

-----------------------------------------------------------------------------
(* Both components run as if they were alone.                              *)
LEMMA BothRun == ListsSpec => Spec /\ Repos!Spec
<1>1. ListsInit => Init /\ Repos!Init
  BY DEF ListsInit
<1>2. [ListsNext]_listsVars => [Next]_vars /\ [Repos!Next]_(Repos!vars)
  BY DEF ListsNext, listsVars, vars, Repos!vars
<1> QED BY <1>1, <1>2, PTL DEF ListsSpec, Spec, Repos!Spec

LEMMA SameAssumption ==
  /\ Items \subseteq Nat /\ Repos!IsFiniteSet(Items)
  /\ PerPage \in Nat \ {0} /\ MaxPages \in Nat \ {0}
BY PagesAssumption DEF IsFiniteSet, Repos!IsFiniteSet

(* Every reachable state is well typed; in particular the loop never asks  *)
(* for a page beyond the cap, and a request always has a branch to write.  *)
THEOREM TypeCorrect == ListsSpec => []TypeOK
<1>1. TypeOK /\ SelectionInv => TypeOK
  OBVIOUS
<1> QED BY <1>1, BothRun, SelectionCorrect, PTL

(* A request is refused only if no branch of its name, up to letter case,  *)
(* was listed from the first page to the last, whatever is pushed then.    *)
THEOREM RefusalCorrect == ListsSpec => []RefusalIsRight
<1>1. TypeOK /\ SelectionInv => RefusalIsRight
  <2> SUFFICES ASSUME SelectionInv, NEW q \in Requests, At(q, "refused"),
                      Undisturbed(request[q].loop)
               PROVE  \A b \in request[q].loop.first : ~EqualFold(b, request[q].name)
    BY DEF RefusalIsRight
  <2>1. RequestInv(request[q], upstream) /\ request[q].at = "refused"
    BY DEF At, SelectionInv
  <2>2. request[q].loop.first \subseteq request[q].loop.got
    BY <2>1 DEF RequestInv, LoopInv
  <2>3. ~BranchExists(request[q].loop.got, request[q].name)
    BY <2>1 DEF RequestInv
  <2> QED BY <2>2, <2>3 DEF BranchExists
<1> QED BY <1>1, BothRun, SelectionCorrect, PTL

(* A new tracked branch is, up to letter case, one the provider had while  *)
(* the request was looking.                                                *)
THEOREM SelectsExistingCorrect == ListsSpec => []SelectsExisting
<1>1. TypeOK /\ SelectionInv => SelectsExisting
  BY DEF SelectionInv, RequestInv, At, SelectsExisting, BranchExists
<1> QED BY <1>1, BothRun, SelectionCorrect, PTL

(* The list misses no repository that was selected from the first page to  *)
(* the last, unless one was deselected meanwhile or the cap was reached.   *)
THEOREM ListIsCompleteCorrect == ListsSpec => []ListIsComplete
<1>1. Repos!Spec => []Repos!ListIsComplete
  BY SameAssumption, Repos!ListIsCompleteCorrect
<1> QED BY <1>1, BothRun, PTL DEF ListIsComplete

(* While the app is neither installed nor removed, an empty list is the    *)
(* answer only if the app was there without a repository.                  *)
THEOREM EmptyNeedsInstallationCorrect == ListsSpec => []EmptyNeedsInstallation
<1>1. Repos!Spec => []Repos!EmptyNeedsInstallation
  BY SameAssumption, Repos!EmptyNeedsInstallationCorrect
<1> QED BY <1>1, BothRun, PTL DEF EmptyNeedsInstallation
=============================================================================
