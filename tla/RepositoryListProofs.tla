------------------------- MODULE RepositoryListProofs -------------------------
(***************************************************************************)
(* The list of repositories is right for any repositories, page sizes and  *)
(* caps and any number of requests, whatever the user changes meanwhile.   *)
(***************************************************************************)
EXTENDS RepositoryList, PagesProofs, WellFoundedInduction

(* While the app stays as it is, a request that has read a page and found  *)
(* nothing has seen the app without a repository, if it is there.          *)
RequestInv(r, app, S) ==
  /\ LoopInv(r.loop, S)
  /\ r.at # "list" => r.loop.done
  /\ r.at \in {"list", "installations"} /\ app =>
       /\ S = {} => r.bare
       /\ r.same /\ r.loop.got = {} => r.bare \/ (~r.loop.done /\ r.loop.page = 1)
  /\ r.at = "listed" /\ r.same /\ r.loop.got = {} => r.bare

ListInv == \A q \in Requests : request[q] # Null => RequestInv(request[q], installed, selected)

-----------------------------------------------------------------------------
LEMMA Least ==
  ASSUME NEW S \in SUBSET Items, S # {}
  PROVE  \E x \in S : \A y \in S : ~(y < x)
<1> DEFINE UpTo(x) == {y \in S : y <= x}  T == {UpTo(x) : x \in S}
<1>1. S \subseteq Nat /\ IsFiniteSet(S)
  BY PagesAssumption, SetsAreFinite
<1>2. IsWellFoundedOn(StrictSubsetOrdering(S), SUBSET S)
  BY <1>1, FS_StrictSubsetOrderingWellFounded, FS_FiniteSubsetsOfFinite
<1>3. T \subseteq SUBSET S /\ T # {}
  OBVIOUS
<1>4. PICK U \in T : \A V \in T : ~(<<V, U>> \in StrictSubsetOrdering(S))
  <2> HIDE DEF T
  <2> QED BY <1>2, <1>3, WFMin
<1>5. PICK x \in S : U = UpTo(x)
  BY <1>4
<1>6. ASSUME NEW y \in S, y < x
      PROVE  FALSE
  <2>1. UpTo(y) \subseteq U /\ x \notin UpTo(y) /\ x \in U
    <3>1. x \in Nat /\ y \in Nat /\ U = {z \in S : z <= x}
      BY <1>1, <1>5, <1>6
    <3>2. x \in U /\ x \notin UpTo(y)
      BY <1>6, <3>1
    <3>3. ASSUME NEW z \in S, z <= y
          PROVE  z <= x
      <4>1. z \in Nat
        BY <1>1
      <4> QED BY <1>6, <3>1, <3>3, <4>1
    <3>4. UpTo(y) \subseteq U
      BY <3>1, <3>3
    <3> QED BY <3>2, <3>4
  <2>2. UpTo(y) \in T /\ UpTo(y) \in SUBSET S /\ U \in SUBSET S
    BY <1>3, <1>4
  <2> HIDE DEF UpTo, T
  <2>3. <<UpTo(y), U>> \in StrictSubsetOrdering(S)
    BY <2>1, <2>2 DEF StrictSubsetOrdering
  <2> QED BY <1>4, <2>2, <2>3
<1> QED BY <1>6

(* The first page of a list is empty only if the list is.                  *)
LEMMA FirstPage ==
  ASSUME NEW S \in SUBSET Items, S # {}
  PROVE  Page(S, 1) # {}
<1>1. PICK x \in S : \A y \in S : ~(y < x)
  BY Least
<1>2. {y \in S : y < x} = {}
  BY <1>1
<1>3. Before(S, x) = 0
  BY <1>2, FS_EmptySet DEF Before
<1>4. (1 - 1) * PerPage <= 0 /\ 0 < 1 * PerPage
  BY PagesAssumption
<1> QED BY <1>3, <1>4 DEF Page

-----------------------------------------------------------------------------
(* A step of one request.                                                  *)
LEMMA OneRequest ==
  ASSUME TypeOK, ListInv, UNCHANGED <<installed, selected>>,
         NEW q \in Requests, NEW r,
         r # Null => r \in AllRequests /\ RequestInv(r, installed, selected),
         request' = [request EXCEPT ![q] = r]
  PROVE  TypeOK' /\ ListInv'
<1>1. TypeOK'
  BY DEF TypeOK
<1>2. ASSUME NEW p \in Requests, request'[p] # Null
      PROVE  RequestInv(request'[p], installed, selected)
  <2>1. CASE p = q
    BY <1>2, <2>1 DEF TypeOK
  <2>2. CASE p # q
    BY <1>2, <2>2 DEF TypeOK, ListInv
  <2> QED BY <2>1, <2>2
<1> QED BY <1>1, <1>2 DEF ListInv

(* The user changes what the app may see.                                  *)
LEMMA BecomeInv ==
  ASSUME TypeOK, ListInv, NEW app \in BOOLEAN, NEW S \in SUBSET Items, Become(app, S)
  PROVE  TypeOK' /\ ListInv'
<1>1. selected \in SUBSET Items /\ selected' = S /\ installed' = app /\ installed \in BOOLEAN
  BY DEF TypeOK, Become
<1>2. ASSUME NEW q \in Requests, request[q] # Null
      PROVE  request'[q] \in AllRequests /\ RequestInv(request'[q], app, S)
  <2> DEFINE r == request[q]  w == Watched(r.loop, S)
             bare == r.bare \/ (app /\ S = {})
             same == r.same /\ app = installed
  <2>1. r \in AllRequests /\ RequestInv(r, installed, selected)
    BY <1>2 DEF TypeOK, ListInv
  <2>2. LoopInv(w, S) /\ w \in Loops
    BY <1>1, <2>1, WatchedInv DEF RequestInv, LoopInv
  <2>3. /\ r.loop.done => w = r.loop
        /\ w.got = r.loop.got /\ w.page = r.loop.page /\ w.done = r.loop.done
    BY <2>1 DEF Watched, RequestInv, LoopInv, Loops
  <2>4. CASE Active(q)
    <3>1. request'[q] = [r EXCEPT !.loop = w, !.bare = bare, !.same = same]
      BY <2>4 DEF Become
    <3>2. /\ request'[q].loop = w /\ request'[q].at = r.at
          /\ request'[q].bare = bare /\ request'[q].same = same
          /\ request'[q] \in AllRequests
      <4>1. bare \in BOOLEAN /\ same \in BOOLEAN
        BY <2>1 DEF AllRequests
      <4> HIDE DEF w, r, bare, same
      <4> QED BY <2>1, <2>2, <3>1, <4>1 DEF AllRequests
    <3>3. r.at \in {"list", "installations"}
      BY <1>2, <2>1, <2>4 DEF Active, Ended, AllRequests
    <3> QED
      <4> HIDE DEF w, r
      <4> QED BY <2>1, <2>2, <2>3, <3>2, <3>3 DEF RequestInv
  <2>5. CASE ~Active(q)
    <3>1. request'[q] = r
      BY <2>5 DEF Become
    <3>2. r.at \notin {"list", "installations"}
      BY <1>2, <2>5 DEF Active, Ended
    <3>3. w = r.loop
      BY <2>1, <2>3, <3>2 DEF RequestInv
    <3> QED
      <4> HIDE DEF w, r
      <4> QED BY <2>1, <2>2, <3>1, <3>2, <3>3 DEF RequestInv
  <2> QED BY <2>4, <2>5
<1>3. ASSUME NEW q \in Requests, request[q] = Null
      PROVE  request'[q] = Null
  BY <1>3 DEF Become, Active
<1>4. request' \in [Requests -> AllRequests \cup {Null}]
  <2>1. \A q \in Requests : request'[q] \in AllRequests \cup {Null}
    BY <1>2, <1>3
  <2>2. request' = [q \in Requests |-> request'[q]]
    BY DEF Become
  <2> QED BY <2>1, <2>2
<1>5. TypeOK'
  BY <1>1, <1>4 DEF TypeOK
<1>6. ListInv'
  BY <1>1, <1>2, <1>3 DEF ListInv
<1> QED BY <1>5, <1>6

LEMMA AskInv ==
  ASSUME TypeOK, ListInv, NEW q \in Requests, Ask(q)
  PROVE  TypeOK' /\ ListInv'
<1> DEFINE n == [at |-> "list", loop |-> Begin(selected),
                 bare |-> installed /\ selected = {}, same |-> TRUE]
<1>1. LoopInv(Begin(selected), selected) /\ Begin(selected) \in Loops
  BY BeginInv DEF TypeOK, LoopInv
<1>2. Begin(selected).page = 1 /\ ~Begin(selected).done
  BY DEF Begin
<1>3. n \in AllRequests /\ RequestInv(n, installed, selected)
  BY <1>1, <1>2 DEF AllRequests, RequestInv, TypeOK
<1>4. request' = [request EXCEPT ![q] = n] /\ UNCHANGED <<installed, selected>>
  BY DEF Ask
<1> HIDE DEF n
<1> QED BY <1>3, <1>4, OneRequest

LEMMA FetchPageInv ==
  ASSUME TypeOK, ListInv, NEW q \in Requests, FetchPage(q)
  PROVE  TypeOK' /\ ListInv'
<1> DEFINE r == request[q]  w == Fetched(r.loop, selected)  n == [r EXCEPT !.loop = w]
<1>1. /\ r \in AllRequests /\ RequestInv(r, installed, selected)
      /\ r.at = "list" /\ ~r.loop.done /\ selected \in SUBSET Items
  BY DEF FetchPage, At, TypeOK, ListInv
<1>2. LoopInv(w, selected) /\ w \in Loops
  BY <1>1, FetchedInv DEF RequestInv, LoopInv
<1>3. w.got = r.loop.got \cup Page(selected, r.loop.page)
  BY <1>1 DEF Fetched, RequestInv, LoopInv, Loops
<1>4. ASSUME installed, r.same, w.got = {}
      PROVE  r.bare
  <2>1. CASE r.loop.page = 1
    <3>1. Page(selected, 1) = {}
      BY <1>3, <1>4, <2>1
    <3>2. selected = {}
      BY <1>1, <3>1, FirstPage
    <3> QED BY <1>1, <1>4, <3>2 DEF RequestInv
  <2>2. CASE r.loop.page # 1
    BY <1>1, <1>3, <1>4, <2>2 DEF RequestInv
  <2> QED BY <2>1, <2>2
<1>5. request' = [request EXCEPT ![q] = n] /\ UNCHANGED <<installed, selected>>
  BY DEF FetchPage, TypeOK
<1>6. n \in AllRequests /\ RequestInv(n, installed, selected)
  <2> HIDE DEF r, w
  <2>1. n \in AllRequests /\ n.at = r.at /\ n.loop = w /\ n.bare = r.bare /\ n.same = r.same
    BY <1>1, <1>2 DEF AllRequests
  <2> HIDE DEF n
  <2> QED BY <1>1, <1>2, <1>4, <2>1 DEF RequestInv
<1> HIDE DEF n
<1> QED BY <1>5, <1>6, OneRequest

(* A request goes on, or is answered.                                      *)
LEMMA MovesInv ==
  ASSUME TypeOK, ListInv, NEW q \in Requests, EndOfPages(q) \/ CheckInstallations(q)
  PROVE  TypeOK' /\ ListInv'
<1> DEFINE r == request[q]
<1>1. /\ r \in AllRequests /\ RequestInv(r, installed, selected) /\ r.loop.done
      /\ r.at \in {"list", "installations"}
  BY DEF EndOfPages, CheckInstallations, At, TypeOK, ListInv, RequestInv
<1>2. PICK stage \in {"installations"} \cup Ended :
        /\ Moves(q, stage)
        /\ stage = "listed" => installed \/ r.loop.got # {}
  BY DEF EndOfPages, CheckInstallations, Ended
<1> DEFINE n == [r EXCEPT !.at = stage]
<1>3. n \in AllRequests /\ RequestInv(n, installed, selected)
  <2> HIDE DEF r
  <2>1. n \in AllRequests /\ n.at = stage /\ n.loop = r.loop /\ n.bare = r.bare /\ n.same = r.same
    BY <1>1, <1>2 DEF AllRequests, Ended
  <2> HIDE DEF n
  <2> QED BY <1>1, <1>2, <2>1 DEF RequestInv
<1>4. request' = [request EXCEPT ![q] = n] /\ UNCHANGED <<installed, selected>>
  BY <1>2 DEF EndOfPages, CheckInstallations, Moves, TypeOK
<1> HIDE DEF n
<1> QED BY <1>3, <1>4, OneRequest

-----------------------------------------------------------------------------
(* The inductive invariant: types, and what each request may conclude.     *)
THEOREM ListCorrect == Spec => [](TypeOK /\ ListInv)
<1>1. Init => TypeOK /\ ListInv
  BY DEF Init, TypeOK, ListInv
<1>2. TypeOK /\ ListInv /\ [Next]_vars => TypeOK' /\ ListInv'
  <2> SUFFICES ASSUME TypeOK, ListInv, [Next]_vars
               PROVE  TypeOK' /\ ListInv'
    OBVIOUS
  <2>1. CASE UNCHANGED vars
    BY <2>1 DEF vars, TypeOK, ListInv
  <2>2. CASE Install \/ Uninstall \/ \E x \in Items : Select(x) \/ Deselect(x)
    <3>1. PICK app \in BOOLEAN, S \in SUBSET Items : Become(app, S)
      BY <2>2 DEF Install, Uninstall, Select, Deselect, TypeOK
    <3> QED BY <3>1, BecomeInv
  <2>3. ASSUME NEW q \in Requests, Fail(q)
        PROVE  TypeOK' /\ ListInv'
    BY <2>3, OneRequest DEF Fail
  <2> QED
    BY <2>1, <2>2, <2>3, AskInv, FetchPageInv, MovesInv DEF Next
<1> QED BY <1>1, <1>2, PTL DEF Spec

(* Every reachable state is well typed; in particular the loop never asks  *)
(* for a page beyond the cap.                                              *)
THEOREM TypeCorrect == Spec => []TypeOK
<1>1. TypeOK /\ ListInv => TypeOK
  OBVIOUS
<1> QED BY <1>1, ListCorrect, PTL

(* The list misses no repository that was selected from the first page to  *)
(* the last, unless one was deselected meanwhile or the cap was reached.   *)
THEOREM ListIsCompleteCorrect == Spec => []ListIsComplete
<1>1. TypeOK /\ ListInv => ListIsComplete
  BY DEF ListInv, RequestInv, LoopInv, At, ListIsComplete
<1> QED BY <1>1, ListCorrect, PTL

(* While the app is neither installed nor removed, an empty list is the    *)
(* answer only if the app was there without a repository.                  *)
THEOREM EmptyNeedsInstallationCorrect == Spec => []EmptyNeedsInstallation
<1>1. TypeOK /\ ListInv => EmptyNeedsInstallation
  BY DEF ListInv, RequestInv, At, EmptyNeedsInstallation
<1> QED BY <1>1, ListCorrect, PTL
=============================================================================
