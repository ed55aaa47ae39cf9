------------------------------- MODULE Pages -------------------------------
(***************************************************************************)
(* A list of the provider, read page by page: the loop that ListBranches   *)
(* and ListRepositories of providers/github.go share. Every page is a      *)
(* request of its own, so the provider's list may change between two.      *)
(***************************************************************************)
EXTENDS Naturals, FiniteSets

CONSTANTS
  Items,    \* what can be listed: numbers in the order of the provider
  PerPage,  \* perPage
  MaxPages  \* maxGitHubPages

ASSUME PagesAssumption ==
  /\ Items \subseteq Nat /\ IsFiniteSet(Items)
  /\ PerPage \in Nat \ {0} /\ MaxPages \in Nat \ {0}

(* How many items of the list S come before x.                             *)
Before(S, x) == Cardinality({y \in S : y < x})

(* The answer to page k of the list S, and whether its Link header has a   *)
(* next page.                                                              *)
Page(S, k) == {x \in S : (k - 1) * PerPage <= Before(S, x) /\ Before(S, x) < k * PerPage}
HasNext(S, k) == Cardinality(S) > k * PerPage

(* page and got are the variables of the loop. The rest is history: the    *)
(* items that were listed when the loop began and those that were at some  *)
(* time since, and whether one was removed.                                *)
Loops ==
  [page : 1 .. MaxPages + 1, got : SUBSET Items, done : BOOLEAN,
   first : SUBSET Items, seen : SUBSET Items, shrunk : BOOLEAN]

NoLoop ==
  [page |-> 1, got |-> {}, done |-> TRUE, first |-> {}, seen |-> {}, shrunk |-> FALSE]

Begin(S) ==
  [page |-> 1, got |-> {}, done |-> FALSE, first |-> S, seen |-> S, shrunk |-> FALSE]

(* Mutants: the page replaces the ones before; the cap is a page too low.  *)
Fetched_OnlyLast(loop, S) ==
  LET next == loop.page + 1 IN
  [loop EXCEPT !.got = Page(S, loop.page),
               !.page = IF HasNext(S, @) THEN next ELSE @,
               !.done = ~HasNext(S, loop.page) \/ next > MaxPages]

Fetched_CapTooLow(loop, S) ==
  LET next == loop.page + 1 IN
  [loop EXCEPT !.got = @ \cup Page(S, loop.page),
               !.page = IF HasNext(S, @) THEN next ELSE @,
               !.done = ~HasNext(S, loop.page) \/ next >= MaxPages]

(* One turn of the loop, while the list is S.                              *)
Fetched(loop, S) ==
  LET next == loop.page + 1 IN
  [loop EXCEPT !.got = @ \cup Page(S, loop.page),
               !.page = IF HasNext(S, @) THEN next ELSE @,
               !.done = ~HasNext(S, loop.page) \/ next > MaxPages]

(* The list becomes S while the loop runs.                                 *)
Watched(loop, S) ==
  IF loop.done THEN loop
  ELSE [loop EXCEPT !.seen = @ \cup S,
                    !.shrunk = @ \/ ~(loop.seen \subseteq S)]

(* Nothing was removed while the loop ran, and the list was never longer   *)
(* than the cap.                                                           *)
Undisturbed(loop) ==
  ~loop.shrunk /\ Cardinality(loop.seen) <= MaxPages * PerPage
=============================================================================
