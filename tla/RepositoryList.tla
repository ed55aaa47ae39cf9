--------------------------- MODULE RepositoryList ---------------------------
(***************************************************************************)
(* The repositories a linked account can be asked for                      *)
(* (listExternalRepositories, GitHubProvider.ListRepositories): the pages  *)
(* of those the user has selected for the app, and, when there are none,   *)
(* whether the app is installed at all, which is a later request.          *)
(***************************************************************************)
EXTENDS Pages

CONSTANTS
  Null,
  Requests   \* requests for the list

VARIABLES
  installed, \* external: the user has an installation of the app
  selected,  \* external: the repositories it gives access to
  request    \* request[q]: a request and its answer, or Null

vars == <<installed, selected, request>>

Ended == {"listed", "not_installed"}

(* bare and same are history since the request began: the app was at some  *)
(* time installed without a repository; it was never installed or removed. *)
AllRequests ==
  [at : {"list", "installations"} \cup Ended, loop : Loops,
   bare : BOOLEAN, same : BOOLEAN]

TypeOK ==
  /\ installed \in BOOLEAN
  /\ selected \subseteq Items
  /\ request \in [Requests -> AllRequests \cup {Null}]

At(q, stage) == request[q] # Null /\ request[q].at = stage

Active(q) == request[q] # Null /\ request[q].at \notin Ended

Init ==
  /\ installed = FALSE
  /\ selected = {}
  /\ request = [q \in Requests |-> Null]

-----------------------------------------------------------------------------
(* The user installs and removes the app, and selects repositories for it. *)
Become(app, S) ==
  /\ installed' = app
  /\ selected' = S
  /\ request' = [q \in Requests |->
       IF Active(q) THEN [request[q] EXCEPT !.loop = Watched(@, S),
                                            !.bare = @ \/ (app /\ S = {}),
                                            !.same = @ /\ app = installed]
       ELSE request[q]]

Install == ~installed /\ \E S \in SUBSET Items : Become(TRUE, S)
Uninstall == installed /\ Become(FALSE, {})
Select(x) == installed /\ x \notin selected /\ Become(TRUE, selected \cup {x})
Deselect(x) == x \in selected /\ Become(TRUE, selected \ {x})

-----------------------------------------------------------------------------
(* listExternalRepositories up to ListRepositories.                        *)
Ask(q) ==
  /\ ~Active(q)
  /\ request' = [request EXCEPT ![q] =
       [at |-> "list", loop |-> Begin(selected),
        bare |-> installed /\ selected = {}, same |-> TRUE]]
  /\ UNCHANGED <<installed, selected>>

Moves(q, stage) == request' = [request EXCEPT ![q].at = stage]

FetchPage(q) ==
  /\ At(q, "list") /\ ~request[q].loop.done
  /\ request' = [request EXCEPT ![q].loop = Fetched(@, selected)]
  /\ UNCHANGED <<installed, selected>>

(* Mutant: the length of the list is not looked at.                        *)
EndOfPages_Lists(q) ==
  /\ At(q, "list") /\ request[q].loop.done
  /\ Moves(q, "listed")
  /\ UNCHANGED <<installed, selected>>

EndOfPages(q) ==
  /\ At(q, "list") /\ request[q].loop.done
  /\ Moves(q, IF request[q].loop.got = {} THEN "installations" ELSE "listed")
  /\ UNCHANGED <<installed, selected>>

(* hasInstalledApp.                                                        *)
CheckInstallations(q) ==
  /\ At(q, "installations")
  /\ Moves(q, IF installed THEN "listed" ELSE "not_installed")
  /\ UNCHANGED <<installed, selected>>

(* The account, its token or the provider: 4xx or 500.                     *)
Fail(q) ==
  /\ Active(q)
  /\ request' = [request EXCEPT ![q] = Null]
  /\ UNCHANGED <<installed, selected>>

Next ==
  \/ Install \/ Uninstall
  \/ \E x \in Items : Select(x) \/ Deselect(x)
  \/ \E q \in Requests :
       Ask(q) \/ FetchPage(q) \/ EndOfPages(q) \/ CheckInstallations(q) \/ Fail(q)

Spec == Init /\ [][Next]_vars

-----------------------------------------------------------------------------
(* The list misses no repository that was selected from the first page to  *)
(* the last, unless one was deselected meanwhile or the cap was reached.   *)
ListIsComplete ==
  \A q \in Requests : At(q, "listed") =>
    LET loop == request[q].loop IN Undisturbed(loop) => loop.first \subseteq loop.got

(* An empty list is not the sign of a missing installation, unless the     *)
(* user installs or removes the app meanwhile: of the two answers it is    *)
(* made of, the second is the later one.                                   *)
EmptyNeedsInstallation ==
  \A q \in Requests :
    At(q, "listed") /\ request[q].loop.got = {} /\ request[q].same => request[q].bare
=============================================================================
