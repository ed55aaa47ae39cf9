---------------------------- MODULE ProviderLists ----------------------------
(***************************************************************************)
(* The two places of the API that read a whole list from the provider: the *)
(* choice of the tracked branch (BranchSelection) and the repositories of  *)
(* a linked account (RepositoryList). They are served at the same time and *)
(* share the loop over the pages, but no state. The list of repositories   *)
(* is instantiated together with its theorems.                             *)
(***************************************************************************)
EXTENDS BranchSelection

VARIABLES installed, selected, listing  \* see RepositoryList

Repos == INSTANCE RepositoryListProofs WITH request <- listing

listsVars == <<vars, installed, selected, listing>>

ListsInit == Init /\ Repos!Init

ListsNext ==
  \/ Next /\ UNCHANGED <<installed, selected, listing>>
  \/ Repos!Next /\ UNCHANGED vars

ListsSpec == ListsInit /\ [][ListsNext]_listsVars

-----------------------------------------------------------------------------
(* The list of repositories misses none that was selected from the first   *)
(* page to the last (RepositoryList).                                      *)
ListIsComplete == Repos!ListIsComplete

(* An empty list is not the sign of a missing installation                 *)
(* (RepositoryList).                                                       *)
EmptyNeedsInstallation == Repos!EmptyNeedsInstallation
=============================================================================
