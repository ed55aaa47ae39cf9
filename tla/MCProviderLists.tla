--------------------------- MODULE MCProviderLists ---------------------------
(***************************************************************************)
(* An instance of ProviderLists: since the two share nothing, a behaviour  *)
(* follows one of them, and the other stays as it began. The first two     *)
(* branches differ in letter case only.                                    *)
(***************************************************************************)
EXTENDS ProviderLists

CONSTANT Length  \* the number of branches, and of repositories

MCItems == 1 .. Length
MCFolded == [b \in MCItems |-> IF b = 1 THEN 2 ELSE b]

VARIABLE follows  \* which of the two

MCInit ==
  /\ ListsInit
  /\ \/ follows = "branches"
     \/ follows = "repositories" /\ upstream = {}

MCNext ==
  /\ UNCHANGED follows
  /\ \/ follows = "branches" /\ Next /\ UNCHANGED <<installed, selected, listing>>
     \/ follows = "repositories" /\ Repos!Next /\ UNCHANGED vars

MCSpec == MCInit /\ [][MCNext]_<<listsVars, follows>>
=============================================================================
