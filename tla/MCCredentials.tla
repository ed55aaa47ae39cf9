--------------------------- MODULE MCCredentials ---------------------------
(***************************************************************************)
(* A small instance of Credentials.                                        *)
(***************************************************************************)
EXTENDS Credentials, Naturals, FiniteSets, TLC

(* A new row always finds an id.                                           *)
ASSUME EnoughIds == Cardinality(Ids) > Cardinality(Callers)

Interchangeable ==
  Permutations(Grants \ Permanent) \cup Permutations(Ids)
    \cup Permutations(Callers) \cup Permutations(Clerks)

(* An account that was linked once and that nobody unlinks, to see         *)
(* re-links only.                                                          *)
LinkedInit ==
  /\ \E id \in Ids, g \in Grants \ Permanent :
       /\ account = Account(id, g, g)
       /\ issued = {g}
  /\ spent = {} /\ revoked = {} /\ aged = {} /\ lapsed = {}
  /\ lock = Null
  /\ call = [c \in Callers |-> NoCall]
  /\ clerk = [k \in Clerks |-> NoRequest]
  /\ retired = {} /\ missed = {}

RelinkSpec == LinkedInit /\ [][Next /\ account'.id = account.id]_vars
=============================================================================
