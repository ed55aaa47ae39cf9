----------------------------- MODULE MCSession -----------------------------
(***************************************************************************)
(* A small instance of every run of Session.                               *)
(***************************************************************************)
EXTENDS Session, FiniteSets, TLC

CONSTANT WhatHappens  \* to the requests of every browser

MCTrouble == [b \in Browsers |-> WhatHappens]

(* A new session always finds an id. The id of an orderly request that     *)
(* has a state is the one in the cookie.                                   *)
ASSUME EnoughIds ==
  Cardinality(Ids) >= Cardinality(Browsers) + Cardinality(Requests)
    + (IF \E b \in Browsers : "overlap" \in Trouble[b] THEN 1 ELSE 0)

Interchangeable ==
  Permutations(Browsers) \cup Permutations(Requests) \cup Permutations(Ids)
    \cup Permutations(States) \cup Permutations(Users)
=============================================================================
