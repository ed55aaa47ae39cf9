---------------------------- MODULE LinkedAccount ----------------------------
(***************************************************************************)
(* What Credentials promises of a linked account, as an abstract           *)
(* specification: the account is one grant at a time. A refresh uses up    *)
(* the grant and stores its renewal in one step, as if nobody else used    *)
(* the account; nothing that is still stored is revoked or renewed for     *)
(* another purpose; and the tokens are given up only when they expired.    *)
(* Locks, calls, requests and the order of their statements are hidden.    *)
(***************************************************************************)
EXTENDS TokenProvider

VARIABLES
  linked,  \* there is an account
  current  \* the grant it has, or Null if it must be re-linked

linkVars == <<providerVars, linked, current>>

LinkInit ==
  /\ NoGrants
  /\ linked = FALSE
  /\ current = Null

(* A grant the provider accepts, given to the account.                     *)
Link(g) ==
  /\ g \in issued \ (spent \cup revoked)
  /\ linked' = TRUE
  /\ current' = g
  /\ UNCHANGED providerVars

Unlink ==
  /\ linked
  /\ linked' = FALSE
  /\ current' = Null
  /\ UNCHANGED providerVars

Renew(g) ==
  /\ Refresh(current, g)
  /\ current' = g
  /\ UNCHANGED linked

GiveUp ==
  /\ current \in lapsed
  /\ current' = Null
  /\ UNCHANGED <<providerVars, linked>>

(* Everything that happens to other grants.                                *)
Elsewhere ==
  /\ \E g \in Grants :
       \/ Exchange(g)
       \/ \E old \in Grants \ {current} : Refresh(old, g)
       \/ g # current /\ (RevokeGrant(g) \/ Recycle(g))
  /\ UNCHANGED <<linked, current>>

Time ==
  /\ \E g \in Grants : Age(g) \/ Lapse(g)
  /\ UNCHANGED <<linked, current>>

LinkNext ==
  \/ \E g \in Grants : Link(g) \/ Renew(g)
  \/ Unlink \/ GiveUp \/ Elsewhere \/ Time

LinkSpec == LinkInit /\ [][LinkNext]_linkVars
=============================================================================
