--------------------------- MODULE TokenProvider ---------------------------
(***************************************************************************)
(* The OAuth side of a provider, as credentials.go and github.go use it.   *)
(* A grant is what Exchange or Refresh returns: an access token, with an   *)
(* expiry and a refresh token unless the grant is permanent.  A refresh    *)
(* token works once; revoking an access token that still works revokes its *)
(* refresh token too.                                                      *)
(***************************************************************************)
CONSTANTS
  Grants,     \* bound: how many grants there are at a time
  Permanent,  \* the grants that never expire and have no refresh token
  Null

ASSUME GrantAssumption ==
  /\ Permanent \subseteq Grants
  /\ Null \notin Grants

VARIABLES
  issued,
  spent,    \* the refresh token was used
  revoked,  \* both tokens were revoked
  aged,     \* the access token expired, or expires within refreshMargin
  lapsed    \* the refresh token expired

providerVars == <<issued, spent, revoked, aged, lapsed>>

ProviderTypeOK ==
  /\ issued \subseteq Grants
  /\ spent \subseteq Grants
  /\ revoked \subseteq Grants
  /\ aged \subseteq Grants
  /\ lapsed \subseteq Grants

NoGrants ==
  /\ issued = {}
  /\ spent = {}
  /\ revoked = {}
  /\ aged = {}
  /\ lapsed = {}

(* The refresh token of g is accepted.                                     *)
Works(g) == g \in issued \ (Permanent \cup spent \cup revoked \cup lapsed)

(* Whoever holds g can still call the provider with it, or renew it.       *)
Alive(g) == /\ g \in issued \ revoked
            /\ g \in aged => Works(g)

-----------------------------------------------------------------------------
Exchange(g) ==
  /\ g \in Grants \ issued
  /\ issued' = issued \cup {g}
  /\ UNCHANGED <<spent, revoked, aged, lapsed>>

Refresh(old, g) ==
  /\ Works(old)
  /\ g \in Grants \ issued
  /\ issued' = issued \cup {g}
  /\ spent' = spent \cup {old}
  /\ UNCHANGED <<revoked, aged, lapsed>>

(* Revoking an expired access token leaves its refresh token alive.        *)
RevokeGrant(g) ==
  /\ revoked' = IF g \in aged THEN revoked ELSE revoked \cup {g}
  /\ UNCHANGED <<issued, spent, aged, lapsed>>

-----------------------------------------------------------------------------
Age(g) ==
  /\ g \in issued \ (Permanent \cup aged)
  /\ aged' = aged \cup {g}
  /\ UNCHANGED <<issued, spent, revoked, lapsed>>

(* 6 months, while an access token lives for 8 hours.                      *)
Lapse(g) ==
  /\ g \in aged \ lapsed
  /\ lapsed' = lapsed \cup {g}
  /\ UNCHANGED <<issued, spent, revoked, aged>>

(* A dead grant that nothing refers to can stand for a new one.            *)
Recycle(g) ==
  /\ g \in issued
  /\ ~Alive(g)
  /\ issued' = issued \ {g}
  /\ spent' = spent \ {g}
  /\ revoked' = revoked \ {g}
  /\ aged' = aged \ {g}
  /\ lapsed' = lapsed \ {g}

(* The user withdraws the authorization of the app.                        *)
Withdraw ==
  /\ revoked' = issued
  /\ UNCHANGED <<issued, spent, aged, lapsed>>
=============================================================================
