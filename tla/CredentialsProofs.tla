------------------------- MODULE CredentialsProofs -------------------------
(***************************************************************************)
(* What holds of the tokens of an account for any number of calls and      *)
(* requests, grants and ids.                                               *)
(***************************************************************************)
EXTENDS Credentials, TLAPS

USE GrantAssumption, CredentialsAssumption
    DEF providerVars, storedVars, historyVars

-----------------------------------------------------------------------------
(* Every variable keeps its type, and the caller that has the row lock is  *)
(* the one between its read of the row and the end of its transaction.     *)
LEMMA TypeInit == Init => TypeOK
  BY DEF Init, TypeOK, ProviderTypeOK, NoGrants, Accounts, NoAccount, Account,
         Calls, NoCall, Call, Requests, NoRequest, Request, MaybeGrant

LEMMA TypeForAccount ==
  ASSUME TypeOK, NEW c \in Callers, ForAccount(c)
  PROVE  TypeOK'
  BY DEF TypeOK, ProviderTypeOK, ForAccount, Call, Calls, NoAccount, Account,
         Accounts, MaybeGrant

LEMMA TypeRefreshStep ==
  ASSUME TypeOK, NEW c \in Callers, RefreshStep(c)
  PROVE  TypeOK'
<1> USE DEF TypeOK, ProviderTypeOK, Return, Call, NoCall, Calls, MaybeGrant
<1>1. CASE LockAccount(c)
  BY <1>1 DEF LockAccount, CanRefresh, NoAccount, Account
<1>2. CASE RefreshFails(c)
  BY <1>2 DEF RefreshFails
<1>3. CASE RefreshGrant(c)
  BY <1>3 DEF RefreshGrant, Refresh, Works
<1>4. CASE ReplyLost(c)
  BY <1>4 DEF ReplyLost, Refresh, Works
<1>5. CASE RefreshRejected(c)
  BY <1>5 DEF RefreshRejected
<1>6. CASE StoreTokens(c)
  BY <1>6 DEF StoreTokens, Renewed, Account, NoAccount, Accounts
<1>7. CASE ClearTokens(c)
  BY <1>7 DEF ClearTokens, Account, NoAccount, Accounts
<1> QED
  BY <1>1, <1>2, <1>3, <1>4, <1>5, <1>6, <1>7 DEF RefreshStep

LEMMA TypeClerk ==
  ASSUME TypeOK, NEW k \in Clerks, BeginLink(k) \/ Unlink(k) \/ ClerkStep(k)
  PROVE  TypeOK'
<1> USE DEF TypeOK, ProviderTypeOK, Request, NoRequest, Requests, MaybeGrant
<1>1. CASE BeginLink(k)
  BY <1>1 DEF BeginLink, Exchange
<1>2. CASE Unlink(k)
  <2>1. clerk' \in [Clerks -> Requests]
    BY <1>2 DEF Unlink
  <2>2. \A j \in Clerks :
          clerk'[j].grant # Null <=> clerk'[j].at \in {"upsert", "revoke"}
    BY <1>2 DEF Unlink
  <2>3. account' \in Accounts /\ retired' \subseteq Grants
    BY <1>2 DEF Unlink, Held, Accounts, Account, NoAccount
  <2> QED
    BY <1>2, <2>1, <2>2, <2>3 DEF Unlink
<1>3. CASE LinkFails(k)
  BY <1>3 DEF LinkFails, Accounts, Account, NoAccount
<1>4. CASE Upsert(k)
  <2>1. Held(account) \subseteq Grants
    BY DEF Held, Accounts
  <2>2. retired' \subseteq Grants /\ missed' \subseteq Grants
    BY <1>4, <2>1 DEF Upsert
  <2>3. account' \in Accounts /\ (account'.id = Null => account' = NoAccount)
    BY <1>4 DEF Upsert, Renewed, FreshIds, Accounts, Account, NoAccount
  <2>4. account # NoAccount => account' # NoAccount /\ account'.id = account.id
    BY <1>4 DEF Upsert, Renewed, Accounts, Account, NoAccount
  <2>5. clerk' \in [Clerks -> Requests]
    <3>1. PICK x \in {NoRequest, Request("renew", clerk[k].old, Null)} :
            clerk' = [clerk EXCEPT ![k] = x]
      BY <1>4 DEF Upsert
    <3>2. x \in Requests
      BY DEF NoAccount, Account, Accounts
    <3> QED
      BY <3>1, <3>2
  <2>6. \A j \in Clerks : clerk'[j].grant # Null <=> clerk'[j].at \in {"upsert", "revoke"}
    BY <1>4 DEF Upsert
  <2> QED
    BY <1>4, <2>2, <2>3, <2>4, <2>5, <2>6 DEF Upsert
<1>5. CASE RenewForRevoke(k)
  BY <1>5
  DEF RenewForRevoke, Renew, Refresh, Works, Accounts, Account, NoAccount,
      NeedsRefresh
<1>6. CASE RenewFails(k)
  BY <1>6 DEF RenewFails, Renew, Refresh, Works, Accounts, Account, NoAccount
<1>7. CASE RevokeToken(k)
  BY <1>7 DEF RevokeToken, RevokeGrant, Accounts, Account, NoAccount
<1> QED
  BY <1>1, <1>2, <1>3, <1>4, <1>5, <1>6, <1>7 DEF ClerkStep

LEMMA TypeWorld ==
  ASSUME TypeOK,
         (\E g \in Grants : ForgetGrant(g)) \/ TimePasses \/ WithdrawApp \/ Crash
  PROVE  TypeOK'
<1> USE DEF TypeOK, ProviderTypeOK
<1>1. ASSUME NEW g \in Grants, ForgetGrant(g) PROVE TypeOK'
  BY <1>1 DEF ForgetGrant, Recycle
<1>2. CASE TimePasses
  BY <1>2 DEF TimePasses, Age, Lapse
<1>3. CASE WithdrawApp
  BY <1>3 DEF WithdrawApp, Withdraw
<1>4. CASE Crash
  BY <1>4
  DEF Crash, Call, NoCall, Calls, Request, NoRequest, Requests, NoAccount,
      Account, Accounts, MaybeGrant
<1> QED
  BY <1>1, <1>2, <1>3, <1>4

LEMMA TypeStutters == TypeOK /\ UNCHANGED vars => TypeOK'
  BY DEF vars, TypeOK, ProviderTypeOK

LEMMA TypeStep == TypeOK /\ [Next]_vars => TypeOK'
  BY TypeForAccount, TypeRefreshStep, TypeClerk, TypeWorld, TypeStutters
  DEF Next

(* Every variable always has its type.                                     *)
THEOREM TypeCorrect == Spec => []TypeOK
  BY TypeInit, TypeStep, PTL DEF Spec

-----------------------------------------------------------------------------
(* Where a grant can be, besides the row.                                  *)

(* k read this before it deletes or replaces it, or has done so.           *)
InOld(k, g) == g \in {clerk[k].old.access, clerk[k].old.refresh}

Revoking(k) == clerk[k].at \in {"renew", "revoke"}

(* Nobody but the one who received it has g.                               *)
New(g) ==
  /\ g \notin spent \cup revoked
  /\ g \notin {account.access, account.refresh}
  /\ \A k \in Clerks : ~InOld(k, g)

(* Only an account of permanent tokens has tokens of two grants.           *)
OfOneGrant(acc) == acc.access \in Permanent \/ acc.access = acc.refresh

(* The provider knows every grant that is held.                            *)
HeldIsIssued ==
  /\ spent \cup revoked \subseteq issued
  /\ aged \subseteq issued \ Permanent
  /\ \A g \in Grants : Referenced(g) => g \in issued

(* What no fault breaks.                                                   *)
RowInv == TypeOK /\ HeldIsIssued /\ OfOneGrant(account)

(* A grant that is not stored yet is in one place.                         *)
PendingIsNew ==
  /\ \A c \in Callers : call[c].at = "store" =>
       /\ New(call[c].grant)
       /\ \A k \in Clerks : clerk[k].grant # call[c].grant
  /\ \A k \in Clerks : clerk[k].at = "upsert" =>
       /\ New(clerk[k].grant)
       /\ \A j \in Clerks \ {k} : clerk[j].grant # clerk[k].grant

(* What is being revoked is not what is stored.                            *)
RevokedIsOld ==
  \A k \in Clerks : Revoking(k) /\ account.access # Null =>
    ~InOld(k, account.access) /\ clerk[k].grant # account.access

(* The stored tokens were not revoked, and the refresh token was not used  *)
(* except by the caller that holds the lock.                               *)
StoredIsGood ==
  /\ OfOneGrant(account)
  /\ account.refresh \notin Permanent
  /\ account.access \notin revoked
  /\ account.access \notin Permanent /\ (\A c \in Callers : call[c].at # "store")
       => account.access \notin spent
  /\ \A c \in Callers : call[c].at \in {"ask", "clear"} =>
       account.access \notin Permanent \cup {Null}
  /\ \A c \in Callers : call[c].at = "clear" => account.refresh \in lapsed

StoredInv ==
  /\ TypeOK
  /\ HeldIsIssued
  /\ PendingIsNew
  /\ RevokedIsOld
  /\ StoredIsGood

LEMMA StoredInit == Init => StoredInv
  BY TypeInit
  DEF Init, StoredInv, HeldIsIssued, PendingIsNew, RevokedIsOld, StoredIsGood,
      NoGrants, Referenced, Revoking, OfOneGrant, NoAccount, Account, NoCall,
      Call, NoRequest, Request

(* What the later proofs need of the types.                                *)
LEMMA Types ==
  ASSUME TypeOK
  PROVE  /\ account.access \in MaybeGrant
         /\ account.refresh \in MaybeGrant
         /\ \A c \in Callers :
              /\ call[c].grant \in MaybeGrant
              /\ call[c].grant # Null <=> call[c].at = "store"
              /\ lock = c <=> call[c].at \in {"ask", "store", "clear"}
         /\ \A k \in Clerks :
              /\ clerk[k].old.access \in MaybeGrant
              /\ clerk[k].old.refresh \in MaybeGrant
              /\ clerk[k].grant \in MaybeGrant
              /\ clerk[k].grant # Null <=> clerk[k].at \in {"upsert", "revoke"}
  BY DEF TypeOK, Accounts, Calls, Requests

-----------------------------------------------------------------------------
LEMMA RowInit == Init => RowInv
  BY TypeInit
  DEF Init, RowInv, HeldIsIssued, NoGrants, Referenced, OfOneGrant, NoAccount, Account,
      NoCall, Call, NoRequest, Request

(* The provider issues grants, and who holds one got it from there.        *)
LEMMA HeldKept ==
  ASSUME HeldIsIssued, issued \subseteq issued',
         spent' \cup revoked' \subseteq issued',
         aged' \subseteq issued' \ Permanent,
         \A g \in Grants : Referenced(g)' => Referenced(g) \/ g \in issued'
  PROVE  HeldIsIssued'
  BY DEF HeldIsIssued

LEMMA HeldCaller ==
  ASSUME RowInv, NEW c \in Callers, ForAccount(c) \/ RefreshStep(c)
  PROVE  HeldIsIssued' /\ OfOneGrant(account)'
<1> USE DEF RowInv
<1>1. clerk' = clerk /\ UNCHANGED <<revoked, aged>>
  BY DEF ForAccount, RefreshStep, LockAccount, RefreshFails, RefreshGrant, ReplyLost,
     RefreshRejected, StoreTokens, ClearTokens, Refresh
<1>2. issued \subseteq issued' /\ spent' \subseteq issued'
  BY DEF ForAccount, RefreshStep, LockAccount, RefreshFails, RefreshGrant, ReplyLost,
     RefreshRejected, StoreTokens, ClearTokens, Refresh, Works, HeldIsIssued
<1>3. \A d \in Callers : call'[d].grant \in {call[d].grant, Null} \cup issued'
  <2>1. ASSUME NEW x \in {NoCall, Call("lock", account.id, Null), Call("ask", call[c].id, Null),
                          Call("clear", call[c].id, Null)},
               call' = [call EXCEPT ![c] = x]
        PROVE  \A d \in Callers : call'[d].grant \in {call[d].grant, Null}
    BY <2>1 DEF TypeOK, NoCall, Call
  <2>2. CASE RefreshGrant(c)
    BY <2>2 DEF RefreshGrant, Refresh, TypeOK, Call
  <2> QED BY <2>1, <2>2 DEF ForAccount, RefreshStep, LockAccount, RefreshFails, ReplyLost,
          RefreshRejected, StoreTokens, ClearTokens, Return
<1>4. /\ account'.access \in {account.access, call[c].grant, Null}
      /\ account'.refresh \in {account.refresh, call[c].grant, Null}
      /\ OfOneGrant(account)'
  <2>1. CASE account' = Renewed(account, call[c].grant)
    BY <2>1 DEF Renewed, Account, OfOneGrant
  <2>2. CASE account' = Account(account.id, Null, Null)
    BY <2>2 DEF Account, OfOneGrant
  <2>3. CASE account' = account
    BY <2>3
  <2> QED BY <2>1, <2>2, <2>3 DEF ForAccount, RefreshStep, LockAccount, RefreshFails,
          RefreshGrant, ReplyLost, RefreshRejected, StoreTokens, ClearTokens
<1>5. \A g \in Grants : Referenced(g)' => Referenced(g) \/ g \in issued'
  BY <1>1, <1>3, <1>4 DEF Referenced
<1> QED BY <1>1, <1>2, <1>4, <1>5, HeldKept DEF HeldIsIssued

LEMMA HeldClerk ==
  ASSUME RowInv, NEW k \in Clerks, BeginLink(k) \/ Unlink(k) \/ ClerkStep(k)
  PROVE  HeldIsIssued' /\ OfOneGrant(account)'
<1> USE DEF RowInv
<1>1. call' = call /\ aged' = aged
  BY DEF BeginLink, Exchange, Unlink, ClerkStep, LinkFails, Upsert, RenewForRevoke, RenewFails,
     Renew, Refresh, RevokeToken, RevokeGrant
<1>2. issued \subseteq issued' /\ spent' \cup revoked' \subseteq issued'
  <2>1. clerk[k].grant \in issued \cup {Null}
    BY Types DEF HeldIsIssued, Referenced, MaybeGrant
  <2>2. clerk[k].at = "revoke" => clerk[k].grant # Null
    BY Types
  <2> QED BY <2>1, <2>2 DEF BeginLink, Exchange, Unlink, ClerkStep, LinkFails, Upsert,
          RenewForRevoke, RenewFails, Renew, Refresh, Works, RevokeToken, RevokeGrant, HeldIsIssued
<1>3. \A j \in Clerks :
        /\ clerk'[j].grant \in {clerk[j].grant, clerk[j].old.access, Null} \cup issued'
        /\ clerk'[j].old.access \in {clerk[j].old.access, account.access, Null}
        /\ clerk'[j].old.refresh \in {clerk[j].old.refresh, account.refresh, Null}
  <2>1. ASSUME NEW old \in {clerk[k].old, account, NoAccount},
               NEW g \in {clerk[k].old.access, Null} \cup issued', NEW at,
               clerk' = [clerk EXCEPT ![k] = Request(at, old, g)]
        PROVE  \A j \in Clerks :
                 /\ clerk'[j].grant \in {clerk[j].grant, clerk[j].old.access, Null} \cup issued'
                 /\ clerk'[j].old.access \in {clerk[j].old.access, account.access, Null}
                 /\ clerk'[j].old.refresh \in {clerk[j].old.refresh, account.refresh, Null}
    BY <2>1 DEF Request, NoAccount, Account, TypeOK
  <2>2. CASE clerk' = [clerk EXCEPT ![k] = NoRequest]
    BY <2>1, <2>2 DEF NoRequest
  <2>3. CASE clerk' = clerk
    BY <2>3
  <2>4. CASE BeginLink(k)
    BY <2>1, <2>4 DEF BeginLink, Exchange
  <2>5. CASE Upsert(k)
    BY <2>1, <2>2, <2>5 DEF Upsert
  <2>6. CASE RenewForRevoke(k)
    BY <2>1, <2>2, <2>6 DEF RenewForRevoke, Renew, Refresh
  <2>7. CASE Unlink(k)
    BY <2>1, <2>3, <2>7 DEF Unlink
  <2> QED BY <2>2, <2>4, <2>5, <2>6, <2>7 DEF ClerkStep, LinkFails, RenewFails, RevokeToken
<1>4. /\ account'.access \in {account.access, clerk[k].grant, Null}
      /\ account'.refresh \in {account.refresh, clerk[k].grant, Null}
      /\ OfOneGrant(account)'
  <2>1. CASE Upsert(k)
    BY <2>1 DEF Upsert, Renewed, Account, OfOneGrant
  <2>2. CASE account' = NoAccount
    BY <2>2 DEF NoAccount, Account, OfOneGrant
  <2>3. CASE account' = account
    BY <2>3
  <2> QED BY <2>1, <2>2, <2>3 DEF BeginLink, Unlink, ClerkStep, LinkFails, RenewForRevoke,
          RenewFails, RevokeToken
<1>5. \A g \in Grants : Referenced(g)' => Referenced(g) \/ g \in issued'
  BY <1>1, <1>3, <1>4 DEF Referenced
<1> QED BY <1>1, <1>2, <1>4, <1>5, HeldKept DEF HeldIsIssued

LEMMA HeldWorld ==
  ASSUME RowInv, (\E g \in Grants : ForgetGrant(g)) \/ TimePasses \/ WithdrawApp \/ Crash
  PROVE  HeldIsIssued' /\ OfOneGrant(account)'
<1> USE DEF RowInv
<1>1. account' = account
  BY DEF ForgetGrant, TimePasses, WithdrawApp, Crash
<1>2. CASE TimePasses \/ WithdrawApp
  <2>1. issued' = issued /\ UNCHANGED <<call, clerk>> /\ spent' \cup revoked' \subseteq issued
        /\ aged' \subseteq issued \ Permanent
    BY <1>2 DEF TimePasses, Age, Lapse, WithdrawApp, Withdraw, HeldIsIssued
  <2>2. \A g \in Grants : Referenced(g)' => Referenced(g)
    BY <1>1, <2>1 DEF Referenced
  <2> QED BY <1>1, <2>1, <2>2, HeldKept
<1>3. CASE Crash
  <2>1. \A g \in Grants : Referenced(g)' => Referenced(g)
    BY <1>1, <1>3 DEF Crash, Referenced, NoCall, Call, NoRequest, Request, NoAccount, Account
  <2> QED BY <1>1, <1>3, <2>1, HeldKept DEF Crash, HeldIsIssued
<1>4. ASSUME NEW g \in Grants, ForgetGrant(g)
      PROVE  HeldIsIssued'
  <2>1. \A h \in Grants : Referenced(h)' => Referenced(h) /\ h # g
    BY <1>4 DEF ForgetGrant, Referenced
  <2> QED BY <1>4, <2>1 DEF ForgetGrant, Recycle, HeldIsIssued
<1> QED BY <1>1, <1>2, <1>3, <1>4

LEMMA RowStep ==
  ASSUME RowInv, [Next]_vars
  PROVE  RowInv'
<1>1. TypeOK'
  BY TypeStep DEF RowInv
<1>2. CASE UNCHANGED vars
  BY <1>1, <1>2 DEF vars, RowInv, HeldIsIssued, Referenced, OfOneGrant
<1> QED BY <1>1, <1>2, HeldCaller, HeldClerk, HeldWorld DEF RowInv, Next

-----------------------------------------------------------------------------
(* A step that keeps the row and gives nobody a grant he did not have.     *)
LEMMA StoredKept ==
  ASSUME StoredInv, RowInv',
         account' = account, spent' = spent,
         revoked' = revoked \/ \E k \in Clerks :
           clerk[k].at = "revoke" /\ revoked' = revoked \cup {clerk[k].grant},
         lapsed \subseteq lapsed',
         \A c \in Callers :
           /\ call'[c].grant \in {call[c].grant, Null}
           /\ call'[c].at = "store" <=> call[c].at = "store"
           /\ call'[c].at \in {"ask", "clear"} =>
                account.access \notin Permanent \cup {Null}
           /\ call'[c].at = "clear" => account.refresh \in lapsed',
         \A k \in Clerks :
           \/ clerk'[k] = clerk[k]
           \/ clerk'[k] = NoRequest
           \/ /\ clerk[k].at = "renew"
              /\ clerk'[k] = Request("revoke", clerk[k].old, clerk[k].old.access)
  PROVE  StoredInv'
<1> USE DEF StoredInv
<1>1. \A c \in Callers : call'[c].at = "store" =>
        call'[c].grant = call[c].grant /\ call[c].at = "store"
  BY Types DEF RowInv, TypeOK, Calls
<1>2. \A k \in Clerks :
        /\ clerk'[k].old.access \in {clerk[k].old.access, Null}
        /\ clerk'[k].old.refresh \in {clerk[k].old.refresh, Null}
        /\ clerk'[k].grant \in {clerk[k].grant, clerk[k].old.access, Null}
        /\ clerk'[k].at = "upsert" =>
             clerk[k].at = "upsert" /\ clerk'[k].grant = clerk[k].grant
        /\ Revoking(k)' => Revoking(k)
  <2> SUFFICES ASSUME NEW k \in Clerks
               PROVE  /\ clerk'[k].old.access \in {clerk[k].old.access, Null}
                      /\ clerk'[k].old.refresh \in {clerk[k].old.refresh, Null}
                      /\ clerk'[k].grant \in {clerk[k].grant, clerk[k].old.access, Null}
                      /\ clerk'[k].at = "upsert" =>
                           clerk[k].at = "upsert" /\ clerk'[k].grant = clerk[k].grant
                      /\ Revoking(k)' => Revoking(k)
    OBVIOUS
  <2>1. CASE clerk'[k] = clerk[k]
    BY <2>1 DEF Revoking
  <2>2. CASE clerk'[k] = NoRequest
    BY <2>2 DEF NoRequest, Request, NoAccount, Account, Revoking
  <2>3. CASE /\ clerk[k].at = "renew"
             /\ clerk'[k] = Request("revoke", clerk[k].old, clerk[k].old.access)
    BY <2>3 DEF Request, Revoking
  <2> QED
    BY <2>1, <2>2, <2>3
<1>3. PendingIsNew'
  <2>1. ASSUME NEW g \in Grants, New(g),
               \A k \in Clerks : clerk[k].at = "revoke" => clerk[k].grant # g
        PROVE  New(g)'
    BY <1>2, <2>1 DEF New, InOld
  <2>2. ASSUME NEW c \in Callers, call'[c].at = "store"
        PROVE  New(call[c].grant)' /\ \A k \in Clerks : clerk'[k].grant # call'[c].grant
    BY <1>1, <1>2, <2>1, <2>2, Types DEF PendingIsNew, New, InOld, MaybeGrant
  <2>3. ASSUME NEW k \in Clerks, clerk'[k].at = "upsert"
        PROVE  /\ New(clerk[k].grant)'
               /\ \A j \in Clerks \ {k} : clerk'[j].grant # clerk'[k].grant
    BY <1>2, <2>1, <2>3, Types DEF PendingIsNew, New, InOld, MaybeGrant
  <2> QED
    BY <2>2, <2>3 DEF PendingIsNew
<1>4. RevokedIsOld'
  BY <1>2 DEF RevokedIsOld, InOld
<1>5. StoredIsGood'
  <2>1. account.access \notin revoked'
    <3>1. account.access \notin revoked
      BY DEF StoredIsGood
    <3>2. ASSUME NEW k \in Clerks, clerk[k].at = "revoke"
          PROVE  clerk[k].grant # account.access
      BY <3>2, Types DEF RevokedIsOld, Revoking
    <3> QED
      BY <3>1, <3>2
  <2> QED
    BY <2>1 DEF StoredIsGood, OfOneGrant
<1> QED
  BY <1>3, <1>4, <1>5 DEF RowInv

(* A grant the provider has not issued is nowhere.                         *)
LEMMA Unissued ==
  ASSUME HeldIsIssued, NEW g \in Grants \ issued
  PROVE  /\ New(g)
         /\ g \notin aged
         /\ \A c \in Callers : call[c].grant # g
         /\ \A k \in Clerks : clerk[k].grant # g
  BY DEF HeldIsIssued, Referenced, New, InOld

LEMMA StoredForAccount ==
  ASSUME StoredInv, NEW c \in Callers, ForAccount(c)
  PROVE  StoredInv'
<1>1. RowInv'
  BY RowStep DEF StoredInv, StoredIsGood, RowInv, Next
<1>2. \A d \in Callers : \/ call'[d] = call[d]
                         \/ /\ call'[d] = Call("lock", account.id, Null)
                            /\ call[d].at = "idle"
  BY DEF ForAccount, StoredInv, TypeOK
<1> QED
  BY <1>1, <1>2, StoredKept
  DEF ForAccount, Call, StoredInv, StoredIsGood, HeldIsIssued

LEMMA StoredRefreshStep ==
  ASSUME StoredInv, NEW c \in Callers, RefreshStep(c),
         Faults \cap {"reply", "store"} = {}
  PROVE  StoredInv'
<1> USE DEF StoredInv, RowInv
<1>1. RowInv'
  BY RowStep DEF StoredIsGood, Next
<1>2. ASSUME NEW x, call' = [call EXCEPT ![c] = x]
      PROVE  call'[c] = x /\ \A d \in Callers \ {c} : call'[d] = call[d]
  BY <1>2 DEF TypeOK
<1>3. CASE LockAccount(c)
  <2>1. CASE call' = [call EXCEPT ![c] = Call("ask", @.id, Null)]
    <3>1. account.access \notin Permanent \cup {Null}
      BY <1>3, <2>1, <1>2, <1>1
      DEF LockAccount, NeedsRefresh, CanRefresh, HeldIsIssued, StoredIsGood,
          OfOneGrant, TypeOK, Call, Return, NoCall
    <3> QED
      BY <1>1, <1>2, <1>3, <2>1, <3>1, StoredKept
      DEF LockAccount, Call, StoredIsGood, HeldIsIssued
  <2>2. CASE Return(c)
    BY <1>1, <1>2, <1>3, <2>2, StoredKept
    DEF LockAccount, Return, NoCall, Call, StoredIsGood, HeldIsIssued
  <2> QED
    BY <1>3, <2>1, <2>2 DEF LockAccount
<1>4. CASE RefreshFails(c)
  BY <1>1, <1>2, <1>4, StoredKept
  DEF RefreshFails, Return, NoCall, Call, StoredIsGood, HeldIsIssued
<1>5. CASE RefreshRejected(c)
  <2>1. account.refresh \in lapsed
    BY <1>5, Types
    DEF RefreshRejected, Works, StoredIsGood, HeldIsIssued, OfOneGrant,
        Referenced, MaybeGrant
  <2> QED
    BY <1>1, <1>2, <1>5, <2>1, StoredKept
    DEF RefreshRejected, Call, StoredIsGood, HeldIsIssued
<1>6. CASE RefreshGrant(c)
  <2>1. PICK g \in Grants \ issued :
          /\ issued' = issued \cup {g}
          /\ spent' = spent \cup {account.refresh}
          /\ call' = [call EXCEPT ![c] = Call("store", @.id, g)]
          /\ Works(account.refresh)
    BY <1>6 DEF RefreshGrant, Refresh
  <2>2. /\ UNCHANGED <<revoked, aged, lapsed, account, lock, clerk>>
        /\ call[c].at = "ask"
    BY <1>6 DEF RefreshGrant, Refresh
  <2>3. /\ call'[c].at = "store" /\ call'[c].grant = g
        /\ \A d \in Callers \ {c} :
             call'[d] = call[d] /\ call[d].at \notin {"ask", "store", "clear"}
    <3>1. \A d \in Callers \ {c} : call[d].at \notin {"ask", "store", "clear"}
      BY <2>2, Types
    <3> QED
      BY <2>1, <1>2, <3>1 DEF Call
  <2>4. PendingIsNew'
    BY <2>1, <2>2, <2>3, Types, Unissued
    DEF PendingIsNew, New, InOld
  <2>5. RevokedIsOld'
    BY <2>2 DEF RevokedIsOld, InOld, Revoking
  <2>6. StoredIsGood'
    BY <2>2, <2>3 DEF StoredIsGood, OfOneGrant
  <2> QED
    BY <1>1, <2>4, <2>5, <2>6
<1>7. CASE StoreTokens(c)
  <2> DEFINE g == call[c].grant
  <2>1. /\ account' = Renewed(account, g)
        /\ UNCHANGED <<issued, spent, revoked, aged, lapsed, clerk>>
        /\ g \in Grants
        /\ call[c].at = "store"
    BY <1>7, Types DEF StoreTokens, MaybeGrant
  <2>2. /\ call'[c] = NoCall
        /\ \A d \in Callers \ {c} :
             call'[d] = call[d] /\ call[d].at \notin {"ask", "store", "clear"}
    BY <1>7, <2>1, <1>2, Types DEF StoreTokens, Return
  <2>3. /\ account'.access = g
        /\ account'.refresh = IF g \in Permanent THEN account.refresh ELSE g
    BY <2>1 DEF Renewed, Account
  <2>4. New(g) /\ \A k \in Clerks : clerk[k].grant # g
    BY <2>1 DEF PendingIsNew
  <2>5. PendingIsNew'
    BY <2>1, <2>2, <2>3, <2>4 DEF PendingIsNew, New, InOld, NoCall, Call
  <2>6. RevokedIsOld'
    BY <2>1, <2>3, <2>4 DEF RevokedIsOld, New, InOld, Revoking
  <2>7. StoredIsGood'
    BY <2>1, <2>2, <2>3, <2>4 DEF StoredIsGood, OfOneGrant, New, NoCall, Call
  <2> QED
    BY <1>1, <2>5, <2>6, <2>7
<1>8. CASE ClearTokens(c)
  <2>1. /\ account'.access = Null /\ account'.refresh = Null
        /\ UNCHANGED <<issued, spent, revoked, aged, lapsed, clerk>>
        /\ call[c].at = "clear"
    BY <1>8 DEF ClearTokens, Account
  <2>2. /\ call'[c] = NoCall
        /\ \A d \in Callers \ {c} :
             call'[d] = call[d] /\ call[d].at \notin {"ask", "store", "clear"}
    <3>1. \A d \in Callers \ {c} : call[d].at \notin {"ask", "store", "clear"}
      BY <2>1, Types
    <3> QED
      BY <1>8, <1>2, <3>1 DEF ClearTokens, Return
  <2>3. PendingIsNew'
    BY <2>1, <2>2, Types DEF PendingIsNew, New, InOld, NoCall, Call, MaybeGrant
  <2>4. RevokedIsOld'
    BY <2>1 DEF RevokedIsOld
  <2>5. StoredIsGood'
    BY <2>1, <2>2, Types
    DEF StoredIsGood, OfOneGrant, NoCall, Call, HeldIsIssued, MaybeGrant,
        TypeOK, ProviderTypeOK
  <2> QED
    BY <1>1, <2>3, <2>4, <2>5
<1> QED
  BY <1>3, <1>4, <1>5, <1>6, <1>7, <1>8 DEF RefreshStep, ReplyLost

(* Refreshing what is being revoked leaves what is stored alone.           *)
LEMMA StoredRenew ==
  ASSUME StoredInv, RowInv', NEW k \in Clerks, NEW g \in Grants,
         clerk[k].at = "renew",
         clerk[k].old.refresh # Null,
         Refresh(clerk[k].old.refresh, g),
         UNCHANGED <<account, lock, call>>,
         \A j \in Clerks \ {k} : clerk'[j] = clerk[j],
         clerk'[k] \in {NoRequest, Request("revoke", clerk[k].old, g)}
  PROVE  StoredInv'
<1> USE DEF StoredInv, RowInv
<1>1. /\ issued' = issued \cup {g}
      /\ g \notin issued
      /\ spent' = spent \cup {clerk[k].old.refresh}
      /\ clerk[k].old.refresh \in issued
      /\ UNCHANGED <<revoked, aged, lapsed>>
  BY DEF Refresh, Works
<1>2. /\ clerk'[k].at \in {"idle", "revoke"}
      /\ clerk'[k].grant \in {Null, g}
      /\ clerk'[k].old.access \in {Null, clerk[k].old.access}
      /\ clerk'[k].old.refresh \in {Null, clerk[k].old.refresh}
  BY DEF NoRequest, Request, NoAccount, Account
<1>3. \A x \in Grants : New(x) => New(x)'
  BY <1>1, <1>2 DEF New, InOld
<1>4. PendingIsNew'
  BY <1>1, <1>2, <1>3, Types, Unissued DEF PendingIsNew, MaybeGrant
<1>5. account.access # g
  BY <1>1, Unissued DEF New
<1>6. RevokedIsOld'
  BY <1>1, <1>2, <1>5 DEF RevokedIsOld, InOld, Revoking
<1>7. StoredIsGood'
  BY <1>1 DEF StoredIsGood, OfOneGrant, RevokedIsOld, Revoking, InOld
<1> QED
  BY <1>4, <1>6, <1>7

LEMMA StoredClerk ==
  ASSUME StoredInv, NEW k \in Clerks, BeginLink(k) \/ Unlink(k) \/ ClerkStep(k)
  PROVE  StoredInv'
<1> USE DEF StoredInv, RowInv
<1>1. RowInv'
  BY RowStep DEF StoredIsGood, Next
<1>2. ASSUME NEW x, clerk' = [clerk EXCEPT ![k] = x]
      PROVE  clerk'[k] = x /\ \A j \in Clerks \ {k} : clerk'[j] = clerk[j]
  BY <1>2 DEF TypeOK
<1>3. CASE BeginLink(k)
  <2>1. PICK g \in Grants \ issued :
          /\ issued' = issued \cup {g}
          /\ clerk' = [clerk EXCEPT ![k] = Request("upsert", account, g)]
    BY <1>3 DEF BeginLink, Exchange
  <2>2. UNCHANGED <<spent, revoked, aged, lapsed, account, lock, call>>
    BY <1>3 DEF BeginLink, Exchange
  <2>3. /\ clerk'[k] = [at |-> "upsert", old |-> account, grant |-> g]
        /\ \A j \in Clerks \ {k} : clerk'[j] = clerk[j]
    BY <2>1, <1>2 DEF Request
  <2>4. \A x \in Grants : New(x) => New(x)'
    BY <2>2, <2>3 DEF New, InOld
  <2>5. PendingIsNew'
    BY <2>1, <2>2, <2>3, <2>4, Types, Unissued DEF PendingIsNew, MaybeGrant
  <2>6. RevokedIsOld'
    BY <2>2, <2>3 DEF RevokedIsOld, InOld, Revoking
  <2>7. StoredIsGood'
    BY <2>2 DEF StoredIsGood, OfOneGrant
  <2> QED
    BY <1>1, <2>5, <2>6, <2>7
<1>4. CASE LinkFails(k)
  BY <1>1, <1>2, <1>4, StoredKept DEF LinkFails, StoredIsGood, HeldIsIssued
<1>5. CASE RevokeToken(k)
  BY <1>1, <1>2, <1>5, StoredKept
  DEF RevokeToken, RevokeGrant, StoredIsGood, HeldIsIssued
<1>6. CASE RenewForRevoke(k)
  <2>1. ASSUME NEW g \in Grants, Refresh(clerk[k].old.refresh, g),
               CanRefresh(clerk[k].old),
               clerk' = [clerk EXCEPT ![k] = Request("revoke", @.old, g)]
        PROVE  StoredInv'
    BY <1>1, <1>2, <1>6, <2>1, StoredRenew DEF RenewForRevoke, CanRefresh
  <2>2. CASE /\ UNCHANGED providerVars
             /\ \/ clerk' = [clerk EXCEPT ![k] = NoRequest]
                \/ clerk' = [clerk EXCEPT ![k] =
                                Request("revoke", @.old, @.old.access)]
    BY <1>1, <1>2, <1>6, <2>2, StoredKept
    DEF RenewForRevoke, StoredIsGood, HeldIsIssued
  <2> QED
    BY <1>6, <2>1, <2>2 DEF RenewForRevoke, Renew
<1>7. CASE RenewFails(k)
  <2>1. ASSUME NEW g \in Grants, Refresh(clerk[k].old.refresh, g)
        PROVE  StoredInv'
    BY <1>1, <1>2, <1>7, <2>1, StoredRenew DEF RenewFails, CanRefresh
  <2>2. CASE UNCHANGED providerVars
    BY <1>1, <1>2, <1>7, <2>2, StoredKept
    DEF RenewFails, StoredIsGood, HeldIsIssued
  <2> QED
    BY <1>7, <2>1, <2>2 DEF RenewFails, Renew
<1>8. CASE Unlink(k)
  <2>1. /\ account'.access = Null /\ account'.refresh = Null
        /\ UNCHANGED <<issued, spent, revoked, aged, lapsed, lock, call>>
        /\ clerk[k].at = "idle"
    BY <1>8 DEF Unlink, NoAccount, Account
  <2>2. /\ \/ clerk'[k] = [at |-> "renew", old |-> account, grant |-> Null]
           \/ clerk'[k] = clerk[k]
        /\ \A j \in Clerks \ {k} : clerk'[j] = clerk[j]
    BY <1>8, <1>2 DEF Unlink, Request
  <2>3. \A x \in Grants : New(x) => New(x)'
    BY <2>1, <2>2 DEF New, InOld
  <2>4. PendingIsNew'
    BY <2>1, <2>2, <2>3, Types DEF PendingIsNew, MaybeGrant
  <2>5. RevokedIsOld'
    BY <2>1 DEF RevokedIsOld
  <2>6. StoredIsGood'
    <3>1. \A c \in Callers : call[c].at \notin {"ask", "clear"}
      BY <1>8, Types DEF Unlink
    <3> QED
      BY <2>1, <3>1 DEF StoredIsGood, OfOneGrant, TypeOK, ProviderTypeOK
  <2> QED
    BY <1>1, <2>4, <2>5, <2>6
<1>9. CASE Upsert(k)
  <2> DEFINE g == clerk[k].grant
  <2>1. /\ UNCHANGED <<issued, spent, revoked, aged, lapsed, lock, call>>
        /\ clerk[k].at = "upsert"
        /\ g \in Grants
        /\ \A c \in Callers : call[c].at \notin {"ask", "store", "clear"}
    BY <1>9, Types DEF Upsert, MaybeGrant
  <2>2. /\ account'.access = g
        /\ \/ account'.refresh = g /\ g \notin Permanent
           \/ account'.refresh \in {account.refresh, Null} /\ g \in Permanent
    BY <1>9 DEF Upsert, Renewed, Account
  <2>3. /\ \/ clerk'[k] = [at |-> "renew", old |-> clerk[k].old, grant |-> Null]
           \/ clerk'[k] = NoRequest
        /\ \A j \in Clerks \ {k} : clerk'[j] = clerk[j]
    BY <1>9, <1>2 DEF Upsert, Request
  <2>4. /\ clerk'[k].at \in {"renew", "idle"}
        /\ clerk'[k].grant = Null
        /\ clerk'[k].old.access \in {clerk[k].old.access, Null}
        /\ clerk'[k].old.refresh \in {clerk[k].old.refresh, Null}
    BY <2>3 DEF NoRequest, Request, NoAccount, Account
  <2>5. New(g) /\ \A j \in Clerks \ {k} : clerk[j].grant # g
    BY <2>1 DEF PendingIsNew
  <2>6. PendingIsNew'
    <3>1. ASSUME NEW x \in Grants, New(x), x # g
          PROVE  New(x)'
      BY <2>1, <2>2, <2>3, <2>4, <3>1 DEF New, InOld
    <3>2. \A c \in Callers : call'[c].at # "store"
      BY <2>1
    <3>3. \A j \in Clerks : clerk'[j].at = "upsert" =>
            j # k /\ clerk'[j] = clerk[j] /\ clerk[j].grant \in Grants \ {g}
      BY <2>3, <2>4, <2>5, Types DEF MaybeGrant
    <3> QED
      BY <2>4, <2>3, <3>1, <3>2, <3>3 DEF PendingIsNew
  <2>7. RevokedIsOld'
    BY <2>1, <2>2, <2>3, <2>4, <2>5 DEF RevokedIsOld, InOld, New, Revoking
  <2>8. StoredIsGood'
    BY <2>1, <2>2, <2>5 DEF StoredIsGood, OfOneGrant, New
  <2> QED
    BY <1>1, <2>6, <2>7, <2>8
<1> QED
  BY <1>3, <1>4, <1>5, <1>6, <1>7, <1>8, <1>9 DEF ClerkStep

LEMMA StoredWorld ==
  ASSUME StoredInv, (\E g \in Grants : ForgetGrant(g)) \/ TimePasses
  PROVE  StoredInv'
<1> USE DEF StoredInv, RowInv
<1>1. RowInv'
  BY RowStep DEF StoredIsGood, Next
<1>2. CASE TimePasses
  BY <1>1, <1>2, StoredKept
  DEF TimePasses, Age, Lapse, StoredIsGood, HeldIsIssued, TypeOK, ProviderTypeOK
<1>3. ASSUME NEW g \in Grants, ForgetGrant(g)
      PROVE  StoredInv'
  <2>1. /\ UNCHANGED <<account, lock, call, clerk>>
        /\ issued' = issued \ {g} /\ spent' = spent \ {g} /\ revoked' = revoked \ {g}
        /\ aged' = aged \ {g} /\ lapsed' = lapsed \ {g}
        /\ ~Referenced(g)
    BY <1>3 DEF ForgetGrant, Recycle
  <2>2. \A x \in Grants : Referenced(x)' <=> Referenced(x)
    BY <2>1 DEF Referenced
  <2>3. PendingIsNew'
    BY <2>1 DEF PendingIsNew, New, InOld
  <2>4. RevokedIsOld'
    BY <2>1 DEF RevokedIsOld, InOld, Revoking
  <2>5. StoredIsGood'
    BY <2>1 DEF StoredIsGood, OfOneGrant, Referenced
  <2> QED
    BY <1>1, <2>3, <2>4, <2>5
<1> QED
  BY <1>2, <1>3

LEMMA StoredStutters == StoredInv /\ UNCHANGED vars => StoredInv'
<1> SUFFICES ASSUME StoredInv, UNCHANGED vars PROVE StoredInv'
  OBVIOUS
<1>1. TypeOK'
  BY TypeStutters DEF StoredInv
<1> QED
  BY <1>1
  DEF vars, StoredInv, HeldIsIssued, PendingIsNew, RevokedIsOld, StoredIsGood,
      Referenced, New, InOld, Revoking, OfOneGrant

LEMMA StoredUsable == StoredInv => AccountStaysUsable
  BY Types
  DEF StoredInv, AccountStaysUsable, StoredIsGood, HeldIsIssued, NeedsRefresh,
      CanRefresh, Works, OfOneGrant, Referenced, MaybeGrant

LEMMA StoredCorrect ==
  ASSUME Faults \subseteq {"revoke"}
  PROVE  Spec => []StoredInv
<1>1. StoredInv /\ [Next]_vars => StoredInv'
  BY StoredForAccount, StoredRefreshStep, StoredClerk, StoredWorld,
     StoredStutters
  DEF Next, WithdrawApp, Crash
<1> QED
  BY StoredInit, <1>1, PTL DEF Spec

(* Whatever calls, links, re-links and unlinks overlap, and also when      *)
(* revocations fail, the stored tokens are accepted by the provider until  *)
(* they expire.                                                            *)
THEOREM AccountsStayUsable ==
  ASSUME Faults \subseteq {"revoke"}
  PROVE  Spec => []AccountStaysUsable
BY StoredCorrect, StoredUsable, PTL

-----------------------------------------------------------------------------
(* The account as LinkedAccount sees it.                                   *)
LEMMA CurrentStored ==
  ASSUME TypeOK, NEW c \in Callers, call[c].at = "store"
  PROVE  Current = call[c].grant
<1>1. \A d \in Callers : call[d].at = "store" <=> d = c
  BY Types
<1> QED BY <1>1 DEF Current

LEMMA CurrentRow ==
  ASSUME \A c \in Callers : call[c].at # "store"
  PROVE  Current = account.access
BY DEF Current

LEMMA CurrentKept ==
  ASSUME account' = account,
         \A c \in Callers :
           \/ call'[c] = call[c]
           \/ call[c].at # "store" /\ call'[c].at # "store"
  PROVE  Current' = Current
<1> DEFINE storing == {c \in Callers : call[c].at = "store"}
           first == CHOOSE c \in storing : TRUE
<1>1. storing' = storing /\ \A c \in storing : call'[c] = call[c]
  OBVIOUS
<1>2. /\ Current = IF storing = {} THEN account.access ELSE call[first].grant
      /\ Current' = IF storing' = {} THEN account'.access ELSE call'[first'].grant
  BY DEF Current
<1>3. first' = first
  BY <1>1
<1>4. storing # {} => first \in storing
  OBVIOUS
<1> HIDE DEF storing, first
<1> QED BY <1>1, <1>2, <1>3, <1>4

(* A stored grant is neither revoked nor renewed by a request.             *)
LEMMA CurrentIsLeft ==
  ASSUME StoredInv, NEW k \in Clerks
  PROVE  /\ clerk[k].at = "revoke" => clerk[k].grant # Current
         /\ clerk[k].at = "renew" /\ clerk[k].old.refresh # Null
              => clerk[k].old.refresh # Current
<1>1. TypeOK
  BY DEF StoredInv
<1>2. CASE \E c \in Callers : call[c].at = "store"
  <2>1. PICK c \in Callers : call[c].at = "store"
    BY <1>2
  <2> QED BY <1>1, <2>1, CurrentStored DEF StoredInv, PendingIsNew, New, InOld
<1>3. CASE \A c \in Callers : call[c].at # "store"
  BY <1>1, <1>3, CurrentRow, Types DEF StoredInv, RevokedIsOld, Revoking, InOld
<1> QED BY <1>2, <1>3

OneGrantStep == [OneGrant!LinkNext]_(OneGrant!linkVars)

LEMMA OneGrantStutters ==
  ASSUME UNCHANGED providerVars, Current' = Current,
         account' # NoAccount <=> account # NoAccount
  PROVE  OneGrantStep
<1>1. (account' # NoAccount) = (account # NoAccount)
  OBVIOUS
<1> QED BY <1>1 DEF OneGrantStep, OneGrant!linkVars, OneGrant!providerVars, providerVars

LEMMA OneGrantElsewhere ==
  ASSUME Current' = Current, account' = account,
         \E g \in Grants :
           \/ Exchange(g)
           \/ \E old \in Grants \ {Current} : Refresh(old, g)
           \/ g # Current /\ (RevokeGrant(g) \/ Recycle(g))
  PROVE  OneGrantStep
BY DEF OneGrantStep, OneGrant!LinkNext, OneGrant!Elsewhere, OneGrant!Exchange, Exchange,
       OneGrant!Refresh, Refresh, OneGrant!Works, Works, OneGrant!RevokeGrant, RevokeGrant,
       OneGrant!Recycle, Recycle, OneGrant!Alive, Alive

(* The calls of ForAccount.                                                *)
LEMMA OneGrantCaller ==
  ASSUME StoredInv, TypeOK', Faults \subseteq {"revoke"},
         NEW c \in Callers, ForAccount(c) \/ RefreshStep(c)
  PROVE  OneGrantStep
<1>1. TypeOK
  BY DEF StoredInv
<1>2. ASSUME NEW x, call' = [call EXCEPT ![c] = x]
      PROVE  call'[c] = x /\ \A d \in Callers \ {c} : call'[d] = call[d]
  BY <1>1, <1>2 DEF TypeOK
<1>3. CASE ForAccount(c) \/ LockAccount(c) \/ RefreshFails(c) \/ RefreshRejected(c)
  <2>1. UNCHANGED <<account, providerVars>>
    BY <1>3 DEF ForAccount, LockAccount, RefreshFails, RefreshRejected, storedVars
  <2>2. PICK x : call' = [call EXCEPT ![c] = x] /\ x.at # "store" /\ call[c].at # "store"
    BY <1>3
    DEF ForAccount, LockAccount, RefreshFails, RefreshRejected, Return, NoCall, Call
  <2>3. Current' = Current
    BY <1>2, <2>1, <2>2, CurrentKept
  <2> QED BY <2>1, <2>3, OneGrantStutters
<1>4. CASE RefreshGrant(c)
  <2>1. PICK g \in Grants :
          /\ Refresh(account.refresh, g) /\ UNCHANGED storedVars
          /\ call' = [call EXCEPT ![c] = Call("store", call[c].id, g)]
    BY <1>4 DEF RefreshGrant
  <2>2. call[c].at = "ask" /\ \A d \in Callers : call[d].at # "store"
    BY <1>1, <1>4, Types DEF RefreshGrant
  <2>3. Current = account.refresh
    BY <2>2, CurrentRow DEF StoredInv, StoredIsGood, OfOneGrant
  <2>4. call'[c].at = "store" /\ call'[c].grant = g
    BY <1>2, <2>1 DEF Call
  <2>5. Current' = g
    <3>1. \A d \in Callers : call'[d].at = "store" <=> d = c
      BY <1>2, <2>1, <2>2, <2>4
    <3> QED BY <2>4, <3>1 DEF Current
  <2>6. account' = account
    BY <2>1 DEF storedVars
  <2> QED BY <2>1, <2>3, <2>5, <2>6
    DEF OneGrantStep, OneGrant!LinkNext, OneGrant!Renew, OneGrant!Refresh, Refresh,
        OneGrant!Works, Works
<1>5. CASE StoreTokens(c)
  <2>1. /\ call[c].at = "store" /\ account' = Renewed(account, call[c].grant)
        /\ UNCHANGED providerVars /\ call' = [call EXCEPT ![c] = NoCall]
    BY <1>5 DEF StoreTokens, Return
  <2>2. \A d \in Callers : call'[d].at # "store"
    <3>1. \A d \in Callers : call[d].at = "store" => d = c
      BY <1>1, <2>1, Types
    <3>2. call'[c].at = "idle"
      BY <1>2, <2>1 DEF NoCall, Call
    <3> QED BY <1>2, <2>1, <3>1, <3>2
  <2>3. Current' = account'.access
    BY <2>2 DEF Current
  <2>4. Current' = Current
    BY <1>1, <2>1, <2>3, CurrentStored DEF Renewed, Account
  <2>5. account # NoAccount /\ account' # NoAccount
    BY <1>1, <2>1, Types DEF TypeOK, NoAccount, Renewed, Account
  <2> QED BY <2>1, <2>4, <2>5, OneGrantStutters
<1>6. CASE ClearTokens(c)
  <2>1. /\ call[c].at = "clear" /\ account' = Account(account.id, Null, Null)
        /\ UNCHANGED providerVars /\ call' = [call EXCEPT ![c] = NoCall]
    BY <1>6 DEF ClearTokens, Return
  <2>2. /\ \A d \in Callers : call[d].at # "store"
        /\ \A d \in Callers : call'[d].at # "store"
    BY <1>1, <1>2, <2>1, Types DEF NoCall, Call
  <2>3. Current = account.access /\ Current' = Null
    BY <2>1, <2>2 DEF Current, Account
  <2>4. Current \in lapsed
    BY <2>1, <2>3 DEF StoredInv, StoredIsGood, OfOneGrant
  <2>5. account # NoAccount /\ account' # NoAccount
    BY <1>1, <2>1, Types DEF TypeOK, NoAccount, Account
  <2> QED BY <2>1, <2>3, <2>4, <2>5
    DEF OneGrantStep, OneGrant!LinkNext, OneGrant!GiveUp, OneGrant!providerVars, providerVars
<1> QED BY <1>3, <1>4, <1>5, <1>6 DEF RefreshStep, ReplyLost

(* The requests that link, re-link and unlink.                             *)
LEMMA OneGrantClerk ==
  ASSUME StoredInv, Faults \subseteq {"revoke"},
         NEW k \in Clerks, BeginLink(k) \/ Unlink(k) \/ ClerkStep(k)
  PROVE  OneGrantStep
<1>1. TypeOK
  BY DEF StoredInv
<1>2. call' = call
  BY DEF BeginLink, Unlink, ClerkStep, LinkFails, Upsert, RenewForRevoke, RenewFails, RevokeToken
<1>3. account' = account => Current' = Current
  BY <1>2, CurrentKept
<1>4. ASSUME lock = Null
      PROVE  Current = account.access /\ Current' = account'.access
  BY <1>1, <1>2, <1>4, Types, CredentialsAssumption DEF Current
<1>5. CASE BeginLink(k)
  <2>1. account' = account /\ \E g \in Grants : Exchange(g)
    BY <1>5 DEF BeginLink, storedVars
  <2> QED BY <1>3, <2>1, OneGrantElsewhere
<1>6. CASE Upsert(k)
  <2> DEFINE g == clerk[k].grant
  <2>1. lock = Null /\ clerk[k].at = "upsert" /\ UNCHANGED providerVars
    BY <1>6 DEF Upsert
  <2>2. g \in Grants /\ g \in issued \ (spent \cup revoked)
    BY <1>1, <2>1, Types DEF StoredInv, PendingIsNew, New, HeldIsIssued, Referenced, MaybeGrant
  <2>3. PICK acc : account' = Renewed(acc, g) /\ acc.id # Null
    <3>1. CASE account = NoAccount
      <4>1. PICK id \in Ids : account' = Renewed(Account(id, Null, Null), g)
        BY <1>6, <3>1 DEF Upsert, FreshIds
      <4>2. Account(id, Null, Null).id # Null
        BY CredentialsAssumption DEF Account
      <4> QED BY <4>1, <4>2
    <3>2. CASE account # NoAccount
      <4>1. account' = Renewed(account, g)
        BY <1>6, <3>2 DEF Upsert
      <4> QED BY <1>1, <3>2, <4>1 DEF TypeOK
    <3> QED BY <3>1, <3>2
  <2>4. account' # NoAccount /\ account'.access = g
    BY <2>3 DEF Renewed, Account, NoAccount
  <2> QED BY <1>4, <2>1, <2>2, <2>4
    DEF OneGrantStep, OneGrant!LinkNext, OneGrant!Link, OneGrant!providerVars, providerVars
<1>7. CASE Unlink(k)
  <2>1. /\ lock = Null /\ account # NoAccount /\ account' = NoAccount
        /\ UNCHANGED providerVars
    BY <1>7 DEF Unlink
  <2>2. account'.access = Null
    BY <2>1 DEF NoAccount, Account
  <2> QED BY <1>4, <2>1, <2>2
    DEF OneGrantStep, OneGrant!LinkNext, OneGrant!Unlink, OneGrant!providerVars, providerVars
<1>8. CASE LinkFails(k)
  <2>1. UNCHANGED <<account, providerVars>>
    BY <1>8 DEF LinkFails, storedVars
  <2> QED BY <1>3, <2>1, OneGrantStutters
<1>9. CASE RenewForRevoke(k) \/ RenewFails(k)
  <2> DEFINE old == clerk[k].old.refresh
  <2>1. account' = account /\ clerk[k].at = "renew"
    BY <1>9 DEF RenewForRevoke, RenewFails, storedVars
  <2>2. UNCHANGED providerVars \/ (old # Null /\ \E g \in Grants : Refresh(old, g))
    BY <1>9 DEF RenewForRevoke, RenewFails, CanRefresh, Renew
  <2>3. CASE UNCHANGED providerVars
    BY <1>3, <2>1, <2>3, OneGrantStutters
  <2>4. CASE old # Null /\ \E g \in Grants : Refresh(old, g)
    <3>1. old \in Grants \ {Current}
      BY <1>1, <2>1, <2>4, Types, CurrentIsLeft DEF MaybeGrant
    <3> QED BY <1>3, <2>1, <2>4, <3>1, OneGrantElsewhere
  <2> QED BY <2>2, <2>3, <2>4
<1>10. CASE RevokeToken(k)
  <2> DEFINE g == clerk[k].grant
  <2>1. account' = account /\ (UNCHANGED providerVars \/ RevokeGrant(g))
    BY <1>10 DEF RevokeToken, storedVars
  <2>2. g \in Grants /\ g # Current
    BY <1>1, <1>10, Types, CurrentIsLeft DEF RevokeToken, MaybeGrant
  <2> QED BY <1>3, <2>1, <2>2, OneGrantElsewhere, OneGrantStutters
<1> QED BY <1>5, <1>6, <1>7, <1>8, <1>9, <1>10 DEF ClerkStep

(* Time, and a grant that is not held any more.                            *)
LEMMA OneGrantWorld ==
  ASSUME StoredInv, TimePasses \/ \E g \in Grants : ForgetGrant(g)
  PROVE  OneGrantStep
<1>1. TypeOK
  BY DEF StoredInv
<1>2. account' = account /\ call' = call
  BY DEF TimePasses, ForgetGrant, storedVars
<1>3. Current' = Current
  BY <1>2, CurrentKept
<1>4. CASE TimePasses
  BY <1>2, <1>3, <1>4
  DEF TimePasses, OneGrantStep, OneGrant!LinkNext, OneGrant!Time, OneGrant!Age, Age,
      OneGrant!Lapse, Lapse
<1>5. ASSUME NEW g \in Grants, ForgetGrant(g)
      PROVE  OneGrantStep
  <2>1. Recycle(g) /\ ~Referenced(g)
    BY <1>5 DEF ForgetGrant
  <2>2. g # Current
    <3>1. CASE \E c \in Callers : call[c].at = "store"
      BY <1>1, <2>1, <3>1, CurrentStored DEF Referenced
    <3>2. CASE \A c \in Callers : call[c].at # "store"
      BY <2>1, <3>2, CurrentRow DEF Referenced
    <3> QED BY <3>1, <3>2
  <2> QED BY <1>2, <1>3, <2>1, <2>2, OneGrantElsewhere
<1> QED BY <1>4, <1>5

(* Credentials implements LinkedAccount: while answers and statements are  *)
(* not lost, whatever overlaps, and also when revocations fail, the        *)
(* account seems to have one grant at a time, which a refresh replaces in  *)
(* one step and nobody else uses or revokes.                               *)
THEOREM LinkedAccountImplemented ==
  ASSUME Faults \subseteq {"revoke"}
  PROVE  Spec => ImplementsLinkedAccount
<1>1. Init => OneGrant!LinkInit
  BY DEF Init, OneGrant!LinkInit, OneGrant!NoGrants, NoGrants, Current, NoCall, Call,
         NoAccount, Account
<1>2. StoredInv /\ StoredInv' /\ [Next]_vars => OneGrantStep
  <2> SUFFICES ASSUME StoredInv, TypeOK', [Next]_vars
               PROVE  OneGrantStep
    BY DEF StoredInv
  <2>1. CASE UNCHANGED vars
    <3>1. account' = account /\ call' = call /\ UNCHANGED providerVars
      BY <2>1 DEF vars, storedVars
    <3> QED BY <3>1, CurrentKept, OneGrantStutters
  <2> QED BY <2>1, OneGrantCaller, OneGrantClerk, OneGrantWorld DEF Next, WithdrawApp, Crash
<1>3. Spec => []StoredInv
  BY StoredCorrect
<1> QED
  BY <1>1, <1>2, <1>3, PTL
  DEF Spec, ImplementsLinkedAccount, OneGrant!LinkSpec, OneGrantStep

-----------------------------------------------------------------------------
(* What is left to be revoked.                                             *)

(* What is sent to be revoked has not expired, since only then does its    *)
(* revocation kill the refresh token.                                      *)
DutyInv ==
  /\ RowInv
  /\ \A k \in Clerks : OfOneGrant(clerk[k].old)
  /\ \A k \in Clerks : clerk[k].at = "revoke" => clerk[k].grant \notin aged

(* A step that leaves nothing behind.                                      *)
DutyDone == DutyInv' /\ \A g \in issued : Covered(g) => Covered(g)'

LEMMA DutyInit == Init => DutyInv
  BY RowInit DEF Init, DutyInv, OfOneGrant, NoRequest, Request, NoAccount, Account

(* A dead grant stays dead, and who is in charge stays in charge.          *)
LEMMA DutyKept ==
  ASSUME DutyInv, RowInv',
         \A g \in issued : Alive(g)' => Alive(g),
         \A k \in Clerks : \/ clerk'[k] = clerk[k]
                           \/ /\ clerk[k].at \in {"idle", "upsert"}
                              /\ clerk'[k].at # "revoke"
                              /\ OfOneGrant(clerk'[k].old),
         \A k \in Clerks : clerk[k].at = "revoke" =>
           (clerk[k].grant \in aged' => clerk[k].grant \in aged)
  PROVE  DutyDone
  BY DEF DutyDone, DutyInv, Covered, InCharge, OfOneGrant

LEMMA DutyCaller ==
  ASSUME DutyInv, RowInv', NEW c \in Callers, ForAccount(c) \/ RefreshStep(c)
  PROVE  DutyDone
<1>1. \/ UNCHANGED providerVars
      \/ \E g \in Grants : Refresh(account.refresh, g)
  BY DEF ForAccount, RefreshStep, LockAccount, RefreshFails, RefreshGrant,
         ReplyLost, RefreshRejected, StoreTokens, ClearTokens
<1>2. clerk' = clerk
  BY DEF ForAccount, RefreshStep, LockAccount, RefreshFails, RefreshGrant,
         ReplyLost, RefreshRejected, StoreTokens, ClearTokens
<1>3. aged' = aged
  BY <1>1 DEF Refresh
<1>4. \A g \in issued : Alive(g)' => Alive(g)
  BY <1>1 DEF Refresh, Alive, Works
<1> QED
  BY <1>2, <1>3, <1>4, DutyKept

LEMMA DutyWorld ==
  ASSUME DutyInv, RowInv',
         (\E g \in Grants : ForgetGrant(g)) \/ TimePasses \/ WithdrawApp
  PROVE  DutyDone
<1>1. CASE TimePasses \/ WithdrawApp
  <2>1. /\ UNCHANGED <<issued, spent, clerk>>
        /\ aged \subseteq aged' /\ lapsed \subseteq lapsed' /\ revoked \subseteq revoked'
        /\ \A k \in Clerks : clerk[k].at = "revoke" =>
             (clerk[k].grant \in aged' => clerk[k].grant \in aged)
    BY <1>1 DEF TimePasses, Age, Lapse, WithdrawApp, Withdraw, DutyInv, RowInv, HeldIsIssued
  <2>2. \A g \in issued : Alive(g)' => Alive(g)
    BY <2>1 DEF Alive, Works
  <2> QED
    BY <2>1, <2>2, DutyKept
<1>2. ASSUME NEW g \in Grants, ForgetGrant(g)
      PROVE  DutyDone
  <2>1. /\ UNCHANGED clerk
        /\ issued' = issued \ {g} /\ spent' = spent \ {g} /\ revoked' = revoked \ {g}
        /\ aged' = aged \ {g} /\ lapsed' = lapsed \ {g}
    BY <1>2 DEF ForgetGrant, Recycle
  <2>2. \A h \in issued : Alive(h)' => Alive(h)
    BY <2>1 DEF Alive, Works
  <2> QED
    BY <2>1, <2>2, DutyKept
<1> QED
  BY <1>1, <1>2

LEMMA DutyClerk ==
  ASSUME DutyInv, RowInv', Faults \subseteq {"reply", "withdraw"},
         NEW k \in Clerks, BeginLink(k) \/ Unlink(k) \/ ClerkStep(k)
  PROVE  DutyDone
<1> USE DEF DutyInv, RowInv
<1> DEFINE old == clerk[k].old
<1>1. ASSUME NEW x, clerk' = [clerk EXCEPT ![k] = x]
      PROVE  clerk'[k] = x /\ \A j \in Clerks \ {k} : clerk'[j] = clerk[j]
  BY <1>1 DEF TypeOK
<1>2. OfOneGrant(NoAccount) /\ OfOneGrant(account) /\ OfOneGrant(old)
  BY DEF OfOneGrant, NoAccount, Account
<1>3. CASE BeginLink(k)
  <2>1. PICK g \in Grants \ issued :
          /\ issued' = issued \cup {g}
          /\ clerk'[k] = [at |-> "upsert", old |-> account, grant |-> g]
          /\ \A j \in Clerks \ {k} : clerk'[j] = clerk[j]
    BY <1>1, <1>3 DEF BeginLink, Exchange, Request
  <2>2. UNCHANGED <<spent, revoked, aged, lapsed>> /\ clerk[k].at = "idle"
    BY <1>3 DEF BeginLink, Exchange
  <2>3. \A h \in issued : Alive(h)' => Alive(h)
    BY <2>1, <2>2 DEF Alive, Works
  <2> QED
    BY <1>2, <2>1, <2>2, <2>3, DutyKept
<1>4. CASE LinkFails(k) \/ Upsert(k) \/ Unlink(k)
  <2>1. /\ clerk[k].at \in {"idle", "upsert"}
        /\ clerk'[k] \in {NoRequest, Request("renew", old, Null),
                          Request("renew", account, Null)}
        /\ \A j \in Clerks \ {k} : clerk'[j] = clerk[j]
        /\ UNCHANGED providerVars
    BY <1>1, <1>4 DEF LinkFails, Upsert, Unlink
  <2>2. clerk'[k].at # "revoke" /\ OfOneGrant(clerk'[k].old)
    BY <1>2, <2>1 DEF NoRequest, Request
  <2>3. \A h \in issued : Alive(h)' => Alive(h)
    BY <2>1 DEF Alive, Works
  <2> QED
    BY <2>1, <2>2, <2>3, DutyKept
<1>5. CASE RevokeToken(k)
  <2>1. /\ clerk[k].at = "revoke"
        /\ clerk[k].grant \notin aged
        /\ revoked' = revoked \cup {clerk[k].grant}
        /\ clerk'[k] = NoRequest
        /\ \A j \in Clerks \ {k} : clerk'[j] = clerk[j]
        /\ UNCHANGED <<issued, spent, aged, lapsed>>
    BY <1>1, <1>5 DEF RevokeToken, RevokeGrant
  <2>2. clerk'[k].at = "idle" /\ OfOneGrant(clerk'[k].old)
    BY <1>2, <2>1 DEF NoRequest, Request
  <2>3. DutyInv'
    BY <2>1, <2>2 DEF OfOneGrant
  <2>4. ASSUME NEW g \in issued, Covered(g), Alive(g)'
        PROVE  \E j \in Clerks : InCharge(j, g)'
    <3>1. Alive(g) /\ g # clerk[k].grant
      BY <2>1, <2>4 DEF Alive, Works
    <3>2. PICK j \in Clerks : InCharge(j, g)
      BY <2>4, <3>1 DEF Covered
    <3>3. j # k
      BY <2>1, <3>1, <3>2 DEF InCharge
    <3> QED
      BY <2>1, <3>2, <3>3 DEF InCharge
  <2> QED
    BY <2>3, <2>4 DEF DutyDone, Covered
<1>6. CASE RenewForRevoke(k)
  <2>1. clerk[k].at = "renew" /\ \A j \in Clerks \ {k} : clerk'[j] = clerk[j]
    BY <1>1, <1>6 DEF RenewForRevoke
  <2>2. old.access \notin aged \cap Permanent
    BY DEF HeldIsIssued
  <2>3. Null \notin issued
    BY DEF TypeOK, ProviderTypeOK
  <2>4. \A h \in issued, j \in Clerks : InCharge(j, h) /\ h # old.access => InCharge(j, h)'
    BY <2>1 DEF InCharge
  <2>5. CASE /\ old.access \notin aged
             /\ clerk'[k] = Request("revoke", old, old.access)
             /\ UNCHANGED providerVars
    <3>1. clerk'[k] = [at |-> "revoke", old |-> old, grant |-> old.access]
      BY <2>5 DEF Request
    <3>2. \A h \in issued : Alive(h)' => Alive(h)
      BY <2>5 DEF Alive, Works
    <3>3. \A h \in issued : h = old.access => InCharge(k, h)'
      BY <3>1 DEF InCharge
    <3>4. ASSUME NEW h \in issued, Covered(h), Alive(h)'
          PROVE  \E j \in Clerks : InCharge(j, h)'
      <4>1. PICK j \in Clerks : InCharge(j, h)
        BY <3>2, <3>4 DEF Covered
      <4> QED
        BY <2>4, <3>3, <4>1
    <3>5. DutyInv'
      BY <1>2, <2>1, <2>5, <3>1 DEF OfOneGrant
    <3> QED
      BY <3>4, <3>5 DEF DutyDone, Covered
  <2>6. CASE /\ NeedsRefresh(old)
             /\ ~CanRefresh(old) \/ ~Works(old.refresh)
             /\ clerk'[k] = NoRequest
             /\ UNCHANGED providerVars
    <3>1. clerk'[k].at = "idle" /\ OfOneGrant(clerk'[k].old)
      BY <1>2, <2>6 DEF NoRequest, Request
    <3>2. \A h \in issued : Alive(h)' => Alive(h) /\ h # old.access
      BY <1>2, <2>2, <2>3, <2>6 DEF Alive, Works, NeedsRefresh, CanRefresh, OfOneGrant
    <3>3. \A h \in issued : Covered(h) => Covered(h)'
      BY <2>4, <3>2 DEF Covered
    <3>4. DutyInv'
      BY <2>1, <2>6, <3>1 DEF OfOneGrant
    <3> QED
      BY <3>3, <3>4 DEF DutyDone
  <2>7. ASSUME NEW g \in Grants,
               NeedsRefresh(old), Refresh(old.refresh, g),
               clerk'[k] = Request("revoke", old, g)
        PROVE  DutyDone
    <3>1. clerk'[k] = [at |-> "revoke", old |-> old, grant |-> g]
      BY <2>7 DEF Request
    <3>2. /\ issued' = issued \cup {g}
          /\ spent' = spent \cup {old.refresh}
          /\ UNCHANGED <<revoked, aged, lapsed>>
          /\ g \notin issued \cup aged
      BY <2>7, Unissued DEF Refresh
    <3>3. \A h \in issued : Alive(h)' => Alive(h) /\ h # old.access
      <4>1. old.access # Null => old.access \in aged /\ old.access = old.refresh
        BY <1>2, <2>2, <2>7 DEF NeedsRefresh, OfOneGrant
      <4> QED
        BY <2>3, <3>2, <4>1 DEF Alive, Works
    <3>4. \A h \in issued : Covered(h) => Covered(h)'
      BY <2>4, <3>3 DEF Covered
    <3>5. DutyInv'
      BY <1>2, <2>1, <3>1, <3>2 DEF OfOneGrant
    <3> QED
      BY <3>4, <3>5 DEF DutyDone
  <2> QED
    BY <1>1, <1>6, <2>5, <2>6, <2>7 DEF RenewForRevoke, NeedsRefresh, Renew
<1> QED
  BY <1>3, <1>4, <1>5, <1>6 DEF ClerkStep, RenewFails

LEMMA DutyStep ==
  ASSUME DutyInv, [Next]_vars, Faults \subseteq {"reply", "withdraw"}
  PROVE  DutyDone
<1>1. RowInv'
  BY RowStep DEF DutyInv
<1>2. CASE UNCHANGED vars
  BY <1>1, <1>2, DutyKept DEF vars, Alive, Works
<1> QED
  BY <1>1, <1>2, DutyCaller, DutyClerk, DutyWorld DEF Next, Crash

(* The history forgets only what the provider forgets and nobody holds.    *)
LEMMA HistoryKept ==
  ASSUME [Next]_vars, NEW g \in issued
  PROVE  /\ g \in retired' => g \in issued' /\ (g \in missed => g \in missed')
         /\ Referenced(g) => g \in issued' /\ (g \in missed => g \in missed')
<1>1. ASSUME NEW h \in Grants, ForgetGrant(h)
      PROVE  /\ ~Referenced(h) /\ issued' = issued \ {h}
             /\ retired' = retired \ {h} /\ missed' = missed \ {h}
  BY <1>1 DEF ForgetGrant, Recycle
<1>2. CASE ~\E h \in Grants : ForgetGrant(h)
  BY <1>2 DEF vars, historyVars, Next, ForAccount, RefreshStep, LockAccount, RefreshFails,
     RefreshGrant, ReplyLost, RefreshRejected, StoreTokens, ClearTokens, BeginLink, Exchange, Unlink,
     ClerkStep, LinkFails, Upsert, RenewForRevoke, RenewFails, Renew, Refresh, RevokeToken,
     RevokeGrant, TimePasses, Age, Lapse, WithdrawApp, Withdraw, Crash
<1> QED
  BY <1>1, <1>2

(* The refresh token of g is in a row next to the access token of another  *)
(* grant, or will be when a caller stores what it was renewed to.          *)
Kept(g) ==
  \/ /\ g = account.refresh
     /\ g # account.access \/ \E c \in Callers : call[c].at = "store"
  \/ \E k \in Clerks : g = clerk[k].old.refresh /\ g # clerk[k].old.access

(* Such a grant is dead, or somebody is in charge of it, or a link has     *)
(* overwritten it unread.                                                  *)
Dealt(g) == g \in missed \/ Covered(g)

KeptInv ==
  /\ \A g \in issued : Kept(g) => Dealt(g)
  /\ \A c \in Callers : call[c].at = "ask" => account.refresh \in aged

LEMMA KeptInit == Init => KeptInv
  BY DEF Init, NoGrants, KeptInv, NoCall, Call

LEMMA KeptIsIssued ==
  ASSUME DutyInv, NEW g \in Grants, Kept(g)
  PROVE  Referenced(g) /\ g \in issued
  BY DEF Kept, Referenced, DutyInv, RowInv, HeldIsIssued

LEMMA DealtKept ==
  ASSUME DutyDone, [Next]_vars, NEW g \in issued, Referenced(g), Dealt(g)
  PROVE  Dealt(g)'
  BY HistoryKept DEF Dealt, DutyDone

(* What an upsert overwrites was read, and will be revoked, or is missed.  *)
LEMMA OverwrittenDealt ==
  ASSUME DutyInv, DutyDone, KeptInv, Faults \subseteq {"reply", "withdraw"},
         NEW k \in Clerks, Upsert(k), NEW g \in issued, g \in Held(account)
  PROVE  Dealt(g)'
<1> DEFINE old == clerk[k].old
<1>1. [Next]_vars
  BY DEF Next, ClerkStep
<1>2. CASE g \notin Held(old)
  BY <1>2 DEF Upsert, Dealt
<1>3. CASE g = old.access
  <2>1. old # NoAccount
    BY <1>3 DEF Held, NoAccount, Account
  <2>2. clerk' = [clerk EXCEPT ![k] = Request("renew", @.old, Null)]
    BY <2>1 DEF Upsert
  <2>3. clerk'[k] = [at |-> "renew", old |-> old, grant |-> Null]
    BY <2>2 DEF Request, DutyInv, RowInv, TypeOK
  <2>4. InCharge(k, g)'
    BY <1>3, <2>3 DEF InCharge
  <2> QED
    BY <2>4 DEF Dealt, Covered
<1>4. CASE g # old.access /\ g = old.refresh
  <2>1. Kept(g) /\ Referenced(g)
    BY <1>4 DEF Kept, Referenced
  <2> QED
    BY <1>1, <2>1, DealtKept DEF KeptInv
<1> QED
  BY <1>2, <1>3, <1>4 DEF Held

(* What is kept in the next state was kept before, or was dealt with now.  *)
LEMMA KeptFrom ==
  ASSUME DutyInv, DutyDone, KeptInv, [Next]_vars,
         \A g \in issued' : Kept(g)' => (g \in issued /\ Kept(g)) \/ Dealt(g)'
  PROVE  \A g \in issued' : Kept(g)' => Dealt(g)'
<1> SUFFICES ASSUME NEW g \in issued, Kept(g) PROVE Dealt(g)'
  OBVIOUS
<1>1. g \in Grants
  BY DEF DutyInv, RowInv, TypeOK, ProviderTypeOK
<1> QED
  BY <1>1, KeptIsIssued, DealtKept DEF KeptInv

LEMMA KeptCaller ==
  ASSUME DutyInv, DutyDone, KeptInv, NEW c \in Callers, ForAccount(c) \/ RefreshStep(c)
  PROVE  KeptInv'
<1> USE DEF DutyInv, RowInv
<1>1. [Next]_vars
  BY DEF Next
<1>2. clerk' = clerk
  BY DEF ForAccount, RefreshStep, LockAccount, RefreshFails, RefreshGrant,
         ReplyLost, RefreshRejected, StoreTokens, ClearTokens
<1>3. aged' = aged /\ \A b \in Callers \ {c} : call'[b] = call[b]
  <2>1. \E x : call' = [call EXCEPT ![c] = x]
    BY DEF ForAccount, RefreshStep, LockAccount, RefreshFails, RefreshGrant,
           ReplyLost, RefreshRejected, StoreTokens, ClearTokens, Return
  <2>2. aged' = aged
    BY DEF ForAccount, RefreshStep, LockAccount, RefreshFails, RefreshGrant, Refresh,
           ReplyLost, RefreshRejected, StoreTokens, ClearTokens, Return
  <2> QED
    BY <2>1, <2>2 DEF TypeOK
<1>4. \A g \in issued' : Kept(g) => g \in issued
  BY KeptIsIssued DEF TypeOK, ProviderTypeOK, DutyDone
<1>5. ASSUME account' = account,
             call'[c].at = "store" => call[c].at = "store",
             call'[c].at = "ask" => account.refresh \in aged
      PROVE  KeptInv'
  <2>1. \A g : Kept(g)' => Kept(g)
    BY <1>2, <1>3, <1>5 DEF Kept
  <2>2. \A g \in issued' : Kept(g)' => g \in issued /\ Kept(g)
    BY <1>4, <2>1
  <2>3. \A b \in Callers : call'[b].at = "ask" => account'.refresh \in aged'
    BY <1>3, <1>5 DEF KeptInv
  <2> QED
    BY <1>1, <2>2, <2>3, KeptFrom DEF KeptInv
<1>6. CASE LockAccount(c) /\ call'[c].at = "ask"
  <2>1. account' = account /\ NeedsRefresh(account) /\ CanRefresh(account)
    BY <1>6 DEF LockAccount, Return, NoCall, Call, TypeOK
  <2>2. account.refresh \in aged
    BY <2>1, Types DEF NeedsRefresh, CanRefresh, OfOneGrant, HeldIsIssued
  <2> QED
    BY <1>5, <1>6, <2>1, <2>2
<1>7. CASE RefreshGrant(c)
  <2>1. /\ account' = account /\ account.refresh \in aged
        /\ spent' = spent \cup {account.refresh}
        /\ call[c].at = "ask" /\ call'[c].at = "store"
    BY <1>7 DEF RefreshGrant, Refresh, KeptInv, TypeOK, Call
  <2>2. ~Alive(account.refresh)'
    BY <1>3, <2>1 DEF Alive, Works
  <2>3. \A g : Kept(g)' => Kept(g) \/ g = account.refresh
    BY <1>2, <2>1 DEF Kept
  <2>4. \A g \in issued' : Kept(g)' => (g \in issued /\ Kept(g)) \/ Dealt(g)'
    BY <1>4, <2>1, <2>2, <2>3 DEF Dealt, Covered
  <2>5. \A b \in Callers : call'[b].at = "ask" => account'.refresh \in aged'
    BY <1>3, <2>1
  <2> QED
    BY <1>1, <2>4, <2>5, KeptFrom DEF KeptInv
<1>8. CASE (StoreTokens(c) \/ ClearTokens(c)) /\ account' # account
  <2>1. \/ account'.access = account'.refresh
        \/ call[c].at = "store" /\ account'.refresh = account.refresh
    BY <1>8 DEF StoreTokens, ClearTokens, Renewed, Account
  <2>2. lock = c /\ \A b \in Callers : call'[b].at \notin {"ask", "store"}
    BY <1>3, <1>8 DEF StoreTokens, ClearTokens, Return, NoCall, Call, TypeOK
  <2>3. \A g : Kept(g)' => Kept(g)
    BY <1>2, <2>1, <2>2 DEF Kept
  <2>4. \A g \in issued' : Kept(g)' => g \in issued /\ Kept(g)
    BY <1>4, <2>3
  <2> QED
    BY <1>1, <2>2, <2>4, KeptFrom DEF KeptInv
<1>9. ForAccount(c) => account' = account /\ call'[c].at = "lock"
  BY DEF ForAccount, Call, TypeOK
<1>10. LockAccount(c) => account' = account /\ call'[c].at # "store"
  BY DEF LockAccount, Return, NoCall, Call, TypeOK
<1>11. RefreshFails(c) \/ ReplyLost(c) \/ RefreshRejected(c)
         => account' = account /\ call'[c].at \notin {"ask", "store"}
  BY DEF RefreshFails, ReplyLost, RefreshRejected, Return, NoCall, Call, TypeOK
<1>12. StoreTokens(c) \/ ClearTokens(c) => call'[c].at \notin {"ask", "store"}
  BY DEF StoreTokens, ClearTokens, Return, NoCall, Call, TypeOK
<1> QED
  BY <1>5, <1>6, <1>7, <1>8, <1>9, <1>10, <1>11, <1>12 DEF RefreshStep

LEMMA KeptClerk ==
  ASSUME DutyInv, DutyDone, KeptInv, Faults \subseteq {"reply", "withdraw"},
         NEW k \in Clerks, BeginLink(k) \/ Unlink(k) \/ ClerkStep(k)
  PROVE  KeptInv'
<1> USE DEF DutyInv, RowInv
<1>1. [Next]_vars
  BY DEF Next
<1>2. \A g \in issued' : Kept(g) => g \in issued
  BY KeptIsIssued DEF TypeOK, ProviderTypeOK, DutyDone
<1>3. UNCHANGED <<call, aged>>
  BY DEF BeginLink, Exchange, Unlink, ClerkStep, LinkFails, Upsert, RenewForRevoke, Renew, Refresh,
         RenewFails, RevokeToken, RevokeGrant
<1>4. PICK x : clerk' = [clerk EXCEPT ![k] = x]
  BY DEF BeginLink, Unlink, ClerkStep, LinkFails, Upsert, RenewForRevoke, RenewFails, RevokeToken
<1>5. clerk'[k] = x /\ \A j \in Clerks \ {k} : clerk'[j] = clerk[j]
  BY <1>4 DEF TypeOK
<1>6. \/ account' = account
      \/ lock = Null /\ (Unlink(k) \/ Upsert(k))
  BY DEF BeginLink, Unlink, ClerkStep, LinkFails, Upsert, RenewForRevoke, RenewFails, RevokeToken
<1>7. \A c \in Callers : call'[c].at = "ask" => account'.refresh \in aged'
  BY <1>3, <1>6 DEF KeptInv, TypeOK
<1>8. x.old \in {NoAccount, account, clerk[k].old}
  <2>1. \A at, old, g : clerk' = [clerk EXCEPT ![k] = Request(at, old, g)] => x.old = old
    BY <1>5 DEF TypeOK, Request
  <2>2. clerk' = clerk => x = clerk[k]
    BY <1>5
  <2>3. CASE BeginLink(k)
    BY <2>1, <2>3 DEF BeginLink
  <2>4. CASE Unlink(k)
    BY <2>1, <2>2, <2>4 DEF Unlink
  <2>5. CASE Upsert(k)
    BY <2>1, <2>5 DEF Upsert, NoRequest
  <2>6. CASE RenewForRevoke(k)
    BY <2>1, <2>6 DEF RenewForRevoke, NoRequest
  <2>7. CASE LinkFails(k) \/ RenewFails(k) \/ RevokeToken(k)
    BY <2>1, <2>7 DEF LinkFails, RenewFails, RevokeToken, NoRequest
  <2> QED
    BY <2>3, <2>4, <2>5, <2>6, <2>7 DEF ClerkStep
<1>9. NoAccount.refresh = NoAccount.access
  BY DEF NoAccount, Account
<1>10. ASSUME \/ account' \in {account, NoAccount}
       PROVE  \A g : Kept(g)' => Kept(g)
  <2> SUFFICES ASSUME NEW g, Kept(g)'
               PROVE  Kept(g)
    OBVIOUS
  <2>1. account' # account => \A c \in Callers : call[c].at # "store"
    BY <1>6 DEF TypeOK
  <2>2. CASE g = account'.refresh /\ (g # account'.access \/ \E c \in Callers : call'[c].at = "store")
    BY <1>3, <1>9, <1>10, <2>1, <2>2 DEF Kept
  <2>3. CASE \E j \in Clerks : g = clerk'[j].old.refresh /\ g # clerk'[j].old.access
    BY <1>5, <1>8, <1>9, <2>3 DEF Kept
  <2> QED
    BY <2>2, <2>3 DEF Kept
<1>11. ASSUME Upsert(k)
       PROVE  \A g \in issued' : Kept(g)' => (g \in issued /\ Kept(g)) \/ Dealt(g)'
  <2>1. account'.refresh \in {account'.access, account.refresh, Null}
    BY <1>11 DEF Upsert, Renewed, Account, NoAccount
  <2>2. \A c \in Callers : call[c].at # "store"
    BY <1>11 DEF Upsert, TypeOK
  <2>3. issued' = issued /\ Null \notin issued
    BY <1>11, Types DEF Upsert, TypeOK, ProviderTypeOK
  <2>4. \A g \in issued : g = account.refresh => Dealt(g)'
    BY <1>11, <2>3, OverwrittenDealt DEF Held
  <2>5. \A g \in issued : Kept(g)' => Kept(g) \/ g = account.refresh
    BY <1>3, <1>5, <1>8, <1>9, <2>1, <2>2, <2>3 DEF Kept
  <2> QED
    BY <2>3, <2>4, <2>5
<1>12. Unlink(k) => account' = NoAccount
  BY DEF Unlink
<1>13. \A g \in issued' : Kept(g)' => (g \in issued /\ Kept(g)) \/ Dealt(g)'
  BY <1>2, <1>6, <1>10, <1>11, <1>12
<1> QED
  BY <1>1, <1>7, <1>13, KeptFrom DEF KeptInv

LEMMA KeptWorld ==
  ASSUME DutyInv, DutyDone, KeptInv,
         \/ UNCHANGED vars
         \/ (\E g \in Grants : ForgetGrant(g)) \/ TimePasses \/ WithdrawApp
  PROVE  KeptInv'
<1>1. [Next]_vars
  BY DEF Next
<1>2. UNCHANGED <<account, call, clerk>>
  BY DEF vars, ForgetGrant, TimePasses, WithdrawApp
<1>3. \A g : Kept(g)' <=> Kept(g)
  BY <1>2 DEF Kept
<1>4. \A g \in issued' : Kept(g)' => g \in issued /\ Kept(g)
  BY <1>3, KeptIsIssued DEF DutyDone, DutyInv, RowInv, TypeOK, ProviderTypeOK
<1>5. \A g \in aged : Referenced(g) => g \in aged'
  BY DEF vars, ForgetGrant, Recycle, TimePasses, Age, Lapse, WithdrawApp, Withdraw
<1>6. Referenced(account.refresh)
  BY DEF Referenced
<1>7. \A c \in Callers : call'[c].at = "ask" => account'.refresh \in aged'
  BY <1>2, <1>5, <1>6 DEF KeptInv
<1> QED
  BY <1>1, <1>4, <1>7, KeptFrom DEF KeptInv

LEMMA KeptStep ==
  ASSUME DutyInv, KeptInv, [Next]_vars, Faults \subseteq {"reply", "withdraw"}
  PROVE  KeptInv'
  BY DutyStep, KeptCaller, KeptClerk, KeptWorld DEF Next, Crash

LEMMA NewlyRetired ==
  ASSUME DutyInv, KeptInv, [Next]_vars, Faults \subseteq {"reply", "withdraw"},
         NEW g \in retired' \ retired
  PROVE  g \in issued' /\ Dealt(g)'
<1> USE DEF DutyInv, RowInv
<1>1. PICK k \in Clerks : Unlink(k) \/ Upsert(k) \/ RenewForRevoke(k)
  BY DEF vars, Next, ForAccount, RefreshStep, LockAccount, RefreshFails, RefreshGrant,
     ReplyLost, RefreshRejected, StoreTokens, ClearTokens, BeginLink, ClerkStep, LinkFails,
     RenewFails, RevokeToken, ForgetGrant, TimePasses, WithdrawApp, Crash
<1>2. ASSUME NEW x, clerk' = [clerk EXCEPT ![k] = x]
      PROVE  clerk'[k] = x
  BY <1>2 DEF TypeOK
<1>3. g \in Held(account) => g \in issued
  BY Types DEF Held, TypeOK, Accounts, MaybeGrant, HeldIsIssued, Referenced
<1>4. CASE Unlink(k)
  <2>1. g \in Held(account) /\ issued' = issued
    BY <1>4 DEF Unlink
  <2>2. clerk'[k] = [at |-> "renew", old |-> account, grant |-> Null]
    BY <1>2, <1>4 DEF Unlink, Request
  <2>3. CASE g = account.access
    BY <1>3, <2>1, <2>2, <2>3 DEF Dealt, Covered, InCharge
  <2>4. CASE g = account.refresh /\ g # account.access
    <3>1. Kept(g) /\ Referenced(g)
      BY <2>4 DEF Kept, Referenced
    <3> QED
      BY <1>3, <2>1, <3>1, DutyStep, DealtKept DEF KeptInv
  <2> QED
    BY <2>1, <2>3, <2>4 DEF Held
<1>5. CASE Upsert(k)
  <2>1. g \in Held(account) /\ issued' = issued
    BY <1>5 DEF Upsert
  <2> QED
    BY <1>3, <1>5, <2>1, DutyStep, OverwrittenDealt
<1>6. CASE RenewForRevoke(k)
  <2>1. /\ Refresh(clerk[k].old.refresh, g)
        /\ clerk' = [clerk EXCEPT ![k] = Request("revoke", @.old, g)]
    BY <1>6 DEF RenewForRevoke, Renew
  <2>2. clerk'[k] = [at |-> "revoke", old |-> clerk[k].old, grant |-> g]
    BY <1>2, <2>1 DEF Request
  <2> QED
    BY <2>1, <2>2 DEF Dealt, Covered, InCharge, Refresh
<1> QED
  BY <1>1, <1>4, <1>5, <1>6

(* What is known of everything that was given up.                          *)
RetiredInv ==
  /\ DutyInv
  /\ KeptInv
  /\ \A g \in retired : g \in issued /\ Dealt(g)

LEMMA RetiredInvariant ==
  ASSUME Faults \subseteq {"reply", "withdraw"}
  PROVE  Spec => []RetiredInv
<1>1. Init => RetiredInv
  BY DutyInit, KeptInit DEF Init, RetiredInv
<1>2. ASSUME RetiredInv, [Next]_vars
      PROVE  RetiredInv'
  <2>1. DutyInv' /\ KeptInv' /\ DutyDone
    BY <1>2, DutyStep, KeptStep DEF RetiredInv, DutyDone
  <2>2. ASSUME NEW g \in retired', g \in retired
        PROVE  g \in issued' /\ Dealt(g)'
    BY <1>2, <2>1, <2>2, HistoryKept DEF RetiredInv, DutyDone, Dealt
  <2> QED
    BY <1>2, <2>1, <2>2, NewlyRetired DEF RetiredInv
<1> QED
  BY <1>1, <1>2, PTL DEF Spec

(* What unlinks removed and links overwrote is dead as soon as no request  *)
(* is in charge of it (RetiredAreRevoked), both tokens of it, unless a     *)
(* link had overwritten it unread; whatever refreshes, links and unlinks   *)
(* overlap, also when answers to refreshes are lost and when the user      *)
(* withdraws the authorization.                                            *)
THEOREM RetiredAreDead ==
  ASSUME Faults \subseteq {"reply", "withdraw"}
  PROVE  Spec => []RetiredAreRevoked
<1>1. RetiredInv => RetiredAreRevoked
  BY DEF RetiredInv, RetiredAreRevoked, Dealt
<1> QED
  BY <1>1, RetiredInvariant, PTL

(* A link overwrites no token that it had not read.                        *)
ReadsWhatItReplaces ==
  \A k \in Clerks : Upsert(k) => Held(account) \subseteq Held(clerk[k].old)

(* The promise of the documentation (AllRetiredAreRevoked) holds, under    *)
(* the same faults, if no link overwrites what it had not read: nothing    *)
(* else keeps a token alive that was unlinked or replaced.                 *)
THEOREM AllRetiredAreDead ==
  ASSUME Faults \subseteq {"reply", "withdraw"}
  PROVE  Spec /\ [][ReadsWhatItReplaces]_vars => []AllRetiredAreRevoked
<1> DEFINE NoneMissed == missed = {}
<1>1. Init => NoneMissed
  BY DEF Init
<1>2. NoneMissed /\ [Next]_vars /\ [ReadsWhatItReplaces]_vars => NoneMissed'
  BY DEF ReadsWhatItReplaces, vars, historyVars, Next, ForAccount, RefreshStep, LockAccount,
     RefreshFails, RefreshGrant, ReplyLost, RefreshRejected, StoreTokens, ClearTokens, BeginLink,
     Unlink, ClerkStep, LinkFails, Upsert, RenewForRevoke, RenewFails, Renew, RevokeToken,
     ForgetGrant, TimePasses, WithdrawApp, Crash
<1>3. RetiredInv /\ NoneMissed => AllRetiredAreRevoked
  BY DEF RetiredInv, AllRetiredAreRevoked, Dealt, Covered, InCharge
<1>4. Spec => []RetiredInv
  BY RetiredInvariant
<1> HIDE DEF NoneMissed
<1> QED
  BY <1>1, <1>2, <1>3, <1>4, PTL DEF Spec
=============================================================================
