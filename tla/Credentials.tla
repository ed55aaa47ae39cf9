---------------------------- MODULE Credentials ----------------------------
(***************************************************************************)
(* The tokens of a linked account: credentials.Service hands them out,     *)
(* refreshing them under a row lock, and routers/external_git_accounts.go  *)
(* links, re-links and unlinks the account and revokes what it gives up.   *)
(* The module follows one identity of one user at a provider: at most one  *)
(* row of external_git_accounts, whose id changes when it is unlinked and  *)
(* linked again.                                                           *)
(***************************************************************************)
EXTENDS TokenProvider

CONSTANTS
  Ids,      \* account ids
  Callers,  \* calls of ForAccount: of requests and of syncs
  Clerks,   \* requests that link or unlink the account
  Faults    \* what can go wrong: a subset of AllFaults

(* "reply": the provider renews a grant and its answer is lost.            *)
(* "store": a statement that writes the row fails, executed or not.        *)
(* "revoke": a call made to revoke fails, executed or not.                 *)
(* "withdraw": the user withdraws the authorization at the provider.       *)
(* "crash": the server dies.                                               *)
AllFaults == {"reply", "store", "revoke", "withdraw", "crash"}

ASSUME CredentialsAssumption ==
  /\ Faults \subseteq AllFaults
  /\ Null \notin Ids \cup Callers

VARIABLES
  account,   \* the row
  lock,      \* the caller whose transaction locks the row
  call,      \* call[c]: a call of refresh
  clerk,     \* clerk[k]: a link or unlink request
  retired,   \* history: what links overwrote and unlinks removed, renewed or not
  missed     \* history: what links overwrote and had not read

storedVars == <<account, lock>>
historyVars == <<retired, missed>>
vars == <<providerVars, storedVars, call, clerk, historyVars>>

-----------------------------------------------------------------------------
MaybeGrant == Grants \cup {Null}

Accounts == [id : Ids \cup {Null}, access : MaybeGrant, refresh : MaybeGrant]

Account(id, access, refresh) ==
  [id |-> id, access |-> access, refresh |-> refresh]

NoAccount == Account(Null, Null, Null)

(* grant is the token refresh has received and not stored yet.             *)
Calls == [at : {"idle", "lock", "ask", "store", "clear"},
          id : Ids \cup {Null},
          grant : MaybeGrant]

Call(at, id, grant) == [at |-> at, id |-> id, grant |-> grant]
NoCall == Call("idle", Null, Null)

(* old is the row the request read, to be revoked; grant what it received  *)
(* (link), then what Revoke sends to the provider.                         *)
Requests == [at : {"idle", "upsert", "renew", "revoke"},
             old : Accounts,
             grant : MaybeGrant]

Request(at, old, grant) == [at |-> at, old |-> old, grant |-> grant]
NoRequest == Request("idle", NoAccount, Null)

TypeOK ==
  /\ ProviderTypeOK
  /\ account \in Accounts
  /\ account.id = Null => account = NoAccount
  /\ lock \in Callers \cup {Null}
  /\ call \in [Callers -> Calls]
  /\ \A c \in Callers :
       /\ lock = c <=> call[c].at \in {"ask", "store", "clear"}
       /\ lock = c => account # NoAccount /\ account.id = call[c].id
       /\ call[c].grant # Null <=> call[c].at = "store"
  /\ clerk \in [Clerks -> Requests]
  /\ \A k \in Clerks :
       clerk[k].grant # Null <=> clerk[k].at \in {"upsert", "revoke"}
  /\ retired \subseteq Grants
  /\ missed \subseteq Grants

Init ==
  /\ NoGrants
  /\ account = NoAccount
  /\ lock = Null
  /\ call = [c \in Callers |-> NoCall]
  /\ clerk = [k \in Clerks |-> NoRequest]
  /\ retired = {}
  /\ missed = {}

(* The grants whose tokens are in the row; an access token that is          *)
(* permanent can be next to the refresh token of another grant.            *)
Held(acc) == {acc.access, acc.refresh} \ {Null}

NeedsRefresh(acc) == acc.access = Null \/ acc.access \in aged

CanRefresh(acc) == acc.refresh # Null /\ acc.refresh \notin lapsed

(* Mutant: a refresh token that was rotated is not written.                *)
Renewed_KeepsRefresh(acc, g) ==
  Account(acc.id, g, IF acc.refresh = Null THEN g ELSE acc.refresh)

(* UpdateExternalGitAccountTokens, and the update of the upsert: an empty  *)
(* refresh token keeps the stored one and its expiry.                      *)
Renewed(acc, g) ==
  Account(acc.id, g, IF g \in Permanent THEN acc.refresh ELSE g)

-----------------------------------------------------------------------------
(* Caller c, ForAccount.                                                   *)

(* Any call that finds a usable token, or sees that the account must be    *)
(* re-linked, returns at once and changes nothing.                         *)
ForAccount(c) ==
  /\ call[c].at = "idle"
  /\ account # NoAccount
  /\ NeedsRefresh(account)
  /\ CanRefresh(account)
  /\ call' = [call EXCEPT ![c] = Call("lock", account.id, Null)]
  /\ UNCHANGED <<providerVars, storedVars, clerk, historyVars>>

(* Mutant: a path without the deferred Rollback.                           *)
Return_KeepsLock(c) ==
  /\ call' = [call EXCEPT ![c] = NoCall]
  /\ UNCHANGED lock

(* refresh returns; its transaction ends, by Commit or the deferred        *)
(* Rollback, and gives up the lock if it has it.                           *)
Return(c) ==
  /\ call' = [call EXCEPT ![c] = NoCall]
  /\ lock' = IF lock = c THEN Null ELSE lock

(* Mutant: the row is read without FOR UPDATE.                             *)
LockAccount_PlainSelect(c) ==
  /\ call[c].at = "lock"
  /\ \/ /\ account.id = call[c].id
        /\ NeedsRefresh(account)
        /\ CanRefresh(account)
        /\ call' = [call EXCEPT ![c] = Call("ask", @.id, Null)]
     \/ /\ \/ account.id # call[c].id
           \/ ~NeedsRefresh(account)
           \/ ~CanRefresh(account)
        /\ call' = [call EXCEPT ![c] = NoCall]
  /\ UNCHANGED <<providerVars, account, lock, clerk, historyVars>>

(* GetExternalGitAccountByIdForUpdate: it waits for the lock and returns   *)
(* the row as it is then.                                                  *)
LockAccount(c) ==
  /\ call[c].at = "lock"
  /\ lock = Null
  /\ \/ /\ account.id = call[c].id
        /\ NeedsRefresh(account)
        /\ CanRefresh(account)
        /\ lock' = c
        /\ call' = [call EXCEPT ![c] = Call("ask", @.id, Null)]
     \/ /\ \/ account.id # call[c].id     \* deleted
           \/ ~NeedsRefresh(account)      \* another caller refreshed it
           \/ ~CanRefresh(account)
        /\ Return(c)
  /\ UNCHANGED <<providerVars, account, clerk, historyVars>>

(* Begin, the lock or the provider times out, or the provider is down.     *)
RefreshFails(c) ==
  /\ call[c].at \in {"lock", "ask"}
  /\ Return(c)
  /\ UNCHANGED <<providerVars, account, clerk, historyVars>>

RefreshGrant(c) ==
  /\ call[c].at = "ask"
  /\ \E g \in Grants :
       /\ Refresh(account.refresh, g)
       /\ call' = [call EXCEPT ![c] = Call("store", @.id, g)]
  /\ UNCHANGED <<storedVars, clerk, historyVars>>

ReplyLost(c) ==
  /\ "reply" \in Faults
  /\ call[c].at = "ask"
  /\ \E g \in Grants : Refresh(account.refresh, g)
  /\ Return(c)
  /\ UNCHANGED <<account, clerk, historyVars>>

RefreshRejected(c) ==
  /\ call[c].at = "ask"
  /\ ~Works(account.refresh)
  /\ call' = [call EXCEPT ![c] = Call("clear", @.id, Null)]
  /\ UNCHANGED <<providerVars, storedVars, clerk, historyVars>>

(* The update of the tokens and Commit; a failure leaves them as they were *)
(* or not.                                                                 *)
StoreTokens(c) ==
  /\ call[c].at = "store"
  /\ \/ account' = Renewed(account, call[c].grant)
     \/ "store" \in Faults /\ UNCHANGED account
  /\ Return(c)
  /\ UNCHANGED <<providerVars, clerk, historyVars>>

ClearTokens(c) ==
  /\ call[c].at = "clear"
  /\ \/ account' = Account(account.id, Null, Null)
     \/ "store" \in Faults /\ UNCHANGED account
  /\ Return(c)
  /\ UNCHANGED <<providerVars, clerk, historyVars>>

RefreshStep(c) ==
  \/ LockAccount(c)
  \/ RefreshFails(c)
  \/ RefreshGrant(c)
  \/ ReplyLost(c)
  \/ RefreshRejected(c)
  \/ StoreTokens(c)
  \/ ClearTokens(c)

-----------------------------------------------------------------------------
(* Clerk k, providerCallback and deleteExternalAccount.                    *)

(* Exchange, FetchUser and GetExternalGitAccountByIdentity: nobody sees    *)
(* the new grant before the upsert, so only the read is a step.            *)
BeginLink(k) ==
  /\ clerk[k].at = "idle"
  /\ \E g \in Grants :
       /\ Exchange(g)
       /\ clerk' = [clerk EXCEPT ![k] = Request("upsert", account, g)]
  /\ UNCHANGED <<storedVars, call, historyVars>>

(* Ids are never reused, so a new row can have any id no caller remembers. *)
FreshIds == Ids \ {call[c].id : c \in Callers}

(* UpsertExternalGitAccount, which waits for the row lock.  It overwrites  *)
(* the row as it is then; what the request read before, it then revokes.   *)
Upsert(k) ==
  /\ clerk[k].at = "upsert"
  /\ lock = Null
  /\ \/ /\ account = NoAccount
        /\ \E id \in FreshIds :
             account' = Renewed(Account(id, Null, Null), clerk[k].grant)
     \/ /\ account # NoAccount
        /\ account' = Renewed(account, clerk[k].grant)
  /\ retired' = retired \cup Held(account)
  /\ missed' = missed \cup (Held(account) \ Held(clerk[k].old))
  /\ \/ clerk' = [clerk EXCEPT ![k] =
                    IF @.old = NoAccount THEN NoRequest
                    ELSE Request("renew", @.old, Null)]
     \/ /\ "store" \in Faults
        /\ clerk' = [clerk EXCEPT ![k] = NoRequest]
  /\ UNCHANGED <<providerVars, lock, call>>

(* FetchUser or a statement fails; the new grant is not given back.        *)
LinkFails(k) ==
  /\ clerk[k].at = "upsert"
  /\ clerk' = [clerk EXCEPT ![k] = NoRequest]
  /\ UNCHANGED <<providerVars, storedVars, call, historyVars>>

(* DeleteExternalGitAccountByIdAndUserId waits for the row lock too, and   *)
(* returns the row as it is then.                                          *)
Unlink(k) ==
  /\ clerk[k].at = "idle"
  /\ lock = Null
  /\ account # NoAccount
  /\ account' = NoAccount
  /\ \/ clerk' = [clerk EXCEPT ![k] = Request("renew", account, Null)]
     \/ "store" \in Faults /\ UNCHANGED clerk
  /\ retired' = retired \cup Held(account)
  /\ UNCHANGED <<providerVars, lock, call, missed>>

(* Refresh for a grant that is not stored any more.                        *)
Renew(old, g) ==
  /\ Refresh(old, g)
  /\ retired' = IF old \in retired THEN retired \cup {g} ELSE retired
  /\ UNCHANGED missed

(* Mutant: the stored access token is revoked, expired or not.             *)
RenewForRevoke_Never(k) ==
  /\ clerk[k].at = "renew"
  /\ clerk' = [clerk EXCEPT ![k] = IF @.old.access = Null THEN NoRequest
                                  ELSE Request("revoke", @.old, @.old.access)]
  /\ UNCHANGED <<providerVars, storedVars, call, historyVars>>

(* Revoke, up to its call of the provider's Revoke: an access token that   *)
(* needs a refresh is renewed first, if that is possible.                  *)
RenewForRevoke(k) ==
  LET old == clerk[k].old
      send(g) == clerk' = [clerk EXCEPT ![k] = Request("revoke", @.old, g)]
  IN /\ clerk[k].at = "renew"
     /\ \/ /\ ~NeedsRefresh(old)
           /\ send(old.access)
           /\ UNCHANGED <<providerVars, historyVars>>
        \/ /\ NeedsRefresh(old)
           /\ CanRefresh(old)
           /\ \E g \in Grants : Renew(old.refresh, g) /\ send(g)
        \/ /\ NeedsRefresh(old)
           /\ ~CanRefresh(old) \/ ~Works(old.refresh)
           /\ clerk' = [clerk EXCEPT ![k] = NoRequest]
           /\ UNCHANGED <<providerVars, historyVars>>
     /\ UNCHANGED <<storedVars, call>>

RenewFails(k) ==
  /\ "revoke" \in Faults
  /\ clerk[k].at = "renew"
  /\ NeedsRefresh(clerk[k].old)
  /\ CanRefresh(clerk[k].old)
  /\ \/ UNCHANGED <<providerVars, historyVars>>
     \/ \E g \in Grants : Renew(clerk[k].old.refresh, g)
  /\ clerk' = [clerk EXCEPT ![k] = NoRequest]
  /\ UNCHANGED <<storedVars, call>>

RevokeToken(k) ==
  /\ clerk[k].at = "revoke"
  /\ \/ RevokeGrant(clerk[k].grant)
     \/ "revoke" \in Faults /\ UNCHANGED providerVars
  /\ clerk' = [clerk EXCEPT ![k] = NoRequest]
  /\ UNCHANGED <<storedVars, call, historyVars>>

ClerkStep(k) ==
  \/ LinkFails(k)
  \/ Upsert(k)
  \/ RenewForRevoke(k)
  \/ RenewFails(k)
  \/ RevokeToken(k)

-----------------------------------------------------------------------------
(* Time passes.  A token that was not within refreshMargin (5 minutes) of  *)
(* its expiry is revoked within revokeTimeout (10 seconds).                *)
TimePasses ==
  /\ \E g \in Grants :
       \/ Lapse(g)
       \/ /\ \A k \in Clerks : clerk[k].at = "revoke" => clerk[k].grant # g
          /\ Age(g)
  /\ UNCHANGED <<storedVars, call, clerk, historyVars>>

Referenced(g) ==
  \/ g \in {account.access, account.refresh}
  \/ \E c \in Callers : call[c].grant = g
  \/ \E k \in Clerks :
       g \in {clerk[k].grant, clerk[k].old.access, clerk[k].old.refresh}

ForgetGrant(g) ==
  /\ ~Referenced(g)
  /\ Recycle(g)
  /\ retired' = retired \ {g}
  /\ missed' = missed \ {g}
  /\ UNCHANGED <<storedVars, call, clerk>>

WithdrawApp ==
  /\ "withdraw" \in Faults
  /\ issued \ revoked # {}
  /\ Withdraw
  /\ UNCHANGED <<storedVars, call, clerk, historyVars>>

(* PostgreSQL rolls back the transactions of the dead process.             *)
Crash ==
  /\ "crash" \in Faults
  /\ call' = [c \in Callers |-> NoCall]
  /\ clerk' = [k \in Clerks |-> NoRequest]
  /\ lock' = Null
  /\ UNCHANGED <<providerVars, account, historyVars>>

Next ==
  \/ \E c \in Callers : ForAccount(c) \/ RefreshStep(c)
  \/ \E k \in Clerks : BeginLink(k) \/ Unlink(k) \/ ClerkStep(k)
  \/ \E g \in Grants : ForgetGrant(g)
  \/ TimePasses \/ WithdrawApp \/ Crash

Spec == Init /\ [][Next]_vars

(* Goroutines run on and calls time out.  Row locks are granted in the     *)
(* order they are asked for, so a request waiting for the lock is served.  *)
Fairness ==
  /\ \A c \in Callers : WF_vars(RefreshStep(c))
  /\ \A k \in Clerks : SF_vars(Upsert(k))
  /\ \A k \in Clerks : WF_vars(RenewForRevoke(k) \/ RenewFails(k) \/ RevokeToken(k))

FairSpec == Spec /\ Fairness

-----------------------------------------------------------------------------
(* Unless the user withdraws the app or an answer is lost, a stored        *)
(* account stays usable until its refresh token expires: what is stored is *)
(* what the provider accepts, and a refresh is rejected, and clears the    *)
(* tokens, only after that.                                                *)
AccountStaysUsable ==
  /\ lock = Null /\ account.access # Null =>
       IF NeedsRefresh(account)
       THEN CanRefresh(account) => Works(account.refresh)
       ELSE account.access \notin revoked
  /\ \A c \in Callers : call[c].at = "clear" => account.refresh \in lapsed

(* k will revoke g, or find it dead.                                       *)
InCharge(k, g) ==
  \/ clerk[k].at = "renew" /\ clerk[k].old.access = g
  \/ clerk[k].at = "revoke" /\ clerk[k].grant = g

Covered(g) == Alive(g) => \E k \in Clerks : InCharge(k, g)

(* What an unlink removed or a link overwrote is revoked (api.md:183): no  *)
(* token of it works when nobody is in charge of it any more, nor what it  *)
(* was renewed to, whatever refreshes, links and unlinks overlapped.  The  *)
(* exception is what a link overwrote unread: it may have nobody in        *)
(* charge, and if its refresh token is kept, next to a permanent access    *)
(* token, an unlink does not revoke it either, since Revoke looks at the   *)
(* access token only.                                                      *)
RetiredAreRevoked == \A g \in retired \ missed : Covered(g)

(* The same without the exception, as api.md:183 says.                     *)
AllRetiredAreRevoked ==
  (\A k \in Clerks : clerk[k].at = "idle") => \A g \in retired : ~Alive(g)

(* Seen from outside, the account has one grant at a time, and a refresh   *)
(* replaces it in one step: the row lock hides that the provider has given *)
(* out the next grant before it is stored, and links, unlinks and          *)
(* revocations that overlap it never use or kill what is stored.           *)
Current ==
  LET storing == {c \in Callers : call[c].at = "store"}
  IN IF storing = {} THEN account.access ELSE call[CHOOSE c \in storing : TRUE].grant

OneGrant ==
  INSTANCE LinkedAccount WITH linked <- account # NoAccount, current <- Current

ImplementsLinkedAccount == OneGrant!LinkSpec

(* Every call and request is answered, in particular those that wait for   *)
(* the row lock while another one talks to the provider.                   *)
EveryoneAnswered ==
  /\ \A c \in Callers : call[c].at # "idle" ~> call[c].at = "idle"
  /\ \A k \in Clerks : clerk[k].at # "idle" ~> clerk[k].at = "idle"
=============================================================================
