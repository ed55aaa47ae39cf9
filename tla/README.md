# grepdocs: specification and verification

TLA+ models of the grepdocs API server (`src/src/api`, Go), the TLC runs that
check them on small instances, and proofs, checked by TLAPS, that hold for every
instance. There are five specifications: the sync engine with its queue, handlers
and server life cycle; the credentials of linked accounts; the sessions of browsers
with login and linking flows; and two requests that read a list of the provider page by
page, the choice of a tracked branch and the list of repositories.

## The system

grepdocs tracks git repositories of its users and copies the Markdown files of a
tracked branch into PostgreSQL. Paths below are relative to `src/src/api`.

| component | state | operations | interacts with |
| --- | --- | --- | --- |
| sync engine, `reposync/` | none of its own; a run has its token (`sync_started_at`), head commit and parameters | `Sync`, `ResetStuck` | called by the pool and `main`; tables, credentials, provider |
| pool and queue, `syncqueue/` | channel of ids, workers, parent context | `New`, `Start`, `Enqueue`, `EnqueueWait`, `Shutdown`, `run` | fed by handlers and `main`, calls the sync engine |
| repository handlers, `routers/repositories.go` | none; copies of a row across provider calls | list, track, get, PATCH, DELETE, branches, POST sync | tables, pool, credentials, provider |
| tables and statements, `database/queries.sql` (generated into `dal/`) | `repositories`, `documents`, `external_git_accounts`, `users` | one guarded statement per transition | everything; the only state shared by requests and workers |
| life of the server, `main.go` | signal context, goroutine that re-enqueues | start, SIGTERM, shutdown | all |
| credentials, `credentials/` | tokens in `external_git_accounts`, row lock | `ForAccount`, `ForRepository`, `ResolveAccount`, `Revoke`, refresh | handlers, sync engine, provider |
| external accounts, `routers/external_git_accounts.go` | OAuth state in the session, one slot for both flows | login, callback, list, delete, list repositories | session, credentials, provider |
| sessions and login, `session/`, `middleware/`, `routers/auth.go` | sessions in Redis with a TTL, a copy per request, the cookie of the browser | load or create, save, regenerate, destroy, login, callback, logout | wraps every handler |
| providers, `providers/` | none | HTTP calls, pagination, classification of answers | credentials, handlers, sync engine |
| secrets, `httpx/`, `routers/users.go`, `models/` | none | encryption, formatting, a read | handlers |

What makes it hard: any number of requests and ten workers work on the same rows
with no lock held between two statements; a sync lasts minutes and a branch
change, a deletion or a shutdown may come between any two of its statements; ids
in the channel are only hints and can be stale or duplicated; every statement can
fail with or without having been executed; the process can die anywhere and what
is in memory is gone.

What makes each part correct:

- *sync engine*: the documents are those of `synced_commit` at every moment; a run
  that lost its row writes nothing; a failed run changes nothing; the row's columns
  agree with its status; a busy repository has somebody working towards an end and
  becomes idle.
- *handlers*: an unclaim gives back exactly what its own claim took; a refused sync
  starts nothing; a branch change resets the sync state, with every overlap.
- *pool*: bounded, no job is lost while the server is up.
- *life of the server*: a restart finds and re-enqueues every busy row.
- *credentials and external accounts*: a refresh token is used once; what is stored is
  what the provider accepts; a failed refresh leaves a usable or a cleared account; nothing
  that was unlinked or replaced stays alive at the provider; nobody waits forever for the
  row lock.
- *sessions*: a login changes the session id; an OAuth flow ends with the browser and the
  user it began with, and its state is used once; a browser stays signed in until it logs out
  or the session expires, and not longer; after a logout it is signed out.
- *lists of the provider*: a branch that exists is accepted and one that does not is refused, no
  repository is missing and an empty list is told from a missing installation, although the pages
  of a list are requests of their own and the list changes between them.

## Modules

| module | models | code |
| --- | --- | --- |
| `DocumentTree` | the comparison of a tree with the documents and what to write, as pure operators; `Snapshot` is the reference definition | `reposync.go:164-261` |
| `DocumentStore` | abstract specification: the documents of a repository are replaced as a whole, in the step that publishes the commit | none: it is the promise (`docs/sync-engine.md`, `docs/api.md:360`) |
| `Repositories` | the two tables, one operator per statement, `WHERE` as guard | `queries.sql:118-240` |
| `SyncPool` | channel, workers, context | `syncqueue.go` |
| `SyncEngine` | composes `Repositories` and `SyncPool` with the code of `Sync`, the handlers and `main`; the specification and its properties | `reposync.go`, `routers/repositories.go`, `main.go` |
| `SyncEngineProofs` | theorems about `SyncEngine`: what is stored, whatever fails | |
| `AttendanceProofs` | theorems about `SyncEngine`: busy rows are attended, a claim makes one job, commits are those of their branch | |
| `MCSyncEngine` | instance with rich contents: 3 paths, 3 commits | |
| `MCRequests` | instance with minimal contents, for requests and restarts | |
| `TokenProvider` | the grants of an OAuth provider: single-use refresh tokens, expiry, revocation | external, as `providers/github.go` uses it |
| `Credentials` | one linked account: refresh under the row lock, link, re-link, unlink, revocation; the specification and its properties | `credentials.go`, `external_git_accounts.go:119-266`, `queries.sql:33-101` |
| `LinkedAccount` | abstract specification: an account is one grant at a time, which a refresh replaces in one step | none: it is what callers of `ForAccount` rely on |
| `CredentialsProofs` | theorems about `Credentials` | |
| `MCCredentials` | instance for every run of `Credentials` | |
| `Session` | the middleware around every request, Redis, the browser's cookie, login, logout and the OAuth state of both flows; the specification and its properties | `session/`, `middleware/`, `models/session.go`, `routers/auth.go`, `external_git_accounts.go:94-155` |
| `SessionProofs` | theorems about `Session`: with any overlap and any failure | |
| `OrderlyProofs` | theorems about `Session`: what a browser can rely on that sends one request at a time | |
| `MCSession` | instance for every run of `Session` | |
| `Pages` | the page loop of both lists, as operators on its variables | `providers/github.go:129-168`, `220-262`, `503-520` |
| `BranchSelection` | POST, PATCH and DELETE of one repository as far as the choice of the branch goes, while branches are pushed and deleted | `routers/repositories.go:93-194`, `222-342`, `493-500` |
| `RepositoryList` | the list of repositories and the check for installations, while the user changes what the app may see | `external_git_accounts.go:269-333`, `providers/github.go:170-180`, `522-548` |
| `PagesProofs` | lemmas about the page loop, for both | |
| `RepositoryListProofs` | theorems about `RepositoryList` | |
| `ProviderLists` | composes the two: steps of both interleave | |
| `ProviderListsProofs` | theorems about the composition | |
| `MCProviderLists` | instance of `ProviderLists`: a behaviour follows one of the two, since they share nothing; the first two branches differ in letter case only | |

`DocumentTree` is extended by `DocumentStore` and `Repositories`, `Repositories` by
`SyncEngine`, which instantiates `SyncPool` and, as refinement, `DocumentStore`.
`Credentials` extends `TokenProvider` and instantiates `LinkedAccount` as refinement. `BranchSelection` and `RepositoryList` extend `Pages`;
`ProviderLists` extends the first and instantiates the second, together with its theorems. `SyncEngine` and
`Credentials` meet in one call: a sync or a
handler asks for a token (`ForRepository`), gets one or fails, and `SyncEngine` has both
outcomes, so it is not composed with `Credentials`. `Session` meets the other two in the user
of a request: a handler behind `RequireAuth` works for the user of the copy it was given, and what
the callback of a linking flow then does to the account is `Credentials`. `SyncEngine` and
`BranchSelection` are two views of the same handlers: the first has what a branch change does to a sync and takes
any branch or a refusal, the second has how the branch is chosen and no sync.

### State and code

| variable | in the code |
| --- | --- |
| `repo[r]` | row of `repositories`: `sync_status`, `tracked_branch`, `synced_commit`, `sync_error`, `sync_started_at`; status `untracked` when there is no row |
| `docs[r]` | rows of `documents`: path to blob SHA (contents are a function of the SHA) |
| `jobs`, `held`, `ctx` | the channel, the id in each worker's hands, the context of `main` |
| `run[w]` | the locals of `Sync` and `sync`: next statement, `startedAt`, `branch.Commit`, `params`, `removed` |
| `call[h]`, `patch[p]` | a sync request past its claim; `updateParams` of a PATCH past its read |
| `backlog` | the ids the goroutine of `main` has not sent yet |
| `claimant[r]` | history variable, read by two properties only |
| `restarts` | counter that bounds stops and crashes |

One action is one statement or one transaction with the local work around it; a
statement that matches no row is an action whose guard is false, and the handler's
reaction to it is a disjunct of its own. `TakeJob`, `StartRun`, `Load`, `Diff`,
`Publish`, `RecordFailure` are the statements of a sync in order; `Fail` is any of
its error returns, a time-out or a recovered panic; `StartRunFails` and
`CommitUnconfirmed` are statements whose outcome the caller does not learn.
`ClaimSync`, `Enqueue`, `EnqueueFails`, `UnclaimSync` are POST sync, `PatchRead`,
`PatchWrite`, `PatchRefused` are PATCH. `Boot`, `Reenqueue`, `Stop`, `Exit`, `Crash`
are `main.go`.

In `Credentials`:

| variable | in the code |
| --- | --- |
| `account` | the row of `external_git_accounts` of one identity: id, access token, refresh token, each named by the grant it came with |
| `lock` | the caller whose transaction holds the row (`FOR UPDATE`) |
| `call[c]` | a call of `refresh`: waiting for the lock, asking the provider, storing, clearing |
| `clerk[k]` | a callback or a deletion: `existing` or the deleted row, and the token to store or to revoke |
| `issued`, `spent`, `revoked`, `aged`, `lapsed` | what the provider knows of its grants |
| `retired`, `missed` | history variables, read by properties only: the grants that links overwrote and unlinks removed, with what they were renewed to; and those that a link overwrote without having read them |

`LockAccount`, `RefreshGrant`, `RefreshRejected`, `StoreTokens`, `ClearTokens` are the
statements of `refresh` in order, `RefreshFails` and `ReplyLost` its other exits; `BeginLink`,
`Upsert`, `LinkFails` are the callback, `Unlink` the deletion, and `RenewForRevoke`,
`RenewFails`, `RevokeToken` are `Revoke`, which both end with.

In `Session`:

| variable | in the code |
| --- | --- |
| `store[i]` | the value under key `i` in Redis: user, `oauth_state`, and the ages of `CreatedAt` and `LastActivityAt` |
| `cookie[b]` | the session id the browser sends |
| `call[r]` | a request inside `Handle`: its browser, where it is, and its copy `*models.Session` |
| `anonymous`, `issued`, `login` | history variables, read by properties only |

A request goes through `StartNew` or `StartLoaded` (and `ReplaceExpired`), one handler, `Save` or
`SaveFails`, and `Respond` or `ResponseLost`. Between these steps are the commands to Redis (GET,
DEL, SET) and the two ends of the response, which is where requests of one browser interleave. A
handler is one step with the DEL it sends: `GoogleLogin`, `ProviderLogin` begin a flow,
`GoogleCallback`, `RegenerateFails`, `ProviderCallback`, `CallbackFails`, `CallbackRefused` are
the exits of the two callbacks, `Logout` is itself, and `Serve` stands for the handlers that do not
touch the session.

In `BranchSelection` and `RepositoryList`:

| variable | in the code |
| --- | --- |
| `upstream`, `selected`, `installed` | what the provider has: the branches, the repositories the app may see, and whether it is installed |
| `tracked` | `tracked_branch` of the row, `Null` when there is none |
| `request[q]` | a request past its reads: where it is, `reqBody.TrackedBranch`, `updateParams`, and `loop`, the locals `page` and `branches` or `repos` of the loop |
| `loop.first`, `loop.seen`, `loop.shrunk`, `bare`, `same` | history variables, read by properties only |

`Track`, `Update`, `FetchPage`, `Check`, `Create`, `Write` are POST and PATCH in order, one step per
page; `Ask`, `FetchPage`, `EndOfPages`, `CheckInstallations` are the list of repositories. `Fail` is every
answer that says nothing of the branch or the list.

### Abstractions

- The provider answers anything possible: `GetBranch` returns one of the commits the
  branch can be at, `GetTree` and `GetBlob` are functions of the SHA, any call may fail.
- `Publish` takes the transaction as one step: PostgreSQL makes it so for readers. Row
  locks, and with them the abort of one of two transactions that lock documents in
  opposite orders, are covered only as a failure (`Fail`).
- A run token is fresh: `NOW()` has microseconds and the stamps compared are those of
  rows and of runs in progress. Repository ids are never reused (`BIGSERIAL`);
  an id of `Repos` may stand for a new row once nothing refers to the old one.
- Waiting senders of the channel are not queued. `Send` is possible whenever there is a
  slot, which allows every order the runtime can produce, and more.
- `EnqueueFails` needs a full channel but not that 100 ms passed.
- A statement under the server's context still can succeed after the cancellation.
- A statement that a dead process left executing in PostgreSQL takes effect before the
  death or never; the code itself assumes the same of the reset at the start.
- Left out, because nothing decides on them: `auto_sync`, `last_sync_at`, `updated_at`,
  user and names. A PATCH of `auto_sync` alone is a PATCH that sends the branch it read.
- `Credentials` follows one identity of one user; rows of others share nothing with it.
  Ids are fresh (`BIGSERIAL`). Which account a repository resolves to, the OAuth state, the
  check of the user and the encryption of tokens are left out: they change no token.
- A caller's copy of the row may be older than the one `ForAccount` looks at; it decides only
  whether to call `refresh`, which looks again under the lock.
- A grant is dead or alive as a whole. Revoking an access token that works kills its refresh
  token, revoking an expired one does not, as the comments of `Revoke` say. The old access token
  of a rotated grant works until it expires, within 5 minutes; this rest is ignored.
- A token that does not need a refresh does not expire while it is being revoked: that takes
  at most 10 seconds (`revokeTimeout`), and it was valid for 5 minutes more (`refreshMargin`).
- A dead grant that nothing refers to is forgotten (`ForgetGrant`), so that a few names of
  grants stand for any number of them.
- An unlink has no state before its `DELETE`, so that it waits for the row lock is a guard and not a
  state; the wait of callers and links is one.
- The connection that holds a row lock is lost only together with its transaction: a failure.
- The time of `Session` advances in ticks of any length that age every session and every copy; Redis
  drops a key at some moment after its TTL, which ends exactly when `isValid` turns false.
- Ids and states are random: one that nobody knows is fresh. Redis keeps a session whose id is in no
  cookie and no request until its TTL ends; nothing can come of it, and the model forgets it
  (`ForgetUnknown`) together with states that no session holds, so that a few ids stand for any number.
- A handler's DEL takes effect together with what the handler does to its copy; only the copy's
  owner sees the copy, and the exchange with Google or the provider, during which other requests may
  run, comes before or after the step. A command of Redis that fails has no effect, except a DEL,
  which may have had one. A SET or GET whose client has gone fails in the same way.
- The browser receives the cookie when the handler has returned and the session is saved. A large
  response may reach it earlier; `"overlap"` lets it send its next request at that time.
- That a code works once at the provider is left out: it would only refuse more callbacks. So are the
  page to return to and the cookie's own expiration, after which the browser sends none.
- `Trouble[b]` says what may happen to the requests of one browser, so that what the code promises to
  an orderly browser can be stated next to a troubled one.
- A list of the provider is a set of numbers, listed in their order; `Folded[b]` is the name `b` without
  letter case. Letter case is a matter of `BranchSelection` only: `SyncEngine` takes two names that differ.
- One user owns everything: the statements also compare `user_id`, which never changes.

## Runs

| run | instance | question | distinct states |
| --- | --- | --- | --- |
| `faults` | 1 repository, 2 workers, 1 sync request, 1 PATCH, queue of 1, all faults, 1 stop or crash, rich contents | are rows well formed and documents those of their commit, whatever fails? does a new branch reset the sync state? does the engine implement the store? | 558 k |
| `attended` | 1 repository, 2 workers, 2 sync requests, 1 PATCH, queue of 2, 2 stops or crashes, clients may leave | while no statement fails, is every busy row attended? | 852 k |
| `liveness` | 2 repositories, 2 workers, 1 request, queue of 1, 1 stop or crash, fairness | is every busy row attended, by one job, when the goroutine of `main` and requests compete for the queue? does every busy repository become idle? | 160 k |
| `tokens` | 2 callers, 2 links or unlinks, 3 grants of which 1 is permanent, no fault | do refreshes, links and unlinks of one account leave it usable, also when the app stops issuing refresh tokens, and neither token of what was unlinked or replaced alive, unless it was overwritten unread? is it, from outside, one grant at a time? | 268 k |
| `answered` | 2 callers, 1 link or unlink, 2 grants, all faults, fairness | is every call and request answered? | 97 k |
| `overlap` | 1 browser, 2 requests that overlap, 4 ids, 2 states, GET and SET may fail, responses may be lost | do the copies that requests save over each other undo a login, mix two flows or prolong a session? | 764 k |
| `browsers` | 2 browsers, each with one request at a time, DEL may fail | do flows stay with their browser, work once, and leave it signed in? | 822 k |
| `lists` | 1 request, 4 branches of which 2 differ in letter case only, or 4 repositories, 3 pages of one | is a name refused only if it is missing, and accepted only if it is there, while branches come and go? is the list of repositories complete, and an empty one not the sign of a missing app? | 1.69 M |
| `unclaim_race`, `patch_race`, `relink_race`, `logout` | the smallest that shows it | the four disagreements below | |

Why the bounds are enough to be interesting. One repository suffices where the property
relates a row to its runs: rows of different repositories meet only in the queue, which is
what `liveness` has two for. Two workers give a stale run beside the current
one. A queue of one slot is full as soon as one stale job waits; two slots let duplicates
wait. The commits of `MCSyncEngine` make every set of the comparison non-empty, share a
commit between two branches, hold a file that is not Markdown and replace a file by one
that cannot be stored. `Stamps` has one value more than can be held by rows and other runs,
which an assumption of the MC modules checks. `MaxRestarts = 1` gives a second life of the
server, which is what a reset needs; `attended` has a third, because only a second life can be
stopped while ids wait to be re-enqueued. Permutation symmetry is used wherever no
liveness is checked. `TrackRepository` and `DeleteTracked` have no bound.

In the runs of `Credentials` two callers compete for the lock and two requests for the row. Three
grants are enough to have one stored, one received by a caller or a link, and one being revoked
at once, and one of them permanent to have an account change between the two kinds, with tokens of two grants in one row; since dead ones are reused, sequences of refreshes, links and unlinks have no bound. Every
row in progress has an id of its own, which an assumption of `MCCredentials` checks. `relink_race` starts from a stored
account that nobody unlinks (`RelinkSpec`), so that its trace is one of re-links.

In the runs of `Session` two requests are enough for one to be in progress between any two steps of
the other, and two states for one flow to replace another. Both expirations are one tick, so a
session is used in its first tick and in its last, and is then too old. `EnoughIds` in
`MCSession` checks that a new session always finds an id. One user is enough: a session
without a user is the other value its users can have. The theorems cover any numbers.

In `lists` one page is one item, so that every item that is added or removed
shifts all those behind it to another page. With three pages and four items the list fits the cap, outgrows it, and both in
turn. One request is enough: requests share nothing but the row, whose races `SyncEngine` has.

The deadlock check is on in every run: the server can always be started, asked or stopped.

### Properties

- `TypeOK`: types, the capacity of the channel, and which locals exist when.
- `RowShape`: a token exactly while running, an error while failed or queued, a commit
  when `ok`, none when `pending`.
- `DocsMatchSyncedCommit`: the documents are exactly what a sync of `synced_commit` stores.
- `SyncedOnTrackedBranch`: `synced_commit` is a commit of `tracked_branch`. True as long as
  PATCH requests do not overlap (`faults` has one), see `patch_race`.
- `PlanIsCurrent`: the difference a run computed from an earlier read is still right when
  it is written, or the run has lost the row.
- `ClaimIsReversible`: no step changes the status a queued row would be restored to.
- `ImplementsStore`: the engine refines `DocumentStore`.
- `BusyIsAttended`: while the server is up and no statement fails, a queued row has a job, a
  request or the goroutine of `main`, and a running row has its run.
- `OneJob`: a claim makes one job and a job one run, and a row that can be claimed has no job left from an
  earlier claim. True as long as no PATCH resets a queued row, see `unclaim_race`; in `liveness` nobody sends one.
- `BranchChangeResets`: a new tracked branch comes with `pending`. As `SyncedOnTrackedBranch`, true as long as PATCH
  requests do not overlap, see `patch_race`.
- `BusyEventuallyIdle`: busy leads to idle.
- `AccountStaysUsable`: what is stored is accepted by the provider unless it has expired, and
  tokens are cleared only after that. It needs the lock, the second look at the row, and the
  rule that an empty refresh token keeps the stored one.
- `RetiredAreRevoked`: the tokens of what an unlink removed or a link overwrote, the access token and the refresh
  token, which may be of two grants, are dead, or a request is still at work on them, also when the row was refreshed, or
  its tokens expired, on the way. Exempt is what a link overwrote unread (`missed`), see `relink_race`.
- `ImplementsLinkedAccount`: `Credentials` refines `LinkedAccount`. The account's grant is the stored one, or, while
  the caller with the lock stores a new pair, that pair: so the refresh at the provider and the
  `UPDATE` after it look like one step, and no other step of anybody uses up or revokes the grant.
- `EveryoneAnswered`: calls and requests end, in particular those that wait for the lock.
- `LoginChangesId`: an id that was given to a visitor never names a session that is signed in.
- `FlowsEndWhereTheyBegan`: a callback is accepted only from the browser its state was sent to, while
  its session has the user it had then, although both flows share one slot and copies overlap.
- `AbsoluteLimit`: however often and in whatever order its copies are saved, a session is not
  accepted for longer than the absolute expiration after the login.
- `StateUsedOnce`, `StaysSignedIn`: what a browser that sends one request at a time can rely on.
- `RefusalIsRight`: a refused name was not there from the first page to the last, unless a branch was
  deleted meanwhile or the list outgrew the cap. Pushes shift branches to later pages, and so hide none.
- `SelectsExisting`: a new tracked branch was, up to letter case, there while the request was looking.
- `ListIsComplete`: the same for the list of repositories.
- `EmptyNeedsInstallation`: an empty list comes from an app without repositories, unless the user installs
  or removes the app meanwhile.
- `UnclaimOnlyOwnClaim`, `BranchChangeResets` with two PATCH requests, `AllRetiredAreRevoked` (without the exemption) and `LogoutEndsSession` state what
  the documentation says; see the disagreements.

### Fairness

`FairSpec` assumes that goroutines which can take a step do (`TakeJob`, `SyncStep`, the
steps of a request, `Boot`, `Exit`): calls to the provider and the database return or time
out, since a job has 5 minutes and a statement fails when its context ends. It is strong for
`WorkerReturns`, because `select` picks among ready cases at random and so cannot pick the
jobs forever, and for `Reenqueue`, because a channel serves its blocked senders in order. No
fairness is assumed of users, of signals or of crashes. `Boot` stands for the supervisor that
starts the server again. No statement fails in this run: a failure to record a failure leaves the row running until
the next restart, as `docs/sync-engine.md` says.

In `Credentials`, the steps of `refresh` and of `Revoke` are weakly fair, since both have a
time-out. `Upsert` is strongly fair: PostgreSQL grants a row lock in the order in which it was
asked for, so callers that keep taking the lock cannot starve a request. Nothing is assumed of
users, of the expiry of tokens, of faults or of a crash.

### Disagreements found

1. `unclaim_race`: `UnclaimRepositorySync` is guarded by `queued` only. A request waits for a
   slot; a PATCH changes the branch; another request claims the row; the first gives up and
   reverts the second's claim, which was or will be answered 202. `docs/sync-engine.md:73`
   knows only the branch change. `UnclaimsOwnClaim` proves that the branch change of a queued row is the
   only way to it.
2. `patch_race`: `updateRepository` writes back the branch it read, so a PATCH of `auto_sync`
   undoes an overlapping branch change without a reset. The invariants on documents and rows
   hold, but the commit is shown under another branch until the next sync. `BranchChangesReset` proves that
   nothing but the overlap of two PATCH requests does it.
3. `relink_race`: of two overlapping re-links of a stored account both read and then revoke what was stored before; the
   second overwrites the tokens of the first, which nobody has read and nobody revokes. `docs/api.md:183` says replaced
   tokens are revoked; `docs/roadmap.md:84` accepts the race of a re-link with a refresh, not this one. Two overlapping
   first links do the same. If the overwriting access token is permanent, the refresh token of the overwritten grant
   even stays in the row (an empty refresh token keeps the stored one), and as `Revoke` looks at the access token only, an
   unlink leaves it alive too, though `docs/api.md:186` says that "no refresh token outlives the account"; a refresh that comes between the read
   and the upsert of a re-link leads to the same row. `AllRetiredAreDead` proves that, lost revocations and lost statements
   aside, a change of the row between read and upsert is the only cause of all this.
4. `logout`: `logout` destroys the key and expires the cookie, but the session of the request stays
   authenticated; the response sets the cookie again and `Handle` saves the session after the
   handler. `docs/api.md:101` says both are cleared.

Others, seen while the models were built and without a run of their own:

- `googleCallback` marks the session as signed in before `Regenerate`; when its DEL fails
  the client gets a 500 and the session is saved, signed in, under its old id. `docs/api.md:93` and two
  comments say that the id changes: `LoginChangesId`, with a DEL that fails.
- `docs/sync-engine.md:112` says that duplicate ids in the channel come from a branch change followed by a claim, "or the
  startup reset". The reset alone makes none: the ids in the channel, in workers and in requests die with the process, and a
  row that was reset is queued, so it cannot be claimed before its one new job has started. `OneJob` holds across
  restarts, and `OneJobPerClaim` proves that the branch change of a queued row is the only source. That line calls
  duplicates harmless, which they are for the workers; the same cause has a case that is not, `unclaim_race`.
- `branchExists` ignores letter case and the name of the request is stored, so a name the
  provider does not have is accepted; `docs/api.md:312` says it must exist.
- `updateRepository` takes a `tracked_branch` that differs in letter case only for no change and
  answers 200. Of two such branches the second cannot be selected by PATCH, and a name stored in the wrong
  letter case not be corrected; `docs/api.md:247` says that PATCH changes the branch.
- The check for installations is later than the last page. A user who installs the app with a
  repository in between gets `[]`, which `docs/api.md:211` says means that no repository is selected.
- With a stale job of the repository in the channel, a worker starts the claim of a request that
  then answers 503. `docs/api.md:326` says the status is kept.
- A skipped file is not retried by the next sync unless the branch has moved; the comment at
  `reposync.go:208` says it is.
- When the answer to a refresh is lost after the provider rotated the tokens, the retry is rejected
  and clears the account. `docs/api.md:172` says retrying is enough.
- A claim that is executed but whose answer is lost (`ClaimUnconfirmed`, part of `faults`) leaves the row
  queued with no job until a restart; the list in `docs/sync-engine.md:119` of what leaves a
  repository busy lacks the case.
- Two callbacks of one browser that overlap can both find the state, which `docs/api.md:92` and
  `docs/api.md:232` call single-use: `StateUsedOnce` needs one request at a time. `FlowsEndWhereTheyBegan`,
  which is what the state is for, holds all the same.

## Proofs

`SyncEngineProofs` proves for every value of the constants that satisfies
`TreeAssumption` and `EngineAssumption` (any numbers of repositories, workers,
requests, stamps, commits, any subset of the faults, any bound on restarts):

| theorem | statement |
| --- | --- |
| `TypeCorrect` | `Spec => []TypeOK` |
| `Invariant` | `Spec => []IInv` |
| `RowsConsistent` | `Spec => []RowShape` |
| `PlansCurrent` | `Spec => []PlanIsCurrent` |
| `DocumentsMatch` | `Spec => []DocsMatchSyncedCommit` |
| `ClaimsReversible` | `Spec => ClaimIsReversible` |
| `Refinement` | `Spec => ImplementsStore` |

The argument. `DiffYieldsSnapshot` says that the three sets of the comparison, written over
the documents they were computed from, give the snapshot of the commit, and
`SnapshotIsStable` that a second sync of it changes nothing. That a run
publishes a snapshot then needs that its parameters were computed from the documents stored
at that moment, `PlanIsCurrent`. It is inductive only together with the fact that no two runs
share a token (`TokensDistinct`): otherwise the row could belong to two runs, and one would publish
what it computed before the other wrote. A step that changes documents takes the row from its owner, so every
other plan becomes void at the same time. The inductive invariant is

    IInv == TypeOK /\ RowShape /\ TokensDistinct /\ PlanIsCurrent /\ DocsMatchSyncedCommit

The lemmas follow the actors: workers, requests, PATCH, server, with one step per action; the
refinement and the action property use the invariant in the state before the step. The
freshness of tokens is the guard of `StartRun`, the one thing taken from PostgreSQL's clock.

`AttendanceProofs` extends it with properties that do need assumptions:

| theorem | assuming | statement |
| --- | --- | --- |
| `BusyAttended` | `Faults \subseteq {"client"}`: no statement fails, clients may leave | `Spec => []BusyIsAttended` |
| `CommitOnBranch` | `OnePatcher`: no two PATCH requests | `Spec => []SyncedOnTrackedBranch` |
| `BranchChangesReset` | `OnePatcher` | `Spec => BranchChangeResets` |
| `OneJobPerClaim` | `[][SparesQueued]_vars`: no PATCH resets a queued row | `Spec => []OneJob` |
| `UnclaimsOwnClaim` | `[][SparesQueued]_vars` | `Spec => UnclaimOnlyOwnClaim` |

A failed statement can leave a busy row that nobody knows of until the next restart, as
`docs/sync-engine.md` says, and `patch_race` shows what two PATCH requests do, so these assumptions
are needed; except for `BusyAttended`, every statement may fail. `BusyIsAttended` is inductive together with `IInv`, and its proof follows an id from hand to hand: a
request or the goroutine of `main` gives it to the channel, the channel to a worker, and a worker lets go
of it only when the row is idle or belongs to somebody else. For `CommitOnBranch`, a run that owns
its row works on the branch the row has (`RunKnowsBranch`), because a branch change takes the row from
its run; and a PATCH in progress knows the branch of the row (`PatchKnowsBranch`);
the same two facts give `BranchChangesReset`.

For `OneJobPerClaim` a claim is a ticket, which one holder has at a time: the request that made it, the backlog of
`main`, the channel, or a worker about to start (`OneTicket`, with `NoJobTwice` for the channel). While there is a ticket, the row is
queued or was deleted, so it cannot be claimed, and the reset at the start, which makes new tickets, finds none, since all
were in the memory of the process that ended. A request holds the ticket of its own claim (`claimant`), and
only then can its unclaim match, which is `UnclaimsOwnClaim`. The one statement that breaks the link of ticket and
status is `UpdateRepository` with a reset on a queued row: the row can be claimed while its ticket is still out. Both
theorems therefore assume of the behaviour, not of the constants, that this does not occur (`SparesQueued`); PATCH
requests may overlap in every other way, and every other statement may fail. `unclaim_race` shows that it occurs.

`CredentialsProofs` proves, for any numbers of callers, requests, grants and ids, permanent or
not, that satisfy `GrantAssumption` and `CredentialsAssumption`:

| theorem | assuming | statement |
| --- | --- | --- |
| `TypeCorrect` | | `Spec => []TypeOK` |
| `AccountsStayUsable` | `Faults \subseteq {"revoke"}` | `Spec => []AccountStaysUsable` |
| `LinkedAccountImplemented` | `Faults \subseteq {"revoke"}` | `Spec => ImplementsLinkedAccount` |
| `RetiredAreDead` | `Faults \subseteq {"reply", "withdraw"}` | `Spec => []RetiredAreRevoked` |
| `AllRetiredAreDead` | the same, and `[][ReadsWhatItReplaces]_vars`: a link overwrites no token that it had not read | `Spec => []AllRetiredAreRevoked` |

The assumptions on faults are needed. A lost answer, a failed store, a withdrawal or a crash
between refresh and commit makes the stored refresh token useless whatever the code does; a lost
revocation, a failed store or a crash leaves a token alive. The argument follows each grant through the places it can
be in. Under every fault, only issued grants are held, and a row has tokens of two grants only if its access token is
permanent, which is what the update of the refresh token preserves (`RowInv`). A grant that was received and not stored
yet is in one place, and neither spent nor revoked (`PendingIsNew`); what a request is revoking is not what is stored
(`RevokedIsOld`); so no step but that of the caller with the lock can spend or revoke what is stored (`StoredIsGood`).
These are inductive as `StoredInv`, which gives `AccountsStayUsable`.

The refinement takes `Current`, the grant of the account, from the row, or from the caller that is
storing a new pair. Each step is then one of `LinkedAccount` or a stutter: the answer of the provider is its `Renew`,
the `UPDATE` after it a stutter, and `StoredInv` shows that every other refresh and revocation is of another grant (`Elsewhere`).

What was unlinked or replaced needs no usable account, only that the request which took the row keeps track of it:
`Covered(g)` says that `g` is dead or a request is in charge of it, and `DutyStep` that no step of anybody leaves a covered grant
uncovered, given that what is sent to be revoked has not expired (`DutyInv`), because only then its revocation kills the
refresh token. A request is in charge of the access token it deleted or read, in the step that deletes or overwrites it. That
leaves the refresh token next to it when it is of another grant: `KeptInv` says that such a token, in the row or in what a request has read
(`Kept`), was covered or overwritten unread before (`Dealt`). It gets there when a permanent token is stored over it, and `OverwrittenDealt` says
that this upsert has taken charge of it or missed it. `NewlyRetired` then gives `RetiredInv`, and
without unread tokens nothing is missed (`ReadsWhatItReplaces`).

`SessionProofs` proves, for any numbers of browsers, requests, ids, states and users, any expirations
and any trouble that satisfy `SessionAssumption` and `EntryAssumption` (`Null` is no session):

| theorem | assuming | statement |
| --- | --- | --- |
| `TypeCorrect` | | `Spec => []TypeOK` |
| `LoginChangesIdCorrect` | no DEL fails | `Spec => []LoginChangesId` |
| `HistoryCorrect` | | `Spec => [](TypeOK /\ Separate /\ HistoryInv)` |
| `FlowsCorrect` | | `Spec => []FlowsEndWhereTheyBegan` |
| `AbsoluteLimitCorrect` | | `Spec => []AbsoluteLimit` |

The argument. A save writes what a copy holds under the id the copy holds, whoever else used the id in
the meantime, so nothing can be proved of the store alone: `HistoryInv` says of every stored session
*and* of every copy that it agrees with the history of the browser that holds it. Its state was
issued for this browser and this user, and if it is signed in, the browser's last login is not older
than its `CreatedAt`. A save then moves a truth from a copy to the store, provided that whoever holds
the id is the browser of the copy: no two browsers hold one id (`Separate`), which follows from
`HoldersStep`, that a step hands out no id or a fresh one, to one browser. For `LoginChangesId` the
same two places are related to the ids given to visitors (`VisitorsInv`).

`OrderlyProofs` extends it with what needs order:

| theorem | assuming | statement |
| --- | --- | --- |
| `OrderlyCorrect` | | `Spec => []OrderlyInv` |
| `StaysSignedInCorrect` | | `Spec => []StaysSignedIn` |
| `StateUsedOnceCorrect` | `OneAtATime`: requests do not overlap, SET does not fail | `Spec => []StateUsedOnce` |

`StaysSignedIn` speaks of orderly browsers only, so it needs no assumption on the others. The login of
such a browser is in one place at a time (`KeepsLogin`): in Redis under the id of the cookie, in the copy
of its only request (`Alone`), and in Redis again, under the id the response will set. `Separate`
keeps the steps of other browsers away from that place. `StateUsedOnce` needs that a state is in one copy and
under one id (`OneCopy`), and that after it was accepted it is in no copy, and in Redis only as long as the
request that accepted it has its copy still to save (`UsedIsGone`), which is over before
the browser can send the next one. Both assumptions are needed: two overlapping requests load the same state, and a save
that fails leaves it in Redis.

`PagesProofs`, `RepositoryListProofs` and `ProviderListsProofs` prove, for any items, page size, cap and number
of requests that satisfy `PagesAssumption` (and `SelectionAssumption`):

| theorem of `ProviderListsProofs` | statement |
| --- | --- |
| `SelectionCorrect` | `Spec => [](TypeOK /\ SelectionInv)` |
| `TypeCorrect` | `ListsSpec => []TypeOK` |
| `RefusalCorrect` | `ListsSpec => []RefusalIsRight` |
| `SelectsExistingCorrect` | `ListsSpec => []SelectsExisting` |
| `ListIsCompleteCorrect` | `ListsSpec => []ListIsComplete` |
| `EmptyNeedsInstallationCorrect` | `ListsSpec => []EmptyNeedsInstallation` |

`RepositoryListProofs` has the last two, and its own `TypeCorrect`, about `RepositoryList` alone; `ProviderLists` instantiates them,
and a step of one component leaves the variables of the other as they are.

The argument is one about the loop, `LoopInv`: until something is removed, the loop has every item that was listed all
the time and that is on an earlier page *now*. An added item can only move others to later pages
(`BeforeGrows`), so this survives every change (`WatchedInv`) and every page (`FetchedInv`); and when there is no next page, or the
cap is reached by a list that fits it, every item is on an earlier page. What a request concludes is tied to its loop by
`SelectionInv` and `ListInv`, which are inductive with `TypeOK`. That an empty list needs an
installation rests on `FirstPage`: the first page of a list is empty only if the list is.

Only model-checked: `BusyEventuallyIdle` and `EveryoneAnswered`, since liveness and `ENABLED` are
out of the prover's reach.

## Not modelled, and what could follow

- *Secrets* is cryptography, *HTTP helpers and users* format responses and read one row: they keep no
  state that two actors share. Configuration and wiring are left out for the same reason.
- *Providers*: parsing and the classification of answers are a choice of any possible answer, and the requests
  of a sync (`GetBranch`, `GetTree`, `GetBlob`) are functions of what the provider has.
- The other read-only handlers have nothing to break but what they read, which the invariants cover; the list of
  branches for the user is the loop of `BranchSelection` and nothing else.
- `SyncEngine` over an abstract specification of what a caller of `ForAccount` may rely on,
  implemented by `Credentials`: a token that is revoked during a sync, and `reauth_required`.
- `SyncPool` on its own, with blocked senders in order, so that the fairness of `Reenqueue` is
  derived and not assumed; the row locks of the document transaction.
- A `LinkedAccount` that may lose its grant, so that the refinement can also be stated with lost answers, failed
  stores and withdrawals.
- A proof of `BusyIsAttended` with the exceptions that
  `docs/sync-engine.md:119` allows when statements fail.
