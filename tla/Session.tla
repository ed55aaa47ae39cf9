------------------------------ MODULE Session ------------------------------
(***************************************************************************)
(* Sessions and login: session.SessionManager keeps sessions in Redis and  *)
(* wraps every request. Handle loads the session the cookie names, or      *)
(* makes a new one, lets the handler work on this copy, and writes the     *)
(* copy back when the handler is done, changed or not. The handlers of     *)
(* routers/auth.go sign a browser in through Google and out again; those   *)
(* of routers/external_git_accounts.go use the same session, and the same  *)
(* slot for the OAuth state, to link an account of a git provider.         *)
(*                                                                         *)
(* Requests of one browser may overlap, and they share the session only    *)
(* through Redis. Time is counted in ticks of an arbitrary length.         *)
(***************************************************************************)
EXTENDS Naturals, Sequences

CONSTANTS
  Null,
  Browsers,
  Requests,  \* requests being served
  Ids,       \* session ids
  States,    \* OAuth state tokens
  Users,
  Idle,      \* idleExpiration
  Absolute,  \* absoluteExpiration
  Trouble    \* Trouble[b]: what can happen to the requests of browser b

(* "overlap": the browser sends a request while another is in progress.    *)
(* "read", "write", "destroy": the Redis command of this kind fails.       *)
(* "lost": the browser does not receive a response.                        *)
AllTrouble == {"overlap", "read", "write", "destroy", "lost"}

ASSUME SessionAssumption ==
  /\ Idle \in Nat \ {0} /\ Absolute \in Nat \ {0}
  /\ Trouble \in [Browsers -> SUBSET AllTrouble]
  /\ Null \notin Browsers \cup Ids \cup States \cup Users

VARIABLES
  store,     \* store[i]: what Redis keeps under the key i, or Null
  cookie,    \* cookie[b]: the session id a browser sends
  call,      \* call[r]: a request in progress and its copy of the session
  anonymous, \* history: ids handed out to visitors, not by a login
  issued,    \* history, issued[s]: for whom a state was made, and its uses
  login      \* history, login[b]: the last login of the browser

historyVars == <<anonymous, issued, login>>
vars == <<store, cookie, call, historyVars>>

-----------------------------------------------------------------------------
Ages == 0 .. Absolute + 1

Older(age) == IF age <= Absolute THEN age + 1 ELSE age

(* models.Session: user is Null while it is not authenticated, state is    *)
(* Data["oauth_state"], age counts from CreatedAt, idle from               *)
(* LastActivityAt, which is the moment of the write.                       *)
Entries == [user : Users \cup {Null}, state : States \cup {Null},
            age : Ages, idle : 0 .. Idle + 1]

ASSUME EntryAssumption == Null \notin Entries

Entry(user, state, age) ==
  [user |-> user, state |-> state, age |-> age, idle |-> 0]

Calls == [at : {"none", "expired", "handler", "save", "respond"},
          browser : Browsers \cup {Null}, id : Ids \cup {Null},
          user : Users \cup {Null}, state : States \cup {Null}, age : Ages]

Call(at, b, id, user, state, age) ==
  [at |-> at, browser |-> b, id |-> id,
   user |-> user, state |-> state, age |-> age]

NoCall == Call("none", Null, Null, Null, Null, 0)

(* The browser a state was sent to and the user of its session then, and   *)
(* the same two for the first two callbacks that accepted the state.       *)
Uses == [browser : Browsers, user : Users \cup {Null}]
Issues == [browser : Browsers \cup {Null}, user : Users \cup {Null},
           uses : Seq(Uses)]

Issue(b, user) == [browser |-> b, user |-> user, uses |-> <<>>]

(* The last login of a browser is in force, or the session it made has     *)
(* expired, or the browser has logged out; age counts from the login.      *)
Logins == [is : {"never", "in", "expired", "out"},
           user : Users \cup {Null}, age : Ages]

Login(is, user, age) == [is |-> is, user |-> user, age |-> age]

TypeOK ==
  /\ store \in [Ids -> Entries \cup {Null}]
  /\ cookie \in [Browsers -> Ids \cup {Null}]
  /\ call \in [Requests -> Calls]
  /\ \A r \in Requests :
       call[r].at # "none" => call[r].browser # Null /\ call[r].id # Null
  /\ anonymous \subseteq Ids
  /\ issued \in [States -> Issues]
  /\ login \in [Browsers -> Logins]

Init ==
  /\ store = [i \in Ids |-> Null]
  /\ cookie = [b \in Browsers |-> Null]
  /\ call = [r \in Requests |-> NoCall]
  /\ anonymous = {}
  /\ issued = [s \in States |-> Issue(Null, Null)]
  /\ login = [b \in Browsers |-> Login("never", Null, 0)]

Open(b) == {r \in Requests : call[r].browser = b}

(* Browser b, or a request of it, has the session id i.                    *)
Holds(b, i) == cookie[b] = i \/ \E r \in Open(b) : call[r].id = i

Known == {cookie[b] : b \in Browsers} \cup {call[r].id : r \in Requests}

(* An id that no browser and no request knows stands for a random one.     *)
FreshIds == Ids \ Known

Pending ==
  {store[i].state : i \in {j \in Ids : store[j] # Null}}
    \cup {call[r].state : r \in Requests}

FreshStates == States \ Pending

-----------------------------------------------------------------------------
(* SessionManager.Handle: request r, up to the handler.                    *)

Overdue(e) == e.age > Absolute \/ e.idle > Idle

(* The session has ended in time; the history notes it.                    *)
LoginExpired(i) ==
  [b \in Browsers |->
     IF login[b].is = "in" /\ Holds(b, i)
     THEN [login[b] EXCEPT !.is = "expired"] ELSE login[b]]

NewSession(r, b) ==
  \E i \in FreshIds :
    /\ call' = [call EXCEPT ![r] = Call("handler", b, i, Null, Null, 0)]
    /\ store' = [store EXCEPT ![i] = Null]
    /\ anonymous' = anonymous \cup {i}

MaySend(r, b) ==
  /\ call[r].at = "none"
  /\ Open(b) = {} \/ "overlap" \in Trouble[b]

(* No cookie, an error of GET, or nothing under the id of the cookie.      *)
StartNew(r, b) ==
  /\ MaySend(r, b)
  /\ \/ cookie[b] = Null
     \/ "read" \in Trouble[b]
     \/ cookie[b] # Null /\ store[cookie[b]] = Null
  /\ NewSession(r, b)
  /\ UNCHANGED <<cookie, issued, login>>

(* The session that was read has to pass isValid.                          *)
Loaded(b, i) ==
  IF Overdue(store[i])
  THEN Call("expired", b, i, Null, Null, 0)
  ELSE Call("handler", b, i, store[i].user, store[i].state, store[i].age)

StartLoaded(r, b) ==
  /\ MaySend(r, b)
  /\ cookie[b] # Null
  /\ store[cookie[b]] # Null
  /\ call' = [call EXCEPT ![r] = Loaded(b, cookie[b])]
  /\ UNCHANGED <<store, cookie, historyVars>>

(* Redis after DEL i for a request of b, which fails without effect in     *)
(* trouble.                                                                *)
Deletions(b, i) ==
  {[store EXCEPT ![i] = Null]}
    \cup {old \in {store} : "destroy" \in Trouble[b]}

(* destroyExpiredIfNeeded, whose error is only logged, then newSession.    *)
ReplaceExpired(r) ==
  /\ call[r].at = "expired"
  /\ \E i \in FreshIds, after \in Deletions(call[r].browser, call[r].id) :
       /\ call' = [call EXCEPT ![r] =
                     Call("handler", call[r].browser, i, Null, Null, 0)]
       /\ store' = [after EXCEPT ![i] = Null]
       /\ anonymous' = anonymous \cup {i}
  /\ login' = LoginExpired(call[r].id)
  /\ UNCHANGED <<cookie, issued>>

-----------------------------------------------------------------------------
(* The handlers, on the copy of request r.                                 *)

Returns(r, c) == call' = [call EXCEPT ![r] = [c EXCEPT !.at = "save"]]

(* Every handler that does not touch the session, and every request that   *)
(* RequireAuth rejects.                                                    *)
Serve(r) ==
  /\ call[r].at = "handler"
  /\ Returns(r, call[r])
  /\ UNCHANGED <<store, cookie, historyVars>>

(* A new state replaces the one of a flow begun earlier.                   *)
SendToProvider(r) ==
  \E s \in FreshStates :
    /\ Returns(r, [call[r] EXCEPT !.state = s])
    /\ issued' = [issued EXCEPT ![s] = Issue(call[r].browser, call[r].user)]

GoogleLogin(r) ==
  /\ call[r].at = "handler"
  /\ SendToProvider(r)
  /\ UNCHANGED <<store, cookie, anonymous, login>>

RequireAuth(r) == call[r].at = "handler" /\ call[r].user # Null

ProviderLogin(r) ==
  /\ RequireAuth(r)
  /\ SendToProvider(r)
  /\ UNCHANGED <<store, cookie, anonymous, login>>

(* Mutant: any state will do once a flow has begun.                        *)
Accepts_AnyState(r, s) ==
  /\ call[r].state # Null
  /\ issued' = [issued EXCEPT ![s].uses =
       Append(@, [browser |-> call[r].browser, user |-> call[r].user])]

(* A callback with the state s passes the check.                           *)
Accepts(r, s) ==
  /\ s = call[r].state
  /\ issued' = IF Len(issued[s].uses) = 2 THEN issued ELSE
       [issued EXCEPT ![s].uses =
          Append(@, [browser |-> call[r].browser, user |-> call[r].user])]

(* Mutants: the state is read and not deleted; the user goes with it.      *)
TakenFrom_Keeps(c) == c
TakenFrom_ForgetsUser(c) == [c EXCEPT !.state = Null, !.user = Null]

TakenFrom(c) == [c EXCEPT !.state = Null]

(* A callback of either flow with another state, or none: the stored state *)
(* is cleared all the same.                                                *)
CallbackRefused(r) ==
  /\ call[r].at = "handler"
  /\ \E s \in States \cup {Null} : s # call[r].state
  /\ Returns(r, TakenFrom(call[r]))
  /\ UNCHANGED <<store, cookie, historyVars>>

(* The code is missing or rejected, or the provider or PostgreSQL fails.   *)
CallbackFails(r) ==
  /\ call[r].at = "handler"
  /\ \E s \in States : Accepts(r, s)
  /\ Returns(r, TakenFrom(call[r]))
  /\ UNCHANGED <<store, cookie, anonymous, login>>

(* Mutant: a Regenerate that makes no new id.                              *)
SignIn_WithoutId(c, u, i) ==
  [TakenFrom(c) EXCEPT !.user = u, !.id = Null, !.age = 0]

SignIn(c, u, i) == [TakenFrom(c) EXCEPT !.user = u, !.id = i, !.age = 0]

(* Mutant: without Regenerate.                                             *)
GoogleCallback_KeepsId(r) ==
  /\ call[r].at = "handler"
  /\ \E s \in States, u \in Users :
       /\ Accepts(r, s)
       /\ Returns(r, [TakenFrom(call[r]) EXCEPT !.user = u])
       /\ login' = [login EXCEPT ![call[r].browser] = Login("in", u, 0)]
  /\ UNCHANGED <<store, cookie, anonymous>>

(* SetUserID, and Regenerate succeeds.                                     *)
GoogleCallback(r) ==
  /\ call[r].at = "handler"
  /\ \E s \in States, u \in Users, i \in FreshIds :
       /\ Accepts(r, s)
       /\ Returns(r, SignIn(call[r], u, i))
       /\ store' = [store EXCEPT ![call[r].id] = Null, ![i] = Null]
       /\ anonymous' = anonymous \ {i}
       /\ login' = [login EXCEPT ![call[r].browser] = Login("in", u, 0)]
  /\ UNCHANGED cookie

(* SetUserID, and the DEL of Regenerate fails: 500, and the copy is signed *)
(* in under its old id.                                                    *)
RegenerateFails(r) ==
  /\ call[r].at = "handler"
  /\ "destroy" \in Trouble[call[r].browser]
  /\ \E s \in States, u \in Users :
       /\ Accepts(r, s)
       /\ Returns(r, [TakenFrom(call[r]) EXCEPT !.user = u])
       /\ login' = [login EXCEPT ![call[r].browser] = Login("in", u, 0)]
  /\ store' \in Deletions(call[r].browser, call[r].id)
  /\ UNCHANGED <<cookie, anonymous>>

(* The account is linked to the user of the session: module Credentials.   *)
ProviderCallback(r) ==
  /\ RequireAuth(r)
  /\ \E s \in States : Accepts(r, s)
  /\ Returns(r, TakenFrom(call[r]))
  /\ UNCHANGED <<store, cookie, anonymous, login>>

(* The copy stays as it is. The cookie that ClearCookie expires is set     *)
(* again by writeCookieIfNecessary when the body is written.               *)
Logout(r) ==
  /\ call[r].at = "handler"
  /\ store' \in Deletions(call[r].browser, call[r].id)
  /\ Returns(r, call[r])
  /\ login' = [login EXCEPT ![call[r].browser].is = "out"]
  /\ UNCHANGED <<cookie, anonymous, issued>>

-----------------------------------------------------------------------------
(* SessionManager.Handle: after the handler.                               *)

(* Mutant: a save counts as a new creation.                                *)
Written_Renewed(c) ==
  [store EXCEPT ![c.id] = Entry(c.user, c.state, 0)]

(* Write deletes the key when no time is left.                             *)
Written(c) ==
  [store EXCEPT ![c.id] =
     IF c.age >= Absolute THEN Null ELSE Entry(c.user, c.state, c.age)]

(* Of the copy, only the id is still of use.                               *)
Saved(c) == Call("respond", c.browser, c.id, Null, Null, 0)

Save(r) ==
  /\ call[r].at = "save"
  /\ call' = [call EXCEPT ![r] = Saved(@)]
  /\ store' = Written(call[r])
  /\ login' = IF call[r].age >= Absolute
              THEN LoginExpired(call[r].id) ELSE login
  /\ UNCHANGED <<cookie, anonymous, issued>>

SaveFails(r) ==
  /\ call[r].at = "save"
  /\ "write" \in Trouble[call[r].browser]
  /\ call' = [call EXCEPT ![r] = Saved(@)]
  /\ UNCHANGED <<store, cookie, historyVars>>

(* Redis keeps a session whose id nobody knows any more until its TTL ends. *)
(* Nothing can come of it, nor of a state that no session holds, and the   *)
(* model forgets both.                                                     *)
ForgetUnknown ==
  /\ store' = [i \in Ids |-> IF i \in Known' THEN store[i] ELSE Null]
  /\ anonymous' = anonymous \cap Known'
  /\ issued' = [s \in States |->
                  IF s \in Pending' THEN issued[s] ELSE Issue(Null, Null)]

Respond(r) ==
  /\ call[r].at = "respond"
  /\ cookie' = [cookie EXCEPT ![call[r].browser] = call[r].id]
  /\ call' = [call EXCEPT ![r] = NoCall]
  /\ ForgetUnknown
  /\ UNCHANGED login

ResponseLost(r) ==
  /\ call[r].at = "respond"
  /\ "lost" \in Trouble[call[r].browser]
  /\ call' = [call EXCEPT ![r] = NoCall]
  /\ UNCHANGED <<cookie, login>>
  /\ ForgetUnknown

-----------------------------------------------------------------------------
(* The clock and Redis.                                                    *)

Tick ==
  /\ store' = [i \in Ids |->
       IF store[i] = Null THEN Null
       ELSE [store[i] EXCEPT !.age = Older(@),
               !.idle = IF @ <= Idle THEN @ + 1 ELSE @]]
  /\ call' = [r \in Requests |->
       IF call[r].at \in {"handler", "save"}
       THEN [call[r] EXCEPT !.age = Older(@)] ELSE call[r]]
  /\ login' = [b \in Browsers |->
       IF login[b].is = "never" THEN login[b]
       ELSE [login[b] EXCEPT !.age = Older(@)]]
  /\ UNCHANGED <<cookie, anonymous, issued>>

(* The TTL of Write ends when isValid would no longer accept the session.  *)
RedisExpires(i) ==
  /\ store[i] # Null
  /\ Overdue(store[i])
  /\ store' = [store EXCEPT ![i] = Null]
  /\ login' = LoginExpired(i)
  /\ UNCHANGED <<cookie, call, anonymous, issued>>

Handler(r) ==
  \/ Serve(r) \/ Logout(r)
  \/ GoogleLogin(r) \/ GoogleCallback(r) \/ RegenerateFails(r)
  \/ ProviderLogin(r) \/ ProviderCallback(r)
  \/ CallbackRefused(r) \/ CallbackFails(r)

Next ==
  \/ \E r \in Requests, b \in Browsers : StartNew(r, b) \/ StartLoaded(r, b)
  \/ \E r \in Requests :
       \/ ReplaceExpired(r) \/ Handler(r)
       \/ Save(r) \/ SaveFails(r) \/ Respond(r) \/ ResponseLost(r)
  \/ Tick
  \/ \E i \in Ids : RedisExpires(i)

Spec == Init /\ [][Next]_vars

-----------------------------------------------------------------------------
SignedIn(b) == cookie[b] # Null /\ store[cookie[b]] # Null
                 /\ store[cookie[b]].user # Null

(* A login changes the session id: an id that was handed out to a visitor  *)
(* who was not signed in never names a session that is (auth.go:122, "to   *)
(* prevent fixation"). It holds as long as the DEL of Regenerate succeeds. *)
LoginChangesId ==
  \A i \in anonymous : store[i] # Null => store[i].user = Null

(* An OAuth flow ends where it began: a callback that is accepted comes    *)
(* from the browser the state was sent to, and its session has the user it *)
(* had then, so that an account is linked to the user who asked for it.    *)
(* The two flows share one slot and sessions are saved out of order.       *)
FlowsEndWhereTheyBegan ==
  \A s \in States : \A n \in DOMAIN issued[s].uses :
    issued[s].uses[n] = [browser |-> issued[s].browser,
                         user |-> issued[s].user]

(* However busy a browser is, it is not signed in for longer than the      *)
(* absolute expiration after its last login: only Regenerate moves         *)
(* CreatedAt, every save shortens the TTL.                                 *)
AbsoluteLimit ==
  \A b \in Browsers :
    SignedIn(b) /\ ~Overdue(store[cookie[b]]) => login[b].age <= Absolute

(* A state is accepted once (external_git_accounts.go:129, "single-use"),  *)
(* when browsers send one request at a time.                               *)
StateUsedOnce == \A s \in States : Len(issued[s].uses) <= 1

(* A browser that sends one request at a time, while GET and SET do not    *)
(* fail, stays signed in as the user of its last login until the session   *)
(* expires or it logs out, whatever flows it starts, abandons or fails.    *)
StaysSignedIn ==
  \A b \in Browsers :
    Trouble[b] \subseteq {"destroy"} /\ Open(b) = {} /\ login[b].is = "in"
      => SignedIn(b) /\ store[cookie[b]].user = login[b].user

(* After a logout the browser is signed out (docs/api.md:101: it "clears   *)
(* the session cookie and its Redis entry").                               *)
LogoutEndsSession ==
  \A b \in Browsers :
    Open(b) = {} /\ login[b].is = "out" => ~SignedIn(b)
=============================================================================
