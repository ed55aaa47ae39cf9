--------------------------- MODULE SessionProofs ---------------------------
(***************************************************************************)
(* Theorems about Session, for any numbers of browsers, requests, ids,     *)
(* states and users, any expirations and any trouble.                      *)
(***************************************************************************)
EXTENDS Session, TLAPS

(* The parts of TypeOK that most steps need.                               *)
LEMMA Types ==
  ASSUME TypeOK
  PROVE  /\ \A r \in Requests :
              /\ call[r] \in Calls
              /\ call[r].at # "none" => call[r].browser \in Browsers
                                          /\ call[r].id \in Ids
              /\ call[r].age \in Nat
         /\ \A i \in Ids : store[i] # Null => store[i] \in Entries
         /\ \A b \in Browsers : cookie[b] \in Ids \cup {Null}
                                  /\ login[b].age \in Nat
BY SessionAssumption DEF TypeOK, Calls, Ages, Logins

LEMMA OlderInAges ==
  ASSUME NEW age \in Ages
  PROVE  Older(age) \in Ages /\ age <= Older(age)
BY SessionAssumption DEF Ages, Older

CallsOK ==
  /\ call \in [Requests -> Calls]
  /\ \A r \in Requests :
       call[r].at # "none" => call[r].browser # Null /\ call[r].id # Null

LEMMA CallChanges ==
  ASSUME CallsOK, NEW r \in Requests, NEW c \in Calls,
         c.at # "none" => c.browser # Null /\ c.id # Null,
         call' = [call EXCEPT ![r] = c]
  PROVE  CallsOK'
BY DEF CallsOK

LEMMA HandlerReturns ==
  ASSUME CallsOK, NEW r \in Requests, NEW c \in Calls,
         c.browser # Null, c.id # Null, Returns(r, c)
  PROVE  CallsOK'
<1>1. [c EXCEPT !.at = "save"] \in Calls
  BY DEF Calls
<1>2. [c EXCEPT !.at = "save"].browser = c.browser
      /\ [c EXCEPT !.at = "save"].id = c.id
  BY DEF Calls
<1> QED
  BY <1>1, <1>2, CallChanges DEF Returns

(* Deleting a key keeps the type of the store.                             *)
LEMMA DeletionsType ==
  ASSUME store \in [Ids -> Entries \cup {Null}],
         NEW b \in Browsers, NEW i \in Ids, NEW st \in Deletions(b, i)
  PROVE  /\ st \in [Ids -> Entries \cup {Null}]
         /\ \A j \in Ids : st[j] # Null => st[j] = store[j]
BY DEF Deletions

LEMMA LoginExpiredType ==
  ASSUME login \in [Browsers -> Logins], NEW i
  PROVE  /\ LoginExpired(i) \in [Browsers -> Logins]
         /\ \A b \in Browsers : LoginExpired(i)[b].age = login[b].age
BY DEF LoginExpired, Logins

LEMMA AcceptsType ==
  ASSUME TypeOK, NEW r \in Requests, NEW s \in States,
         call[r].browser \in Browsers, Accepts(r, s)
  PROVE  issued' \in [States -> Issues]
<1>1. [browser |-> call[r].browser, user |-> call[r].user] \in Uses
  BY DEF TypeOK, Calls, Uses
<1>2. Append(issued[s].uses,
        [browser |-> call[r].browser, user |-> call[r].user]) \in Seq(Uses)
  BY <1>1 DEF TypeOK, Issues
<1> QED
  BY <1>2 DEF TypeOK, Issues, Accepts

LEMMA SignInType ==
  ASSUME NEW c \in Calls, NEW u \in Users, NEW i \in Ids
  PROVE  /\ SignIn(c, u, i) \in Calls
         /\ SignIn(c, u, i).at = c.at
         /\ SignIn(c, u, i).browser = c.browser
         /\ SignIn(c, u, i).id = i /\ SignIn(c, u, i).user = u
         /\ SignIn(c, u, i).state = Null /\ SignIn(c, u, i).age = 0
<1> DEFINE t == TakenFrom(c)
<1>1. t \in Calls /\ t.at = c.at /\ t.browser = c.browser /\ t.state = Null
  BY DEF TakenFrom, Calls
<1>2. 0 \in Ages
  BY SessionAssumption DEF Ages
<1> HIDE DEF t
<1>3. /\ [t EXCEPT !.user = u, !.id = i, !.age = 0] \in Calls
      /\ [t EXCEPT !.user = u, !.id = i, !.age = 0].at = t.at
      /\ [t EXCEPT !.user = u, !.id = i, !.age = 0].browser = t.browser
      /\ [t EXCEPT !.user = u, !.id = i, !.age = 0].id = i
      /\ [t EXCEPT !.user = u, !.id = i, !.age = 0].user = u
      /\ [t EXCEPT !.user = u, !.id = i, !.age = 0].state = t.state
      /\ [t EXCEPT !.user = u, !.id = i, !.age = 0].age = 0
  BY <1>1, <1>2 DEF Calls
<1>4. SignIn(c, u, i) = [t EXCEPT !.user = u, !.id = i, !.age = 0]
  BY DEF SignIn, t
<1> QED
  BY <1>1, <1>3, <1>4

(* TypeOK, action by action.                                               *)
LEMMA StartTypes ==
  ASSUME TypeOK, NEW r \in Requests, NEW b \in Browsers,
         StartNew(r, b) \/ StartLoaded(r, b)
  PROVE  TypeOK'
<1>1. CASE StartNew(r, b)
  <2>1. PICK i \in FreshIds : /\ call' = [call EXCEPT ![r] =
                                   Call("handler", b, i, Null, Null, 0)]
                              /\ store' = [store EXCEPT ![i] = Null]
                              /\ anonymous' = anonymous \cup {i}
    BY <1>1 DEF StartNew, NewSession
  <2>2. i \in Ids
    BY DEF FreshIds
  <2>3. Call("handler", b, i, Null, Null, 0) \in Calls
    BY <2>2, SessionAssumption DEF Calls, Call, Ages
  <2>4. CallsOK'
    BY <2>1, <2>2, <2>3, CallChanges, SessionAssumption
    DEF TypeOK, CallsOK, Call
  <2> QED
    BY <1>1, <2>1, <2>2, <2>4 DEF TypeOK, CallsOK, StartNew
<1>2. CASE StartLoaded(r, b)
  <2> DEFINE i == cookie[b]
  <2>1. i \in Ids /\ store[i] \in Entries
    BY <1>2, Types DEF StartLoaded
  <2>2. Loaded(b, i) \in Calls
    BY <2>1, SessionAssumption DEF Loaded, Calls, Call, Entries, Ages
  <2>3. Loaded(b, i).browser # Null /\ Loaded(b, i).id # Null
    BY <2>1, SessionAssumption DEF Loaded, Call
  <2>4. CallsOK'
    BY <1>2, <2>2, <2>3, CallChanges DEF TypeOK, CallsOK, StartLoaded
  <2> QED
    BY <1>2, <2>4 DEF TypeOK, CallsOK, StartLoaded, historyVars
<1> QED
  BY <1>1, <1>2

LEMMA ReplaceTypes ==
  ASSUME TypeOK, NEW r \in Requests, ReplaceExpired(r)
  PROVE  TypeOK'
<1> DEFINE b == call[r].browser
<1>1. PICK i \in FreshIds, after \in Deletions(b, call[r].id) :
        /\ call' = [call EXCEPT ![r] = Call("handler", b, i, Null, Null, 0)]
        /\ store' = [after EXCEPT ![i] = Null]
        /\ anonymous' = anonymous \cup {i}
  BY DEF ReplaceExpired
<1>2. i \in Ids /\ b \in Browsers /\ call[r].id \in Ids
  BY Types DEF FreshIds, ReplaceExpired
<1>3. after \in [Ids -> Entries \cup {Null}]
  BY <1>1, <1>2, DeletionsType DEF TypeOK
<1>4. Call("handler", b, i, Null, Null, 0) \in Calls
  BY <1>2, SessionAssumption DEF Calls, Call, Ages
<1>5. CallsOK'
  BY <1>1, <1>2, <1>4, CallChanges, SessionAssumption
  DEF TypeOK, CallsOK, Call
<1>6. login' \in [Browsers -> Logins]
  BY LoginExpiredType DEF TypeOK, ReplaceExpired
<1> QED
  BY <1>1, <1>2, <1>3, <1>5, <1>6 DEF TypeOK, CallsOK, ReplaceExpired

LEMMA HandlerTypes ==
  ASSUME TypeOK, NEW r \in Requests, Handler(r)
  PROVE  TypeOK'
<1> DEFINE b == call[r].browser
<1>1. /\ call[r] \in Calls /\ b \in Browsers /\ call[r].id \in Ids
      /\ b # Null /\ call[r].id # Null /\ CallsOK
  BY Types, SessionAssumption
  DEF TypeOK, CallsOK, Handler, Serve, Logout, GoogleLogin, GoogleCallback,
      RegenerateFails, ProviderLogin, ProviderCallback, RequireAuth,
      CallbackRefused, CallbackFails
<1>2. /\ TakenFrom(call[r]) \in Calls
      /\ TakenFrom(call[r]).browser = b /\ TakenFrom(call[r]).id = call[r].id
  BY <1>1 DEF TakenFrom, Calls
<1>3. CASE Serve(r)
  BY <1>1, <1>3, HandlerReturns DEF TypeOK, CallsOK, Serve, historyVars
<1>4. CASE Logout(r)
  <2>1. store' \in [Ids -> Entries \cup {Null}]
    BY <1>1, <1>4, DeletionsType DEF TypeOK, Logout
  <2>2. login' \in [Browsers -> Logins]
    BY <1>1, <1>4 DEF TypeOK, Logout, Logins
  <2> QED
    BY <1>1, <1>4, <2>1, <2>2, HandlerReturns DEF TypeOK, CallsOK, Logout
<1>5. CASE GoogleLogin(r) \/ ProviderLogin(r)
  <2>1. PICK s \in FreshStates :
          /\ Returns(r, [call[r] EXCEPT !.state = s])
          /\ issued' = [issued EXCEPT ![s] = Issue(b, call[r].user)]
    BY <1>5 DEF GoogleLogin, ProviderLogin, SendToProvider
  <2>2. /\ [call[r] EXCEPT !.state = s] \in Calls
        /\ [call[r] EXCEPT !.state = s].browser = b
        /\ [call[r] EXCEPT !.state = s].id = call[r].id
    BY <1>1 DEF Calls, FreshStates
  <2>3. CallsOK'
    BY <1>1, <2>1, <2>2, HandlerReturns
  <2>4. Issue(b, call[r].user) \in Issues
    BY <1>1 DEF Issue, Issues, Calls
  <2> QED
    BY <1>5, <2>1, <2>3, <2>4 DEF TypeOK, CallsOK, GoogleLogin, ProviderLogin
<1>6. CASE CallbackRefused(r)
  BY <1>1, <1>2, <1>6, HandlerReturns
  DEF TypeOK, CallsOK, CallbackRefused, historyVars
<1>7. CASE CallbackFails(r) \/ ProviderCallback(r)
  <2>1. issued' \in [States -> Issues]
    BY <1>1, <1>7, AcceptsType DEF CallbackFails, ProviderCallback
  <2>2. CallsOK'
    BY <1>1, <1>2, <1>7, HandlerReturns DEF CallbackFails, ProviderCallback
  <2> QED
    BY <1>7, <2>1, <2>2 DEF TypeOK, CallsOK, CallbackFails, ProviderCallback
<1>8. CASE GoogleCallback(r)
  <2>1. PICK s \in States, u \in Users, i \in FreshIds :
          /\ Accepts(r, s)
          /\ Returns(r, SignIn(call[r], u, i))
          /\ store' = [store EXCEPT ![call[r].id] = Null, ![i] = Null]
          /\ anonymous' = anonymous \ {i}
          /\ login' = [login EXCEPT ![b] = Login("in", u, 0)]
    BY <1>8 DEF GoogleCallback
  <2>2. i \in Ids /\ i # Null
    BY SessionAssumption DEF FreshIds
  <2>3. /\ SignIn(call[r], u, i) \in Calls
        /\ SignIn(call[r], u, i).browser = b /\ SignIn(call[r], u, i).id = i
    BY <1>1, <2>2, SignInType
  <2>4. CallsOK'
    BY <1>1, <2>1, <2>2, <2>3, HandlerReturns
  <2>5. issued' \in [States -> Issues]
    BY <1>1, <2>1, AcceptsType
  <2>6. Login("in", u, 0) \in Logins
    BY SessionAssumption DEF Login, Logins, Ages
  <2> QED
    BY <1>8, <2>1, <2>4, <2>5, <2>6 DEF TypeOK, CallsOK, GoogleCallback
<1>9. CASE RegenerateFails(r)
  <2>1. PICK s \in States, u \in Users :
          /\ Accepts(r, s)
          /\ Returns(r, [TakenFrom(call[r]) EXCEPT !.user = u])
          /\ login' = [login EXCEPT ![b] = Login("in", u, 0)]
    BY <1>9 DEF RegenerateFails
  <2>2. /\ [TakenFrom(call[r]) EXCEPT !.user = u] \in Calls
        /\ [TakenFrom(call[r]) EXCEPT !.user = u].browser = b
        /\ [TakenFrom(call[r]) EXCEPT !.user = u].id = call[r].id
    BY <1>1, <1>2 DEF Calls
  <2>3. CallsOK'
    BY <1>1, <2>1, <2>2, HandlerReturns
  <2>4. issued' \in [States -> Issues]
    BY <1>1, <2>1, AcceptsType
  <2>5. Login("in", u, 0) \in Logins
    BY SessionAssumption DEF Login, Logins, Ages
  <2>6. store' \in [Ids -> Entries \cup {Null}]
    BY <1>1, <1>9, DeletionsType DEF TypeOK, RegenerateFails
  <2> QED
    BY <1>9, <2>1, <2>3, <2>4, <2>5, <2>6 DEF TypeOK, CallsOK, RegenerateFails
<1> QED
  BY <1>3, <1>4, <1>5, <1>6, <1>7, <1>8, <1>9 DEF Handler

LEMMA AfterTypes ==
  ASSUME TypeOK, NEW r \in Requests,
         Save(r) \/ SaveFails(r) \/ Respond(r) \/ ResponseLost(r)
  PROVE  TypeOK'
<1> DEFINE b == call[r].browser
<1>1. /\ call[r] \in Calls /\ b \in Browsers /\ call[r].id \in Ids
      /\ b # Null /\ call[r].id # Null /\ CallsOK
  BY Types, SessionAssumption
  DEF TypeOK, CallsOK, Save, SaveFails, Respond, ResponseLost
<1>2. /\ Saved(call[r]) \in Calls
      /\ Saved(call[r]).browser = b /\ Saved(call[r]).id = call[r].id
  BY <1>1, SessionAssumption DEF Saved, Call, Calls, Ages
<1>3. NoCall \in Calls /\ NoCall.at = "none"
  BY SessionAssumption DEF NoCall, Call, Calls, Ages
<1>4. CASE Save(r) \/ SaveFails(r)
  <2>1. call' = [call EXCEPT ![r] = Saved(call[r])]
    BY <1>4 DEF Save, SaveFails
  <2>2. CallsOK'
    BY <1>1, <1>2, <2>1, CallChanges
  <2>3. Written(call[r]) \in [Ids -> Entries \cup {Null}]
    BY <1>1, SessionAssumption DEF TypeOK, Written, Entry, Entries, Calls
  <2>4. store' \in [Ids -> Entries \cup {Null}]
    BY <1>4, <2>3 DEF TypeOK, Save, SaveFails
  <2>5. login' \in [Browsers -> Logins]
    BY <1>4, LoginExpiredType DEF TypeOK, Save, SaveFails, historyVars
  <2> QED
    BY <1>4, <2>2, <2>4, <2>5
    DEF TypeOK, CallsOK, Save, SaveFails, historyVars
<1>5. CASE Respond(r) \/ ResponseLost(r)
  <2>1. call' = [call EXCEPT ![r] = NoCall]
    BY <1>5 DEF Respond, ResponseLost
  <2>2. CallsOK'
    BY <1>1, <1>3, <2>1, CallChanges
  <2>3. cookie' \in [Browsers -> Ids \cup {Null}]
    BY <1>1, <1>5 DEF TypeOK, Respond, ResponseLost
  <2>4. Issue(Null, Null) \in Issues
    BY DEF Issue, Issues
  <2>5. /\ store' \in [Ids -> Entries \cup {Null}]
        /\ anonymous' \subseteq Ids /\ issued' \in [States -> Issues]
    <3> DEFINE K == Known'  P == Pending'
    <3>1. /\ store' = [i \in Ids |-> IF i \in K THEN store[i] ELSE Null]
          /\ anonymous' = anonymous \cap K
          /\ issued' = [s \in States |->
                          IF s \in P THEN issued[s] ELSE Issue(Null, Null)]
      BY <1>5 DEF Respond, ResponseLost, ForgetUnknown
    <3> HIDE DEF K, P
    <3> QED
      BY <3>1, <2>4 DEF TypeOK
  <2> QED
    BY <1>5, <2>2, <2>3, <2>5 DEF TypeOK, CallsOK, Respond, ResponseLost
<1> QED
  BY <1>4, <1>5

LEMMA TimeTypes ==
  ASSUME TypeOK, Tick \/ \E i \in Ids : RedisExpires(i)
  PROVE  TypeOK'
<1>1. CASE Tick
  <2>1. ASSUME NEW i \in Ids
        PROVE  store'[i] \in Entries \cup {Null}
    <3>1. CASE store[i] = Null
      BY <1>1, <3>1 DEF Tick
    <3>2. CASE store[i] # Null
      <4>1. store[i] \in Entries /\ store[i].age \in Ages
        BY <3>2, Types DEF Entries
      <4>2. Older(store[i].age) \in Ages
        BY <4>1, OlderInAges
      <4>3. (IF store[i].idle <= Idle THEN store[i].idle + 1
             ELSE store[i].idle) \in 0 .. Idle + 1
        BY <4>1, SessionAssumption DEF Entries
      <4> QED
        BY <1>1, <3>2, <4>1, <4>2, <4>3 DEF Tick, Entries
    <3> QED
      BY <3>1, <3>2
  <2>2. ASSUME NEW r \in Requests
        PROVE  /\ call'[r] \in Calls
               /\ call'[r].at # "none" =>
                    call'[r].browser # Null /\ call'[r].id # Null
    <3>1. call[r] \in Calls /\ Older(call[r].age) \in Ages
      BY OlderInAges DEF TypeOK, Calls
    <3> QED
      BY <1>1, <3>1 DEF Tick, TypeOK, Calls
  <2>3. ASSUME NEW b \in Browsers
        PROVE  login'[b] \in Logins
    <3>1. login[b] \in Logins /\ Older(login[b].age) \in Ages
      BY OlderInAges DEF TypeOK, Logins
    <3> QED
      BY <1>1, <3>1 DEF Tick, Logins
  <2> QED
    BY <1>1, <2>1, <2>2, <2>3 DEF Tick, TypeOK
<1>2. CASE \E i \in Ids : RedisExpires(i)
  BY <1>2, LoginExpiredType DEF TypeOK, RedisExpires
<1> QED
  BY <1>1, <1>2

(* Every variable stays in its type, and a request in progress has a       *)
(* browser and a session id.                                               *)
THEOREM TypeCorrect == Spec => []TypeOK
<1>1. Init => TypeOK
  BY SessionAssumption
  DEF Init, TypeOK, NoCall, Call, Calls, Ages, Issue, Issues, Login, Logins
<1>2. TypeOK /\ [Next]_vars => TypeOK'
  <2> SUFFICES ASSUME TypeOK, [Next]_vars
               PROVE  TypeOK'
    OBVIOUS
  <2>1. CASE UNCHANGED vars
    BY <2>1 DEF TypeOK, vars, historyVars
  <2>2. CASE Next
    BY <2>2, StartTypes, ReplaceTypes, HandlerTypes, AfterTypes, TimeTypes
    DEF Next
  <2> QED
    BY <2>1, <2>2
<1> QED
  BY <1>1, <1>2, PTL DEF Spec

-----------------------------------------------------------------------------
(* What a step does to the ids that browsers hold: it adds none, or one    *)
(* fresh id, under which nothing is stored, to one browser.                *)

KeepsHolders ==
  \A b \in Browsers, i \in Ids : Holds(b, i)' => Holds(b, i)

GivesFreshId ==
  \E b \in Browsers, i \in FreshIds :
    /\ store'[i] = Null
    /\ \A c \in Browsers, j \in Ids :
         Holds(c, j)' => Holds(c, j) \/ (c = b /\ j = i)

(* What the handler or the save of request r leaves in its copy.           *)
SameHolder(r, c) == c.browser = call[r].browser /\ c.id = call[r].id

LEMMA CopyKeepsHolders ==
  ASSUME TypeOK, NEW r \in Requests, NEW c \in Calls, SameHolder(r, c),
         cookie' = cookie, call' = [call EXCEPT ![r] = c]
  PROVE  KeepsHolders
BY DEF TypeOK, KeepsHolders, Holds, Open, SameHolder

LEMMA ReturnKeepsHolders ==
  ASSUME TypeOK, NEW r \in Requests, NEW c \in Calls, SameHolder(r, c),
         cookie' = cookie, Returns(r, c)
  PROVE  KeepsHolders
<1>1. /\ [c EXCEPT !.at = "save"] \in Calls
      /\ SameHolder(r, [c EXCEPT !.at = "save"])
  BY DEF Calls, SameHolder
<1> QED
  BY <1>1, CopyKeepsHolders DEF Returns

LEMMA CopyGivesFreshId ==
  ASSUME TypeOK, NEW r \in Requests, NEW c \in Calls,
         c.browser \in Browsers, c.id \in FreshIds, store'[c.id] = Null,
         cookie' = cookie, call' = [call EXCEPT ![r] = c]
  PROVE  GivesFreshId
<1>1. \A b \in Browsers, j \in Ids :
        Holds(b, j)' => Holds(b, j) \/ (b = c.browser /\ j = c.id)
  BY DEF TypeOK, Holds, Open
<1> QED
  BY <1>1 DEF GivesFreshId

LEMMA HoldersStep ==
  ASSUME TypeOK, Next
  PROVE  KeepsHolders \/ GivesFreshId
<1>1. ASSUME NEW r \in Requests, NEW b \in Browsers, StartNew(r, b)
      PROVE  GivesFreshId
  <2>1. PICK i \in FreshIds : /\ call' = [call EXCEPT ![r] =
                                   Call("handler", b, i, Null, Null, 0)]
                              /\ store' = [store EXCEPT ![i] = Null]
    BY <1>1 DEF StartNew, NewSession
  <2> DEFINE c == Call("handler", b, i, Null, Null, 0)
  <2>2. c \in Calls /\ c.browser = b /\ c.id = i /\ store'[i] = Null
    BY <2>1, SessionAssumption
    DEF FreshIds, Calls, Call, Ages, TypeOK
  <2> QED
    BY <1>1, <2>1, <2>2, CopyGivesFreshId DEF StartNew
<1>2. ASSUME NEW r \in Requests, NEW b \in Browsers, StartLoaded(r, b)
      PROVE  KeepsHolders
  <2>1. Loaded(b, cookie[b]).browser = b /\ Loaded(b, cookie[b]).id = cookie[b]
    BY DEF Loaded, Call
  <2> QED
    BY <1>2, <2>1 DEF KeepsHolders, Holds, Open, StartLoaded, TypeOK
<1>3. ASSUME NEW r \in Requests, ReplaceExpired(r)
      PROVE  GivesFreshId
  <2> DEFINE b == call[r].browser
  <2>1. b \in Browsers /\ call[r].id \in Ids
    BY <1>3, Types DEF ReplaceExpired
  <2>2. PICK i \in FreshIds, after \in Deletions(b, call[r].id) :
          /\ call' = [call EXCEPT ![r] = Call("handler", b, i, Null, Null, 0)]
          /\ store' = [after EXCEPT ![i] = Null]
    BY <1>3 DEF ReplaceExpired
  <2> DEFINE c == Call("handler", b, i, Null, Null, 0)
  <2>3. after \in [Ids -> Entries \cup {Null}]
    BY <2>1, <2>2, DeletionsType DEF TypeOK
  <2>4. c \in Calls /\ c.browser = b /\ c.id = i /\ store'[i] = Null
    BY <2>1, <2>2, <2>3, SessionAssumption
    DEF FreshIds, Calls, Call, Ages
  <2>5. call' = [call EXCEPT ![r] = c] /\ cookie' = cookie
    BY <1>3, <2>2 DEF ReplaceExpired
  <2> HIDE DEF c
  <2> QED
    BY <2>1, <2>4, <2>5, CopyGivesFreshId
<1>4. ASSUME NEW r \in Requests, Handler(r)
      PROVE  KeepsHolders \/ GivesFreshId
  <2>1. call[r] \in Calls /\ call[r].browser \in Browsers /\ call[r].id \in Ids
    BY <1>4, Types
    DEF Handler, Serve, Logout, GoogleLogin, GoogleCallback, RegenerateFails,
        ProviderLogin, ProviderCallback, RequireAuth, CallbackRefused,
        CallbackFails
  <2> DEFINE t == TakenFrom(call[r])
  <2>2. t \in Calls /\ SameHolder(r, t) /\ SameHolder(r, call[r])
    BY <2>1 DEF TakenFrom, Calls, SameHolder
  <2>3. CASE Serve(r) \/ Logout(r) \/ CallbackRefused(r) \/ CallbackFails(r)
               \/ ProviderCallback(r)
    BY <2>1, <2>2, <2>3, ReturnKeepsHolders
    DEF Serve, Logout, CallbackRefused, CallbackFails, ProviderCallback
  <2>4. CASE GoogleLogin(r) \/ ProviderLogin(r)
    <3>1. PICK s \in States : Returns(r, [call[r] EXCEPT !.state = s])
      BY <2>4 DEF GoogleLogin, ProviderLogin, SendToProvider, FreshStates
    <3>2. /\ [call[r] EXCEPT !.state = s] \in Calls
          /\ SameHolder(r, [call[r] EXCEPT !.state = s])
      BY <2>1 DEF Calls, SameHolder
    <3> QED
      BY <2>4, <3>1, <3>2, ReturnKeepsHolders DEF GoogleLogin, ProviderLogin
  <2>5. CASE RegenerateFails(r)
    <3>1. PICK u \in Users : Returns(r, [t EXCEPT !.user = u])
      BY <2>5 DEF RegenerateFails
    <3> HIDE DEF t
    <3>2. /\ [t EXCEPT !.user = u] \in Calls
          /\ SameHolder(r, [t EXCEPT !.user = u])
      BY <2>2 DEF Calls, SameHolder
    <3> QED
      BY <2>5, <3>1, <3>2, ReturnKeepsHolders DEF RegenerateFails
  <2>6. CASE GoogleCallback(r)
    <3>1. PICK u \in Users, i \in FreshIds :
            /\ Returns(r, SignIn(call[r], u, i))
            /\ store' = [store EXCEPT ![call[r].id] = Null, ![i] = Null]
      BY <2>6 DEF GoogleCallback
    <3> DEFINE c == [SignIn(call[r], u, i) EXCEPT !.at = "save"]
    <3>2. i \in Ids /\ store'[i] = Null
      BY <3>1 DEF FreshIds, TypeOK
    <3>3. c \in Calls /\ c.browser = call[r].browser /\ c.id = i
      BY <2>1, <3>2, SignInType DEF Calls
    <3> QED
      BY <2>1, <2>6, <3>1, <3>2, <3>3, CopyGivesFreshId
      DEF Returns, GoogleCallback
  <2> QED
    BY <1>4, <2>3, <2>4, <2>5, <2>6 DEF Handler
<1>5. ASSUME NEW r \in Requests, Save(r) \/ SaveFails(r)
      PROVE  KeepsHolders
  <2>1. call[r] \in Calls /\ call[r].browser \in Browsers /\ call[r].id \in Ids
    BY <1>5, Types DEF Save, SaveFails
  <2>2. Saved(call[r]) \in Calls /\ SameHolder(r, Saved(call[r]))
    BY <2>1, SessionAssumption DEF Saved, Call, Calls, Ages, SameHolder
  <2> QED
    BY <1>5, <2>2, CopyKeepsHolders DEF Save, SaveFails
<1>6. ASSUME NEW r \in Requests, Respond(r) \/ ResponseLost(r)
      PROVE  KeepsHolders
  <2>1. call[r].browser \in Browsers
    BY <1>6, Types DEF Respond, ResponseLost
  <2>2. /\ call' = [call EXCEPT ![r] = NoCall]
        /\ \/ cookie' = cookie
           \/ cookie' = [cookie EXCEPT ![call[r].browser] = call[r].id]
    BY <1>6 DEF Respond, ResponseLost
  <2>3. \A b \in Browsers : NoCall.browser # b
    BY SessionAssumption DEF NoCall, Call
  <2> QED
    BY <2>1, <2>2, <2>3 DEF TypeOK, KeepsHolders, Holds, Open
<1>7. CASE Tick
  <2>1. \A r \in Requests :
          call'[r].browser = call[r].browser /\ call'[r].id = call[r].id
    BY <1>7, Types DEF Tick, Calls
  <2> QED
    BY <1>7, <2>1 DEF KeepsHolders, Holds, Open, Tick
<1>8. CASE \E i \in Ids : RedisExpires(i)
  BY <1>8 DEF KeepsHolders, Holds, Open, RedisExpires
<1> QED
  BY <1>1, <1>2, <1>3, <1>4, <1>5, <1>6, <1>7, <1>8 DEF Next

(* No two browsers hold the same session id.                               *)
Separate ==
  \A b, c \in Browsers, i \in Ids : Holds(b, i) /\ Holds(c, i) => b = c

LEMMA SeparateStep ==
  ASSUME TypeOK, Separate, Next
  PROVE  Separate'
<1>1. \A b \in Browsers, i \in FreshIds : ~Holds(b, i)
  BY DEF FreshIds, Known, Holds, Open
<1>2. CASE KeepsHolders
  BY <1>2 DEF KeepsHolders, Separate
<1>3. CASE GivesFreshId
  BY <1>1, <1>3 DEF GivesFreshId, Separate
<1> QED
  BY <1>2, <1>3, HoldersStep

-----------------------------------------------------------------------------
(* While a DEL succeeds, the copy of a request is signed in only under an  *)
(* id that a login made.                                                   *)
NoDestroy == \A b \in Browsers : "destroy" \notin Trouble[b]

VisitorsInv ==
  /\ \A r \in Requests :
       call[r].user # Null => call[r].id \notin anonymous
  /\ LoginChangesId

LEMMA VisitorsNew ==
  ASSUME TypeOK, VisitorsInv, NEW r \in Requests, NEW b, NEW i \in FreshIds,
         call' = [call EXCEPT ![r] = Call("handler", b, i, Null, Null, 0)],
         \A j \in Ids : store'[j] # Null => j # i /\ store'[j] = store[j],
         anonymous' = anonymous \cup {i}
  PROVE  VisitorsInv'
<1>1. \A q \in Requests : call[q].id # i
  BY DEF FreshIds, Known
<1>2. Call("handler", b, i, Null, Null, 0).user = Null
  BY DEF Call
<1>3. \A q \in Requests : call'[q].user # Null => call'[q] = call[q]
  BY <1>2 DEF TypeOK
<1>4. \A q \in Requests :
        call'[q].user # Null => call'[q].id \notin anonymous'
  BY <1>1, <1>3 DEF VisitorsInv
<1>5. ASSUME NEW j \in anonymous', store'[j] # Null
      PROVE  store'[j].user = Null
  <2>1. j \in Ids
    BY DEF TypeOK, FreshIds
  <2>2. j \in anonymous /\ store'[j] = store[j]
    BY <1>5, <2>1
  <2> QED
    BY <1>5, <2>2 DEF VisitorsInv, LoginChangesId
<1> QED
  BY <1>4, <1>5 DEF VisitorsInv, LoginChangesId

LEMMA VisitorsStart ==
  ASSUME TypeOK, VisitorsInv, NEW r \in Requests,
         \/ ReplaceExpired(r)
         \/ \E b \in Browsers : StartNew(r, b) \/ StartLoaded(r, b)
  PROVE  VisitorsInv'
<1>1. ASSUME NEW b \in Browsers, StartNew(r, b)
      PROVE  VisitorsInv'
  <2>1. PICK i \in FreshIds : /\ call' = [call EXCEPT ![r] =
                                   Call("handler", b, i, Null, Null, 0)]
                              /\ store' = [store EXCEPT ![i] = Null]
                              /\ anonymous' = anonymous \cup {i}
    BY <1>1 DEF StartNew, NewSession
  <2>2. \A j \in Ids : store'[j] # Null => j # i /\ store'[j] = store[j]
    BY <2>1 DEF TypeOK
  <2> QED
    BY <2>1, <2>2, VisitorsNew
<1>2. ASSUME NEW b \in Browsers, StartLoaded(r, b)
      PROVE  VisitorsInv'
  <2>1. Loaded(b, cookie[b]).user # Null =>
          Loaded(b, cookie[b]).id \notin anonymous
    BY <1>2 DEF Loaded, Call, StartLoaded, VisitorsInv, LoginChangesId
  <2> QED
    BY <1>2, <2>1
    DEF StartLoaded, VisitorsInv, LoginChangesId, TypeOK, historyVars
<1>3. CASE ReplaceExpired(r)
  <2> DEFINE b == call[r].browser
  <2>1. b \in Browsers /\ call[r].id \in Ids
    BY <1>3, Types DEF ReplaceExpired
  <2>2. PICK i \in FreshIds, after \in Deletions(b, call[r].id) :
          /\ call' = [call EXCEPT ![r] = Call("handler", b, i, Null, Null, 0)]
          /\ store' = [after EXCEPT ![i] = Null]
          /\ anonymous' = anonymous \cup {i}
    BY <1>3 DEF ReplaceExpired
  <2>3. /\ after \in [Ids -> Entries \cup {Null}]
        /\ \A j \in Ids : after[j] # Null => after[j] = store[j]
    BY <2>1, <2>2, DeletionsType DEF TypeOK
  <2>4. \A j \in Ids : store'[j] # Null => j # i /\ store'[j] = store[j]
    BY <2>2, <2>3
  <2> QED
    BY <2>2, <2>4, VisitorsNew
<1> QED
  BY <1>1, <1>2, <1>3

LEMMA VisitorsReturn ==
  ASSUME TypeOK, VisitorsInv, NEW r \in Requests, NEW c \in Calls,
         Returns(r, c), c.user # Null => c.id \notin anonymous',
         anonymous' \subseteq anonymous,
         \A i \in Ids : store'[i] # Null => store'[i] = store[i]
  PROVE  VisitorsInv'
<1>1. /\ [c EXCEPT !.at = "save"].user = c.user
      /\ [c EXCEPT !.at = "save"].id = c.id
  BY DEF Calls
<1> QED
  BY <1>1 DEF Returns, VisitorsInv, LoginChangesId, TypeOK

LEMMA VisitorsHandler ==
  ASSUME NoDestroy, TypeOK, VisitorsInv, NEW r \in Requests, Handler(r)
  PROVE  VisitorsInv'
<1>1. call[r] \in Calls /\ call[r].browser \in Browsers /\ call[r].id \in Ids
  BY Types
  DEF Handler, Serve, Logout, GoogleLogin, GoogleCallback, RegenerateFails,
      ProviderLogin, ProviderCallback, RequireAuth, CallbackRefused,
      CallbackFails
<1>2. call[r].user # Null => call[r].id \notin anonymous
  BY DEF VisitorsInv
<1> DEFINE t == TakenFrom(call[r])
<1>3. t \in Calls /\ t.user = call[r].user /\ t.id = call[r].id
  BY <1>1 DEF TakenFrom, Calls
<1>4. CASE Serve(r)
  BY <1>1, <1>2, <1>4, VisitorsReturn DEF Serve, historyVars
<1>5. CASE CallbackRefused(r) \/ CallbackFails(r) \/ ProviderCallback(r)
  BY <1>2, <1>3, <1>5, VisitorsReturn
  DEF CallbackRefused, CallbackFails, ProviderCallback, historyVars
<1>6. CASE Logout(r)
  <2>1. \A i \in Ids : store'[i] # Null => store'[i] = store[i]
    BY <1>1, <1>6, DeletionsType DEF TypeOK, Logout
  <2> QED
    BY <1>1, <1>2, <1>6, <2>1, VisitorsReturn DEF Logout
<1>7. CASE GoogleLogin(r) \/ ProviderLogin(r)
  <2>1. PICK s \in States : Returns(r, [call[r] EXCEPT !.state = s])
    BY <1>7 DEF GoogleLogin, ProviderLogin, SendToProvider, FreshStates
  <2>2. /\ [call[r] EXCEPT !.state = s] \in Calls
        /\ [call[r] EXCEPT !.state = s].user = call[r].user
        /\ [call[r] EXCEPT !.state = s].id = call[r].id
    BY <1>1 DEF Calls
  <2> QED
    BY <1>2, <1>7, <2>1, <2>2, VisitorsReturn DEF GoogleLogin, ProviderLogin
<1>8. CASE RegenerateFails(r)
  BY <1>1, <1>8 DEF RegenerateFails, NoDestroy
<1>9. CASE GoogleCallback(r)
  <2>1. PICK u \in Users, i \in FreshIds :
          /\ Returns(r, SignIn(call[r], u, i))
          /\ store' = [store EXCEPT ![call[r].id] = Null, ![i] = Null]
          /\ anonymous' = anonymous \ {i}
    BY <1>9 DEF GoogleCallback
  <2>2. i \in Ids
    BY DEF FreshIds
  <2>3. SignIn(call[r], u, i) \in Calls /\ SignIn(call[r], u, i).id = i
    BY <1>1, <2>2, SignInType
  <2>4. \A j \in Ids : store'[j] # Null => store'[j] = store[j]
    BY <2>1 DEF TypeOK
  <2> QED
    BY <2>1, <2>3, <2>4, VisitorsReturn
<1> QED
  BY <1>4, <1>5, <1>6, <1>7, <1>8, <1>9 DEF Handler

LEMMA VisitorsAfter ==
  ASSUME TypeOK, VisitorsInv, NEW r \in Requests,
         Save(r) \/ SaveFails(r) \/ Respond(r) \/ ResponseLost(r)
  PROVE  VisitorsInv'
<1>1. CASE Save(r) \/ SaveFails(r)
  <2>1. call[r] \in Calls /\ call[r].id \in Ids
    BY <1>1, Types DEF Save, SaveFails
  <2>2. /\ call' = [call EXCEPT ![r] = Saved(call[r])]
        /\ anonymous' = anonymous
        /\ store' = Written(call[r]) \/ store' = store
    BY <1>1 DEF Save, SaveFails, historyVars
  <2>3. Saved(call[r]).user = Null
    BY DEF Saved, Call
  <2>4. \A i \in Ids : store'[i] # Null =>
          \/ store'[i] = store[i]
          \/ i = call[r].id /\ store'[i].user = call[r].user
    BY <2>1, <2>2 DEF Written, Entry, TypeOK
  <2> QED
    BY <2>2, <2>3, <2>4 DEF VisitorsInv, LoginChangesId, TypeOK
<1>2. CASE Respond(r) \/ ResponseLost(r)
  <2>1. /\ call' = [call EXCEPT ![r] = NoCall]
        /\ anonymous' \subseteq anonymous
        /\ \A i \in Ids : store'[i] # Null => store'[i] = store[i]
    BY <1>2 DEF Respond, ResponseLost, ForgetUnknown
  <2>2. NoCall.user = Null
    BY DEF NoCall, Call
  <2> QED
    BY <2>1, <2>2 DEF VisitorsInv, LoginChangesId, TypeOK
<1> QED
  BY <1>1, <1>2

LEMMA VisitorsTime ==
  ASSUME TypeOK, VisitorsInv, Tick \/ \E i \in Ids : RedisExpires(i)
  PROVE  VisitorsInv'
<1>1. CASE Tick
  <2>1. \A r \in Requests :
          call'[r].user = call[r].user /\ call'[r].id = call[r].id
    BY <1>1, Types DEF Tick, Calls
  <2>2. \A i \in Ids : store'[i] # Null =>
          store[i] # Null /\ store'[i].user = store[i].user
    BY <1>1, Types DEF Tick, Entries
  <2>3. anonymous' = anonymous
    BY <1>1 DEF Tick
  <2> HIDE <1>1
  <2> QED
    BY <2>1, <2>2, <2>3 DEF VisitorsInv, LoginChangesId, TypeOK
<1>2. CASE \E i \in Ids : RedisExpires(i)
  BY <1>2 DEF VisitorsInv, LoginChangesId, TypeOK, RedisExpires
<1> QED
  BY <1>1, <1>2

(* An id that was handed out to a visitor never names a session that is    *)
(* signed in, whatever else fails, as long as the DEL of Regenerate does   *)
(* not.                                                                    *)
THEOREM LoginChangesIdCorrect ==
  ASSUME NoDestroy
  PROVE  Spec => []LoginChangesId
<1>1. Init => VisitorsInv
  BY DEF Init, VisitorsInv, LoginChangesId
<1>2. TypeOK /\ VisitorsInv /\ [Next]_vars => VisitorsInv'
  <2> SUFFICES ASSUME TypeOK, VisitorsInv, [Next]_vars
               PROVE  VisitorsInv'
    OBVIOUS
  <2>1. CASE UNCHANGED vars
    BY <2>1 DEF VisitorsInv, LoginChangesId, vars, historyVars
  <2>2. CASE Next
    BY <2>2, VisitorsStart, VisitorsHandler, VisitorsAfter, VisitorsTime
    DEF Next
  <2> QED
    BY <2>1, <2>2
<1>3. VisitorsInv => LoginChangesId
  BY DEF VisitorsInv
<1> QED
  BY <1>1, <1>2, <1>3, TypeCorrect, PTL DEF Spec

-----------------------------------------------------------------------------
(* A session agrees with the history of the browser that holds it: its     *)
(* state was made for this browser and this user, and when it is signed    *)
(* in, the last login of the browser is not older than the session.        *)
Faithful(b, user, state, age) ==
  /\ state # Null => issued[state].browser = b /\ issued[state].user = user
  /\ user # Null => login[b].age <= age

CopiesFaithful ==
  \A r \in Requests :
    /\ Faithful(call[r].browser, call[r].user, call[r].state, call[r].age)
    /\ call[r].user # Null => call[r].at \in {"handler", "save"}

StoreFaithful ==
  \A b \in Browsers, i \in Ids :
    Holds(b, i) /\ store[i] # Null =>
      Faithful(b, store[i].user, store[i].state, store[i].age)

HistoryInv == CopiesFaithful /\ StoreFaithful /\ FlowsEndWhereTheyBegan

(* What most steps keep.                                                   *)
SameFlow(s) ==
  issued'[s].browser = issued[s].browser /\ issued'[s].user = issued[s].user

NoLaterLogin == \A b \in Browsers : login'[b].age <= login[b].age

SameEntry(i) ==
  /\ store[i] # Null
  /\ store'[i].user = store[i].user /\ store'[i].age = store[i].age
  /\ store'[i].state = store[i].state

LEMMA StoreStaysFaithful ==
  ASSUME TypeOK, TypeOK', HistoryInv, Next, NoLaterLogin,
         \A i \in Ids : store'[i] # Null =>
           /\ SameEntry(i)
           /\ store[i].state # Null => SameFlow(store[i].state)
  PROVE  StoreFaithful'
<1> SUFFICES ASSUME NEW b \in Browsers, NEW i \in Ids,
                    Holds(b, i)', store'[i] # Null
             PROVE  Faithful(b, store[i].user, store[i].state, store[i].age)'
  BY DEF StoreFaithful
<1>1. SameEntry(i) /\ (store[i].state # Null => SameFlow(store[i].state))
  OBVIOUS
<1>2. Holds(b, i)
  BY HoldersStep DEF KeepsHolders, GivesFreshId
<1>3. Faithful(b, store[i].user, store[i].state, store[i].age)
  BY <1>1, <1>2 DEF HistoryInv, StoreFaithful, SameEntry
<1>4. store[i].age \in Nat /\ login[b].age \in Nat /\ login'[b].age \in Nat
  BY <1>1, Types, SessionAssumption
  DEF TypeOK, SameEntry, Entries, Ages, Logins
<1> QED
  BY <1>1, <1>3, <1>4 DEF Faithful, SameEntry, SameFlow, NoLaterLogin

LEMMA CopiesStayFaithful ==
  ASSUME TypeOK, TypeOK', HistoryInv, NoLaterLogin,
         NEW r \in Requests, NEW c, call' = [call EXCEPT ![r] = c],
         \A q \in Requests \ {r} :
           call[q].state # Null => SameFlow(call[q].state),
         c.state # Null => /\ issued'[c.state].browser = c.browser
                           /\ issued'[c.state].user = c.user,
         c.user # Null => /\ login'[c.browser].age <= c.age
                          /\ c.at \in {"handler", "save"}
  PROVE  CopiesFaithful'
<1> SUFFICES ASSUME NEW q \in Requests
             PROVE  /\ Faithful(call[q].browser, call[q].user,
                                call[q].state, call[q].age)'
                    /\ call'[q].user # Null =>
                         call'[q].at \in {"handler", "save"}
  BY DEF CopiesFaithful
<1>1. CASE q = r
  BY <1>1 DEF TypeOK, Faithful
<1>2. CASE q # r
  <2>1. call'[q] = call[q]
    BY <1>2 DEF TypeOK
  <2>2. /\ Faithful(call[q].browser, call[q].user, call[q].state, call[q].age)
        /\ call[q].user # Null => call[q].at \in {"handler", "save"}
    BY DEF HistoryInv, CopiesFaithful
  <2>3. call[q].user # Null => call[q].browser \in Browsers
    BY <2>2, Types
  <2>4. call[q].age \in Nat
    BY Types
  <2>5. \A b \in Browsers : login[b].age \in Nat /\ login'[b].age \in Nat
    BY SessionAssumption DEF TypeOK, Logins, Ages
  <2> QED
    BY <1>2, <2>1, <2>2, <2>3, <2>4, <2>5
    DEF Faithful, SameFlow, NoLaterLogin
<1> QED
  BY <1>1, <1>2

LEMMA AcceptsFaithful ==
  ASSUME TypeOK, HistoryInv, NEW r \in Requests, NEW s \in States,
         call[r].browser \in Browsers, Accepts(r, s)
  PROVE  (\A x \in States : SameFlow(x)) /\ FlowsEndWhereTheyBegan'
<1> DEFINE use == [browser |-> call[r].browser, user |-> call[r].user]
<1>1. s = call[r].state /\ s # Null /\ use \in Uses
  BY SessionAssumption DEF Accepts, TypeOK, Calls, Uses
<1>2. issued[s].browser = call[r].browser /\ issued[s].user = call[r].user
  BY <1>1 DEF HistoryInv, CopiesFaithful, Faithful
<1>3. /\ issued[s] \in Issues /\ issued[s].uses \in Seq(Uses)
      /\ \A n \in DOMAIN issued[s].uses : issued[s].uses[n] = use
  BY <1>2 DEF TypeOK, Issues, HistoryInv, FlowsEndWhereTheyBegan
<1>4. /\ issued' = issued \/
           issued' = [issued EXCEPT ![s].uses = Append(issued[s].uses, use)]
      /\ \A x \in States : issued[x] \in Issues
  BY DEF Accepts, TypeOK
<1> HIDE DEF use
<1>5. ASSUME NEW x \in States
      PROVE  SameFlow(x)
  <2>1. CASE issued' = issued
    BY <2>1 DEF SameFlow
  <2>2. CASE issued' =
               [issued EXCEPT ![s].uses = Append(issued[s].uses, use)]
    <3> DEFINE A == Append(issued[s].uses, use)
    <3>1. issued' = [issued EXCEPT ![s] = [issued[s] EXCEPT !.uses = A]]
      BY <2>2
    <3> HIDE DEF A
    <3>2. /\ [issued[s] EXCEPT !.uses = A].browser = issued[s].browser
          /\ [issued[s] EXCEPT !.uses = A].user = issued[s].user
      BY <1>3 DEF Issues
    <3> QED
      BY <3>1, <3>2 DEF SameFlow, TypeOK
  <2> QED
    BY <1>4, <2>1, <2>2
<1>6. \A n \in DOMAIN Append(issued[s].uses, use) :
        Append(issued[s].uses, use)[n] = use
  BY <1>1, <1>3
<1>7. \A x \in States : x # s => issued'[x] = issued[x]
  BY <1>4 DEF TypeOK
<1>8. \/ issued'[s].uses = issued[s].uses
      \/ issued'[s].uses = Append(issued[s].uses, use)
  BY <1>3, <1>4 DEF TypeOK, Issues
<1>9. FlowsEndWhereTheyBegan'
  <2> SUFFICES ASSUME NEW x \in States, NEW n \in DOMAIN issued'[x].uses
               PROVE  issued'[x].uses[n] = [browser |-> issued'[x].browser,
                                            user |-> issued'[x].user]
    BY DEF FlowsEndWhereTheyBegan
  <2>1. CASE x = s
    <3>1. issued'[s].uses[n] = use
      BY <1>3, <1>6, <1>8, <2>1
    <3> QED
      BY <1>2, <1>5, <2>1, <3>1 DEF SameFlow, use
  <2>2. CASE x # s
    BY <1>7, <2>2 DEF HistoryInv, FlowsEndWhereTheyBegan
  <2> QED
    BY <2>1, <2>2
<1> QED
  BY <1>5, <1>9

(* The login of a browser after LoginExpired is as old as before.          *)
LEMMA LoginExpiredKeeps ==
  ASSUME TypeOK, NEW i, login' = LoginExpired(i)
  PROVE  NoLaterLogin
<1>1. \A b \in Browsers : login'[b].age = login[b].age
  BY LoginExpiredType DEF TypeOK
<1> QED
  BY <1>1, Types DEF NoLaterLogin

LEMMA LoginKept ==
  ASSUME TypeOK, login' = login
  PROVE  NoLaterLogin
BY Types DEF NoLaterLogin

LEMMA HistoryStart ==
  ASSUME TypeOK, TypeOK', Next, HistoryInv, NEW r \in Requests,
         \/ ReplaceExpired(r)
         \/ \E b \in Browsers : StartNew(r, b) \/ StartLoaded(r, b)
  PROVE  HistoryInv'
<1>1. ASSUME NEW b, NEW i, NoLaterLogin, issued' = issued,
             call' = [call EXCEPT ![r] = Call("handler", b, i, Null, Null, 0)],
             \A j \in Ids : store'[j] # Null => store'[j] = store[j]
      PROVE  HistoryInv'
  <2> DEFINE c == Call("handler", b, i, Null, Null, 0)
  <2>1. c.user = Null /\ c.state = Null
    BY DEF Call
  <2>2. \A s : SameFlow(s)
    BY <1>1 DEF SameFlow
  <2>3. \A j \in Ids : store'[j] # Null => SameEntry(j)
    BY <1>1 DEF SameEntry
  <2>4. StoreFaithful'
    BY <1>1, <2>2, <2>3, StoreStaysFaithful
  <2>5. call' = [call EXCEPT ![r] = c]
    BY <1>1
  <2> HIDE DEF c
  <2>6. CopiesFaithful'
    BY <1>1, <2>1, <2>2, <2>5, CopiesStayFaithful
  <2> QED
    BY <1>1, <2>4, <2>6 DEF HistoryInv, FlowsEndWhereTheyBegan
<1>2. ASSUME NEW b \in Browsers, StartNew(r, b)
      PROVE  HistoryInv'
  <2>1. PICK i \in FreshIds : /\ call' = [call EXCEPT ![r] =
                                   Call("handler", b, i, Null, Null, 0)]
                              /\ store' = [store EXCEPT ![i] = Null]
    BY <1>2 DEF StartNew, NewSession
  <2>2. \A j \in Ids : store'[j] # Null => store'[j] = store[j]
    BY <2>1 DEF TypeOK
  <2>3. NoLaterLogin /\ issued' = issued
    BY <1>2, LoginKept DEF StartNew
  <2> QED
    BY <1>1, <2>1, <2>2, <2>3
<1>3. ASSUME NEW b \in Browsers, StartLoaded(r, b)
      PROVE  HistoryInv'
  <2> DEFINE i == cookie[b]  c == Loaded(b, i)
  <2>1. /\ i \in Ids /\ store[i] \in Entries /\ Holds(b, i)
        /\ store[i] # Null
    BY <1>3, Types DEF StartLoaded, Holds
  <2>2. Faithful(b, store[i].user, store[i].state, store[i].age)
    BY <2>1 DEF HistoryInv, StoreFaithful
  <2>3. /\ issued' = issued /\ login' = login /\ store' = store
        /\ call' = [call EXCEPT ![r] = c]
    BY <1>3 DEF StartLoaded, historyVars
  <2>4. NoLaterLogin
    BY <2>3, LoginKept
  <2>5. \A s : SameFlow(s)
    BY <2>3 DEF SameFlow
  <2>6. /\ c.state # Null => issued'[c.state].browser = c.browser
                              /\ issued'[c.state].user = c.user
        /\ c.user # Null => login'[c.browser].age <= c.age
                             /\ c.at \in {"handler", "save"}
    BY <2>2, <2>3 DEF Loaded, Call, Faithful
  <2> HIDE DEF c
  <2>7. CopiesFaithful'
    BY <2>3, <2>4, <2>5, <2>6, CopiesStayFaithful
  <2>8. \A j \in Ids : store'[j] # Null => SameEntry(j)
    BY <2>3 DEF SameEntry
  <2>9. StoreFaithful'
    BY <2>4, <2>5, <2>8, StoreStaysFaithful
  <2> QED
    BY <2>3, <2>7, <2>9 DEF HistoryInv, FlowsEndWhereTheyBegan
<1>4. CASE ReplaceExpired(r)
  <2> DEFINE b == call[r].browser
  <2>1. b \in Browsers /\ call[r].id \in Ids
    BY <1>4, Types DEF ReplaceExpired
  <2>2. PICK i \in FreshIds, after \in Deletions(b, call[r].id) :
          /\ call' = [call EXCEPT ![r] = Call("handler", b, i, Null, Null, 0)]
          /\ store' = [after EXCEPT ![i] = Null]
    BY <1>4 DEF ReplaceExpired
  <2>3. /\ after \in [Ids -> Entries \cup {Null}]
        /\ \A j \in Ids : after[j] # Null => after[j] = store[j]
    BY <2>1, <2>2, DeletionsType DEF TypeOK
  <2>4. \A j \in Ids : store'[j] # Null => store'[j] = store[j]
    BY <2>2, <2>3
  <2>5. NoLaterLogin /\ issued' = issued
    BY <1>4, LoginExpiredKeeps DEF ReplaceExpired
  <2> QED
    BY <1>1, <2>2, <2>4, <2>5
<1> QED
  BY <1>2, <1>3, <1>4

LEMMA HistoryReturn ==
  ASSUME TypeOK, TypeOK', Next, HistoryInv, NoLaterLogin,
         NEW r \in Requests, NEW c \in Calls, Returns(r, c),
         \A i \in Ids : store'[i] # Null => store'[i] = store[i],
         \A q \in Requests \ {r} :
           call[q].state # Null => SameFlow(call[q].state),
         \A i \in Ids : store[i] # Null /\ store[i].state # Null =>
           SameFlow(store[i].state),
         c.state # Null => /\ issued'[c.state].browser = c.browser
                           /\ issued'[c.state].user = c.user,
         c.user # Null => login'[c.browser].age <= c.age
  PROVE  CopiesFaithful' /\ StoreFaithful'
<1> DEFINE d == [c EXCEPT !.at = "save"]
<1>1. /\ d.browser = c.browser /\ d.user = c.user /\ d.state = c.state
      /\ d.age = c.age /\ d.at = "save"
  BY DEF Calls
<1>2. call' = [call EXCEPT ![r] = d]
  BY DEF Returns
<1> HIDE DEF d
<1>3. CopiesFaithful'
  BY <1>1, <1>2, CopiesStayFaithful
<1>4. \A i \in Ids : store'[i] # Null => SameEntry(i)
  BY DEF SameEntry
<1>5. StoreFaithful'
  BY <1>4, StoreStaysFaithful DEF SameEntry
<1> QED
  BY <1>3, <1>5

LEMMA HistoryHandler ==
  ASSUME TypeOK, TypeOK', Next, HistoryInv, NEW r \in Requests, Handler(r)
  PROVE  HistoryInv'
<1> DEFINE b == call[r].browser
<1>1. call[r] \in Calls /\ b \in Browsers /\ call[r].id \in Ids
  BY Types
  DEF Handler, Serve, Logout, GoogleLogin, GoogleCallback, RegenerateFails,
      ProviderLogin, ProviderCallback, RequireAuth, CallbackRefused,
      CallbackFails
<1>2. /\ Faithful(b, call[r].user, call[r].state, call[r].age)
      /\ FlowsEndWhereTheyBegan
  BY DEF HistoryInv, CopiesFaithful
<1> DEFINE t == TakenFrom(call[r])
<1>3. /\ t \in Calls /\ t.user = call[r].user /\ t.browser = b
      /\ t.state = Null /\ t.age = call[r].age /\ t.age \in Nat
  BY <1>1, Types DEF TakenFrom, Calls
<1>4. /\ \A q \in Requests : call[q].state # Null => call[q].state \in States
      /\ \A i \in Ids : store[i] # Null /\ store[i].state # Null =>
                          store[i].state \in States
  BY Types DEF Calls, Entries
<1>5. \A u \in Users : login' = [login EXCEPT ![b] = Login("in", u, 0)] =>
                        NoLaterLogin /\ login'[b].age = 0
  BY <1>1, Types DEF NoLaterLogin, Login, TypeOK
<1>6. CASE Serve(r) \/ Logout(r)
  <2>1. issued' = issued /\ Returns(r, call[r])
    BY <1>6 DEF Serve, Logout, historyVars
  <2>2. \A i \in Ids : store'[i] # Null => store'[i] = store[i]
    BY <1>1, <1>6, DeletionsType DEF TypeOK, Serve, Logout
  <2>3. \A a \in Browsers : login'[a].age = login[a].age
    BY <1>1, <1>6 DEF TypeOK, Logins, Serve, Logout, historyVars
  <2>4. NoLaterLogin
    BY <2>3, Types DEF NoLaterLogin
  <2>5. \A s : SameFlow(s)
    BY <2>1 DEF SameFlow
  <2>6. /\ call[r].state # Null =>
             /\ issued'[call[r].state].browser = call[r].browser
             /\ issued'[call[r].state].user = call[r].user
        /\ call[r].user # Null =>
             login'[call[r].browser].age <= call[r].age
    BY <1>1, <1>2, <2>1, <2>3 DEF Faithful
  <2>7. CopiesFaithful' /\ StoreFaithful'
    BY <1>1, <2>1, <2>2, <2>4, <2>5, <2>6, HistoryReturn
  <2> QED
    BY <1>2, <2>1, <2>7 DEF HistoryInv, FlowsEndWhereTheyBegan
<1>7. CASE GoogleLogin(r) \/ ProviderLogin(r)
  <2>1. PICK s \in FreshStates :
          /\ Returns(r, [call[r] EXCEPT !.state = s])
          /\ issued' = [issued EXCEPT ![s] = Issue(b, call[r].user)]
    BY <1>7 DEF GoogleLogin, ProviderLogin, SendToProvider
  <2> DEFINE c == [call[r] EXCEPT !.state = s]
  <2>2. s \in States /\ s # Null
    BY SessionAssumption DEF FreshStates
  <2>3. /\ c \in Calls /\ c.state = s /\ c.browser = b
        /\ c.user = call[r].user /\ c.age = call[r].age
    BY <1>1, <2>2 DEF Calls
  <2>4. store' = store /\ login' = login
    BY <1>7 DEF GoogleLogin, ProviderLogin
  <2>5. NoLaterLogin
    BY <2>4, LoginKept
  <2>6. /\ \A x \in States : x # s => issued'[x] = issued[x]
        /\ issued'[s] = Issue(b, call[r].user)
    BY <2>1, <2>2 DEF TypeOK
  <2>7. /\ \A q \in Requests : call[q].state # s
        /\ \A i \in Ids : store[i] # Null => store[i].state # s
    BY DEF FreshStates, Pending
  <2>8. \A x \in States : x # s => SameFlow(x)
    BY <2>6 DEF SameFlow
  <2>9. issued'[s].browser = b /\ issued'[s].user = call[r].user
        /\ issued'[s].uses = <<>>
    BY <2>6 DEF Issue
  <2>10. Returns(r, c)
    BY <2>1
  <2>11. c.user # Null => login'[c.browser].age <= c.age
    BY <1>2, <2>3, <2>4 DEF Faithful
  <2> HIDE DEF c
  <2>12. CopiesFaithful' /\ StoreFaithful'
    BY <1>4, <2>3, <2>4, <2>5, <2>7, <2>8, <2>9, <2>10, <2>11, HistoryReturn
  <2>13. FlowsEndWhereTheyBegan'
    BY <1>2, <2>6, <2>9 DEF FlowsEndWhereTheyBegan
  <2> QED
    BY <2>12, <2>13 DEF HistoryInv
<1>8. CASE CallbackRefused(r)
  <2>1. /\ issued' = issued /\ login' = login /\ store' = store
        /\ Returns(r, t)
    BY <1>8 DEF CallbackRefused, historyVars
  <2>2. NoLaterLogin /\ \A s : SameFlow(s)
    BY <2>1, LoginKept DEF SameFlow
  <2>3. t.user # Null => login'[t.browser].age <= t.age
    BY <1>2, <1>3, <2>1 DEF Faithful
  <2> HIDE DEF t
  <2>4. CopiesFaithful' /\ StoreFaithful'
    BY <1>3, <2>1, <2>2, <2>3, HistoryReturn
  <2> QED
    BY <1>2, <2>1, <2>4 DEF HistoryInv, FlowsEndWhereTheyBegan
<1>9. CASE CallbackFails(r) \/ ProviderCallback(r)
  <2>1. PICK s \in States : Accepts(r, s)
    BY <1>9 DEF CallbackFails, ProviderCallback
  <2>2. login' = login /\ store' = store /\ Returns(r, t)
    BY <1>9 DEF CallbackFails, ProviderCallback
  <2>3. (\A x \in States : SameFlow(x)) /\ FlowsEndWhereTheyBegan'
    BY <1>1, <2>1, AcceptsFaithful
  <2>4. NoLaterLogin
    BY <2>2, LoginKept
  <2>5. t.user # Null => login'[t.browser].age <= t.age
    BY <1>2, <1>3, <2>2 DEF Faithful
  <2> HIDE DEF t
  <2>6. CopiesFaithful' /\ StoreFaithful'
    BY <1>3, <1>4, <2>2, <2>3, <2>4, <2>5, HistoryReturn
  <2> QED
    BY <2>3, <2>6 DEF HistoryInv
<1>10. CASE RegenerateFails(r)
  <2>1. PICK s \in States, u \in Users :
          /\ Accepts(r, s)
          /\ Returns(r, [t EXCEPT !.user = u])
          /\ login' = [login EXCEPT ![b] = Login("in", u, 0)]
    BY <1>10 DEF RegenerateFails
  <2> HIDE DEF t
  <2> DEFINE c == [t EXCEPT !.user = u]
  <2>2. /\ c \in Calls /\ c.state = Null /\ c.browser = b /\ c.age = t.age
        /\ Returns(r, c)
    BY <1>3, <2>1 DEF Calls
  <2>3. (\A x \in States : SameFlow(x)) /\ FlowsEndWhereTheyBegan'
    BY <1>1, <2>1, AcceptsFaithful
  <2>4. \A i \in Ids : store'[i] # Null => store'[i] = store[i]
    BY <1>1, <1>10, DeletionsType DEF TypeOK, RegenerateFails
  <2>5. NoLaterLogin /\ login'[c.browser].age <= c.age
    <3>1. NoLaterLogin /\ login'[b].age = 0
      BY <1>5, <2>1
    <3>2. c.browser = b /\ c.age \in Nat
      BY <1>3, <2>2
    <3> QED
      BY <3>1, <3>2
  <2> HIDE DEF c
  <2>6. CopiesFaithful' /\ StoreFaithful'
    BY <1>4, <2>2, <2>3, <2>4, <2>5, HistoryReturn
  <2> QED
    BY <2>3, <2>6 DEF HistoryInv
<1>11. CASE GoogleCallback(r)
  <2>1. PICK s \in States, u \in Users, i \in FreshIds :
          /\ Accepts(r, s)
          /\ Returns(r, SignIn(call[r], u, i))
          /\ store' = [store EXCEPT ![call[r].id] = Null, ![i] = Null]
          /\ login' = [login EXCEPT ![b] = Login("in", u, 0)]
    BY <1>11 DEF GoogleCallback
  <2> DEFINE c == SignIn(call[r], u, i)
  <2>2. i \in Ids
    BY DEF FreshIds
  <2>3. /\ c \in Calls /\ c.state = Null /\ c.browser = b /\ c.age = 0
        /\ Returns(r, c)
    BY <1>1, <2>1, <2>2, SignInType
  <2>4. (\A x \in States : SameFlow(x)) /\ FlowsEndWhereTheyBegan'
    BY <1>1, <2>1, AcceptsFaithful
  <2>5. \A j \in Ids : store'[j] # Null => store'[j] = store[j]
    BY <2>1 DEF TypeOK
  <2>6. NoLaterLogin /\ login'[c.browser].age <= c.age
    <3>1. NoLaterLogin /\ login'[b].age = 0
      BY <1>5, <2>1
    <3>2. c.browser = b /\ c.age = 0
      BY <2>3
    <3> QED
      BY <3>1, <3>2
  <2> HIDE DEF c
  <2>7. CopiesFaithful' /\ StoreFaithful'
    BY <1>4, <2>3, <2>4, <2>5, <2>6, HistoryReturn
  <2> QED
    BY <2>4, <2>7 DEF HistoryInv
<1> QED
  BY <1>6, <1>7, <1>8, <1>9, <1>10, <1>11 DEF Handler

LEMMA HistorySave ==
  ASSUME TypeOK, TypeOK', Next, Separate, HistoryInv, NEW r \in Requests,
         Save(r) \/ SaveFails(r)
  PROVE  HistoryInv'
<1> DEFINE b == call[r].browser  id == call[r].id
<1>1. /\ call[r] \in Calls /\ b \in Browsers /\ id \in Ids /\ Holds(b, id)
      /\ call[r].age \in Nat
  BY Types DEF Save, SaveFails, Holds, Open
<1>2. Faithful(b, call[r].user, call[r].state, call[r].age)
  BY DEF HistoryInv, CopiesFaithful
<1>3. NoLaterLogin /\ issued' = issued
  BY LoginExpiredKeeps, LoginKept DEF Save, SaveFails, historyVars
<1>4. \A s : SameFlow(s)
  BY <1>3 DEF SameFlow
<1> DEFINE c == Saved(call[r])
<1>5. c.user = Null /\ c.state = Null /\ call' = [call EXCEPT ![r] = c]
  BY DEF Saved, Call, Save, SaveFails
<1> HIDE DEF c
<1>6. CopiesFaithful'
  BY <1>3, <1>4, <1>5, CopiesStayFaithful
<1>7. CASE SaveFails(r)
  <2>1. \A j \in Ids : store'[j] # Null => SameEntry(j)
    BY <1>7 DEF SaveFails, SameEntry
  <2>2. StoreFaithful'
    BY <1>3, <1>4, <2>1, StoreStaysFaithful
  <2> QED
    BY <1>3, <1>6, <2>2 DEF HistoryInv, FlowsEndWhereTheyBegan
<1>8. CASE Save(r)
  <2>1. KeepsHolders
    <3>1. /\ Saved(call[r]) \in Calls
          /\ SameHolder(r, Saved(call[r]))
      BY <1>1, SessionAssumption DEF Saved, Call, Calls, Ages, SameHolder
    <3> QED
      BY <1>8, <3>1, CopyKeepsHolders DEF Save
  <2>2. \A i \in Ids : i # id => store'[i] = store[i]
    BY <1>8 DEF Save, Written, TypeOK
  <2>3. store'[id] # Null =>
          /\ store'[id].user = call[r].user /\ store'[id].age = call[r].age
          /\ store'[id].state = call[r].state
    BY <1>1, <1>8 DEF Save, Written, Entry, TypeOK
  <2>4. ASSUME NEW a \in Browsers, NEW i \in Ids,
               Holds(a, i)', store'[i] # Null
        PROVE  Faithful(a, store[i].user, store[i].state, store[i].age)'
    <3>1. Holds(a, i)
      BY <2>1, <2>4 DEF KeepsHolders
    <3>2. login[a].age \in Nat /\ login'[a].age <= login[a].age
          /\ login'[a].age \in Nat
      BY <1>3, SessionAssumption DEF TypeOK, Logins, Ages, NoLaterLogin
    <3>3. CASE i = id
      <4>1. a = b
        BY <1>1, <3>1, <3>3 DEF Separate
      <4> QED
        BY <1>1, <1>2, <1>3, <2>3, <2>4, <3>2, <3>3, <4>1 DEF Faithful
    <3>4. CASE i # id
      <4>1. store'[i] = store[i] /\ store[i] \in Entries
        BY <2>2, <2>4, <3>4, Types
      <4>2. Faithful(a, store[i].user, store[i].state, store[i].age)
        BY <2>4, <3>1, <4>1 DEF HistoryInv, StoreFaithful
      <4>3. store[i].age \in Nat
        BY <4>1, SessionAssumption DEF Entries, Ages
      <4> QED
        BY <1>3, <3>2, <4>1, <4>2, <4>3 DEF Faithful
    <3> QED
      BY <3>3, <3>4
  <2> QED
    BY <1>3, <1>6, <2>4
    DEF HistoryInv, StoreFaithful, FlowsEndWhereTheyBegan
<1> QED
  BY <1>7, <1>8

LEMMA HistoryRespond ==
  ASSUME TypeOK, TypeOK', Next, HistoryInv, NEW r \in Requests,
         Respond(r) \/ ResponseLost(r)
  PROVE  HistoryInv'
<1> DEFINE K == Known'  P == Pending'
<1>1. /\ store' = [i \in Ids |-> IF i \in K THEN store[i] ELSE Null]
      /\ issued' = [s \in States |->
                      IF s \in P THEN issued[s] ELSE Issue(Null, Null)]
      /\ call' = [call EXCEPT ![r] = NoCall] /\ login' = login
  BY DEF Respond, ResponseLost, ForgetUnknown
<1>2. /\ \A q \in Requests : call'[q].state \in P
      /\ \A i \in Ids : store'[i] # Null => store'[i].state \in P
  BY DEF Pending
<1> HIDE DEF K, P
<1>3. NoLaterLogin
  BY <1>1, LoginKept
<1>4. NoCall.user = Null /\ NoCall.state = Null
  BY DEF NoCall, Call
<1>5. \A s \in States : s \in P => SameFlow(s)
  BY <1>1 DEF SameFlow
<1>6. /\ \A q \in Requests \ {r} : call'[q] = call[q]
      /\ \A i \in Ids : store'[i] # Null => store'[i] = store[i]
  BY <1>1 DEF TypeOK
<1>7. /\ \A q \in Requests : call[q].state # Null => call[q].state \in States
      /\ \A i \in Ids : store[i] # Null /\ store[i].state # Null =>
                          store[i].state \in States
  BY Types DEF Calls, Entries
<1>8. \A q \in Requests \ {r} :
        call[q].state # Null => SameFlow(call[q].state)
  BY <1>2, <1>5, <1>6, <1>7
<1>9. CopiesFaithful'
  BY <1>1, <1>3, <1>4, <1>8, CopiesStayFaithful
<1>10. \A i \in Ids : store'[i] # Null =>
         /\ SameEntry(i)
         /\ store[i].state # Null => SameFlow(store[i].state)
  BY <1>2, <1>5, <1>6, <1>7 DEF SameEntry
<1>11. StoreFaithful'
  BY <1>3, <1>10, StoreStaysFaithful
<1>12. \A s \in States : issued'[s] = issued[s] \/ issued'[s].uses = <<>>
  BY <1>1 DEF Issue
<1>13. FlowsEndWhereTheyBegan'
  BY <1>12 DEF HistoryInv, FlowsEndWhereTheyBegan
<1> QED
  BY <1>9, <1>11, <1>13 DEF HistoryInv

LEMMA HistoryTime ==
  ASSUME TypeOK, TypeOK', Next, HistoryInv,
         Tick \/ \E i \in Ids : RedisExpires(i)
  PROVE  HistoryInv'
<1>1. CASE Tick
  <2>1. ASSUME NEW b \in Browsers, NEW age \in Ages, login[b].age <= age
        PROVE  login'[b].age <= Older(age)
    <3>1. login[b] \in Logins /\ login[b].age \in Ages
      BY DEF TypeOK, Logins
    <3>2. login'[b].age = login[b].age \/ login'[b].age = Older(login[b].age)
      BY <1>1, <3>1 DEF Tick, Logins
    <3> QED
      BY <2>1, <3>1, <3>2, SessionAssumption DEF Older, Ages
  <2>2. issued' = issued /\ cookie' = cookie
    BY <1>1 DEF Tick
  <2>3. ASSUME NEW r \in Requests
        PROVE  /\ call'[r].browser = call[r].browser
               /\ call'[r].user = call[r].user
               /\ call'[r].state = call[r].state
               /\ call'[r].at = call[r].at
               /\ call[r].at \in {"handler", "save"} =>
                    call'[r].age = Older(call[r].age)
    BY <1>1, Types DEF Tick, Calls
  <2>4. CopiesFaithful'
    <3> SUFFICES ASSUME NEW r \in Requests
                 PROVE  /\ Faithful(call[r].browser, call[r].user,
                                    call[r].state, call[r].age)'
                        /\ call'[r].user # Null =>
                             call'[r].at \in {"handler", "save"}
      BY DEF CopiesFaithful
    <3>1. /\ Faithful(call[r].browser, call[r].user, call[r].state, call[r].age)
          /\ call[r].user # Null => call[r].at \in {"handler", "save"}
      BY DEF HistoryInv, CopiesFaithful
    <3>2. call[r].age \in Ages
      BY Types DEF Calls
    <3>3. call[r].user # Null =>
            call[r].browser \in Browsers
      BY <3>1, Types
    <3>4. call'[r].user # Null => login'[call'[r].browser].age <= call'[r].age
      BY <2>1, <2>3, <3>1, <3>2, <3>3 DEF Faithful
    <3> QED
      BY <2>2, <2>3, <3>1, <3>4 DEF Faithful
  <2>5. StoreFaithful'
    <3> SUFFICES ASSUME NEW b \in Browsers, NEW i \in Ids,
                        Holds(b, i)', store'[i] # Null
                 PROVE  Faithful(b, store[i].user, store[i].state,
                                 store[i].age)'
      BY DEF StoreFaithful
    <3>1. /\ store[i] # Null /\ store[i] \in Entries
          /\ store'[i].user = store[i].user
          /\ store'[i].state = store[i].state
          /\ store'[i].age = Older(store[i].age)
      <4>1. store[i] # Null /\ store[i] \in Entries
        BY <1>1, Types DEF Tick
      <4>2. store'[i] = [store[i] EXCEPT !.age = Older(@),
                           !.idle = IF @ <= Idle THEN @ + 1 ELSE @]
        BY <1>1, <4>1 DEF Tick
      <4> QED
        BY <4>1, <4>2 DEF Entries
    <3>2. \A r \in Requests :
            call'[r].browser = call[r].browser /\ call'[r].id = call[r].id
      BY <1>1, Types DEF Tick, Calls
    <3>3. Holds(b, i)
      BY <2>2, <3>2 DEF Holds, Open
    <3>4. Faithful(b, store[i].user, store[i].state, store[i].age)
      BY <3>1, <3>3 DEF HistoryInv, StoreFaithful
    <3>5. store[i].age \in Ages
      BY <3>1 DEF Entries
    <3>6. store'[i].user # Null => login'[b].age <= store'[i].age
      BY <2>1, <3>1, <3>4, <3>5 DEF Faithful
    <3> QED
      BY <2>2, <3>1, <3>4, <3>6 DEF Faithful
  <2> QED
    BY <2>2, <2>4, <2>5 DEF HistoryInv, FlowsEndWhereTheyBegan
<1>2. CASE \E i \in Ids : RedisExpires(i)
  <2>1. PICK i \in Ids : RedisExpires(i)
    BY <1>2
  <2>2. /\ issued' = issued /\ call' = call
        /\ store' = [store EXCEPT ![i] = Null] /\ login' = LoginExpired(i)
    BY <2>1 DEF RedisExpires
  <2>3. NoLaterLogin
    BY <2>2, LoginExpiredKeeps
  <2>4. \A s : SameFlow(s)
    BY <2>2 DEF SameFlow
  <2>5. \A j \in Ids : store'[j] # Null => SameEntry(j)
    BY <2>2 DEF SameEntry, TypeOK
  <2>6. StoreFaithful'
    BY <2>3, <2>4, <2>5, StoreStaysFaithful
  <2>7. CopiesFaithful'
    <3> SUFFICES ASSUME NEW r \in Requests
                 PROVE  /\ Faithful(call[r].browser, call[r].user,
                                    call[r].state, call[r].age)'
                        /\ call'[r].user # Null =>
                             call'[r].at \in {"handler", "save"}
      BY DEF CopiesFaithful
    <3>1. /\ Faithful(call[r].browser, call[r].user, call[r].state, call[r].age)
          /\ call[r].user # Null => call[r].at \in {"handler", "save"}
      BY DEF HistoryInv, CopiesFaithful
    <3>2. call[r].user # Null => call[r].browser \in Browsers
      BY <3>1, Types
    <3>3. call[r].age \in Nat
      BY Types
    <3>4. \A b \in Browsers : login[b].age \in Nat /\ login'[b].age \in Nat
      BY SessionAssumption DEF TypeOK, Logins, Ages
    <3> QED
      BY <2>2, <2>3, <3>1, <3>2, <3>3, <3>4 DEF Faithful, NoLaterLogin
  <2> QED
    BY <2>2, <2>6, <2>7 DEF HistoryInv, FlowsEndWhereTheyBegan
<1> QED
  BY <1>1, <1>2

(* The inductive invariant of both theorems below.                         *)
THEOREM HistoryCorrect == Spec => [](TypeOK /\ Separate /\ HistoryInv)
<1>1. Init => Separate /\ HistoryInv
  <2> SUFFICES ASSUME Init
               PROVE  Separate /\ HistoryInv
    OBVIOUS
  <2>1. \A b \in Browsers, i \in Ids : ~Holds(b, i)
    BY SessionAssumption DEF Init, Holds, Open, NoCall, Call
  <2>2. CopiesFaithful
    BY DEF Init, NoCall, Call, CopiesFaithful, Faithful
  <2>3. FlowsEndWhereTheyBegan
    BY DEF Init, Issue, FlowsEndWhereTheyBegan
  <2> QED
    BY <2>1, <2>2, <2>3 DEF Separate, HistoryInv, StoreFaithful
<1>2. TypeOK /\ TypeOK' /\ Separate /\ HistoryInv /\ [Next]_vars
        => Separate' /\ HistoryInv'
  <2> SUFFICES ASSUME TypeOK, TypeOK', Separate, HistoryInv, [Next]_vars
               PROVE  Separate' /\ HistoryInv'
    OBVIOUS
  <2>1. CASE UNCHANGED vars
    BY <2>1
    DEF vars, historyVars, Separate, Holds, Open, HistoryInv, CopiesFaithful,
        StoreFaithful, Faithful, FlowsEndWhereTheyBegan
  <2>2. CASE Next
    BY <2>2, SeparateStep, HistoryStart, HistoryHandler, HistorySave,
       HistoryRespond, HistoryTime
    DEF Next
  <2> QED
    BY <2>1, <2>2
<1> QED
  BY <1>1, <1>2, TypeCorrect, PTL DEF Spec

(* Every accepted callback comes from the browser and the user its state   *)
(* was made for, however requests overlap and whatever Redis loses.        *)
THEOREM FlowsCorrect == Spec => []FlowsEndWhereTheyBegan
<1>1. HistoryInv => FlowsEndWhereTheyBegan
  BY DEF HistoryInv
<1> QED
  BY <1>1, HistoryCorrect, PTL

(* No browser is signed in for longer than the absolute expiration after   *)
(* its last login, however requests overlap and whatever Redis loses.      *)
THEOREM AbsoluteLimitCorrect == Spec => []AbsoluteLimit
<1>1. TypeOK /\ HistoryInv => AbsoluteLimit
  <2> SUFFICES ASSUME TypeOK, HistoryInv, NEW b \in Browsers, SignedIn(b),
                      ~Overdue(store[cookie[b]])
               PROVE  login[b].age <= Absolute
    BY DEF AbsoluteLimit
  <2> DEFINE i == cookie[b]
  <2>1. i \in Ids /\ store[i] \in Entries /\ Holds(b, i)
    BY Types DEF SignedIn, Holds
  <2>2. login[b].age <= store[i].age
    BY <2>1 DEF SignedIn, HistoryInv, StoreFaithful, Faithful
  <2>3. /\ store[i].age \in Nat /\ login[b].age \in Nat
        /\ ~(store[i].age > Absolute)
    BY <2>1, SessionAssumption DEF Overdue, Entries, Ages, TypeOK, Logins
  <2> QED
    BY <2>2, <2>3, SessionAssumption
<1> QED
  BY <1>1, HistoryCorrect, PTL
=============================================================================
