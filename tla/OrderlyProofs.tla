---------------------------- MODULE OrderlyProofs ----------------------------
(***************************************************************************)
(* What a browser can rely on that sends one request at a time: it stays   *)
(* signed in, and its OAuth states are accepted once.                      *)
(***************************************************************************)
EXTENDS SessionProofs

(* What one step of request r does, as far as it matters here.             *)
HandlerStep(r, c) ==
  LET b == call[r].browser IN
    /\ call[r].at = "handler" /\ c \in Calls /\ c.at = "save" /\ c.browser = b
    /\ call' = [call EXCEPT ![r] = c]
    /\ cookie' = cookie
    /\ \A j \in Ids \ FreshIds : j # call[r].id => store'[j] = store[j]
    /\ \A a \in Browsers : a # b => login'[a] = login[a]
    /\ \/ login'[b] = login[b] /\ c.user = call[r].user
       \/ login'[b].is = "in" /\ login'[b].user = c.user /\ c.user # Null
       \/ login'[b].is # "in"

LEMMA HandlerShape ==
  ASSUME TypeOK, NEW r \in Requests, Handler(r)
  PROVE  \E c : HandlerStep(r, c)
<1> DEFINE b == call[r].browser  t == TakenFrom(call[r])
           done(c) == [c EXCEPT !.at = "save"]
<1>1. /\ call[r].at = "handler" /\ call[r] \in Calls
      /\ b \in Browsers /\ call[r].id \in Ids
  BY Types
  DEF Handler, Serve, Logout, GoogleLogin, GoogleCallback, RegenerateFails, ProviderLogin,
      ProviderCallback, RequireAuth, CallbackRefused, CallbackFails
<1>2. /\ t \in Calls /\ t.browser = b /\ t.user = call[r].user
  BY <1>1 DEF TakenFrom, Calls
<1>3. \A c \in Calls : /\ done(c) \in Calls /\ done(c).at = "save"
                       /\ done(c).browser = c.browser /\ done(c).user = c.user
  BY DEF Calls
<1>4. \A c : Returns(r, c) => call' = [call EXCEPT ![r] = done(c)]
  BY DEF Returns
<1>5. \A d \in Deletions(b, call[r].id) : \A j \in Ids : j # call[r].id => d[j] = store[j]
  BY DEF Deletions, TypeOK
<1> HIDE DEF done
<1>6. CASE Serve(r)
  <2>1. HandlerStep(r, done(call[r]))
    BY <1>1, <1>3, <1>4, <1>6 DEF Serve, HandlerStep, historyVars
  <2> QED BY <2>1
<1>7. CASE Logout(r)
  <2>1. login'[b].is = "out" /\ \A a \in Browsers : a # b => login'[a] = login[a]
    BY <1>1, <1>7 DEF Logout, TypeOK, Logins
  <2>2. HandlerStep(r, done(call[r]))
    BY <1>1, <1>3, <1>4, <1>5, <1>7, <2>1 DEF Logout, HandlerStep
  <2> QED BY <2>2
<1>8. CASE GoogleLogin(r) \/ ProviderLogin(r)
  <2>1. PICK s \in States : Returns(r, [call[r] EXCEPT !.state = s])
    BY <1>8 DEF GoogleLogin, ProviderLogin, SendToProvider, FreshStates
  <2> DEFINE c == [call[r] EXCEPT !.state = s]
  <2>2. c \in Calls /\ c.browser = b /\ c.user = call[r].user
    BY <1>1 DEF Calls
  <2>3. call' = [call EXCEPT ![r] = done(c)]
    BY <1>4, <2>1
  <2> HIDE DEF c
  <2>4. HandlerStep(r, done(c))
    BY <1>1, <1>3, <1>8, <2>2, <2>3 DEF GoogleLogin, ProviderLogin, HandlerStep
  <2> QED BY <2>4
<1>9. CASE CallbackRefused(r) \/ CallbackFails(r) \/ ProviderCallback(r)
  <2> HIDE DEF t
  <2>1. Returns(r, t) /\ UNCHANGED <<store, cookie, login>>
    BY <1>9 DEF CallbackRefused, CallbackFails, ProviderCallback, historyVars, t
  <2>2. HandlerStep(r, done(t))
    BY <1>1, <1>2, <1>3, <1>4, <2>1 DEF HandlerStep
  <2> QED BY <2>2
<1>10. CASE RegenerateFails(r)
  <2>1. PICK u \in Users : /\ Returns(r, [t EXCEPT !.user = u])
                           /\ login' = [login EXCEPT ![b] = Login("in", u, 0)]
    BY <1>10 DEF RegenerateFails
  <2> HIDE DEF t
  <2> DEFINE c == [t EXCEPT !.user = u]
  <2>2. c \in Calls /\ c.browser = b /\ c.user = u
    BY <1>2 DEF Calls
  <2>3. /\ login'[b].is = "in" /\ login'[b].user = u /\ u # Null
        /\ \A a \in Browsers : a # b => login'[a] = login[a]
    BY <1>1, <2>1, SessionAssumption DEF Login, TypeOK
  <2>4. store' \in Deletions(b, call[r].id) /\ cookie' = cookie
    BY <1>10 DEF RegenerateFails
  <2>5. call' = [call EXCEPT ![r] = done(c)]
    BY <1>4, <2>1
  <2> HIDE DEF c
  <2>6. HandlerStep(r, done(c))
    BY <1>1, <1>3, <1>5, <2>2, <2>3, <2>4, <2>5 DEF HandlerStep
  <2> QED BY <2>6
<1>11. CASE GoogleCallback(r)
  <2>1. PICK u \in Users, i \in FreshIds :
          /\ Returns(r, SignIn(call[r], u, i))
          /\ store' = [store EXCEPT ![call[r].id] = Null, ![i] = Null]
          /\ login' = [login EXCEPT ![b] = Login("in", u, 0)]
    BY <1>11 DEF GoogleCallback
  <2>2. PICK c \in Calls : c = SignIn(call[r], u, i) /\ c.browser = b /\ c.user = u
    BY <1>1, SignInType DEF FreshIds
  <2>3. /\ login'[b].is = "in" /\ login'[b].user = u /\ u # Null
        /\ \A a \in Browsers : a # b => login'[a] = login[a]
    BY <1>1, <2>1, SessionAssumption DEF Login, TypeOK
  <2>4. cookie' = cookie /\ \A j \in Ids \ FreshIds : j # call[r].id => store'[j] = store[j]
    BY <1>11, <2>1 DEF GoogleCallback, TypeOK
  <2>5. HandlerStep(r, done(c))
    BY <1>1, <1>3, <1>4, <2>1, <2>2, <2>3, <2>4 DEF HandlerStep
  <2> QED BY <2>5
<1> QED BY <1>6, <1>7, <1>8, <1>9, <1>10, <1>11 DEF Handler

-----------------------------------------------------------------------------
(* The login of an orderly browser b is kept in one place: Redis, under    *)
(* the id of the cookie, then the copy of its only request, then Redis     *)
(* again, under the id the response will set.                              *)
Orderly(b) == Trouble[b] \subseteq {"destroy"}

SignedAs(i, u) == store[i] # Null /\ store[i].user = u

Alone(b) ==
  \A q, r \in Requests : call[q].browser = b /\ call[r].browser = b => q = r

KeepsLogin(b) ==
  login[b].is = "in" =>
    /\ login[b].user # Null
    /\ (\A r \in Requests : call[r].browser # b) =>
         cookie[b] # Null /\ SignedAs(cookie[b], login[b].user)
    /\ \A r \in Requests : call[r].browser = b =>
         /\ call[r].at \in {"handler", "save"} => call[r].user = login[b].user
         /\ call[r].at = "respond" => SignedAs(call[r].id, login[b].user)

NoBrowserWhileIdle == \A r \in Requests : call[r].at = "none" => call[r].browser = Null

OrderlyInv ==
  /\ NoBrowserWhileIdle
  /\ \A b \in Browsers : Orderly(b) => Alone(b) /\ KeepsLogin(b)

(* A step of others leaves the requests of b, and what is stored under the *)
(* ids b holds.                                                            *)
LEMMA Undisturbed ==
  ASSUME TypeOK, NEW b \in Browsers, Alone(b), KeepsLogin(b),
         \A r \in Requests :
           /\ call'[r].browser = b <=> call[r].browser = b
           /\ call[r].browser = b =>
                call'[r].at = call[r].at /\ call'[r].user = call[r].user /\ call'[r].id = call[r].id,
         cookie'[b] = cookie[b],
         login'[b].is = "in" =>
           /\ login[b].is = "in" /\ login'[b].user = login[b].user
           /\ \A i \in Ids : Holds(b, i) /\ store[i] # Null =>
                store'[i] # Null /\ store'[i].user = store[i].user
  PROVE  Alone(b)' /\ KeepsLogin(b)'
<1>1. Alone(b)'
  BY DEF Alone
<1>2. KeepsLogin(b)'
  <2> SUFFICES ASSUME login'[b].is = "in"
               PROVE  /\ login'[b].user # Null
                      /\ (\A r \in Requests : call'[r].browser # b) =>
                           /\ cookie'[b] # Null /\ store'[cookie'[b]] # Null
                           /\ store'[cookie'[b]].user = login'[b].user
                      /\ \A r \in Requests : call'[r].browser = b =>
                           /\ call'[r].at \in {"handler", "save"} =>
                                call'[r].user = login'[b].user
                           /\ call'[r].at = "respond" =>
                                /\ store'[call'[r].id] # Null
                                /\ store'[call'[r].id].user = login'[b].user
    BY DEF KeepsLogin, SignedAs
  <2>1. \A i \in Ids : \A u : Holds(b, i) /\ SignedAs(i, u) => store'[i] # Null /\ store'[i].user = u
    BY DEF SignedAs
  <2>2. cookie[b] # Null => cookie[b] \in Ids /\ Holds(b, cookie[b])
    BY DEF TypeOK, Holds
  <2>3. ASSUME NEW r \in Requests, call[r].browser = b, call[r].at = "respond"
        PROVE  call[r].id \in Ids /\ Holds(b, call[r].id)
    BY <2>3, Types DEF Holds, Open
  <2> QED BY <2>1, <2>2, <2>3 DEF KeepsLogin
<1> QED BY <1>1, <1>2

LEMMA OtherBrowser ==
  ASSUME TypeOK, NEW b \in Browsers, Alone(b), KeepsLogin(b),
         NEW r \in Requests, NEW c, call' = [call EXCEPT ![r] = c],
         call[r].browser # b, c.browser # b,
         cookie'[b] = cookie[b],
         login'[b] = login[b] \/ login'[b].is # "in",
         \A i \in Ids : Holds(b, i) => store'[i] = store[i]
  PROVE  Alone(b)' /\ KeepsLogin(b)'
<1>1. \A q \in Requests : q # r => call'[q] = call[q]
  BY DEF TypeOK
<1>2. call'[r] = c
  BY DEF TypeOK
<1> QED BY <1>1, <1>2, Undisturbed

(* The step of the only request of b.                                      *)
LEMMA OwnStep ==
  ASSUME TypeOK, NEW b \in Browsers,
         NEW r \in Requests, NEW c, call' = [call EXCEPT ![r] = c], c.browser = b,
         \A q \in Requests : q # r => call[q].browser # b,
         login'[b].is = "in" =>
           /\ login'[b].user # Null
           /\ c.at \in {"handler", "save"} => c.user = login'[b].user
           /\ c.at = "respond" => store'[c.id] # Null /\ store'[c.id].user = login'[b].user
  PROVE  Alone(b)' /\ KeepsLogin(b)'
<1>1. \A q \in Requests : q # r => call'[q] = call[q]
  BY DEF TypeOK
<1>2. call'[r] = c
  BY DEF TypeOK
<1> QED BY <1>1, <1>2 DEF Alone, KeepsLogin, SignedAs

LEMMA FreshNotHeld ==
  ASSUME NEW b \in Browsers, NEW i \in FreshIds
  PROVE  ~Holds(b, i)
BY DEF FreshIds, Known, Holds, Open

LEMMA LoginExpiredIs ==
  ASSUME TypeOK, NEW i, NEW b \in Browsers
  PROVE  /\ LoginExpired(i)[b] = login[b] \/ LoginExpired(i)[b].is # "in"
         /\ Holds(b, i) => LoginExpired(i)[b].is # "in"
BY DEF TypeOK, LoginExpired, Logins

LEMMA SignedStart ==
  ASSUME TypeOK, Separate, NoBrowserWhileIdle,
         NEW b \in Browsers, Orderly(b), Alone(b), KeepsLogin(b),
         NEW r \in Requests, NEW a \in Browsers, StartNew(r, a) \/ StartLoaded(r, a)
  PROVE  Alone(b)' /\ KeepsLogin(b)'
<1>1. call[r].browser = Null /\ b # Null
  BY SessionAssumption DEF StartNew, StartLoaded, MaySend, NoBrowserWhileIdle
<1>2. a = b => \A q \in Requests : call[q].browser # b
  BY DEF StartNew, StartLoaded, MaySend, Open, Orderly
<1>3. CASE StartNew(r, a)
  <2>1. PICK i \in FreshIds : /\ call' = [call EXCEPT ![r] =
                                   Call("handler", a, i, Null, Null, 0)]
                              /\ store' = [store EXCEPT ![i] = Null]
    BY <1>3 DEF StartNew, NewSession
  <2> DEFINE c == Call("handler", a, i, Null, Null, 0)
  <2>2. c.browser = a /\ call' = [call EXCEPT ![r] = c]
    BY <2>1 DEF Call
  <2> HIDE DEF c
  <2>3. cookie' = cookie /\ login' = login
    BY <1>3 DEF StartNew
  <2>4. CASE a = b
    <3>1. login[b].is # "in"
      BY <1>2, <1>3, <2>4 DEF StartNew, KeepsLogin, SignedAs, Orderly
    <3> QED BY <1>2, <2>2, <2>3, <2>4, <3>1, OwnStep
  <2>5. CASE a # b
    <3>1. \A j \in Ids : Holds(b, j) => store'[j] = store[j]
      BY <2>1, FreshNotHeld DEF TypeOK
    <3> QED BY <1>1, <2>2, <2>3, <2>5, <3>1, OtherBrowser
  <2> QED BY <2>4, <2>5
<1>4. CASE StartLoaded(r, a)
  <2> DEFINE c == Loaded(a, cookie[a])
  <2>1. /\ call' = [call EXCEPT ![r] = c] /\ c.browser = a
        /\ c.at \in {"expired", "handler"}
        /\ c.at = "handler" => c.user = store[cookie[a]].user
        /\ UNCHANGED <<store, cookie, login>>
    BY <1>4 DEF StartLoaded, Loaded, Call, historyVars
  <2> HIDE DEF c
  <2>2. CASE a = b
    <3>1. login[b].is = "in" =>
            login[b].user # Null /\ store[cookie[b]].user = login[b].user
      BY <1>2, <2>2 DEF KeepsLogin, SignedAs
    <3> QED BY <1>2, <2>1, <2>2, <3>1, OwnStep
  <2>3. CASE a # b
    BY <1>1, <2>1, <2>3, OtherBrowser
  <2> QED BY <2>2, <2>3
<1> QED BY <1>3, <1>4

LEMMA SignedReplace ==
  ASSUME TypeOK, Separate,
         NEW b \in Browsers, Alone(b), KeepsLogin(b), NEW r \in Requests, ReplaceExpired(r)
  PROVE  Alone(b)' /\ KeepsLogin(b)'
<1> DEFINE a == call[r].browser
<1>1. a \in Browsers /\ call[r].id \in Ids /\ Holds(a, call[r].id)
  BY Types DEF ReplaceExpired, Holds, Open
<1>2. PICK i \in FreshIds, after \in Deletions(a, call[r].id) :
        /\ call' = [call EXCEPT ![r] = Call("handler", a, i, Null, Null, 0)]
        /\ store' = [after EXCEPT ![i] = Null]
  BY DEF ReplaceExpired
<1>3. cookie' = cookie /\ login' = LoginExpired(call[r].id)
  BY DEF ReplaceExpired
<1> DEFINE c == Call("handler", a, i, Null, Null, 0)
<1>4. c.browser = a /\ call' = [call EXCEPT ![r] = c]
  BY <1>2 DEF Call
<1>5. \A j \in Ids : j # i /\ j # call[r].id => store'[j] = store[j]
  BY <1>1, <1>2 DEF Deletions, TypeOK
<1> HIDE DEF c
<1>6. CASE a = b
  <2>1. login'[b].is # "in"
    BY <1>1, <1>3, <1>6, LoginExpiredIs
  <2> QED BY <1>4, <1>6, <2>1, OwnStep DEF Alone
<1>7. CASE a # b
  <2>1. \A j \in Ids : Holds(b, j) => store'[j] = store[j]
    BY <1>1, <1>5, <1>7, FreshNotHeld DEF Separate
  <2>2. login'[b] = login[b] \/ login'[b].is # "in"
    BY <1>3, LoginExpiredIs
  <2> QED BY <1>3, <1>4, <1>7, <2>1, <2>2, OtherBrowser
<1> QED BY <1>6, <1>7

LEMMA SignedHandler ==
  ASSUME TypeOK, Separate,
         NEW b \in Browsers, Alone(b), KeepsLogin(b), NEW r \in Requests, Handler(r)
  PROVE  Alone(b)' /\ KeepsLogin(b)'
<1> DEFINE a == call[r].browser
<1>1. PICK c : HandlerStep(r, c)
  BY HandlerShape
<1>2. a \in Browsers /\ call[r].id \in Ids /\ Holds(a, call[r].id)
  BY <1>1, Types DEF HandlerStep, Holds, Open
<1>3. CASE a = b
  <2>1. login[b].is = "in" => login[b].user # Null /\ call[r].user = login[b].user
    BY <1>1, <1>3 DEF HandlerStep, KeepsLogin
  <2>2. login'[b].is = "in" => login'[b].user # Null /\ c.user = login'[b].user
    BY <1>1, <1>3, <2>1 DEF HandlerStep
  <2>3. \A q \in Requests : q # r => call[q].browser # b
    BY <1>3 DEF Alone
  <2>4. call' = [call EXCEPT ![r] = c] /\ c.browser = b /\ c.at = "save"
    BY <1>1, <1>3 DEF HandlerStep
  <2> QED BY <2>2, <2>3, <2>4, OwnStep
<1>4. CASE a # b
  <2>1. \A j \in Ids : Holds(b, j) => store'[j] = store[j]
    BY <1>1, <1>2, <1>4, FreshNotHeld DEF Separate, HandlerStep
  <2> QED BY <1>1, <1>4, <2>1, OtherBrowser DEF HandlerStep
<1> QED BY <1>3, <1>4

LEMMA SignedSave ==
  ASSUME TypeOK, Separate,
         NEW b \in Browsers, Orderly(b), Alone(b), KeepsLogin(b),
         NEW r \in Requests, Save(r) \/ SaveFails(r)
  PROVE  Alone(b)' /\ KeepsLogin(b)'
<1> DEFINE a == call[r].browser  c == Saved(call[r])
<1>1. a \in Browsers /\ call[r].id \in Ids /\ Holds(a, call[r].id)
  BY Types DEF Save, SaveFails, Holds, Open
<1>2. /\ c.browser = a /\ c.id = call[r].id /\ c.at = "respond"
      /\ call' = [call EXCEPT ![r] = c] /\ cookie' = cookie /\ call[r].at = "save"
  BY DEF Save, SaveFails, Saved, Call
<1> HIDE DEF c
<1>3. \A j \in Ids : j # call[r].id => store'[j] = store[j]
  BY DEF Save, SaveFails, Written, TypeOK
<1>4. login'[b] = login[b] \/ login'[b].is # "in"
  BY LoginExpiredIs DEF Save, SaveFails, historyVars
<1>5. CASE a = b
  <2>1. Save(r)
    BY <1>5 DEF SaveFails, Orderly
  <2>2. CASE call[r].age >= Absolute
    <3>1. login'[b].is # "in"
      BY <1>1, <1>5, <2>1, <2>2, LoginExpiredIs DEF Save
    <3> QED BY <1>2, <1>5, <3>1, OwnStep DEF Alone
  <2>3. CASE ~(call[r].age >= Absolute)
    <3>1. store'[call[r].id] = Entry(call[r].user, call[r].state, call[r].age)
      BY <1>1, <2>1, <2>3 DEF Save, Written, TypeOK
    <3>2. store'[call[r].id] # Null /\ store'[call[r].id].user = call[r].user
      <4>1. store'[call[r].id] \in Entries
        BY <3>1, Types, SessionAssumption DEF Entry, Entries, Calls
      <4> QED BY <3>1, <4>1, EntryAssumption DEF Entry
    <3>3. login[b].is = "in" => login[b].user # Null /\ call[r].user = login[b].user
      BY <1>2, <1>5 DEF KeepsLogin
    <3>4. \A q \in Requests : q # r => call[q].browser # b
      BY <1>5 DEF Alone
    <3>5. login'[b].is = "in" => /\ login'[b].user # Null
                                 /\ store'[c.id] # Null /\ store'[c.id].user = login'[b].user
      BY <1>2, <1>4, <3>2, <3>3
    <3> QED BY <1>2, <1>5, <3>4, <3>5, OwnStep
  <2> QED BY <2>2, <2>3
<1>6. CASE a # b
  <2>1. \A j \in Ids : Holds(b, j) => store'[j] = store[j]
    BY <1>1, <1>3, <1>6 DEF Separate
  <2> QED BY <1>2, <1>4, <1>6, <2>1, OtherBrowser
<1> QED BY <1>5, <1>6

LEMMA SignedRespond ==
  ASSUME TypeOK, Separate,
         NEW b \in Browsers, Orderly(b), Alone(b), KeepsLogin(b),
         NEW r \in Requests, Respond(r) \/ ResponseLost(r)
  PROVE  Alone(b)' /\ KeepsLogin(b)'
<1> DEFINE a == call[r].browser
<1>1. a \in Browsers /\ call[r].id \in Ids /\ Holds(a, call[r].id) /\ call[r].at = "respond"
  BY Types DEF Respond, ResponseLost, Holds, Open
<1>2. /\ call' = [call EXCEPT ![r] = NoCall] /\ NoCall.browser = Null /\ b # Null
      /\ login' = login
      /\ store' = [i \in Ids |-> IF i \in Known' THEN store[i] ELSE Null]
  BY SessionAssumption DEF Respond, ResponseLost, ForgetUnknown, NoCall, Call
<1>3. \A q \in Requests : q # r => call'[q] = call[q]
  BY <1>2 DEF TypeOK
<1>4. call'[r] = NoCall
  BY <1>2 DEF TypeOK
<1>5. CASE a = b
  <2>1. Respond(r)
    BY <1>5 DEF ResponseLost, Orderly
  <2>2. cookie'[b] = call[r].id
    BY <1>5, <2>1 DEF Respond, TypeOK
  <2>3. store'[call[r].id] = store[call[r].id]
    <3>1. call[r].id \in Known'
      BY <2>2 DEF Known
    <3> QED BY <1>1, <1>2, <3>1
  <2>4. \A q \in Requests : call'[q].browser # b
    BY <1>2, <1>3, <1>4, <1>5 DEF Alone
  <2>5. call[r].id # Null
    BY <1>1, SessionAssumption
  <2>6. login[b].is = "in" =>
          /\ login[b].user # Null /\ store[call[r].id] # Null
          /\ store[call[r].id].user = login[b].user
    BY <1>1, <1>5 DEF KeepsLogin, SignedAs
  <2> QED BY <1>2, <2>2, <2>3, <2>4, <2>5, <2>6 DEF Alone, KeepsLogin, SignedAs
<1>6. CASE a # b
  <2>1. cookie'[b] = cookie[b]
    BY <1>6 DEF Respond, ResponseLost, TypeOK
  <2>2. \A j \in Ids : Holds(b, j) => j \in Known'
    <3>1. \A j \in Ids : Holds(b, j) =>
            cookie'[b] = j \/ \E q \in Requests : call'[q].id = j
      BY <1>3, <1>6, <2>1 DEF Holds, Open
    <3> QED BY <3>1 DEF Known
  <2> HIDE DEF a
  <2>3. \A j \in Ids : Holds(b, j) => store'[j] = store[j]
    BY <1>2, <2>2
  <2> QED BY <1>2, <1>6, <2>1, <2>3, OtherBrowser DEF a
<1> QED BY <1>5, <1>6

LEMMA SignedTime ==
  ASSUME TypeOK, Separate, NEW b \in Browsers, Alone(b), KeepsLogin(b),
         Tick \/ \E i \in Ids : RedisExpires(i)
  PROVE  Alone(b)' /\ KeepsLogin(b)'
<1>1. CASE Tick
  <2>1. \A r \in Requests : /\ call'[r].browser = call[r].browser /\ call'[r].at = call[r].at
                             /\ call'[r].user = call[r].user /\ call'[r].id = call[r].id
    BY <1>1, Types DEF Tick, Calls
  <2>2. cookie'[b] = cookie[b] /\ login'[b].is = login[b].is /\ login'[b].user = login[b].user
    BY <1>1 DEF Tick, TypeOK, Logins
  <2>3. ASSUME NEW i \in Ids, store[i] # Null
        PROVE  store'[i] # Null /\ store'[i].user = store[i].user
    <3>1. store[i] \in Entries
      BY <2>3, Types
    <3>2. store'[i] = [store[i] EXCEPT !.age = Older(@), !.idle = IF @ <= Idle THEN @ + 1 ELSE @]
      BY <1>1, <2>3 DEF Tick
    <3>3. store'[i].user = store[i].user
      BY <3>1, <3>2 DEF Entries
    <3>4. Older(store[i].age) \in Ages
      BY <3>1, OlderInAges DEF Entries
    <3>5. (IF store[i].idle <= Idle THEN store[i].idle + 1 ELSE store[i].idle) \in 0 .. Idle + 1
      BY <3>1, SessionAssumption DEF Entries
    <3>6. store'[i] \in Entries
      BY <3>1, <3>2, <3>4, <3>5 DEF Entries
    <3> QED BY <3>3, <3>6, EntryAssumption
  <2> QED BY <2>1, <2>2, <2>3, Undisturbed
<1>2. ASSUME NEW i \in Ids, RedisExpires(i)
      PROVE  Alone(b)' /\ KeepsLogin(b)'
  <2>1. /\ UNCHANGED <<cookie, call>> /\ login' = LoginExpired(i)
        /\ \A j \in Ids : j # i => store'[j] = store[j]
    BY <1>2 DEF RedisExpires, TypeOK
  <2>2. login'[b] = login[b] \/ login'[b].is # "in"
    BY <2>1, LoginExpiredIs
  <2>3. login'[b].is = "in" => ~Holds(b, i)
    BY <2>1, LoginExpiredIs
  <2> QED BY <2>1, <2>2, <2>3, Undisturbed
<1> QED BY <1>1, <1>2

LEMMA NobodyStep ==
  ASSUME TypeOK, NoBrowserWhileIdle, Next
  PROVE  NoBrowserWhileIdle'
<1>1. ASSUME NEW r \in Requests, NEW c, call' = [call EXCEPT ![r] = c],
             c.at = "none" => c.browser = Null
      PROVE  NoBrowserWhileIdle'
  BY <1>1 DEF NoBrowserWhileIdle, TypeOK
<1>2. ASSUME NEW r \in Requests,
             \/ \E b \in Browsers : StartNew(r, b) \/ StartLoaded(r, b)
             \/ ReplaceExpired(r)
      PROVE  NoBrowserWhileIdle'
  <2>1. CASE \E b \in Browsers : StartLoaded(r, b)
    <3>1. PICK b \in Browsers : call' = [call EXCEPT ![r] = Loaded(b, cookie[b])]
      BY <2>1 DEF StartLoaded
    <3>2. Loaded(b, cookie[b]).at # "none"
      BY DEF Loaded, Call
    <3> QED BY <1>1, <3>1, <3>2
  <2>2. CASE ReplaceExpired(r) \/ \E b \in Browsers : StartNew(r, b)
    <3>1. PICK b, i : call' = [call EXCEPT ![r] = Call("handler", b, i, Null, Null, 0)]
      BY <2>2 DEF ReplaceExpired, StartNew, NewSession
    <3>2. Call("handler", b, i, Null, Null, 0).at # "none"
      BY DEF Call
    <3> QED BY <1>1, <3>1, <3>2
  <2> QED BY <1>2, <2>1, <2>2
<1>3. ASSUME NEW r \in Requests, Handler(r)
      PROVE  NoBrowserWhileIdle'
  BY <1>1, <1>3, HandlerShape DEF HandlerStep
<1>4. ASSUME NEW r \in Requests, Save(r) \/ SaveFails(r)
      PROVE  NoBrowserWhileIdle'
  <2>1. call' = [call EXCEPT ![r] = Saved(call[r])] /\ Saved(call[r]).at = "respond"
    BY <1>4 DEF Save, SaveFails, Saved, Call
  <2> QED BY <1>1, <2>1
<1>5. ASSUME NEW r \in Requests, Respond(r) \/ ResponseLost(r)
      PROVE  NoBrowserWhileIdle'
  <2>1. call' = [call EXCEPT ![r] = NoCall] /\ NoCall.browser = Null
    BY <1>5 DEF Respond, ResponseLost, NoCall, Call
  <2> QED BY <1>1, <2>1
<1>6. CASE Tick
  <2>1. \A r \in Requests : call'[r].browser = call[r].browser /\ call'[r].at = call[r].at
    BY <1>6, Types DEF Tick, Calls
  <2> QED BY <2>1 DEF NoBrowserWhileIdle
<1>7. CASE \E i \in Ids : RedisExpires(i)
  BY <1>7 DEF RedisExpires, NoBrowserWhileIdle
<1> QED BY <1>2, <1>3, <1>4, <1>5, <1>6, <1>7 DEF Next

LEMMA OrderlyStep ==
  ASSUME TypeOK, Separate, OrderlyInv, Next
  PROVE  OrderlyInv'
<1>1. NoBrowserWhileIdle'
  BY NobodyStep DEF OrderlyInv
<1>2. ASSUME NEW b \in Browsers, Orderly(b)
      PROVE  Alone(b)' /\ KeepsLogin(b)'
  <2>1. NoBrowserWhileIdle /\ Alone(b) /\ KeepsLogin(b)
    BY <1>2 DEF OrderlyInv
  <2>2. ASSUME NEW r \in Requests, NEW a \in Browsers, StartNew(r, a) \/ StartLoaded(r, a)
        PROVE  Alone(b)' /\ KeepsLogin(b)'
    BY <1>2, <2>1, <2>2, SignedStart
  <2>3. ASSUME NEW r \in Requests,
               \/ ReplaceExpired(r) \/ Handler(r)
               \/ Save(r) \/ SaveFails(r) \/ Respond(r) \/ ResponseLost(r)
        PROVE  Alone(b)' /\ KeepsLogin(b)'
    BY <1>2, <2>1, <2>3, SignedReplace, SignedHandler, SignedSave, SignedRespond
  <2>4. CASE Tick \/ \E i \in Ids : RedisExpires(i)
    BY <2>1, <2>4, SignedTime
  <2> QED BY <2>2, <2>3, <2>4 DEF Next
<1> QED BY <1>1, <1>2 DEF OrderlyInv, Orderly

(* Between its requests and during them, the login of an orderly browser   *)
(* is kept where the next step of Handle looks for it.                     *)
THEOREM OrderlyCorrect == Spec => []OrderlyInv
<1>1. Init => OrderlyInv
  BY SessionAssumption
  DEF Init, NoCall, Call, Login, OrderlyInv, NoBrowserWhileIdle, Alone, KeepsLogin
<1>2. TypeOK /\ Separate /\ OrderlyInv /\ [Next]_vars => OrderlyInv'
  <2> SUFFICES ASSUME TypeOK, Separate, OrderlyInv, [Next]_vars PROVE OrderlyInv'
    OBVIOUS
  <2>1. CASE UNCHANGED vars
    BY <2>1 DEF vars, historyVars, OrderlyInv, NoBrowserWhileIdle, Orderly, Alone, KeepsLogin,
       SignedAs
  <2> QED BY <2>1, OrderlyStep
<1> QED BY <1>1, <1>2, HistoryCorrect, PTL DEF Spec

(* A browser that sends one request at a time, while GET and SET do not    *)
(* fail, is signed in as the user of its last login between its requests,  *)
(* until it logs out or the session expires (StaysSignedIn), whatever      *)
(* other browsers do.                                                      *)
THEOREM StaysSignedInCorrect == Spec => []StaysSignedIn
<1>1. OrderlyInv => StaysSignedIn
  BY DEF OrderlyInv, Orderly, KeepsLogin, SignedAs, StaysSignedIn, SignedIn, Open
<1> QED BY <1>1, OrderlyCorrect, PTL

-----------------------------------------------------------------------------
(* A state that has been accepted is in Redis only while the request that  *)
(* accepted it has its copy still to save, and in no other copy.           *)
OneAtATime == \A b \in Browsers : Trouble[b] \cap {"overlap", "write"} = {}

StoredState(i, s) == store[i] # Null /\ store[i].state = s

OneCopy ==
  \A s \in States :
    /\ \A q, r \in Requests : call[q].state = s /\ call[r].state = s => q = r
    /\ \A i, j \in Ids : StoredState(i, s) /\ StoredState(j, s) => i = j
    /\ \A i \in Ids, r \in Requests :
         StoredState(i, s) /\ call[r].state = s => call[r].id = i

UsedIsGone ==
  \A s \in States : issued[s].uses # <<>> =>
    /\ \A r \in Requests : call[r].state # s
    /\ \A i \in Ids : StoredState(i, s) =>
         \E r \in Requests : call[r].at = "save" /\ call[r].id = i

StateInProgress ==
  \A r \in Requests : call[r].state # Null => call[r].at \in {"handler", "save"}

OnceInv == OneCopy /\ UsedIsGone /\ StateInProgress /\ StateUsedOnce

(* A step that makes, moves and accepts no state.                          *)
LEMMA OnceKept ==
  ASSUME OnceInv,
         \A q \in Requests : call'[q].state # Null =>
           /\ call'[q].state = call[q].state /\ call'[q].id = call[q].id
           /\ call'[q].at \in {"handler", "save"},
         \A q \in Requests : call[q].at = "save" =>
           call'[q].at = "save" /\ call'[q].id = call[q].id,
         \A i \in Ids : store'[i] # Null =>
           store[i] # Null /\ store'[i].state = store[i].state,
         \A s \in States : issued'[s].uses = issued[s].uses \/ issued'[s].uses = <<>>
  PROVE  OnceInv'
<1>1. \A s \in States : s # Null
  BY SessionAssumption
<1>2. \A i \in Ids : \A s : StoredState(i, s)' => StoredState(i, s)
  BY DEF StoredState
<1>3. \A q \in Requests, s \in States : call'[q].state = s =>
        call[q].state = s /\ call'[q].id = call[q].id
  BY <1>1
<1>4. OneCopy'
  BY <1>2, <1>3 DEF OnceInv, OneCopy
<1>5. UsedIsGone'
  <2> SUFFICES ASSUME NEW s \in States, issued'[s].uses # <<>>
               PROVE  /\ \A r \in Requests : call'[r].state # s
                      /\ \A i \in Ids : StoredState(i, s)' =>
                           \E r \in Requests : call'[r].at = "save" /\ call'[r].id = i
    BY DEF UsedIsGone
  <2>1. issued[s].uses # <<>>
    OBVIOUS
  <2> QED BY <1>2, <1>3, <2>1 DEF OnceInv, UsedIsGone
<1>6. StateInProgress'
  BY DEF StateInProgress
<1>7. StateUsedOnce'
  BY DEF OnceInv, StateUsedOnce
<1> QED BY <1>4, <1>5, <1>6, <1>7 DEF OnceInv

(* The same for a step that changes one copy, to one without a state.      *)
LEMMA OnceKeptWithout ==
  ASSUME TypeOK, OnceInv, NEW r \in Requests, NEW c,
         call' = [call EXCEPT ![r] = c], c.state = Null, call[r].at # "save",
         \A i \in Ids : store'[i] # Null =>
           store[i] # Null /\ store'[i].state = store[i].state,
         \A s \in States : issued'[s].uses = issued[s].uses \/ issued'[s].uses = <<>>
  PROVE  OnceInv'
<1>1. \A q \in Requests : q # r => call'[q] = call[q]
  BY DEF TypeOK
<1>2. call'[r] = c
  BY DEF TypeOK
<1>3. \A q \in Requests : call'[q].state # Null =>
        /\ call'[q].state = call[q].state /\ call'[q].id = call[q].id
        /\ call'[q].at \in {"handler", "save"}
  BY <1>1, <1>2 DEF OnceInv, StateInProgress
<1>4. \A q \in Requests : call[q].at = "save" =>
        call'[q].at = "save" /\ call'[q].id = call[q].id
  BY <1>1
<1> QED BY <1>3, <1>4, OnceKept

LEMMA OnceStart ==
  ASSUME OneAtATime, TypeOK, Separate, OnceInv,
         NEW r \in Requests, NEW b \in Browsers, StartNew(r, b) \/ StartLoaded(r, b)
  PROVE  OnceInv'
<1>1. call[r].at = "none" /\ Open(b) = {}
  BY DEF StartNew, StartLoaded, MaySend, OneAtATime
<1>2. CASE StartNew(r, b)
  <2>1. PICK i \in FreshIds : /\ call' = [call EXCEPT ![r] =
                                   Call("handler", b, i, Null, Null, 0)]
                              /\ store' = [store EXCEPT ![i] = Null]
    BY <1>2 DEF StartNew, NewSession
  <2>2. Call("handler", b, i, Null, Null, 0).state = Null
    BY DEF Call
  <2>3. \A j \in Ids : store'[j] # Null => store[j] # Null /\ store'[j].state = store[j].state
    BY <2>1 DEF TypeOK
  <2>4. issued' = issued
    BY <1>2 DEF StartNew
  <2> QED BY <1>1, <2>1, <2>2, <2>3, <2>4, OnceKeptWithout
<1>3. CASE StartLoaded(r, b)
  <2> DEFINE i == cookie[b]  c == Loaded(b, i)
  <2>1. /\ i \in Ids /\ store[i] # Null /\ Holds(b, i)
        /\ call' = [call EXCEPT ![r] = c] /\ UNCHANGED <<store, issued>>
    BY <1>3, Types DEF StartLoaded, Holds, historyVars
  <2>2. /\ c.id = i
        /\ c.state = Null \/ (c.state = store[i].state /\ c.at = "handler")
    BY DEF Loaded, Call
  <2> HIDE DEF c
  <2>3. CASE c.state = Null
    BY <1>1, <2>1, <2>3, OnceKeptWithout
  <2>4. CASE c.state = store[i].state /\ c.at = "handler" /\ c.state # Null
    <3>1. \A q \in Requests : q # r => call'[q] = call[q]
      BY <2>1 DEF TypeOK
    <3>2. call'[r] = c
      BY <2>1 DEF TypeOK
    <3>3. \A q \in Requests : call[q].at # "none" => call[q].id # i
      <4>1. SUFFICES ASSUME NEW q \in Requests, call[q].at # "none", call[q].id = i
                     PROVE  FALSE
        OBVIOUS
      <4>2. call[q].browser \in Browsers /\ Holds(call[q].browser, i)
        BY <4>1, Types DEF Holds, Open
      <4>3. call[q].browser = b
        BY <2>1, <4>2 DEF Separate
      <4> QED BY <1>1, <4>3 DEF Open
    <3>4. c.state \in States /\ StoredState(i, c.state)
      BY <2>1, <2>4, Types DEF Entries, StoredState
    <3>5. issued[c.state].uses = <<>>
      BY <2>1, <3>3, <3>4 DEF OnceInv, UsedIsGone
    <3>6. \A q \in Requests : call[q].state # c.state
      BY <2>1, <2>4, <3>3, <3>4 DEF OnceInv, OneCopy, StateInProgress
    <3>7. \A j \in Ids : \A s : StoredState(j, s)' <=> StoredState(j, s)
      BY <2>1 DEF StoredState
    <3>8. OneCopy'
      <4>1. ASSUME NEW s \in States
            PROVE  /\ \A p, q \in Requests : call'[p].state = s /\ call'[q].state = s => p = q
                   /\ \A j \in Ids, q \in Requests :
                        StoredState(j, s) /\ call'[q].state = s => call'[q].id = j
        BY <2>1, <2>2, <3>1, <3>2, <3>4, <3>6 DEF OnceInv, OneCopy
      <4> QED BY <3>7, <4>1 DEF OnceInv, OneCopy
    <3>9. UsedIsGone'
      <4> SUFFICES ASSUME NEW s \in States, issued[s].uses # <<>>
                   PROVE  /\ \A q \in Requests : call'[q].state # s
                          /\ \A j \in Ids : StoredState(j, s) =>
                               \E q \in Requests : call'[q].at = "save" /\ call'[q].id = j
        BY <2>1, <3>7 DEF UsedIsGone
      <4>1. \A q \in Requests : call[q].at = "save" => q # r
        BY <1>1
      <4> QED BY <3>1, <3>2, <3>5, <4>1 DEF OnceInv, UsedIsGone
    <3>10. StateInProgress'
      BY <2>4, <3>1, <3>2 DEF OnceInv, StateInProgress
    <3>11. StateUsedOnce'
      BY <2>1 DEF OnceInv, StateUsedOnce
    <3> QED BY <3>8, <3>9, <3>10, <3>11 DEF OnceInv
  <2> QED BY <2>2, <2>3, <2>4
<1> QED BY <1>2, <1>3

(* The copies of the handlers that do not touch the state, and of those    *)
(* that only drop it.                                                      *)
LEMMA OnceReturn ==
  ASSUME TypeOK, OnceInv, NEW r \in Requests, NEW c \in Calls, Returns(r, c),
         call[r].at = "handler", c.state \in {Null, call[r].state}, c.id = call[r].id,
         \A i \in Ids : store'[i] # Null => store'[i] = store[i],
         issued' = issued
  PROVE  OnceInv'
<1> DEFINE d == [c EXCEPT !.at = "save"]
<1>1. d.state = c.state /\ d.id = c.id /\ d.at = "save" /\ call' = [call EXCEPT ![r] = d]
  BY DEF Returns, Calls
<1> HIDE DEF d
<1>2. \A q \in Requests : q # r => call'[q] = call[q]
  BY <1>1 DEF TypeOK
<1>3. call'[r] = d
  BY <1>1 DEF TypeOK
<1>4. \A q \in Requests : call'[q].state # Null =>
        /\ call'[q].state = call[q].state /\ call'[q].id = call[q].id
        /\ call'[q].at \in {"handler", "save"}
  BY <1>1, <1>2, <1>3 DEF OnceInv, StateInProgress
<1>5. \A q \in Requests : call[q].at = "save" =>
        call'[q].at = "save" /\ call'[q].id = call[q].id
  BY <1>2
<1> QED BY <1>4, <1>5, OnceKept

(* A callback accepts the state of its copy.                               *)
LEMMA OnceAccept ==
  ASSUME TypeOK, OnceInv, NEW r \in Requests, call[r].at = "handler",
         NEW s \in States, Accepts(r, s),
         NEW c \in Calls, Returns(r, c), c.state = Null,
         \A i \in Ids : store'[i] # Null => store'[i] = store[i],
         c.id = call[r].id \/ store'[call[r].id] = Null
  PROVE  OnceInv'
<1> DEFINE d == [c EXCEPT !.at = "save"]
<1>1. d.state = Null /\ d.id = c.id /\ d.at = "save" /\ call' = [call EXCEPT ![r] = d]
  BY DEF Returns, Calls
<1> HIDE DEF d
<1>2. \A q \in Requests : q # r => call'[q] = call[q]
  BY <1>1 DEF TypeOK
<1>3. call'[r] = d
  BY <1>1 DEF TypeOK
<1>4. \A t \in States : t # Null
  BY SessionAssumption
<1>5. s = call[r].state /\ issued[s].uses = <<>>
  BY DEF Accepts, OnceInv, UsedIsGone
<1>6. Len(issued'[s].uses) = 1 /\ \A t \in States : t # s => issued'[t] = issued[t]
  <2> DEFINE u == [browser |-> call[r].browser, user |-> call[r].user]
  <2>1. issued' = [issued EXCEPT ![s].uses = Append(@, u)]
    BY <1>5 DEF Accepts
  <2>2. issued'[s].uses = Append(<<>>, u)
    BY <1>5, <2>1 DEF TypeOK, Issues
  <2>3. Len(Append(<<>>, u)) = 1
    OBVIOUS
  <2> QED BY <2>1, <2>2, <2>3 DEF TypeOK
<1>7. \A i \in Ids : \A t : StoredState(i, t)' => StoredState(i, t)
  BY DEF StoredState
<1>8. \A q \in Requests, t \in States : call'[q].state = t => call[q].state = t /\ q # r
  BY <1>1, <1>2, <1>3, <1>4
<1>9. OneCopy'
  BY <1>2, <1>7, <1>8 DEF OnceInv, OneCopy
<1>10. UsedIsGone'
  <2> SUFFICES ASSUME NEW t \in States, issued'[t].uses # <<>>
               PROVE  /\ \A q \in Requests : call'[q].state # t
                      /\ \A i \in Ids : StoredState(i, t)' =>
                           \E q \in Requests : call'[q].at = "save" /\ call'[q].id = i
    BY DEF UsedIsGone
  <2>1. CASE t = s
    <3>1. \A q \in Requests : call'[q].state # s
      BY <1>5, <1>8 DEF OnceInv, OneCopy
    <3>2. ASSUME NEW i \in Ids, StoredState(i, s)'
          PROVE  call'[r].at = "save" /\ call'[r].id = i
      <4>1. call[r].id = i
        BY <1>5, <1>7, <3>2 DEF OnceInv, OneCopy
      <4> QED BY <1>1, <1>3, <3>2, <4>1 DEF StoredState
    <3> QED BY <2>1, <3>1, <3>2
  <2>2. CASE t # s
    <3>1. issued[t].uses # <<>>
      BY <1>6, <2>2
    <3>2. \A q \in Requests : call[q].at = "save" => call'[q] = call[q]
      BY <1>2
    <3> QED BY <1>7, <1>8, <3>1, <3>2 DEF OnceInv, UsedIsGone
  <2> QED BY <2>1, <2>2
<1>11. StateInProgress'
  BY <1>1, <1>2, <1>3 DEF OnceInv, StateInProgress
<1>12. StateUsedOnce'
  <2>1. Len(issued'[s].uses) <= 1
    BY <1>6
  <2>2. \A t \in States : t # s => Len(issued'[t].uses) <= 1
    BY <1>6 DEF OnceInv, StateUsedOnce
  <2> QED BY <2>1, <2>2 DEF StateUsedOnce
<1> QED BY <1>9, <1>10, <1>11, <1>12 DEF OnceInv

(* A fresh state is in no copy and not in Redis.                           *)
LEMMA OnceSend ==
  ASSUME TypeOK, OnceInv, NEW r \in Requests, call[r].at = "handler",
         SendToProvider(r), store' = store
  PROVE  OnceInv'
<1>1. PICK s \in FreshStates :
        /\ Returns(r, [call[r] EXCEPT !.state = s])
        /\ issued' = [issued EXCEPT ![s] = Issue(call[r].browser, call[r].user)]
  BY DEF SendToProvider
<1> DEFINE d == [[call[r] EXCEPT !.state = s] EXCEPT !.at = "save"]
<1>2. d.state = s /\ d.id = call[r].id /\ d.at = "save" /\ call' = [call EXCEPT ![r] = d]
  BY <1>1, Types DEF Returns, Calls
<1> HIDE DEF d
<1>3. \A q \in Requests : q # r => call'[q] = call[q]
  BY <1>2 DEF TypeOK
<1>4. call'[r] = d
  BY <1>2 DEF TypeOK
<1>5. /\ s \in States /\ \A q \in Requests : call[q].state # s
      /\ \A i \in Ids : ~StoredState(i, s)
  BY DEF FreshStates, Pending, StoredState
<1>6. issued'[s].uses = <<>> /\ \A t \in States : t # s => issued'[t] = issued[t]
  BY <1>1, <1>5 DEF Issue, TypeOK
<1>7. \A i \in Ids : \A t : StoredState(i, t)' <=> StoredState(i, t)
  BY DEF StoredState
<1>8. OneCopy'
  <2>1. ASSUME NEW t \in States
        PROVE  /\ \A p, q \in Requests : call'[p].state = t /\ call'[q].state = t => p = q
               /\ \A j \in Ids, q \in Requests :
                    StoredState(j, t) /\ call'[q].state = t => call'[q].id = j
    BY <1>2, <1>3, <1>4, <1>5 DEF OnceInv, OneCopy
  <2> QED BY <1>7, <2>1 DEF OnceInv, OneCopy
<1>9. UsedIsGone'
  <2> SUFFICES ASSUME NEW t \in States, issued'[t].uses # <<>>
               PROVE  /\ \A q \in Requests : call'[q].state # t
                      /\ \A i \in Ids : StoredState(i, t) =>
                           \E q \in Requests : call'[q].at = "save" /\ call'[q].id = i
    BY <1>7 DEF UsedIsGone
  <2>1. t # s /\ issued[t].uses # <<>>
    BY <1>6
  <2>2. \A q \in Requests : call[q].at = "save" => call'[q] = call[q]
    BY <1>3
  <2> QED BY <1>2, <1>3, <1>4, <2>1, <2>2 DEF OnceInv, UsedIsGone
<1>10. StateInProgress'
  BY <1>2, <1>3, <1>4 DEF OnceInv, StateInProgress
<1>11. StateUsedOnce'
  <2>1. Len(<<>>) <= 1
    OBVIOUS
  <2> QED BY <1>6, <2>1 DEF OnceInv, StateUsedOnce
<1> QED BY <1>8, <1>9, <1>10, <1>11 DEF OnceInv

LEMMA OnceHandler ==
  ASSUME TypeOK, OnceInv, NEW r \in Requests, Handler(r)
  PROVE  OnceInv'
<1> DEFINE b == call[r].browser  t == TakenFrom(call[r])
<1>1. /\ call[r].at = "handler" /\ call[r] \in Calls
      /\ b \in Browsers /\ call[r].id \in Ids
  BY Types
  DEF Handler, Serve, Logout, GoogleLogin, GoogleCallback, RegenerateFails, ProviderLogin,
      ProviderCallback, RequireAuth, CallbackRefused, CallbackFails
<1>2. t \in Calls /\ t.id = call[r].id /\ t.state = Null
  BY <1>1 DEF TakenFrom, Calls
<1>3. CASE Serve(r) \/ Logout(r)
  <2>1. Returns(r, call[r]) /\ issued' = issued
    BY <1>3 DEF Serve, Logout, historyVars
  <2>2. \A i \in Ids : store'[i] # Null => store'[i] = store[i]
    BY <1>1, <1>3, DeletionsType DEF Serve, Logout, TypeOK
  <2> QED BY <1>1, <2>1, <2>2, OnceReturn
<1>4. CASE GoogleLogin(r) \/ ProviderLogin(r)
  BY <1>1, <1>4, OnceSend DEF GoogleLogin, ProviderLogin
<1>5. CASE CallbackRefused(r)
  <2> HIDE DEF t
  <2>1. Returns(r, t) /\ UNCHANGED <<store, issued>>
    BY <1>5 DEF CallbackRefused, historyVars, t
  <2> QED BY <1>1, <1>2, <2>1, OnceReturn
<1>6. CASE CallbackFails(r) \/ ProviderCallback(r)
  <2>1. PICK s \in States : Accepts(r, s)
    BY <1>6 DEF CallbackFails, ProviderCallback
  <2>2. Returns(r, t) /\ store' = store
    BY <1>6 DEF CallbackFails, ProviderCallback
  <2> HIDE DEF t
  <2> QED BY <1>1, <1>2, <2>1, <2>2, OnceAccept
<1>7. CASE RegenerateFails(r)
  <2>1. PICK s \in States, u \in Users : Accepts(r, s) /\ Returns(r, [t EXCEPT !.user = u])
    BY <1>7 DEF RegenerateFails
  <2> HIDE DEF t
  <2> DEFINE c == [t EXCEPT !.user = u]
  <2>2. c \in Calls /\ c.id = call[r].id /\ c.state = Null /\ Returns(r, c)
    BY <1>2, <2>1 DEF Calls
  <2>3. \A i \in Ids : store'[i] # Null => store'[i] = store[i]
    BY <1>1, <1>7, DeletionsType DEF RegenerateFails, TypeOK
  <2> HIDE DEF c
  <2> QED BY <1>1, <2>1, <2>2, <2>3, OnceAccept
<1>8. CASE GoogleCallback(r)
  <2>1. PICK s \in States, u \in Users, i \in FreshIds :
          /\ Accepts(r, s) /\ Returns(r, SignIn(call[r], u, i))
          /\ store' = [store EXCEPT ![call[r].id] = Null, ![i] = Null]
    BY <1>8 DEF GoogleCallback
  <2>2. PICK c \in Calls : c = SignIn(call[r], u, i) /\ c.state = Null
    BY <1>1, SignInType DEF FreshIds
  <2>3. /\ store'[call[r].id] = Null
        /\ \A j \in Ids : store'[j] # Null => store'[j] = store[j]
    BY <1>1, <2>1 DEF TypeOK
  <2> QED BY <1>1, <2>1, <2>2, <2>3, OnceAccept
<1> QED BY <1>3, <1>4, <1>5, <1>6, <1>7, <1>8 DEF Handler

(* The only save of a session ends the request that took its state.        *)
LEMMA OnceSave ==
  ASSUME TypeOK, OnceInv, NEW r \in Requests, Save(r)
  PROVE  OnceInv'
<1> DEFINE id == call[r].id  c == Saved(call[r])
<1>1. id \in Ids /\ call[r] \in Calls /\ issued' = issued
  BY Types DEF Save
<1>2. c.state = Null /\ call' = [call EXCEPT ![r] = c]
  BY DEF Save, Saved, Call
<1> HIDE DEF c
<1>3. \A q \in Requests : q # r => call'[q] = call[q]
  BY <1>2 DEF TypeOK
<1>4. call'[r] = c
  BY <1>2 DEF TypeOK
<1>5. \A s \in States : s # Null
  BY SessionAssumption
<1>6. \A q \in Requests, s \in States : call'[q].state = s => call[q].state = s /\ q # r
  BY <1>2, <1>3, <1>4, <1>5
<1>7. \A i \in Ids : \A s : i # id /\ StoredState(i, s)' => StoredState(i, s)
  BY DEF Save, Written, TypeOK, StoredState
<1>8. \A i \in Ids : \A s : i = id /\ StoredState(i, s)' => call[r].state = s
  BY <1>1 DEF Save, Written, Entry, TypeOK, StoredState
<1>9. OneCopy'
  <2>1. ASSUME NEW s \in States, NEW i \in Ids, NEW j \in Ids,
               StoredState(i, s)', StoredState(j, s)'
        PROVE  i = j
    BY <1>7, <1>8, <2>1 DEF OnceInv, OneCopy
  <2>2. ASSUME NEW s \in States, NEW i \in Ids, NEW q \in Requests,
               StoredState(i, s)', call'[q].state = s
        PROVE  call'[q].id = i
    <3>1. call[q].state = s /\ q # r /\ call'[q] = call[q]
      BY <1>3, <1>6, <2>2
    <3>2. call[r].state # s
      BY <3>1 DEF OnceInv, OneCopy
    <3> QED BY <1>7, <1>8, <2>2, <3>1, <3>2 DEF OnceInv, OneCopy
  <2>3. \A s \in States, p, q \in Requests :
          call'[p].state = s /\ call'[q].state = s => p = q
    BY <1>6 DEF OnceInv, OneCopy
  <2> QED BY <2>1, <2>2, <2>3 DEF OneCopy
<1>10. UsedIsGone'
  <2> SUFFICES ASSUME NEW s \in States, issued[s].uses # <<>>
               PROVE  /\ \A q \in Requests : call'[q].state # s
                      /\ \A i \in Ids : StoredState(i, s)' =>
                           \E q \in Requests : call'[q].at = "save" /\ call'[q].id = i
    BY <1>1 DEF UsedIsGone
  <2>1. \A q \in Requests : call[q].state # s
    BY DEF OnceInv, UsedIsGone
  <2>2. ASSUME NEW i \in Ids, StoredState(i, s)'
        PROVE  \E q \in Requests : call'[q].at = "save" /\ call'[q].id = i
    <3>1. i # id /\ StoredState(i, s)
      BY <1>7, <1>8, <2>1, <2>2
    <3>2. PICK q \in Requests : call[q].at = "save" /\ call[q].id = i
      BY <3>1 DEF OnceInv, UsedIsGone
    <3> QED BY <1>3, <3>1, <3>2
  <2> QED BY <1>6, <2>1, <2>2
<1>11. StateInProgress'
  BY <1>2, <1>3, <1>4 DEF OnceInv, StateInProgress
<1>12. StateUsedOnce'
  BY <1>1 DEF OnceInv, StateUsedOnce
<1> QED BY <1>9, <1>10, <1>11, <1>12 DEF OnceInv

LEMMA OnceRest ==
  ASSUME TypeOK, OnceInv, NEW r \in Requests,
         ReplaceExpired(r) \/ Respond(r) \/ ResponseLost(r)
  PROVE  OnceInv'
<1>1. CASE ReplaceExpired(r)
  <2>1. PICK i \in FreshIds, after \in Deletions(call[r].browser, call[r].id) :
          /\ call' = [call EXCEPT ![r] =
                        Call("handler", call[r].browser, i, Null, Null, 0)]
          /\ store' = [after EXCEPT ![i] = Null]
    BY <1>1 DEF ReplaceExpired
  <2>2. /\ after \in [Ids -> Entries \cup {Null}]
        /\ \A j \in Ids : after[j] # Null => after[j] = store[j]
    BY <1>1, Types, DeletionsType DEF ReplaceExpired, TypeOK
  <2>3. \A j \in Ids : store'[j] # Null => store[j] # Null /\ store'[j].state = store[j].state
    BY <2>1, <2>2
  <2>4. Call("handler", call[r].browser, i, Null, Null, 0).state = Null
    BY DEF Call
  <2>5. call[r].at # "save" /\ issued' = issued
    BY <1>1 DEF ReplaceExpired
  <2> QED BY <2>1, <2>3, <2>4, <2>5, OnceKeptWithout
<1>2. CASE Respond(r) \/ ResponseLost(r)
  <2> DEFINE K == Known'  P == Pending'
  <2>1. /\ store' = [i \in Ids |-> IF i \in K THEN store[i] ELSE Null]
        /\ issued' = [s \in States |->
                        IF s \in P THEN issued[s] ELSE Issue(Null, Null)]
        /\ call' = [call EXCEPT ![r] = NoCall] /\ call[r].at # "save"
    BY <1>2 DEF Respond, ResponseLost, ForgetUnknown
  <2> HIDE DEF K, P
  <2>2. \A i \in Ids : store'[i] # Null => store[i] # Null /\ store'[i].state = store[i].state
    BY <2>1
  <2>3. \A s \in States : issued'[s].uses = issued[s].uses \/ issued'[s].uses = <<>>
    BY <2>1 DEF Issue
  <2>4. NoCall.state = Null
    BY DEF NoCall, Call
  <2> QED BY <2>1, <2>2, <2>3, <2>4, OnceKeptWithout
<1> QED BY <1>1, <1>2

LEMMA OnceTime ==
  ASSUME TypeOK, OnceInv, Tick \/ \E i \in Ids : RedisExpires(i)
  PROVE  OnceInv'
<1>1. CASE Tick
  <2>1. \A q \in Requests : /\ call'[q].state = call[q].state /\ call'[q].id = call[q].id
                             /\ call'[q].at = call[q].at
    BY <1>1, Types DEF Tick, Calls
  <2>2. ASSUME NEW i \in Ids, store'[i] # Null
        PROVE  store[i] # Null /\ store'[i].state = store[i].state
    <3>1. store[i] # Null /\ store[i] \in Entries
      BY <1>1, <2>2, Types DEF Tick
    <3>2. store'[i] = [store[i] EXCEPT !.age = Older(@), !.idle = IF @ <= Idle THEN @ + 1 ELSE @]
      BY <1>1, <3>1 DEF Tick
    <3> QED BY <3>1, <3>2 DEF Entries
  <2>3. issued' = issued
    BY <1>1 DEF Tick
  <2> QED BY <2>1, <2>2, <2>3, OnceKept DEF OnceInv, StateInProgress
<1>2. CASE \E i \in Ids : RedisExpires(i)
  <2>1. /\ UNCHANGED <<call, issued>>
        /\ \A i \in Ids : store'[i] # Null => store[i] # Null /\ store'[i] = store[i]
    BY <1>2 DEF RedisExpires, TypeOK
  <2> QED BY <2>1, OnceKept DEF OnceInv, StateInProgress
<1> QED BY <1>1, <1>2

(* While every browser sends one request at a time and SET does not fail,  *)
(* no OAuth state is accepted twice (StateUsedOnce), although a callback   *)
(* only takes it out of its copy of the session: the copy replaces the     *)
(* stored one before the browser can send the next request.                *)
THEOREM StateUsedOnceCorrect ==
  ASSUME OneAtATime
  PROVE  Spec => []StateUsedOnce
<1>1. Init => OnceInv
  BY SessionAssumption
  DEF Init, NoCall, Call, Issue, OnceInv, OneCopy, UsedIsGone, StoredState, StateInProgress,
      StateUsedOnce
<1>2. TypeOK /\ Separate /\ OnceInv /\ [Next]_vars => OnceInv'
  <2> SUFFICES ASSUME TypeOK, Separate, OnceInv, [Next]_vars PROVE OnceInv'
    OBVIOUS
  <2>1. CASE UNCHANGED vars
    BY <2>1
    DEF vars, historyVars, OnceInv, OneCopy, UsedIsGone, StoredState, StateInProgress,
        StateUsedOnce
  <2>2. \A r \in Requests : SaveFails(r) => FALSE
    BY Types DEF SaveFails, OneAtATime
  <2>3. CASE Next
    BY <2>2, <2>3, OnceStart, OnceHandler, OnceSave, OnceRest, OnceTime DEF Next
  <2> QED BY <2>1, <2>3
<1>3. OnceInv => StateUsedOnce
  BY DEF OnceInv
<1> QED BY <1>1, <1>2, <1>3, HistoryCorrect, PTL DEF Spec
=============================================================================
