------------------------ MODULE SessionClientProofs ------------------------
(***************************************************************************)
(* Theorems about SessionClient, for every set of accounts and however     *)
(* many requests the user starts.                                          *)
(***************************************************************************)
EXTENDS SessionClient, TLAPS

(***************************************************************************)
(* Typing                                                                  *)
(***************************************************************************)

LEMMA LoadedTyped ==
  ASSUME NEW a \in Accounts \cup {Nobody}
  PROVE  /\ Loaded(a).stage \in [Flows -> Stages \ {"refresh"}]
         /\ Loaded(a).bearer \in [Flows -> Accounts \cup {Nobody}]
  BY DEF Loaded, Stages

LEMMA TypeInit ==
  ASSUME Init
  PROVE  TypeOK
<1>1. /\ stage \in [Flows -> Stages \ {"refresh"}] /\ bearer \in [Flows -> Accounts \cup {Nobody}]
      /\ account = bearer
  BY LoadedTyped DEF Init
<1>2. /\ {store, user} \subseteq Accounts \cup {Nobody}
      /\ {initializing, overtaken, loggedOut} \subseteq BOOLEAN
  BY DEF Init
<1>3. steps \in 0 .. MaxSteps
  BY SessionAssumption DEF Init
<1> QED BY <1>1, <1>2, <1>3 DEF TypeOK

(* A request is sent, or a flow ends, with everything in its place.        *)
LEMMA SendTyped ==
  ASSUME TypeOK, NEW f \in Flows, NEW s \in Stages, NEW a \in Accounts \cup {Nobody},
         s = "refresh" => a # Nobody, Send(f, s, a)
  PROVE  /\ stage' \in [Flows -> Stages] /\ bearer' \in [Flows -> Accounts \cup {Nobody}]
         /\ \A g \in Flows : stage'[g] = "refresh" => bearer'[g] # Nobody
  BY DEF TypeOK, Send

LEMMA EndTyped ==
  ASSUME TypeOK, NEW f \in Flows, End(f)
  PROVE  /\ stage' \in [Flows -> Stages] /\ bearer' \in [Flows -> Accounts \cup {Nobody}]
         /\ \A g \in Flows : stage'[g] = "refresh" => bearer'[g] # Nobody
         /\ account' \in [Flows -> Accounts \cup {Nobody}]
  BY DEF TypeOK, End, Stages

LEMMA ThrowTyped ==
  ASSUME TypeOK, NEW f \in Flows, NEW a \in Accounts \cup {Nobody}, Throw(f, a)
  PROVE  TypeOK'
<1>1. End(f)
  BY DEF Throw
<1>2. {store', user'} \subseteq Accounts \cup {Nobody}
      /\ {initializing', overtaken', loggedOut'} \subseteq BOOLEAN /\ steps' \in 0 .. MaxSteps
  BY DEF Throw, TypeOK
<1> QED BY <1>1, <1>2, EndTyped DEF TypeOK

LEMMA BeginTyped ==
  ASSUME TypeOK, NEW f \in Flows, NEW s \in Stages, s # "refresh",
         NEW b \in Accounts \cup {Nobody}, NEW a \in Accounts \cup {Nobody}, Begin(f, s, b, a)
  PROVE  /\ stage' \in [Flows -> Stages] /\ bearer' \in [Flows -> Accounts \cup {Nobody}]
         /\ \A g \in Flows : stage'[g] = "refresh" => bearer'[g] # Nobody
         /\ account' \in [Flows -> Accounts \cup {Nobody}]
         /\ steps' \in 0 .. MaxSteps
<1>1. Send(f, s, b)
  BY DEF Begin
<1>2. account' \in [Flows -> Accounts \cup {Nobody}]
  BY DEF Begin, TypeOK
<1>3. steps' \in 0 .. MaxSteps
  <2>1. steps \in 0 .. MaxSteps /\ steps < MaxSteps /\ steps' = steps + 1 /\ MaxSteps \in Nat
    BY SessionAssumption DEF Begin, TypeOK
  <2> QED BY <2>1
<1> QED BY <1>1, <1>2, <1>3, SendTyped

LEMMA ResponseTyped ==
  ASSUME TypeOK, NEW f \in Flows, Response(f)
  PROVE  TypeOK'
<1>0. /\ store \in Accounts \cup {Nobody} /\ user \in Accounts \cup {Nobody}
      /\ bearer[f] \in Accounts \cup {Nobody} /\ Nobody \in Accounts \cup {Nobody}
  BY DEF TypeOK
<1>1. CASE Answered(f)
  <2>1. End(f) /\ UNCHANGED <<store, steps, overtaken, loggedOut>>
        /\ user' \in {user, bearer[f]} /\ initializing' \in BOOLEAN
    BY <1>1 DEF Answered, Succeed
  <2> QED BY <1>0, <2>1, EndTyped DEF TypeOK
<1>2. CASE Unauthorized(f) \/ Refreshed(f)
  <2>1. CASE \E a \in Accounts \cup {Nobody} : Throw(f, a)
    BY <2>1, ThrowTyped
  <2>2. CASE /\ \E s \in Stages, a \in Accounts :
                  Send(f, s, a)
             /\ UNCHANGED <<user, initializing, account, steps, overtaken, loggedOut>>
             /\ store' \in Accounts \cup {Nobody}
    <3>1. /\ stage' \in [Flows -> Stages] /\ bearer' \in [Flows -> Accounts \cup {Nobody}]
          /\ \A g \in Flows : stage'[g] = "refresh" => bearer'[g] # Nobody
      BY <2>2, SendTyped, SessionAssumption
    <3> QED BY <2>2, <3>1 DEF TypeOK
  <2>3. "refresh" \in Stages /\ "second" \in Stages /\ (Refreshed(f) => bearer[f] # Nobody)
    BY DEF Stages, Refreshed, TypeOK
  <2> QED BY <1>0, <1>2, <2>1, <2>2, <2>3 DEF Unauthorized, Refreshed
<1>3. CASE Failed(f) \/ NetworkError(f) \/ RefreshRefused(f)
  BY <1>0, <1>3, ThrowTyped DEF Failed, NetworkError, RefreshRefused
<1> QED BY <1>1, <1>2, <1>3 DEF Response

LEMMA TypeStep ==
  ASSUME TypeOK, [Next]_session_vars
  PROVE  TypeOK'
<1>0. /\ store \in Accounts \cup {Nobody} /\ user \in Accounts \cup {Nobody}
      /\ {"register", "login", "first"} \subseteq Stages
      /\ {"enter", "profile", "work"} \subseteq Flows
  BY DEF TypeOK, Stages, Flows
<1>1. ASSUME NEW f \in Flows, Submit(f) PROVE TypeOK'
  <2>1. Begin(f, "first", store, user)
        /\ UNCHANGED <<store, user, initializing, overtaken, loggedOut>>
    BY <1>1 DEF Submit
  <2> QED BY <1>0, <2>1, BeginTyped DEF TypeOK
<1>2. ASSUME NEW a \in Accounts, NEW s \in Stages, SubmitCredentials(a, s) PROVE TypeOK'
  <2>1. Begin("enter", s, a, a) /\ s # "refresh"
        /\ UNCHANGED <<store, user, initializing, loggedOut>> /\ overtaken' \in BOOLEAN
    BY <1>2 DEF SubmitCredentials, TypeOK
  <2> QED BY <1>0, <2>1, BeginTyped DEF TypeOK
<1>3. CASE Created \/ SignedIn
  <2>1. bearer["enter"] \in Accounts \cup {Nobody}
    BY <1>0 DEF TypeOK
  <2>2. \E s \in {"login", "first"} : Send("enter", s, bearer["enter"])
    BY <1>3 DEF Created, SignedIn
  <2>3. /\ stage' \in [Flows -> Stages] /\ bearer' \in [Flows -> Accounts \cup {Nobody}]
        /\ \A g \in Flows : stage'[g] = "refresh" => bearer'[g] # Nobody
    BY <1>0, <2>1, <2>2, SendTyped
  <2>4. store' \in Accounts \cup {Nobody} /\ loggedOut' \in BOOLEAN
        /\ UNCHANGED <<user, initializing, account, steps, overtaken>>
    BY <1>3, <2>1 DEF Created, SignedIn, TypeOK
  <2> QED BY <2>3, <2>4 DEF TypeOK
<1>4. CASE CredentialsRefused
  BY <1>0, <1>4, ThrowTyped DEF CredentialsRefused
<1>5. CASE Logout
  BY <1>5 DEF Logout, TypeOK
<1>6. CASE Reload
  <2>1. /\ stage' \in [Flows -> Stages] /\ bearer' \in [Flows -> Accounts \cup {Nobody}]
        /\ \A g \in Flows : stage'[g] # "refresh"
        /\ account' = bearer'
    BY <1>0, <1>6 DEF Reload, Loaded, Stages
  <2>2. steps' \in 0 .. MaxSteps
    <3>1. steps \in 0 .. MaxSteps /\ steps < MaxSteps /\ steps' = steps + 1 /\ MaxSteps \in Nat
      BY <1>6, SessionAssumption DEF Reload, TypeOK
    <3> QED BY <3>1
  <2>3. UNCHANGED <<store, overtaken, loggedOut>> /\ user' = Nobody /\ initializing' \in BOOLEAN
    BY <1>6 DEF Reload
  <2> QED BY <2>1, <2>2, <2>3 DEF TypeOK
<1>7. CASE UNCHANGED session_vars
  BY <1>7 DEF session_vars, TypeOK
<1> QED BY <1>1, <1>2, <1>3, <1>4, <1>5, <1>6, <1>7, ResponseTyped DEF Next

-----------------------------------------------------------------------------
(***************************************************************************)
(* Coherence                                                               *)
(***************************************************************************)

(* A flow that ends leaves the others as they were, unless it changes the  *)
(* user or the store under them.                                           *)
LEMMA EndFlows ==
  ASSUME TypeOK, FlowsInv, NEW f \in Flows, InFlight(f), End(f),
         UNCHANGED loggedOut,
         f \in {"profile", "work"} => UNCHANGED user
  PROVE  FlowsInv'
<1>1. SUFFICES ASSUME NEW g \in Flows, InFlight(g)' PROVE FlowInv(g)'
  BY DEF FlowsInv
<1>2. g # f /\ InFlight(g) /\ stage'[g] = stage[g] /\ bearer'[g] = bearer[g]
      /\ account'[g] = account[g]
  BY <1>1 DEF End, InFlight, TypeOK
<1>3. f \in {"profile", "work"} /\ g \in {"profile", "work"}
  BY <1>2 DEF FlowsInv, FlowInv, Others, Flows, InFlight
<1> QED BY <1>2, <1>3 DEF FlowsInv, FlowInv

(* The flow goes on with another request, for the same account.            *)
LEMMA SendFlows ==
  ASSUME TypeOK, FlowsInv, NEW f \in Flows, InFlight(f), NEW s, NEW a, Send(f, s, a),
         s # "idle", UNCHANGED <<user, account>>,
         f \in {"profile", "work"} => a \in {user, Nobody},
         f \notin {"profile", "work"} =>
           a = account[f] /\ (s \notin {"register", "login"} => store' = a /\ ~loggedOut')
  PROVE  FlowsInv'
<1>1. SUFFICES ASSUME NEW g \in Flows, InFlight(g)' PROVE FlowInv(g)'
  BY DEF FlowsInv
<1>2. \A h \in Flows : InFlight(h)' <=> InFlight(h)
  BY DEF Send, InFlight, TypeOK
<1>3. Others(g)' <=> Others(g)
  BY <1>2 DEF Others
<1>4. FlowInv(f) /\ FlowInv(g)
  BY <1>1, <1>2 DEF FlowsInv
<1>5. CASE g = f
  <2>1. stage'[f] = s /\ bearer'[f] = a
    BY DEF Send, TypeOK
  <2> QED BY <1>3, <1>4, <1>5, <2>1 DEF FlowInv
<1>6. CASE g # f
  <2>1. stage'[g] = stage[g] /\ bearer'[g] = bearer[g]
    BY <1>6 DEF Send, TypeOK
  <2>2. g \in {"profile", "work"}
    BY <1>1, <1>2, <1>4, <1>6 DEF FlowInv, Others
  <2> QED BY <1>4, <2>1, <2>2 DEF FlowInv
<1> QED BY <1>5, <1>6

(* The request threw.                                                      *)
LEMMA ThrowCoherent ==
  ASSUME TypeOK, FlowsInv, Coherent, NEW f \in Flows, InFlight(f),
         NEW a \in {store, Nobody}, Throw(f, a)
  PROVE  FlowsInv' /\ Coherent'
<1>1. End(f) /\ UNCHANGED <<user, loggedOut>> /\ store' \in {store, Nobody}
  BY DEF Throw
<1>2. Coherent'
  BY <1>1 DEF Coherent
<1> QED BY <1>1, <1>2, EndFlows

LEMMA ResponseCoherent ==
  ASSUME TypeOK, FlowsInv, Coherent, NEW f \in Flows, Response(f)
  PROVE  FlowsInv' /\ Coherent'
<1>0. InFlight(f) /\ FlowInv(f)
  BY DEF Response, Answered, Unauthorized, Failed, NetworkError, Refreshed, RefreshRefused,
         Authorized, InFlight, FlowsInv
<1>1. CASE Answered(f)
  <2>1. /\ End(f) /\ UNCHANGED <<store, loggedOut>> /\ bearer[f] # Nobody
        /\ stage[f] \notin {"register", "login"}
        /\ user' = IF f = "work" THEN user ELSE bearer[f]
    BY <1>1 DEF Answered, Authorized, Succeed
  <2>2. f \in {"profile", "work"} => UNCHANGED user
    BY <1>0, <2>1 DEF FlowInv
  <2>3. Coherent'
    BY <1>0, <2>1, <2>2 DEF FlowInv, Coherent
  <2> QED BY <1>0, <2>1, <2>2, <2>3, EndFlows
<1>2. CASE /\ stage[f] = "first" /\ store # Nobody /\ Send(f, "refresh", store)
           /\ UNCHANGED <<store, user, account, loggedOut>>
  <2>1. f \in {"profile", "work"} => store = user
    BY <1>0, <1>2 DEF FlowInv, Coherent
  <2>2. f \notin {"profile", "work"} => store = account[f] /\ ~loggedOut
    BY <1>0, <1>2 DEF FlowInv
  <2>3. FlowsInv'
    BY <1>0, <1>2, <2>1, <2>2, SendFlows
  <2>4. Coherent'
    BY <1>2 DEF Coherent
  <2> QED BY <2>3, <2>4
<1>3. CASE Refreshed(f)
  <2>1. /\ stage[f] = "refresh" /\ store' = bearer[f] /\ Send(f, "second", bearer[f])
        /\ UNCHANGED <<user, account, loggedOut>> /\ bearer[f] # Nobody
    BY <1>3 DEF Refreshed, TypeOK
  <2>2. f \in {"profile", "work"} => bearer[f] = user /\ ~loggedOut
    BY <1>0, <2>1 DEF FlowInv, Coherent
  <2>3. f \notin {"profile", "work"} => user = Nobody /\ bearer[f] = account[f] /\ ~loggedOut
    BY <1>0, <2>1 DEF FlowInv
  <2>4. FlowsInv'
    BY <1>0, <2>1, <2>2, <2>3, SendFlows
  <2>5. Coherent'
    BY <2>1, <2>2, <2>3 DEF Coherent
  <2> QED BY <2>4, <2>5
<1>4. CASE \E a \in {store, Nobody} : Throw(f, a)
  BY <1>0, <1>4, ThrowCoherent
<1> QED BY <1>1, <1>2, <1>3, <1>4
     DEF Response, Unauthorized, Failed, NetworkError, RefreshRefused

(* A page starts a request for the user.                                   *)
LEMMA SubmitCoherent ==
  ASSUME TypeOK, FlowsInv, Coherent, NEW f \in Flows, Submit(f)
  PROVE  FlowsInv' /\ Coherent'
<1>1. /\ f \in {"profile", "work"} /\ user # Nobody /\ UNCHANGED <<store, user, loggedOut>>
      /\ stage' = [stage EXCEPT ![f] = "first"]
      /\ bearer' = [bearer EXCEPT ![f] = store]
      /\ account' = [account EXCEPT ![f] = user]
  BY DEF Submit, Begin, Send
<1>2. ASSUME NEW g \in Flows, InFlight(g)' PROVE FlowInv(g)'
  <2>1. CASE g = f
    <3>1. bearer'[f] = store /\ account'[f] = user
      BY <1>1 DEF TypeOK
    <3> QED BY <1>1, <2>1, <3>1 DEF FlowInv, Coherent
  <2>2. CASE g # f
    <3>1. stage'[g] = stage[g] /\ bearer'[g] = bearer[g] /\ account'[g] = account[g]
      BY <1>1, <2>2 DEF TypeOK
    <3>2. FlowInv(g)
      BY <1>2, <3>1 DEF InFlight, FlowsInv
    <3> QED BY <1>1, <3>1, <3>2 DEF FlowInv
  <2> QED BY <2>1, <2>2
<1>3. Coherent'
  BY <1>1 DEF Coherent
<1> QED BY <1>2, <1>3 DEF FlowsInv

(* A sign-in that overtakes nothing is alone.                              *)
LEMMA CredentialsCoherent ==
  ASSUME TypeOK, FlowsInv, Coherent, NEW a \in Accounts, NEW s, SubmitCredentials(a, s),
         ~overtaken'
  PROVE  FlowsInv' /\ Coherent'
<1>1. /\ user = Nobody /\ s \in {"login", "register"} /\ ~Others("enter")
      /\ UNCHANGED <<store, user, loggedOut>>
      /\ stage' = [stage EXCEPT !["enter"] = s]
      /\ bearer' = [bearer EXCEPT !["enter"] = a]
      /\ account' = [account EXCEPT !["enter"] = a]
  BY DEF SubmitCredentials, Begin, Send
<1>2. \A g \in Flows \ {"enter"} : ~InFlight(g)'
  BY <1>1 DEF Others, InFlight, TypeOK
<1>3. FlowInv("enter")'
  <2>1. ~Others("enter")'
    BY <1>2 DEF Others
  <2>2. stage'["enter"] = s /\ bearer'["enter"] = a /\ account'["enter"] = a /\ a # Nobody
    BY <1>1, SessionAssumption DEF TypeOK, Flows
  <2> QED BY <1>1, <2>1, <2>2 DEF FlowInv
<1>4. Coherent'
  BY <1>1 DEF Coherent
<1> QED BY <1>2, <1>3, <1>4 DEF FlowsInv

LEMMA EnterCoherent ==
  ASSUME TypeOK, FlowsInv, Coherent, Created \/ SignedIn \/ CredentialsRefused
  PROVE  FlowsInv' /\ Coherent'
<1>0. "enter" \in Flows /\ InFlight("enter") /\ FlowInv("enter")
      /\ stage["enter"] \in {"register", "login"}
  BY DEF Created, SignedIn, CredentialsRefused, InFlight, FlowsInv, Flows
<1>1. CASE Created
  <2>1. Send("enter", "login", bearer["enter"]) /\ UNCHANGED <<store, user, account, loggedOut>>
    BY <1>1 DEF Created
  <2> QED BY <1>0, <2>1, SendFlows DEF FlowInv, Coherent
<1>2. CASE SignedIn
  <2>1. Send("enter", "first", bearer["enter"]) /\ UNCHANGED <<user, account>>
        /\ store' = bearer["enter"] /\ loggedOut' = FALSE
    BY <1>2 DEF SignedIn
  <2>2. FlowsInv'
    BY <1>0, <1>2, <2>1, SendFlows DEF FlowInv
  <2>3. Coherent'
    BY <1>0, <2>1 DEF FlowInv, Coherent
  <2> QED BY <2>2, <2>3
<1>3. CASE CredentialsRefused
  BY <1>0, <1>3, ThrowCoherent DEF CredentialsRefused
<1> QED BY <1>1, <1>2, <1>3

(* A page load: the check of the stored pair, if any, and nothing else.    *)
LEMMA LoadedFlows ==
  ASSUME NEW f \in Flows
  PROVE  /\ Loaded(store).stage[f] # "idle" => f = "bootstrap" /\ store # Nobody
         /\ Loaded(store).stage[f] \in {"idle", "first"}
         /\ Loaded(store).bearer["bootstrap"] = store
  BY DEF Loaded, Flows

LEMMA InitCoherent ==
  ASSUME Init
  PROVE  Coherent /\ FlowsInv
<1>1. user = Nobody /\ ~loggedOut /\ bearer["bootstrap"] = store /\ account = bearer
      /\ \A f \in Flows : InFlight(f) => f = "bootstrap" /\ store # Nobody
  BY LoadedFlows DEF Init, InFlight, Flows
<1> QED BY <1>1 DEF Coherent, FlowsInv, FlowInv, Others

LEMMA ReloadCoherent ==
  ASSUME TypeOK, FlowsInv, Coherent, Reload
  PROVE  FlowsInv' /\ Coherent'
<1>1. user' = Nobody /\ UNCHANGED <<store, loggedOut>>
      /\ bearer'["bootstrap"] = store /\ account' = bearer'
      /\ \A f \in Flows : InFlight(f)' => f = "bootstrap" /\ store # Nobody
  BY LoadedFlows DEF Reload, InFlight, Flows
<1> QED BY <1>1 DEF Coherent, FlowsInv, FlowInv, Others

(* A logout overtakes what is in flight, or there is nothing.              *)
LEMMA LogoutCoherent ==
  ASSUME TypeOK, FlowsInv, Coherent, Logout, ~overtaken'
  PROVE  FlowsInv' /\ Coherent'
<1>1. /\ store' = Nobody /\ user' = Nobody /\ UNCHANGED stage
      /\ \A f \in Flows : ~InFlight(f)
  BY DEF Logout
<1> QED BY <1>1 DEF Coherent, FlowsInv, InFlight

-----------------------------------------------------------------------------
(***************************************************************************)
(* The inductive invariant                                                 *)
(***************************************************************************)

(* What was overtaken stays so.                                            *)
LEMMA OvertakenStays ==
  ASSUME TypeOK, [Next]_session_vars, ~overtaken'
  PROVE  ~overtaken
  BY DEF Next, session_vars, Response, Answered, Unauthorized, Failed, NetworkError, Refreshed,
         RefreshRefused, Succeed, Throw, Submit, SubmitCredentials, Created, SignedIn,
         CredentialsRefused, Logout, Reload

LEMMA SessionStep ==
  ASSUME SessionInv, [Next]_session_vars
  PROVE  SessionInv'
<1>1. TypeOK /\ TypeOK'
  BY TypeStep DEF SessionInv
<1>2. ASSUME ~overtaken'
      PROVE  FlowsInv' /\ Coherent'
  <2>1. FlowsInv /\ Coherent
    BY <1>1, <1>2, OvertakenStays DEF SessionInv
  <2>2. CASE UNCHANGED session_vars
    BY <2>1, <2>2 DEF session_vars, FlowsInv, FlowInv, Coherent, InFlight, Others
  <2> QED BY <1>1, <1>2, <2>1, <2>2, ResponseCoherent, SubmitCoherent, CredentialsCoherent,
             EnterCoherent, LogoutCoherent, ReloadCoherent DEF Next
<1> QED BY <1>1, <1>2 DEF SessionInv

LEMMA SessionInvariant == Spec => []SessionInv
<1>1. Init => SessionInv
  BY TypeInit, InitCoherent DEF SessionInv
<1> QED BY <1>1, SessionStep, PTL DEF Spec

-----------------------------------------------------------------------------
(***************************************************************************)
(* Theorems                                                                *)
(***************************************************************************)

(* The session is well formed; in particular tryRefresh never runs without *)
(* a refresh token (request, tryRefresh).                                  *)
THEOREM SessionTyped == Spec => []TypeOK
<1>1. SessionInv => TypeOK
  BY DEF SessionInv
<1> QED BY <1>1, SessionInvariant, PTL

(* While no request is overtaken by a logout or a sign-in, the user shown  *)
(* is the one whose tokens are stored, through every refresh, failure and  *)
(* reload, and a logout leaves neither (AuthContext.tsx, client.ts).       *)
THEOREM SessionsCoherent == Spec => []SessionCoherent
<1>1. SessionInv => SessionCoherent
  BY DEF SessionInv, SessionCoherent
<1> QED BY <1>1, SessionInvariant, PTL

(* On the same terms a request is never sent again with the token of       *)
(* another account than the one it was sent off for (request, tryRefresh). *)
THEOREM FlowsKeepAccount == Spec => []OneAccountPerFlow
<1>1. SessionInv => OneAccountPerFlow
  BY DEF SessionInv, FlowsInv, FlowInv, OneAccountPerFlow
<1> QED BY <1>1, SessionInvariant, PTL
=============================================================================
