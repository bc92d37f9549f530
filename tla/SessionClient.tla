--------------------------- MODULE SessionClient ---------------------------
(***************************************************************************)
(* The signed-in session of the single-page application: the token pair in *)
(* localStorage and the authenticated request of src/api/client.ts, the    *)
(* React state and the session functions of src/auth/AuthContext.tsx.      *)
(*                                                                         *)
(* JavaScript runs to completion between network events and user actions,  *)
(* so a step is one response, or one click, with all that follows it up to *)
(* the next fetch.  Nothing aborts a request that is in flight: logging    *)
(* out, or signing in again, overtakes it.                                 *)
(*                                                                         *)
(* The two tokens of a pair are stored and removed together and belong to  *)
(* one account, so a stored pair is its account.  The server may refuse    *)
(* any of them: it has expired, or the account is gone.                    *)
(***************************************************************************)
EXTENDS Integers

CONSTANTS
  Accounts,
  Nobody,
  MaxSteps    \* bound: how many requests the user's actions start

ASSUME SessionAssumption == Nobody \notin Accounts /\ MaxSteps \in Nat

(* What the user's actions start: the check of the stored tokens at load,  *)
(* signing in or registering, saving the profile, and the generation of an *)
(* assessment or a learning path.  One of each kind at a time: the forms   *)
(* are busy until their answer.                                            *)
Flows == {"bootstrap", "enter", "profile", "work"}

VARIABLES
  store,         \* the account of the tokens in localStorage, or Nobody
  user,          \* AuthContext user
  initializing,  \* AuthContext initializing
  stage,         \* stage[f]: which response flow f awaits, see Stages
  bearer,        \* bearer[f]: the account the pending request of f speaks for
  account,       \* history: the account flow f began for
  steps,         \* how many flows were started
  overtaken,     \* history: a logout or a sign-in began while a flow was in flight
  loggedOut      \* history: the user logged out and has not signed in since

session_vars == <<store, user, initializing, stage, bearer, account, steps,
                  overtaken, loggedOut>>

(* register, login: api.register and api.login.  first, second: the        *)
(* authenticated request and its retry.  refresh: POST /auth/refresh.      *)
Stages == {"idle", "register", "login", "first", "refresh", "second"}

InFlight(f) == stage[f] # "idle"
Others(f) == \E g \in Flows \ {f} : InFlight(g)

(* Flow f sends a request that carries the token of account a.             *)
Send(f, s, a) == /\ stage' = [stage EXCEPT ![f] = s]
                 /\ bearer' = [bearer EXCEPT ![f] = a]

End(f) == /\ stage' = [stage EXCEPT ![f] = "idle"]
          /\ bearer' = [bearer EXCEPT ![f] = Nobody]
          /\ account' = [account EXCEPT ![f] = Nobody]

(***************************************************************************)
(* What a flow does with its result                                        *)
(***************************************************************************)

(* me, or the updated profile, becomes the user; assessments and learning  *)
(* paths stay in the page.                                                 *)
Succeed(f) ==
  /\ End(f)
  /\ user' = IF f = "work" THEN user ELSE bearer[f]
  /\ initializing' = (initializing /\ f # "bootstrap")
  /\ UNCHANGED <<steps, overtaken, loggedOut>>

(* Wrong on purpose: the catch of bootstrap leaves initializing set.       *)
ThrowInitializing(f, kept) ==
  /\ End(f)
  /\ store' = IF f = "bootstrap" THEN Nobody ELSE kept
  /\ UNCHANGED <<user, initializing, steps, overtaken, loggedOut>>

(* The request threw.  bootstrap clears the tokens whatever the error; the *)
(* pages show it and change nothing.  kept: what the client left in store. *)
Throw(f, kept) ==
  /\ End(f)
  /\ store' = IF f = "bootstrap" THEN Nobody ELSE kept
  /\ initializing' = (initializing /\ f # "bootstrap")
  /\ UNCHANGED <<user, steps, overtaken, loggedOut>>

(***************************************************************************)
(* request and tryRefresh: the responses                                   *)
(***************************************************************************)

Authorized(f) == stage[f] \in {"first", "second"}

Answered(f) ==
  /\ Authorized(f)
  /\ bearer[f] # Nobody
  /\ Succeed(f)
  /\ UNCHANGED store

(* Wrong on purpose: the retry may refresh again.                          *)
UnauthorizedAgain(f) ==
  /\ Authorized(f)
  /\ IF store # Nobody
       THEN /\ Send(f, "refresh", store)
            /\ UNCHANGED <<store, user, initializing, account, steps, overtaken, loggedOut>>
       ELSE Throw(f, store)

(* Wrong on purpose: does not look whether a refresh token is stored.      *)
UnauthorizedBlind(f) ==
  /\ Authorized(f)
  /\ IF stage[f] = "first"
       THEN /\ Send(f, "refresh", store)
            /\ UNCHANGED <<store, user, initializing, account, steps, overtaken, loggedOut>>
       ELSE Throw(f, store)

(* 401: the first time, and when tokens are stored, the refresh token that *)
(* is stored now is sent.                                                  *)
Unauthorized(f) ==
  /\ Authorized(f)
  /\ IF stage[f] = "first" /\ store # Nobody
       THEN /\ Send(f, "refresh", store)
            /\ UNCHANGED <<store, user, initializing, account, steps, overtaken, loggedOut>>
       ELSE Throw(f, store)

(* Any other status: 4xx, 429, 5xx.                                        *)
Failed(f) == Authorized(f) /\ Throw(f, store)

(* fetch rejects: there is no network.                                     *)
NetworkError(f) == InFlight(f) /\ Throw(f, store)

(* The new pair is stored, whatever is stored by now, and the request is   *)
(* sent again with it.                                                     *)
Refreshed(f) ==
  /\ stage[f] = "refresh"
  /\ store' = bearer[f]
  /\ Send(f, "second", bearer[f])
  /\ UNCHANGED <<user, initializing, account, steps, overtaken, loggedOut>>

(* Any status but success clears the tokens, whatever is stored by now.    *)
RefreshRefused(f) == stage[f] = "refresh" /\ Throw(f, Nobody)

(***************************************************************************)
(* Signing in, using the pages, logging out, reloading                     *)
(***************************************************************************)

Begin(f, s, carried, a) ==
  /\ ~InFlight(f)
  /\ steps < MaxSteps
  /\ steps' = steps + 1
  /\ Send(f, s, carried)
  /\ account' = [account EXCEPT ![f] = a]

(* Wrong on purpose: the forms are also shown to a signed-in user.         *)
SubmitCredentialsSignedIn(a, s) ==
  /\ s \in {"login", "register"}
  /\ Begin("enter", s, a, a)
  /\ overtaken' = (overtaken \/ Others("enter"))
  /\ UNCHANGED <<store, user, initializing, loggedOut>>

(* /login and /register show their form only while there is no user.       *)
SubmitCredentials(a, s) ==
  /\ user = Nobody
  /\ s \in {"login", "register"}
  /\ Begin("enter", s, a, a)
  /\ overtaken' = (overtaken \/ Others("enter"))
  /\ UNCHANGED <<store, user, initializing, loggedOut>>

Created == /\ stage["enter"] = "register"
           /\ Send("enter", "login", bearer["enter"])
           /\ UNCHANGED <<store, user, initializing, account, steps, overtaken, loggedOut>>

(* The new pair is stored and GET /auth/me sent with it.                   *)
SignedIn == /\ stage["enter"] = "login"
            /\ store' = bearer["enter"]
            /\ Send("enter", "first", bearer["enter"])
            /\ loggedOut' = FALSE
            /\ UNCHANGED <<user, initializing, account, steps, overtaken>>

CredentialsRefused == /\ stage["enter"] \in {"login", "register"}
                      /\ Throw("enter", store)

(* The pages behind ProtectedRoute.                                        *)
Submit(f) ==
  /\ f \in {"profile", "work"}
  /\ ~initializing /\ user # Nobody
  /\ Begin(f, "first", store, user)
  /\ UNCHANGED <<store, user, initializing, overtaken, loggedOut>>

(* Wrong on purpose: the tokens stay in localStorage.                      *)
LogoutKeepingTokens ==
  /\ user # Nobody
  /\ user' = Nobody
  /\ overtaken' = (overtaken \/ \E f \in Flows : InFlight(f))
  /\ loggedOut' = TRUE
  /\ UNCHANGED <<store, initializing, stage, bearer, account, steps>>

Logout ==
  /\ user # Nobody
  /\ store' = Nobody
  /\ user' = Nobody
  /\ overtaken' = (overtaken \/ \E f \in Flows : InFlight(f))
  /\ loggedOut' = TRUE
  /\ UNCHANGED <<initializing, stage, bearer, account, steps>>

(* A page load with account a in localStorage.  bootstrap asks who it is,  *)
(* unless there are no tokens.                                             *)
Loaded(a) ==
  [stage |-> [f \in Flows |-> IF f = "bootstrap" /\ a # Nobody THEN "first" ELSE "idle"],
   bearer |-> [f \in Flows |-> IF f = "bootstrap" THEN a ELSE Nobody]]

(* The requests in flight are dropped with the old page.                   *)
Reload == /\ steps < MaxSteps
          /\ steps' = steps + 1
          /\ user' = Nobody
          /\ initializing' = (store # Nobody)
          /\ stage' = Loaded(store).stage
          /\ bearer' = Loaded(store).bearer
          /\ account' = Loaded(store).bearer
          /\ UNCHANGED <<store, overtaken, loggedOut>>

Init == /\ store \in Accounts \cup {Nobody}
        /\ user = Nobody
        /\ initializing = (store # Nobody)
        /\ stage = Loaded(store).stage
        /\ bearer = Loaded(store).bearer
        /\ account = Loaded(store).bearer
        /\ steps = 0
        /\ overtaken = FALSE
        /\ loggedOut = FALSE

Response(f) == \/ Answered(f) \/ Unauthorized(f) \/ Failed(f) \/ NetworkError(f)
               \/ Refreshed(f) \/ RefreshRefused(f)

Next == \/ \E f \in Flows : Response(f) \/ Submit(f)
        \/ \E a \in Accounts, s \in Stages : SubmitCredentials(a, s)
        \/ Created \/ SignedIn \/ CredentialsRefused
        \/ Logout \/ Reload

Spec == Init /\ [][Next]_session_vars

(* A request is answered, or the network gives it up.                      *)
FairSpec == /\ Spec
            /\ \A f \in Flows : WF_session_vars(Response(f))
            /\ WF_session_vars(Created \/ SignedIn \/ CredentialsRefused)

-----------------------------------------------------------------------------
(***************************************************************************)
(* Properties                                                              *)
(***************************************************************************)

(* Type invariant; a refresh is only ever sent with a refresh token.       *)
TypeOK == /\ {store, user} \subseteq Accounts \cup {Nobody}
          /\ {initializing, overtaken, loggedOut} \subseteq BOOLEAN
          /\ stage \in [Flows -> Stages]
          /\ bearer \in [Flows -> Accounts \cup {Nobody}]
          /\ \A f \in Flows : stage[f] = "refresh" => bearer[f] # Nobody
          /\ account \in [Flows -> Accounts \cup {Nobody}]
          /\ steps \in 0 .. MaxSteps

Coherent ==
  /\ user # Nobody /\ store # Nobody => user = store
  /\ loggedOut => store = Nobody /\ user = Nobody

(* As long as no request is overtaken by a logout or a sign-in, the user   *)
(* shown is the one whose tokens are stored, through every refresh, and a  *)
(* logout leaves nothing behind.  (When one is, it can be otherwise:       *)
(* tryRefresh stores, and updateProfile shows, what comes back late.)      *)
SessionCoherent == ~overtaken => Coherent

(* On the same terms, what the user sent off as one account is never sent  *)
(* again, after a refresh, with the token of another.                      *)
OneAccountPerFlow ==
  ~overtaken => \A f \in Flows : InFlight(f) => bearer[f] \in {account[f], Nobody}

(* Every request ends: a refused token leads to one refresh and one retry, *)
(* never to a loop of them.                                                *)
EveryFlowEnds == \A f \in Flows : InFlight(f) ~> ~InFlight(f)

(* The spinner of ProtectedRoute goes away, whatever the server answers.   *)
SpinnerEnds == initializing ~> ~initializing

(* A flow of the pages runs for the user shown; the check at load and the  *)
(* sign-in run alone, before there is one, and once they have a pair it is *)
(* the one stored.                                                         *)
FlowInv(f) ==
  IF f \in {"profile", "work"}
    THEN user # Nobody /\ account[f] = user /\ bearer[f] \in {user, Nobody}
    ELSE /\ user = Nobody /\ ~Others(f)
         /\ bearer[f] = account[f] /\ account[f] # Nobody
         /\ stage[f] \notin {"register", "login"} => store = account[f] /\ ~loggedOut

FlowsInv == \A f \in Flows : InFlight(f) => FlowInv(f)

(* The inductive invariant behind the two.                                 *)
SessionInv == TypeOK /\ (~overtaken => Coherent /\ FlowsInv)
=============================================================================
