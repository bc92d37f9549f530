---------------------------- MODULE RequestGate ----------------------------
(***************************************************************************)
(* The rate limiting of the API as a whole: RateLimitMiddleware of         *)
(* app/ratelimit.py in front of the application, and the hourly refresh    *)
(* budget app/routers/market.py draws from the same limiter inside it.     *)
(*                                                                         *)
(* A connection carries one request at a time.  Between the check of the   *)
(* middleware and the start of the response the application runs, and      *)
(* other requests are admitted, refused and answered.                      *)
(***************************************************************************)
EXTENDS Integers, Sequences, FiniteSets

CONSTANTS
  Conns,           \* connections
  Hosts,           \* client hosts
  Users,           \* signed-in users
  BucketLimit,     \* Settings.auth_/generation_rate_limit_per_minute
  RefreshBudget,   \* Settings.market_refresh_per_hour
  BucketWindow,    \* WINDOW_SECONDS
  RefreshWindow,   \* _REFRESH_WINDOW_SECONDS
  SweepEvery,
  MaxTime,         \* bound: the clock stops here
  MaxRequests      \* bound: how many requests arrive

Buckets == {"auth", "generation"}

(* The windows are constants of the code: a minute and an hour.            *)
ASSUME GateAssumption ==
  /\ BucketLimit \in [Buckets -> Nat]
  /\ RefreshBudget \in Nat
  /\ {BucketWindow, RefreshWindow, SweepEvery} \subseteq Nat \ {0}
  /\ BucketWindow <= RefreshWindow
  /\ {MaxTime, MaxRequests} \subseteq Nat

(***************************************************************************)
(* Requests, and the bucket a request falls in                             *)
(***************************************************************************)

(* The distinctions RULES and the handlers make: the throttled routes, one *)
(* of them with refresh=true, and everything else.  slash: the path was    *)
(* written with a trailing slash.                                          *)
Routes == {"login", "generate", "insights", "refresh_insights", "other"}
Requests == [route : Routes, host : Hosts, user : Users, slash : BOOLEAN]

NoBucket == "none"

(* RULES are matched on the path without its trailing slash.               *)
BucketFor(r) == CASE r.route = "login" -> "auth"
                  [] r.route = "other" -> NoBucket
                  [] OTHER -> "generation"

Throttled(r) == BucketFor(r) # NoBucket /\ BucketLimit[BucketFor(r)] > 0

BucketKey(r) == <<BucketFor(r), r.host>>
RefreshKey(u) == <<"market-refresh", u>>

(* Only keys with a positive limit are ever checked.                       *)
GateKeys == {<<b, h>> : b \in {c \in Buckets : BucketLimit[c] > 0}, h \in Hosts}
              \cup {RefreshKey(u) : u \in {v \in Users : RefreshBudget > 0}}
GateLimit == [k \in GateKeys |-> IF k[1] \in Buckets THEN BucketLimit[k[1]]
                                                     ELSE RefreshBudget]
GateWindow == [k \in GateKeys |-> IF k[1] \in Buckets THEN BucketWindow
                                                      ELSE RefreshWindow]

VARIABLES
  now, hits, checks, answer, log,   \* the limiter
  conn,       \* conn[c]: the request inside the application, or Idle
  arrived,    \* how many requests have arrived
  counted,    \* history: when the requests of a key were admitted that were
              \*          not answered with a redirect, in order
  refunds     \* history: when the redirects of a key were answered

Limiter == INSTANCE SlidingWindowLimiter
             WITH Keys <- GateKeys, Limit <- GateLimit, Window <- GateWindow,
                  Second <- 1

limiter_vars == <<now, hits, checks, answer, log>>
gate_vars == <<now, hits, checks, answer, log, conn, arrived, counted, refunds>>

Idle == [phase |-> "idle"]
Inside(r, t) == [phase |-> "inside", request |-> r, since |-> t]

(***************************************************************************)
(* __call__                                                                *)
(***************************************************************************)

PassThrough(c, r) ==
  /\ ~Throttled(r)
  /\ conn' = [conn EXCEPT ![c] = Inside(r, now)]
  /\ UNCHANGED <<limiter_vars, counted, refunds>>

Forward(c, r) ==
  /\ Throttled(r)
  /\ Limiter!CheckAllowed(BucketKey(r))
  /\ conn' = [conn EXCEPT ![c] = Inside(r, now)]
  /\ counted' = [counted EXCEPT ![BucketKey(r)] = Append(@, now)]
  /\ UNCHANGED refunds

Reject(c, r) ==
  /\ Throttled(r)
  /\ Limiter!CheckRejected(BucketKey(r))
  /\ UNCHANGED <<conn, counted, refunds>>

Arrive(c, r) == /\ conn[c] = Idle
                /\ arrived < MaxRequests
                /\ arrived' = arrived + 1
                /\ PassThrough(c, r) \/ Forward(c, r) \/ Reject(c, r)

(***************************************************************************)
(* The application answers: send_unless_redirect                           *)
(***************************************************************************)

(* g without one of its entries t, if it has any.                          *)
Without(g, t) ==
  IF \E i \in 1 .. Len(g) : g[i] = t
    THEN LET i == CHOOSE j \in 1 .. Len(g) : g[j] = t
         IN  SubSeq(g, 1, i - 1) \o SubSeq(g, i + 1, Len(g))
    ELSE g

(* Wrong on purpose: the hit of the redirected request stays counted.      *)
UnCountNever(r) == UNCHANGED limiter_vars

(* Wrong on purpose: clears the deque for one redirect.                    *)
UnCountAll(r) == /\ hits' = [hits EXCEPT ![BucketKey(r)] = << >>]
                 /\ UNCHANGED <<now, checks, answer, log>>

(* A 3xx start of a throttled request un-counts it: the limiter drops the  *)
(* latest hit of the key, if there is one.                                 *)
UnCount(r) ==
  IF hits[BucketKey(r)] # << >>
    THEN Limiter!Refund(BucketKey(r))
    ELSE UNCHANGED limiter_vars

(* Starlette answers a path with a trailing slash with a 307 to the path   *)
(* without it; no handler runs.                                            *)
Redirect(c) ==
  LET r == conn[c].request
      k == BucketKey(r)
  IN  /\ r.slash
      /\ conn' = [conn EXCEPT ![c] = Idle]
      /\ IF Throttled(r)
           THEN /\ UnCount(r)
                /\ counted' = [counted EXCEPT ![k] = Without(@, conn[c].since)]
                /\ refunds' = [refunds EXCEPT ![k] = Append(@, now)]
           ELSE UNCHANGED <<limiter_vars, counted, refunds>>

(* Any other route answers, whatever the status, without touching the      *)
(* limiter; insights with refresh=true draws from the hourly budget first  *)
(* (_check_refresh_budget), unless the budget is 0 and the answer is 403.  *)
Handle(c) ==
  LET r == conn[c].request
  IN  /\ ~r.slash
      /\ conn' = [conn EXCEPT ![c] = Idle]
      /\ UNCHANGED refunds
      /\ IF r.route = "refresh_insights" /\ RefreshBudget > 0
           THEN \/ /\ Limiter!CheckAllowed(RefreshKey(r.user))
                   /\ counted' = [counted EXCEPT ![RefreshKey(r.user)] = Append(@, now)]
                \/ /\ Limiter!CheckRejected(RefreshKey(r.user))
                   /\ UNCHANGED counted
           ELSE UNCHANGED <<limiter_vars, counted>>

Answer(c) == /\ conn[c] # Idle
             /\ Redirect(c) \/ Handle(c)
             /\ UNCHANGED arrived

Tick == /\ Limiter!Tick
        /\ UNCHANGED <<conn, arrived, counted, refunds>>

Init == /\ Limiter!Init
        /\ conn = [c \in Conns |-> Idle]
        /\ arrived = 0
        /\ counted = [k \in GateKeys |-> << >>]
        /\ refunds = [k \in GateKeys |-> << >>]

Next == \/ \E c \in Conns : Answer(c) \/ \E r \in Requests : Arrive(c, r)
        \/ Tick

Spec == Init /\ [][Next]_gate_vars

-----------------------------------------------------------------------------
(***************************************************************************)
(* Properties                                                              *)
(***************************************************************************)

(* Type invariant.                                                         *)
TypeOK == /\ Limiter!TypeOK
          /\ conn \in [Conns -> {Idle} \cup {Inside(r, t) : r \in Requests, t \in 0 .. MaxTime}]
          /\ arrived \in 0 .. MaxRequests
          /\ counted \in [GateKeys -> Seq(0 .. MaxTime)]
          /\ refunds \in [GateKeys -> Seq(0 .. MaxTime)]

(* How many of the times g lie in the window of k that ends now.           *)
InWindow(g, k) == Cardinality({i \in 1 .. Len(g) : g[i] > now - GateWindow[k]})

(* A redirect never makes a client pay twice: what the limiter counts for  *)
(* a bucket in the current window is never more than the requests that     *)
(* were really served or are still being served (_forward and refund).     *)
NeverOverCounted ==
  \A k \in GateKeys : InWindow(hits[k], k) <= InWindow(counted[k], k)

(* A refund may take the hit of an interleaved request, or find its own    *)
(* already expired; the limiter then counts at most one request too few    *)
(* for every redirect of the window, for the buckets of the middleware.    *)
UnderCountPerRedirect ==
  \A k \in GateKeys :
    k[1] \in Buckets =>
      InWindow(counted[k], k) - InWindow(hits[k], k) <= InWindow(refunds[k], k)

(* What the two come to for the budgets of Settings: in no window does a   *)
(* host have more requests of a bucket served than its limit and one for   *)
(* each redirect answered in it, sweeps by the hourly keys included.       *)
ServedWithinBudget ==
  \A k \in GateKeys :
    k[1] \in Buckets =>
      InWindow(counted[k], k) <= GateLimit[k] + InWindow(refunds[k], k)

(* The same from every time w on that has been: what is true of the window *)
(* now must be true of each window to come.  h is the deque of k, g what   *)
(* is counted of it, f its refunds, t the time.                            *)
Since(g, w) == Cardinality({i \in 1 .. Len(g) : g[i] >= w})
CountsAgree(k, h, g, f, t) ==
  /\ \A w \in 0 .. t : Since(h, w) <= Since(g, w)
  /\ k[1] \in Buckets =>
       \A w \in 0 .. t :
         w > t - BucketWindow => Since(g, w) - Since(h, w) <= Since(f, w)
  /\ \A i \in 1 .. Len(g) : g[i] <= t

(* The inductive invariant behind the two.                                 *)
GateInv == /\ TypeOK
           /\ now <= MaxTime
           /\ Limiter!IInv
           /\ \A k \in GateKeys : CountsAgree(k, hits[k], counted[k], refunds[k], now)
=============================================================================
