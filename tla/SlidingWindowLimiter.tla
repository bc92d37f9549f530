------------------------ MODULE SlidingWindowLimiter ------------------------
(***************************************************************************)
(* The class SlidingWindowLimiter of app/ratelimit.py: one deque of hit    *)
(* times per key, pruned when the key is checked, and a sweep over all     *)
(* keys once every SweepEvery admissions.                                  *)
(*                                                                         *)
(* One limiter serves keys with different windows: the middleware counts   *)
(* auth:<host> and generation:<host> over 60 seconds, the market router    *)
(* counts market-refresh:<user> over 3600 seconds on the same instance, so *)
(* Limit and Window are functions of the key here.  No method awaits: on   *)
(* the event loop each call is one atomic action.                          *)
(***************************************************************************)
EXTENDS Integers, Sequences

CONSTANTS
  Keys,         \* "<bucket>:<host>" and "market-refresh:<user>"
  Limit,        \* the limit the callers pass for a key
  Window,       \* the window the callers pass for a key, in clock units
  Second,       \* clock units per second
  SweepEvery,   \* _SWEEP_EVERY
  MaxTime       \* bound: the clock stops here

(* Callers bypass the limiter, or answer 403, when the configured limit is *)
(* not positive.                                                           *)
ASSUME LimiterAssumption ==
  /\ Limit \in [Keys -> Nat \ {0}]
  /\ Window \in [Keys -> Nat \ {0}]
  /\ Second \in Nat \ {0}
  /\ SweepEvery \in Nat \ {0}
  /\ MaxTime \in Nat

VARIABLES
  now,      \* the monotonic clock
  hits,     \* _hits[k]; a key that is absent and an empty deque read the same
  checks,   \* _checks modulo SweepEvery, all that is ever read of it
  answer,   \* answer[k]: what the latest check of k returned
  log       \* history: every hit of k recorded and not taken back since reset

limiter_vars == <<now, hits, checks, answer, log>>

NoAnswer == [allowed |-> FALSE, retry |-> 0]

(***************************************************************************)
(* check                                                                   *)
(***************************************************************************)

(* Wrong on purpose: the loop keeps a hit that is exactly one window old.  *)
FirstLiveInclusive(h, cutoff) ==
  CHOOSE i \in 1 .. Len(h) + 1 :
    /\ \A j \in 1 .. i - 1 : h[j] < cutoff
    /\ i <= Len(h) => h[i] >= cutoff

(* Where the deque h starts once its leading hits at or before cutoff are  *)
(* popped.  Only the head is looked at: the loop stops at the first hit    *)
(* after the cutoff.                                                       *)
FirstLive(h, cutoff) ==
  CHOOSE i \in 1 .. Len(h) + 1 :
    /\ \A j \in 1 .. i - 1 : h[j] <= cutoff
    /\ i <= Len(h) => h[i] > cutoff

Prune(h, cutoff) == SubSeq(h, FirstLive(h, cutoff), Len(h))

Cutoff(k) == now - Window[k]

(* Wrong on purpose: rounds down.                                          *)
WholeSecondsDown(d) == LET s == d \div Second IN IF s < 1 THEN 1 ELSE s

(* max(1, ceil(d)), d being a time in clock units and the result seconds.  *)
WholeSeconds(d) == LET s == (d + Second - 1) \div Second
                   IN  IF s < 1 THEN 1 ELSE s

(* Wrong on purpose: the window is subtracted instead of added.            *)
RetryAfterNegated(k, h) == (h[1] - Window[k] - now) \div Second

RetryAfter(k, h) == WholeSeconds(h[1] + Window[k] - now)

(* A deque _drop_expired forgets: empty, or its last hit is not after the  *)
(* cutoff of the check that triggered the sweep.                           *)
Stale(h, cutoff) == h = << >> \/ h[Len(h)] <= cutoff

DropExpired(hs, cutoff) ==
  [k \in Keys |-> IF Stale(hs[k], cutoff) THEN << >> ELSE hs[k]]

(* The hit table an admitted check leaves behind: the hit is recorded and  *)
(* every SweepEvery-th admission sweeps all keys with its own cutoff.      *)
Record(k, h) ==
  LET recorded == [hits EXCEPT ![k] = Append(h, now)]
  IN  IF (checks + 1) % SweepEvery = 0
        THEN DropExpired(recorded, Cutoff(k))
        ELSE recorded

(* Wrong on purpose: one more than the limit is let in.                    *)
CheckAllowedInclusive(k) ==
  LET h == Prune(hits[k], Cutoff(k))
  IN  /\ Len(h) <= Limit[k]
      /\ hits' = Record(k, h)
      /\ checks' = (checks + 1) % SweepEvery
      /\ answer' = [answer EXCEPT ![k] = [allowed |-> TRUE, retry |-> 0]]
      /\ log' = [log EXCEPT ![k] = Append(@, now)]
      /\ UNCHANGED now

CheckAllowed(k) ==
  LET h == Prune(hits[k], Cutoff(k))
  IN  /\ Len(h) < Limit[k]
      /\ hits' = Record(k, h)
      /\ checks' = (checks + 1) % SweepEvery
      /\ answer' = [answer EXCEPT ![k] = [allowed |-> TRUE, retry |-> 0]]
      /\ log' = [log EXCEPT ![k] = Append(@, now)]
      /\ UNCHANGED now

CheckRejected(k) ==
  LET h == Prune(hits[k], Cutoff(k))
  IN  /\ Len(h) >= Limit[k]
      /\ hits' = [hits EXCEPT ![k] = h]
      /\ answer' = [answer EXCEPT
                      ![k] = [allowed |-> FALSE, retry |-> RetryAfter(k, h)]]
      /\ UNCHANGED <<now, checks, log>>

Check(k) == CheckAllowed(k) \/ CheckRejected(k)

(***************************************************************************)
(* refund, reset, the clock                                                *)
(***************************************************************************)

(* Wrong on purpose: takes the oldest hit, popleft for pop.                *)
RefundOldest(k) ==
  /\ hits[k] # << >>
  /\ hits' = [hits EXCEPT ![k] = Tail(@)]
  /\ log' = [log EXCEPT ![k] = SubSeq(@, 1, Len(@) - 1)]
  /\ UNCHANGED <<now, checks, answer>>

(* The most recent hit is removed, whoever recorded it; nothing happens    *)
(* when no hit is left.                                                    *)
Refund(k) ==
  /\ hits[k] # << >>
  /\ hits' = [hits EXCEPT ![k] = SubSeq(@, 1, Len(@) - 1)]
  /\ log' = [log EXCEPT ![k] = SubSeq(@, 1, Len(@) - 1)]
  /\ UNCHANGED <<now, checks, answer>>

Reset == /\ hits' = [k \in Keys |-> << >>]
         /\ log' = [k \in Keys |-> << >>]
         /\ UNCHANGED <<now, checks, answer>>

Tick == /\ now < MaxTime
        /\ now' = now + 1
        /\ UNCHANGED <<hits, checks, answer, log>>

Init == /\ now = 0
        /\ hits = [k \in Keys |-> << >>]
        /\ checks = 0
        /\ answer = [k \in Keys |-> NoAnswer]
        /\ log = [k \in Keys |-> << >>]

Next == \/ \E k \in Keys : Check(k) \/ Refund(k)
        \/ Reset
        \/ Tick

Spec == Init /\ [][Next]_limiter_vars

-----------------------------------------------------------------------------
(***************************************************************************)
(* Properties                                                              *)
(***************************************************************************)

(* Type invariant.                                                         *)
TypeOK == /\ now \in Nat
          /\ hits \in [Keys -> Seq(Nat)]
          /\ checks \in 0 .. SweepEvery - 1
          /\ answer \in [Keys -> [allowed : BOOLEAN, retry : Nat]]
          /\ log \in [Keys -> Seq(Nat)]

(* The keys no other key has a shorter window than.  In the deployed       *)
(* configuration: the 60-second request buckets, while the hourly          *)
(* market-refresh keys are not among them.                                 *)
ShortKeys == {k \in Keys : \A j \in Keys : Window[k] <= Window[j]}

(* At most n of the times g in any window of length w: the time n places   *)
(* later is at least a window later.                                       *)
Spaced(g, n, w) == \A i \in 1 .. Len(g) - n : g[i + n] >= g[i] + w

WithinBudget(k) == Spaced(log[k], Limit[k], Window[k])

(* A key whose window is the shortest never exceeds its budget, whatever   *)
(* checks, refunds, resets and sweeps other keys cause in between          *)
(* (ratelimit.py, check and _drop_expired).                                *)
ShortKeyBudget == \A k \in ShortKeys : WithinBudget(k)

(* What the market router's docstring and _drop_expired's own say of every *)
(* key: a bucket is forgotten only when its hits are older than its        *)
(* window, so every budget holds.                                          *)
EveryKeyBudget == \A k \in Keys : WithinBudget(k)

(* h is the most recent part of the history g.                             *)
Tracks(h, g) ==
  /\ Len(h) <= Len(g)
  /\ \A i \in 1 .. Len(h) : h[i] = g[Len(g) - Len(h) + i]

(* A deque never holds more than the limit, and it is the most recent part *)
(* of the history: no operation reorders, duplicates or invents hits, and  *)
(* a refused request leaves no trace that would delay a later one.         *)
HitsAreRecentLog ==
  \A k \in Keys : Len(hits[k]) <= Limit[k] /\ Tracks(hits[k], log[k])

(* The inductive invariant behind ShortKeyBudget: the history is in clock  *)
(* order, and whatever left the deque of a shortest-window key has left    *)
(* its window too.                                                         *)
Ordered(g, t) ==
  \A i \in 1 .. Len(g) : g[i] <= t /\ \A j \in 1 .. i : g[j] <= g[i]
Expired(h, g, w, t) == \A i \in 1 .. Len(g) - Len(h) : g[i] + w <= t
KeyInv(k, h, g, t) ==
  /\ h \in Seq(Nat) /\ g \in Seq(Nat)
  /\ Len(h) <= Limit[k]
  /\ Tracks(h, g)
  /\ Ordered(g, t)
  /\ k \in ShortKeys => /\ Expired(h, g, Window[k], t)
                        /\ Spaced(g, Limit[k], Window[k])
IInv == TypeOK /\ \A k \in Keys : KeyInv(k, hits[k], log[k], now)

(* Retry-After is honest: a key that is full now, and left alone for the   *)
(* whole seconds it would be told, is admitted then; and it is not told to *)
(* wait a whole second longer than it has to.                              *)
LiveAt(k, t) == Prune(hits[k], t - Window[k])
RetryAfterHonest ==
  \A k \in Keys :
    LET h == LiveAt(k, now)
        r == RetryAfter(k, h)
    IN  Len(h) >= Limit[k] =>
          /\ Len(LiveAt(k, now + r * Second)) < Limit[k]
          /\ r > 1 => Len(LiveAt(k, now + (r - 1) * Second)) >= Limit[k]

(* The limiter, read at the shortest-window keys, is the abstract sliding  *)
(* window: it admits exactly when the window has room and quotes the       *)
(* abstract waiting time, although it forgets hits and sweeps other keys.  *)
Abstract == INSTANCE SlidingWindow
              WITH Keys <- ShortKeys,
                   log <- [k \in ShortKeys |-> log[k]],
                   answer <- [k \in ShortKeys |-> answer[k]]
ImplementsSlidingWindow == Abstract!Spec
=============================================================================
