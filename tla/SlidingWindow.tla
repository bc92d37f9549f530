--------------------------- MODULE SlidingWindow ---------------------------
(***************************************************************************)
(* What a rate limiter promises, with no data structure in sight: for each *)
(* key it remembers every admission, admits a request exactly when fewer   *)
(* than Limit[k] admissions lie in the last Window[k] units of time, and   *)
(* tells a refused caller the whole seconds until that changes.            *)
(* SlidingWindowLimiter is shown to implement this module.                 *)
(***************************************************************************)
EXTENDS Integers, Sequences

CONSTANTS
  Keys,     \* the keys requests are counted under
  Limit,    \* Limit[k]: how many admissions one window of k may hold
  Window,   \* Window[k]: the length of that window, in units of the clock
  Second    \* how many units of the clock make a second

VARIABLES
  now,      \* the clock
  log,      \* log[k]: when k was admitted, oldest first, withdrawals removed
  answer    \* answer[k]: what the latest request for k was told

sw_vars == <<now, log, answer>>

NoAnswer == [allowed |-> FALSE, retry |-> 0]
Admitted == [allowed |-> TRUE, retry |-> 0]
Refused(r) == [allowed |-> FALSE, retry |-> r]

(* The Limit[k]-th latest admission: while it is inside the window, so are *)
(* Limit[k] admissions.                                                    *)
Pivot(k) == log[k][Len(log[k]) - Limit[k] + 1]

WindowFull(k) == /\ Len(log[k]) >= Limit[k]
                 /\ Pivot(k) + Window[k] > now

(* The time d, rounded up to whole seconds, never less than one.           *)
WholeSeconds(d) == LET s == (d + Second - 1) \div Second
                   IN  IF s < 1 THEN 1 ELSE s

Init == /\ now = 0
        /\ log = [k \in Keys |-> << >>]
        /\ answer = [k \in Keys |-> NoAnswer]

Admit(k) == /\ ~WindowFull(k)
            /\ log' = [log EXCEPT ![k] = Append(@, now)]
            /\ answer' = [answer EXCEPT ![k] = Admitted]
            /\ UNCHANGED now

Refuse(k) ==
  /\ WindowFull(k)
  /\ answer' = [answer EXCEPT
                  ![k] = Refused(WholeSeconds(Pivot(k) + Window[k] - now))]
  /\ UNCHANGED <<now, log>>

(* The latest admission of k is taken back: it no longer counts.           *)
Withdraw(k) == /\ log[k] # << >>
               /\ log' = [log EXCEPT ![k] = SubSeq(@, 1, Len(@) - 1)]
               /\ UNCHANGED <<now, answer>>

Forget == /\ log' = [k \in Keys |-> << >>]
          /\ UNCHANGED <<now, answer>>

Advance == /\ now' \in Nat
           /\ now' > now
           /\ UNCHANGED <<log, answer>>

Next == \/ \E k \in Keys : Admit(k) \/ Refuse(k) \/ Withdraw(k)
        \/ Forget
        \/ Advance

Spec == Init /\ [][Next]_sw_vars
=============================================================================
