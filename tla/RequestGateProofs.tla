-------------------------- MODULE RequestGateProofs --------------------------
(***************************************************************************)
(* Theorems about RequestGate, for every set of connections, hosts and     *)
(* users, all limits, and any windows of which the buckets' is not the     *)
(* longer.                                                                 *)
(*                                                                         *)
(* GateInv is inductive.  It compares the deque of a key with what is      *)
(* counted of it from every time on, not only in the window that ends now: *)
(* a redirect takes away a hit and a request of different times, so that   *)
(* what one window gains another may lose.  What the limiter does to its   *)
(* deques comes from SlidingWindowLimiterProofs, read at the gate's keys.  *)
(***************************************************************************)
EXTENDS RequestGate, FiniteSetTheorems, SequenceTheorems, TLAPS

LimiterProofs == INSTANCE SlidingWindowLimiterProofs
                   WITH Keys <- GateKeys, Limit <- GateLimit, Window <- GateWindow,
                        Second <- 1

(***************************************************************************)
(* The limiter                                                             *)
(***************************************************************************)

LEMMA GateTypes ==
  /\ GateLimit \in [GateKeys -> Nat \ {0}]
  /\ GateWindow \in [GateKeys -> Nat \ {0}]
  /\ \A k \in GateKeys : k[1] \in Buckets => GateWindow[k] = BucketWindow
  /\ \A k \in GateKeys : BucketWindow <= GateWindow[k]
<1>1. ASSUME NEW k \in GateKeys
      PROVE  (IF k[1] \in Buckets THEN BucketLimit[k[1]] ELSE RefreshBudget) \in Nat \ {0}
  <2>1. CASE \E b \in {c \in Buckets : BucketLimit[c] > 0}, h \in Hosts : k = <<b, h>>
    <3>1. PICK b \in {c \in Buckets : BucketLimit[c] > 0}, h \in Hosts : k = <<b, h>>
      BY <2>1
    <3>2. k[1] = b /\ b \in Buckets /\ BucketLimit[b] \in Nat /\ BucketLimit[b] > 0
      BY <3>1, GateAssumption
    <3> QED BY <3>2
  <2>2. CASE \E u \in {v \in Users : RefreshBudget > 0} : k = RefreshKey(u)
    <3>1. k[1] = "market-refresh" /\ RefreshBudget > 0 /\ RefreshBudget \in Nat
      BY <2>2, GateAssumption DEF RefreshKey
    <3>2. k[1] \notin Buckets
      BY <3>1 DEF Buckets
    <3> QED BY <3>1, <3>2
  <2> QED BY <2>1, <2>2 DEF GateKeys
<1>2. GateLimit \in [GateKeys -> Nat \ {0}]
  BY <1>1 DEF GateLimit
<1>3. BucketWindow \in Nat \ {0} /\ RefreshWindow \in Nat \ {0} /\ BucketWindow <= RefreshWindow
  BY GateAssumption
<1> QED BY <1>2, <1>3 DEF GateWindow

LEMMA LimiterAssumed == LimiterProofs!LimiterAssumption
  BY GateTypes, GateAssumption DEF LimiterProofs!LimiterAssumption

LEMMA SameIInv == Limiter!IInv <=> LimiterProofs!IInv
  BY DEF Limiter!IInv, LimiterProofs!IInv, Limiter!TypeOK, LimiterProofs!TypeOK,
         Limiter!KeyInv, LimiterProofs!KeyInv, Limiter!Tracks, LimiterProofs!Tracks,
         Limiter!Ordered, LimiterProofs!Ordered, Limiter!Expired, LimiterProofs!Expired,
         Limiter!Spaced, LimiterProofs!Spaced, Limiter!ShortKeys, LimiterProofs!ShortKeys

LEMMA SameInit == Limiter!Init <=> LimiterProofs!Init
  BY DEF Limiter!Init, LimiterProofs!Init, Limiter!NoAnswer, LimiterProofs!NoAnswer

LEMMA SameAllowed ==
  ASSUME NEW k \in GateKeys, Limiter!CheckAllowed(k)
  PROVE  LimiterProofs!CheckAllowed(k)
  BY DEF Limiter!CheckAllowed, LimiterProofs!CheckAllowed, Limiter!Prune, LimiterProofs!Prune,
         Limiter!FirstLive, LimiterProofs!FirstLive, Limiter!Cutoff, LimiterProofs!Cutoff,
         Limiter!Record, LimiterProofs!Record, Limiter!DropExpired, LimiterProofs!DropExpired,
         Limiter!Stale, LimiterProofs!Stale

LEMMA SameRejected ==
  ASSUME NEW k \in GateKeys, Limiter!CheckRejected(k)
  PROVE  LimiterProofs!CheckRejected(k)
  BY DEF Limiter!CheckRejected, LimiterProofs!CheckRejected, Limiter!Prune, LimiterProofs!Prune,
         Limiter!FirstLive, LimiterProofs!FirstLive, Limiter!Cutoff, LimiterProofs!Cutoff,
         Limiter!RetryAfter, LimiterProofs!RetryAfter, Limiter!WholeSeconds,
         LimiterProofs!WholeSeconds

LEMMA SameStep ==
  ASSUME \/ \E k \in GateKeys : Limiter!CheckAllowed(k) \/ Limiter!CheckRejected(k) \/ Limiter!Refund(k)
         \/ Limiter!Tick
         \/ UNCHANGED limiter_vars
  PROVE  [LimiterProofs!Next]_LimiterProofs!limiter_vars
<1>1. ASSUME NEW k \in GateKeys, Limiter!Refund(k) PROVE LimiterProofs!Refund(k)
  BY <1>1 DEF Limiter!Refund, LimiterProofs!Refund
<1>2. CASE Limiter!Tick
  BY <1>2 DEF Limiter!Tick, LimiterProofs!Tick, LimiterProofs!Next
<1>3. CASE UNCHANGED limiter_vars
  BY <1>3 DEF limiter_vars, LimiterProofs!limiter_vars
<1> QED BY <1>1, <1>2, <1>3, SameAllowed, SameRejected DEF LimiterProofs!Next, LimiterProofs!Check

LEMMA LimiterStays ==
  ASSUME Limiter!IInv,
         \/ \E k \in GateKeys : Limiter!CheckAllowed(k) \/ Limiter!CheckRejected(k) \/ Limiter!Refund(k)
         \/ Limiter!Tick
         \/ UNCHANGED limiter_vars
  PROVE  Limiter!IInv'
<1>1. LimiterProofs!IInv'
  BY SameStep, SameIInv, LimiterAssumed, LimiterProofs!NextInv
<1>2. LimiterProofs!IInv' => Limiter!IInv'
  BY SameIInv, PTL
<1> QED BY <1>1, <1>2

-----------------------------------------------------------------------------
(***************************************************************************)
(* Counting entries                                                        *)
(***************************************************************************)

Counted(g, w) == {i \in 1 .. Len(g) : g[i] >= w}

LEMMA SinceType ==
  ASSUME NEW g \in Seq(Nat), NEW w \in Int
  PROVE  /\ IsFiniteSet({i \in 1 .. Len(g) : g[i] >= w})
         /\ Since(g, w) \in Nat
<1>1. IsFiniteSet(1 .. Len(g))
  BY FS_Interval, LenProperties
<1> QED BY <1>1, FS_Subset, FS_CardinalityType DEF Since

(* When every entry of h from w on is one of g, each another, g has at     *)
(* least as many.                                                          *)
LEMMA SincePicked ==
  ASSUME NEW g \in Seq(Nat), NEW h \in Seq(Nat), NEW w \in Int,
         NEW f \in [Counted(h, w) -> 1 .. Len(g)],
         \A i \in Counted(h, w) : h[i] = g[f[i]],
         \A i, j \in Counted(h, w) : f[i] = f[j] => i = j
  PROVE  Since(h, w) <= Since(g, w)
<1> DEFINE S == Counted(h, w)
           T == Counted(g, w)
<1>1. f \in Injection(S, T)
  BY DEF Injection, IsInjective, Counted
<1>2. IsFiniteSet(T)
  BY SinceType DEF Counted
<1>3. Since(h, w) = Cardinality(S) /\ Since(g, w) = Cardinality(T)
  BY DEF Since, Counted
<1> HIDE DEF S, T
<1> QED BY <1>1, <1>2, <1>3, FS_Injection

LEMMA SinceAppend ==
  ASSUME NEW g \in Seq(Nat), NEW t \in Nat, NEW w \in Int
  PROVE  /\ Append(g, t) \in Seq(Nat)
         /\ Since(Append(g, t), w) = IF t >= w THEN Since(g, w) + 1 ELSE Since(g, w)
<1> DEFINE n == Len(g)
           a == Append(g, t)
           S == {i \in 1 .. n : g[i] >= w}
<1>1. /\ n \in Nat /\ a \in Seq(Nat) /\ Len(a) = n + 1
      /\ \A i \in 1 .. n : a[i] = g[i]
      /\ a[n + 1] = t
  BY AppendProperties, LenProperties
<1>2. IsFiniteSet(S) /\ Cardinality(S) \in Nat
  BY SinceType DEF Since
<1> HIDE DEF a, n
<1>3. {i \in 1 .. n + 1 : a[i] >= w} = IF t >= w THEN S \cup {n + 1} ELSE S
  <2>1. 1 .. n + 1 = (1 .. n) \cup {n + 1}
    BY <1>1
  <2> QED BY <1>1, <2>1
<1>4. n + 1 \notin S
  BY <1>1
<1>5. Since(a, w) = Cardinality({i \in 1 .. n + 1 : a[i] >= w}) /\ Since(g, w) = Cardinality(S)
  BY <1>1 DEF Since, n
<1> HIDE DEF S
<1>6. Cardinality(S \cup {n + 1}) = Cardinality(S) + 1
  BY <1>2, <1>4, FS_AddElement
<1> QED BY <1>1, <1>3, <1>5, <1>6 DEF a

LEMMA SinceEmpty ==
  ASSUME NEW g \in Seq(Nat), NEW w \in Int, \A i \in 1 .. Len(g) : g[i] < w
  PROVE  Since(g, w) = 0
<1>1. {i \in 1 .. Len(g) : g[i] >= w} = {}
  <2>1. \A i \in 1 .. Len(g) : g[i] \in Nat
    OBVIOUS
  <2> QED BY <2>1
<1> QED BY <1>1, FS_EmptySet DEF Since

LEMMA SinceNone ==
  ASSUME NEW w \in Int
  PROVE  << >> \in Seq(Nat) /\ Since(<< >>, w) = 0
<1>1. << >> \in Seq(Nat) /\ Len(<< >>) = 0
  BY EmptySeq
<1>2. \A i \in 1 .. Len(<< >>) : << >>[i] < w
  BY <1>1
<1> QED BY <1>1, <1>2, SinceEmpty

(* refund: the latest hit goes.                                            *)
LEMMA SinceFront ==
  ASSUME NEW g \in Seq(Nat), g # << >>, NEW w \in Int
  PROVE  /\ SubSeq(g, 1, Len(g) - 1) \in Seq(Nat)
         /\ Since(g, w) = IF g[Len(g)] >= w THEN Since(SubSeq(g, 1, Len(g) - 1), w) + 1
                                            ELSE Since(SubSeq(g, 1, Len(g) - 1), w)
<1> DEFINE f == SubSeq(g, 1, Len(g) - 1)
           t == g[Len(g)]
<1>1. /\ f \in Seq(Nat) /\ Len(f) = Len(g) - 1 /\ \A i \in 1 .. Len(g) - 1 : f[i] = g[i]
      /\ Len(g) \in Nat \ {0}
  BY LimiterAssumed, LimiterProofs!FrontFacts, LenProperties, EmptySeq
<1>2. t \in Nat
  BY <1>1
<1>3. Append(f, t) = g
  BY <1>1, <1>2, AppendProperties, SeqEqual
<1> HIDE DEF f, t
<1>4. Since(Append(f, t), w) = IF t >= w THEN Since(f, w) + 1 ELSE Since(f, w)
  BY <1>1, <1>2, SinceAppend
<1> QED BY <1>1, <1>3, <1>4 DEF f, t

(* check drops what is not after its cutoff, and nothing else.             *)
LEMMA SincePrune ==
  ASSUME NEW h \in Seq(Nat), NEW c \in Int, NEW w \in Int
  PROVE  /\ LimiterProofs!Prune(h, c) \in Seq(Nat)
         /\ Since(LimiterProofs!Prune(h, c), w) <= Since(h, w)
         /\ w > c => Since(LimiterProofs!Prune(h, c), w) = Since(h, w)
<1>1. PICK p, d : p = LimiterProofs!Prune(h, c) /\ d = Len(h) - Len(p)
  OBVIOUS
<1>2. /\ p \in Seq(Nat) /\ Len(p) <= Len(h)
      /\ \A i \in 1 .. Len(p) : p[i] = h[d + i]
      /\ \A j \in 1 .. d : h[j] <= c
  <2>1. LimiterProofs!Prune(h, c) \in Seq(Nat) /\ Len(LimiterProofs!Prune(h, c)) <= Len(h)
    BY LimiterAssumed, LimiterProofs!PruneFacts
  <2>2. \A i \in 1 .. Len(LimiterProofs!Prune(h, c)) :
          LimiterProofs!Prune(h, c)[i] = h[Len(h) - Len(LimiterProofs!Prune(h, c)) + i]
    BY LimiterAssumed, LimiterProofs!PruneFacts
  <2>3. \A j \in 1 .. Len(h) - Len(LimiterProofs!Prune(h, c)) : h[j] <= c
    BY LimiterAssumed, LimiterProofs!PruneFacts
  <2> QED BY ONLY <1>1, <2>1, <2>2, <2>3
<1>3. Len(p) \in Nat /\ Len(h) \in Nat /\ d \in Nat /\ Len(p) + d = Len(h)
  BY <1>1, <1>2, LenProperties
<1>4. Since(p, w) <= Since(h, w)
  <2>1. PICK f : f = [i \in Counted(p, w) |-> d + i]
    OBVIOUS
  <2>2. ASSUME NEW i \in Counted(p, w)
        PROVE  i \in Int /\ f[i] = d + i /\ d + i \in 1 .. Len(h) /\ p[i] = h[d + i]
    <3>1. i \in 1 .. Len(p)
      BY DEF Counted
    <3> QED BY <1>2, <1>3, <2>1, <3>1
  <2>3. \A i, j \in Counted(p, w) : f[i] = f[j] => i = j
    BY <1>3, <2>2
  <2>4. f \in [Counted(p, w) -> 1 .. Len(h)] /\ \A i \in Counted(p, w) : p[i] = h[f[i]]
    BY <2>1, <2>2
  <2> QED BY <1>2, <2>3, <2>4, SincePicked
<1>5. ASSUME w > c PROVE Since(h, w) <= Since(p, w)
  <2>1. PICK f : f = [j \in Counted(h, w) |-> j - d]
    OBVIOUS
  <2>2. ASSUME NEW j \in Counted(h, w)
        PROVE  j \in Int /\ j - d \in 1 .. Len(p) /\ h[j] = p[j - d]
    <3>1. j \in 1 .. Len(h) /\ h[j] >= w /\ h[j] \in Nat
      BY DEF Counted
    <3>2. j \notin 1 .. d
      BY <1>2, <1>5, <3>1
    <3>3. j \in Int /\ j - d \in 1 .. Len(p) /\ d + (j - d) = j
      BY <1>3, <3>1, <3>2
    <3> QED BY <1>2, <3>3
  <2>3. \A i, j \in Counted(h, w) : f[i] = f[j] => i = j
    BY <1>3, <2>1, <2>2
  <2>4. f \in [Counted(h, w) -> 1 .. Len(p)] /\ \A j \in Counted(h, w) : h[j] = p[f[j]]
    BY <2>1, <2>2
  <2> QED BY <1>2, <2>3, <2>4, SincePicked
<1>6. Since(p, w) \in Nat /\ Since(h, w) \in Nat
  BY <1>2, SinceType
<1> QED BY <1>1, <1>2, <1>4, <1>5, <1>6

(* v is g without one of its entries t.                                    *)
CutOut(g, v, t) ==
  /\ Len(v) = Len(g) - 1
  /\ \E i \in 1 .. Len(g) :
       /\ g[i] = t
       /\ \A j \in 1 .. Len(g) - 1 : /\ j < i => v[j] = g[j]
                                     /\ j >= i => v[j] = g[j + 1]

(* The request answered with a redirect is taken out of the history.       *)
LEMMA WithoutFacts ==
  ASSUME NEW S, NEW g \in Seq(S), NEW t,
         \E n \in 1 .. Len(g) : g[n] = t
  PROVE  Without(g, t) \in Seq(S) /\ CutOut(g, Without(g, t), t)
<1>1. PICK i : i = CHOOSE j \in 1 .. Len(g) : g[j] = t
  OBVIOUS
<1>2. i \in 1 .. Len(g) /\ g[i] = t /\ Len(g) \in Nat
  BY <1>1, LenProperties
<1>3. Without(g, t) = SubSeq(g, 1, i - 1) \o SubSeq(g, i + 1, Len(g))
  BY <1>1 DEF Without
<1> DEFINE a == SubSeq(g, 1, i - 1)
           b == SubSeq(g, i + 1, Len(g))
<1>4. a \in Seq(S) /\ Len(a) = i - 1 /\ \A j \in 1 .. i - 1 : a[j] = g[j]
  <2>1. 1 \in 1 .. Len(g) + 1 /\ i - 1 \in 0 .. Len(g)
    BY <1>2
  <2> QED BY <1>2, <2>1, SubSeqProperties
<1>5. b \in Seq(S) /\ Len(b) = Len(g) - i /\ \A j \in 1 .. Len(g) - i : b[j] = g[i + j]
  <2>1. i + 1 \in 1 .. Len(g) + 1 /\ Len(g) \in i .. Len(g)
    BY <1>2
  <2> QED BY <1>2, <2>1, SubSeqProperties
<1> HIDE DEF a, b
<1>6. /\ a \o b \in Seq(S) /\ Len(a \o b) = Len(a) + Len(b)
      /\ \A j \in 1 .. Len(a) + Len(b) :
           (a \o b)[j] = IF j <= Len(a) THEN a[j] ELSE b[j - Len(a)]
  BY <1>4, <1>5, ConcatProperties
<1>7. Len(a) + Len(b) = Len(g) - 1
  BY <1>2, <1>4, <1>5
<1>8. ASSUME NEW j \in 1 .. Len(g) - 1
      PROVE  /\ j < i => (a \o b)[j] = g[j]
             /\ j >= i => (a \o b)[j] = g[j + 1]
  <2>1. CASE j < i
    BY <1>2, <1>4, <1>6, <1>7, <2>1
  <2>2. CASE ~(j < i)
    <3>1. j - Len(a) \in 1 .. Len(g) - i /\ i + (j - Len(a)) = j + 1 /\ ~(j <= Len(a))
      BY <1>2, <1>4, <2>2
    <3> QED BY <1>5, <1>6, <1>7, <2>2, <3>1
  <2> QED BY <2>1, <2>2
<1> QED BY <1>2, <1>3, <1>6, <1>7, <1>8 DEF a, b, CutOut

(* Taken out or not, nothing else comes in.                                *)
LEMMA WithoutType ==
  ASSUME NEW S, NEW g \in Seq(S), NEW t
  PROVE  Without(g, t) \in Seq(S)
<1>1. CASE \E n \in 1 .. Len(g) : g[n] = t
  BY <1>1, WithoutFacts
<1>2. CASE ~ \E n \in 1 .. Len(g) : g[n] = t
  BY <1>2 DEF Without
<1> QED BY <1>1, <1>2

LEMMA SinceWithout ==
  ASSUME NEW g \in Seq(Nat), NEW t \in Nat, NEW w \in Int
  PROVE  /\ Without(g, t) \in Seq(Nat)
         /\ Since(Without(g, t), w) <= Since(g, w)
         /\ Since(g, w) <= IF t >= w THEN Since(Without(g, t), w) + 1
                                     ELSE Since(Without(g, t), w)
         /\ \A j \in 1 .. Len(Without(g, t)) : \E m \in 1 .. Len(g) : Without(g, t)[j] = g[m]
<1>0. PICK v : v = Without(g, t)
  OBVIOUS
<1>1. CASE \A n \in 1 .. Len(g) : g[n] # t
  <2>1. v = g
    BY <1>0, <1>1 DEF Without
  <2>2. Since(g, w) \in Nat /\ Since(v, w) = Since(g, w)
    BY <2>1, SinceType
  <2>3. \A j \in 1 .. Len(v) : v[j] = g[j] /\ j \in 1 .. Len(g)
    BY <2>1
  <2> QED BY <1>0, <2>1, <2>2, <2>3
<1>2. CASE \E n \in 1 .. Len(g) : g[n] = t
  <2>1. v \in Seq(Nat) /\ CutOut(g, v, t)
    BY <1>0, <1>2, WithoutFacts
  <2>b. PICK l : l = Len(g)
    OBVIOUS
  <2>2. PICK i : /\ i \in 1 .. l /\ g[i] = t
                 /\ \A j \in 1 .. l - 1 : /\ j < i => v[j] = g[j]
                                          /\ j >= i => v[j] = g[j + 1]
    BY <2>1, <2>b, Zenon DEF CutOut
  <2>3. /\ l \in Nat \ {0} /\ i \in 1 .. l /\ Len(g) = l /\ Len(v) = l - 1 /\ Len(v) \in Nat
        /\ \A j \in 1 .. l : g[j] \in Nat
    <3>1. l \in Nat /\ i \in 1 .. l
      BY <2>2, <2>b, LenProperties
    <3> QED BY <2>1, <2>b, <3>1 DEF CutOut
  <2>4. \A j \in 1 .. l - 1 : j \in Int /\ j \in 1 .. l /\ j + 1 \in 1 .. l
    BY <2>3
  <2>5. Since(v, w) <= Since(g, w)
    <3>1. PICK f : f = [j \in Counted(v, w) |-> IF j < i THEN j ELSE j + 1]
      OBVIOUS
    <3>2. ASSUME NEW j \in Counted(v, w)
          PROVE  /\ j \in Int /\ f[j] \in 1 .. Len(g) /\ v[j] = g[f[j]]
                 /\ j < i => f[j] = j
                 /\ j >= i => f[j] = j + 1
      <4>1. j \in 1 .. l - 1
        BY <2>3 DEF Counted
      <4>2. (j < i => f[j] = j) /\ (j >= i => f[j] = j + 1)
        BY <2>3, <3>1, <4>1
      <4>3. j < i \/ j >= i
        BY <2>3, <2>4, <4>1
      <4> QED BY <2>2, <2>3, <2>4, <4>1, <4>2, <4>3
    <3>3. ASSUME NEW j \in Counted(v, w), NEW m \in Counted(v, w), f[j] = f[m] PROVE j = m
      <4>1. i \in Int /\ f[j] = f[m]
        BY <2>3, <3>3
      <4>2. /\ j \in Int /\ (j < i => f[j] = j) /\ (j >= i => f[j] = j + 1)
            /\ m \in Int /\ (m < i => f[m] = m) /\ (m >= i => f[m] = m + 1)
        BY <3>2
      <4> QED BY ONLY <4>1, <4>2
    <3>4. f \in [Counted(v, w) -> 1 .. Len(g)]
      BY <3>1, <3>2
    <3> QED BY <2>1, <3>2, <3>3, <3>4, SincePicked
  <2>6. PICK a : a = Append(v, t)
    OBVIOUS
  <2>7. /\ a \in Seq(Nat) /\ Len(a) = l /\ a[l] = t
        /\ \A j \in 1 .. l - 1 : a[j] = v[j]
    BY <2>1, <2>3, <2>6, AppendProperties
  <2>8. Since(g, w) <= Since(a, w)
    <3>1. PICK f : f = [j \in Counted(g, w) |-> IF j = i THEN l ELSE IF j < i THEN j ELSE j - 1]
      OBVIOUS
    <3>2. ASSUME NEW j \in Counted(g, w)
          PROVE  /\ j \in 1 .. l
                 /\ j = i => f[j] = l
                 /\ j < i => f[j] = j
                 /\ j > i => f[j] = j - 1
      <4>1. j \in 1 .. l /\ i \in Int
        BY <2>3 DEF Counted
      <4> QED BY <3>1, <4>1
    <3>3. ASSUME NEW j \in Counted(g, w) PROVE f[j] \in 1 .. Len(a) /\ g[j] = a[f[j]]
      <4>1. CASE j = i
        BY <2>2, <2>3, <2>7, <3>2, <4>1
      <4>2. CASE j < i
        <5>1. f[j] = j /\ j \in 1 .. l - 1
          BY <2>3, <3>2, <4>2
        <5> QED BY <2>2, <2>4, <2>7, <4>2, <5>1
      <4>3. CASE j > i
        <5>1. f[j] = j - 1 /\ j - 1 \in 1 .. l - 1 /\ j - 1 >= i /\ (j - 1) + 1 = j
          BY <2>3, <3>2, <4>3
        <5>2. v[j - 1] = g[j]
          BY <2>2, <5>1
        <5> QED BY <2>4, <2>7, <5>1, <5>2
      <4>4. j = i \/ j < i \/ j > i
        BY <2>3, <3>2
      <4> QED BY ONLY <4>1, <4>2, <4>3, <4>4
    <3>4. ASSUME NEW j \in Counted(g, w), NEW m \in Counted(g, w), f[j] = f[m] PROVE j = m
      <4>1. i \in 1 .. l /\ l \in Nat /\ f[j] = f[m]
        BY <2>3, <3>4
      <4>2. /\ j \in 1 .. l /\ (j = i => f[j] = l) /\ (j < i => f[j] = j) /\ (j > i => f[j] = j - 1)
            /\ m \in 1 .. l /\ (m = i => f[m] = l) /\ (m < i => f[m] = m) /\ (m > i => f[m] = m - 1)
        BY <3>2
      <4> QED BY ONLY <4>1, <4>2
    <3>5. f \in [Counted(g, w) -> 1 .. Len(a)]
      BY <3>1, <3>3
    <3> QED BY <2>7, <3>3, <3>4, <3>5, SincePicked
  <2>9. Since(a, w) = IF t >= w THEN Since(v, w) + 1 ELSE Since(v, w)
    BY <2>1, <2>6, SinceAppend
  <2>10. ASSUME NEW j \in 1 .. Len(v) PROVE \E m \in 1 .. Len(g) : v[j] = g[m]
    <3>1. j \in 1 .. l - 1
      BY <2>3
    <3>2. (j < i \/ j >= i) /\ j \in 1 .. l /\ j + 1 \in 1 .. l
      BY <2>3, <2>4, <3>1
    <3>3. v[j] = g[j] \/ v[j] = g[j + 1]
      BY <2>2, <3>1, <3>2
    <3> QED BY <2>3, <3>2, <3>3
  <2>11. Since(v, w) \in Nat /\ Since(g, w) \in Nat
    BY <2>1, SinceType
  <2>12. Since(g, w) <= IF t >= w THEN Since(v, w) + 1 ELSE Since(v, w)
    BY <2>8, <2>9
  <2> QED BY <1>0, <2>1, <2>5, <2>10, <2>12
<1> QED BY <1>1, <1>2

-----------------------------------------------------------------------------
(***************************************************************************)
(* One key: its deque, what is counted of it and its refunds               *)
(***************************************************************************)

LEMMA CountsPrune ==
  ASSUME NEW k, NEW h \in Seq(Nat), NEW g \in Seq(Nat), NEW f, NEW t \in Nat,
         NEW c \in Int, c <= t - BucketWindow, CountsAgree(k, h, g, f, t)
  PROVE  CountsAgree(k, LimiterProofs!Prune(h, c), g, f, t)
<1>1. PICK p : p = LimiterProofs!Prune(h, c)
  OBVIOUS
<1>2. BucketWindow \in Nat
  BY GateAssumption
<1>3. ASSUME NEW w \in 0 .. t
      PROVE  /\ Since(p, w) <= Since(g, w)
             /\ w > t - BucketWindow => Since(p, w) = Since(h, w)
  <2>1. w \in Int
    OBVIOUS
  <2>2. p \in Seq(Nat) /\ Since(p, w) <= Since(h, w) /\ (w > c => Since(p, w) = Since(h, w))
    BY <1>1, <2>1, SincePrune
  <2>3. Since(p, w) \in Nat /\ Since(h, w) \in Nat /\ Since(g, w) \in Nat
    BY <2>1, <2>2, SinceType
  <2>4. Since(h, w) <= Since(g, w)
    BY DEF CountsAgree
  <2> QED BY <1>2, <2>1, <2>2, <2>3, <2>4
<1>4. \A w \in 0 .. t : w > t - BucketWindow /\ k[1] \in Buckets
                          => Since(g, w) - Since(p, w) <= Since(f, w)
  BY <1>3 DEF CountsAgree
<1> QED BY <1>1, <1>3, <1>4 DEF CountsAgree

LEMMA CountsAppend ==
  ASSUME NEW k, NEW h \in Seq(Nat), NEW g \in Seq(Nat), NEW f, NEW t \in Nat,
         CountsAgree(k, h, g, f, t)
  PROVE  CountsAgree(k, Append(h, t), Append(g, t), f, t)
<1>1. PICK a, b : a = Append(h, t) /\ b = Append(g, t)
  OBVIOUS
<1>2. ASSUME NEW w \in 0 .. t
      PROVE  /\ Since(a, w) <= Since(b, w)
             /\ Since(b, w) - Since(a, w) = Since(g, w) - Since(h, w)
  <2>1. w \in Int /\ t >= w
    OBVIOUS
  <2>2. Since(a, w) = Since(h, w) + 1 /\ Since(b, w) = Since(g, w) + 1
    BY <1>1, <2>1, SinceAppend
  <2>3. Since(h, w) \in Nat /\ Since(g, w) \in Nat
    BY <2>1, SinceType
  <2>4. Since(h, w) <= Since(g, w)
    BY DEF CountsAgree
  <2> QED BY <2>2, <2>3, <2>4
<1>3. \A i \in 1 .. Len(b) : b[i] <= t
  <2>1. /\ Len(g) \in Nat /\ Len(b) = Len(g) + 1 /\ b[Len(g) + 1] = t
        /\ \A i \in 1 .. Len(g) : b[i] = g[i]
    BY <1>1, AppendProperties, LenProperties
  <2>2. \A i \in 1 .. Len(g) : g[i] <= t
    BY DEF CountsAgree
  <2>3. \A i \in 1 .. Len(g) + 1 : i \in 1 .. Len(g) \/ i = Len(g) + 1
    BY <2>1
  <2> QED BY <2>1, <2>2, <2>3
<1>4. \A w \in 0 .. t : w > t - BucketWindow /\ k[1] \in Buckets
                          => Since(b, w) - Since(a, w) <= Since(f, w)
  BY <1>2 DEF CountsAgree
<1> QED BY <1>1, <1>2, <1>3, <1>4 DEF CountsAgree

(* A deque that is forgotten has nothing in the window of a bucket.        *)
LEMMA CountsForget ==
  ASSUME NEW k, NEW h \in Seq(Nat), NEW g \in Seq(Nat), NEW f, NEW t \in Nat,
         NEW c \in Int, c <= t - BucketWindow, CountsAgree(k, h, g, f, t),
         \A i \in 1 .. Len(h) : h[i] <= c
  PROVE  CountsAgree(k, << >>, g, f, t)
<1>1. BucketWindow \in Nat
  BY GateAssumption
<1>2. ASSUME NEW w \in 0 .. t
      PROVE  /\ Since(<< >>, w) <= Since(g, w)
             /\ w > t - BucketWindow => Since(<< >>, w) = Since(h, w)
  <2>1. w \in Int
    OBVIOUS
  <2>2. Since(<< >>, w) = 0 /\ Since(g, w) \in Nat
    BY <2>1, SinceNone, SinceType
  <2>3. ASSUME w > t - BucketWindow PROVE Since(h, w) = 0
    <3>1. w > c
      BY <1>1, <2>1, <2>3
    <3>2. \A i \in 1 .. Len(h) : h[i] < w
      <4>1. \A i \in 1 .. Len(h) : h[i] \in Nat
        OBVIOUS
      <4> QED BY <2>1, <3>1, <4>1
    <3> QED BY <2>1, <3>2, SinceEmpty
  <2> QED BY <2>2, <2>3
<1>3. \A w \in 0 .. t : w > t - BucketWindow /\ k[1] \in Buckets
                          => Since(g, w) - Since(<< >>, w) <= Since(f, w)
  BY <1>2 DEF CountsAgree
<1> QED BY <1>2, <1>3 DEF CountsAgree

(* refund: the deque is in clock order, so that when its latest hit is not *)
(* in a window, none is; and the refund itself is in every window.         *)
LEMMA CountsRefund ==
  ASSUME NEW k, NEW h \in Seq(Nat), NEW g \in Seq(Nat), NEW f \in Seq(Nat),
         NEW s \in Nat, NEW t \in Nat, CountsAgree(k, h, g, f, t),
         \A i \in 1 .. Len(h) : h[i] <= h[Len(h)]
  PROVE  /\ h # << >> => CountsAgree(k, SubSeq(h, 1, Len(h) - 1), Without(g, s), Append(f, t), t)
         /\ h = << >> => CountsAgree(k, h, Without(g, s), Append(f, t), t)
<1>1. PICK v, a : v = Without(g, s) /\ a = Append(f, t)
  OBVIOUS
<1>2. v \in Seq(Nat) /\ \A j \in 1 .. Len(v) : \E m \in 1 .. Len(g) : v[j] = g[m]
  <2>1. 0 \in Int
    OBVIOUS
  <2>2. Without(g, s) \in Seq(Nat)
    BY <2>1, SinceWithout
  <2>3. \A j \in 1 .. Len(Without(g, s)) : \E m \in 1 .. Len(g) : Without(g, s)[j] = g[m]
    BY <2>1, SinceWithout
  <2> QED BY ONLY <1>1, <2>2, <2>3
<1>3. ASSUME NEW w \in 0 .. t
      PROVE  /\ w \in Int
             /\ Since(v, w) <= Since(g, w)
             /\ Since(g, w) <= Since(v, w) + 1
             /\ Since(a, w) = Since(f, w) + 1
             /\ Since(h, w) <= Since(g, w)
             /\ {Since(v, w), Since(g, w), Since(h, w), Since(f, w)} \subseteq Nat
  <2>1. w \in Int /\ t >= w
    OBVIOUS
  <2>2. Since(v, w) <= Since(g, w) /\ Since(g, w) <= IF s >= w THEN Since(v, w) + 1 ELSE Since(v, w)
    BY <1>1, <2>1, SinceWithout
  <2>3. Since(a, w) = Since(f, w) + 1
    BY <1>1, <2>1, SinceAppend
  <2>4. Since(v, w) \in Nat /\ Since(g, w) \in Nat /\ Since(h, w) \in Nat /\ Since(f, w) \in Nat
    BY <1>2, <2>1, SinceType
  <2>5. Since(h, w) <= Since(g, w)
    BY DEF CountsAgree
  <2>6. Since(g, w) <= Since(v, w) + 1
    BY <2>2, <2>4
  <2> QED BY <2>1, <2>2, <2>3, <2>4, <2>5, <2>6
<1>4. \A i \in 1 .. Len(v) : v[i] <= t
  BY <1>2 DEF CountsAgree
<1> DEFINE Fits(p, w) == /\ Since(p, w) \in Nat
                          /\ Since(p, w) <= Since(v, w)
                          /\ Since(p, w) <= Since(h, w)
                          /\ Since(h, w) <= Since(p, w) + 1
<1>5. ASSUME NEW p, \A w \in 0 .. t : Fits(p, w)
      PROVE  CountsAgree(k, p, v, a, t)
  <2>1. ASSUME NEW w \in 0 .. t, w > t - BucketWindow, k[1] \in Buckets
        PROVE  Since(v, w) - Since(p, w) <= Since(a, w)
    <3>1. Since(g, w) - Since(h, w) <= Since(f, w)
      BY <2>1 DEF CountsAgree
    <3>2. /\ Since(v, w) <= Since(g, w) /\ Since(a, w) = Since(f, w) + 1
          /\ Since(v, w) \in Nat /\ Since(g, w) \in Nat /\ Since(h, w) \in Nat /\ Since(f, w) \in Nat
      BY <1>3
    <3>3. Since(p, w) \in Nat /\ Since(h, w) <= Since(p, w) + 1
      BY <1>5
    <3> QED BY <3>1, <3>2, <3>3
  <2> QED BY <1>4, <1>5, <2>1 DEF CountsAgree
<1>6. CASE h = << >>
  <2>1. ASSUME NEW w \in 0 .. t PROVE Fits(h, w)
    <3>1. Since(h, w) = 0 /\ Since(v, w) \in Nat
      BY <1>3, <1>6, SinceNone
    <3> QED BY <3>1
  <2>2. CountsAgree(k, h, v, a, t)
    BY <1>5, <2>1
  <2> QED BY <1>1, <1>6, <2>2
<1>7. CASE h # << >>
  <2>1. PICK p : p = SubSeq(h, 1, Len(h) - 1)
    OBVIOUS
  <2>2. p \in Seq(Nat) /\ Len(h) \in 1 .. Len(h) /\ h[Len(h)] \in Nat
    <3>1. Len(h) \in Nat \ {0}
      BY <1>7, LenProperties, EmptySeq
    <3>2. 0 \in Int
      OBVIOUS
    <3> QED BY <1>7, <2>1, <3>1, <3>2, SinceFront
  <2>3. ASSUME NEW w \in 0 .. t PROVE Fits(p, w)
    <3>1. /\ w \in Int /\ Since(h, w) \in Nat /\ Since(v, w) \in Nat /\ Since(g, w) \in Nat
          /\ Since(h, w) <= Since(g, w) /\ Since(g, w) <= Since(v, w) + 1
      BY <1>3
    <3>2. Since(p, w) \in Nat
      BY <2>2, <3>1, SinceType
    <3>3. Since(h, w) = IF h[Len(h)] >= w THEN Since(p, w) + 1 ELSE Since(p, w)
      BY <1>7, <2>1, <3>1, SinceFront
    <3>4. CASE h[Len(h)] >= w
      BY <3>1, <3>2, <3>3, <3>4
    <3>5. CASE ~(h[Len(h)] >= w)
      <4>1. PICK m : m = h[Len(h)]
        OBVIOUS
      <4>2. ASSUME NEW i \in 1 .. Len(h) PROVE h[i] < w
        <5>1. h[i] \in Nat /\ h[i] <= m
          BY <4>1
        <5>2. m \in Nat /\ m < w /\ w \in Int
          BY <2>2, <3>1, <3>5, <4>1
        <5> QED BY ONLY <5>1, <5>2
      <4>3. Since(h, w) = 0
        BY <3>1, <4>2, SinceEmpty
      <4> QED BY <3>1, <3>2, <3>3, <3>5, <4>3
    <3> QED BY <3>4, <3>5
  <2>4. CountsAgree(k, p, v, a, t)
    BY <1>5, <2>3
  <2> QED BY <1>1, <1>7, <2>1, <2>4
<1> QED BY <1>6, <1>7

(* Nothing is in the window that begins with the next tick.                *)
LEMMA CountsLater ==
  ASSUME NEW k, NEW h \in Seq(Nat), NEW g \in Seq(Nat), NEW f \in Seq(Nat), NEW t \in Nat,
         CountsAgree(k, h, g, f, t), \A i \in 1 .. Len(h) : h[i] <= t
  PROVE  CountsAgree(k, h, g, f, t + 1)
<1>1. t + 1 \in Int /\ BucketWindow \in Nat
  BY GateAssumption
<1>2. Since(h, t + 1) = 0 /\ Since(g, t + 1) = 0 /\ Since(f, t + 1) \in Nat
  <2>1. \A i \in 1 .. Len(g) : g[i] <= t /\ g[i] \in Nat
    BY DEF CountsAgree
  <2>2. \A i \in 1 .. Len(h) : h[i] \in Nat
    OBVIOUS
  <2>3. \A i \in 1 .. Len(g) : g[i] < t + 1
    BY <2>1
  <2>4. \A i \in 1 .. Len(h) : h[i] < t + 1
    BY <2>2
  <2> QED BY <1>1, <2>3, <2>4, SinceEmpty, SinceType
<1>3. \A w \in 0 .. t + 1 : w \in 0 .. t \/ w = t + 1
  OBVIOUS
<1>4. \A w \in 0 .. t + 1 : Since(h, w) <= Since(g, w)
  BY <1>2, <1>3 DEF CountsAgree
<1>5. ASSUME k[1] \in Buckets
      PROVE  \A w \in 0 .. t + 1 :
               w > (t + 1) - BucketWindow => Since(g, w) - Since(h, w) <= Since(f, w)
  <2>1. \A w \in 0 .. t : w > (t + 1) - BucketWindow => w > t - BucketWindow
    BY <1>1
  <2>2. \A w \in 0 .. t : w > t - BucketWindow => Since(g, w) - Since(h, w) <= Since(f, w)
    BY <1>5 DEF CountsAgree
  <2> QED BY <1>2, <1>3, <2>1, <2>2
<1>6. \A i \in 1 .. Len(g) : g[i] <= t + 1
  <2>1. \A i \in 1 .. Len(g) : g[i] <= t /\ g[i] \in Nat
    BY DEF CountsAgree
  <2> QED BY <2>1
<1> QED BY <1>4, <1>5, <1>6 DEF CountsAgree

-----------------------------------------------------------------------------
(***************************************************************************)
(* The steps                                                               *)
(***************************************************************************)

Times == 0 .. MaxTime

LEMMA GateFacts ==
  ASSUME GateInv
  PROVE  /\ now \in Nat /\ now \in Times
         /\ LimiterProofs!IInv
         /\ hits \in [GateKeys -> Seq(Nat)]
         /\ counted \in [GateKeys -> Seq(Times)] /\ counted \in [GateKeys -> Seq(Nat)]
         /\ refunds \in [GateKeys -> Seq(Times)] /\ refunds \in [GateKeys -> Seq(Nat)]
         /\ \A k \in GateKeys :
              /\ LimiterProofs!KeyInv(k, hits[k], log[k], now)
              /\ CountsAgree(k, hits[k], counted[k], refunds[k], now)
<1>1. LimiterProofs!IInv
  BY SameIInv DEF GateInv
<1>2. now \in Nat /\ hits \in [GateKeys -> Seq(Nat)]
  BY <1>1 DEF LimiterProofs!IInv, LimiterProofs!TypeOK
<1>3. MaxTime \in Nat /\ now <= MaxTime
  BY GateAssumption DEF GateInv
<1>4. counted \in [GateKeys -> Seq(Times)] /\ refunds \in [GateKeys -> Seq(Times)]
  BY DEF GateInv, TypeOK, Times
<1>5. ASSUME NEW s \in Seq(Times) PROVE s \in Seq(Nat)
  <2>1. Len(s) \in Nat /\ s = [i \in 1 .. Len(s) |-> s[i]] /\ \A i \in 1 .. Len(s) : s[i] \in Times
    BY LenProperties
  <2>2. \A i \in 1 .. Len(s) : s[i] \in Nat
    BY <1>3, <2>1 DEF Times
  <2> QED BY <2>1, <2>2
<1>6. counted \in [GateKeys -> Seq(Nat)] /\ refunds \in [GateKeys -> Seq(Nat)]
  BY <1>4, <1>5
<1>7. \A k \in GateKeys : LimiterProofs!KeyInv(k, hits[k], log[k], now)
  BY <1>1 DEF LimiterProofs!IInv
<1>8. \A k \in GateKeys : CountsAgree(k, hits[k], counted[k], refunds[k], now)
  BY DEF GateInv
<1>9. now \in Times
  BY <1>2, <1>3 DEF Times
<1> QED BY <1>1, <1>2, <1>4, <1>6, <1>7, <1>8, <1>9

(* A deque is in clock order, as the history it is the end of.             *)
LEMMA DequeSorted ==
  ASSUME NEW k \in GateKeys, NEW h, NEW g, NEW t \in Nat, LimiterProofs!KeyInv(k, h, g, t)
  PROVE  h \in Seq(Nat) /\ \A i \in 1 .. Len(h) : h[i] <= h[Len(h)] /\ h[i] <= t
<1>1. /\ h \in Seq(Nat) /\ g \in Seq(Nat) /\ Len(h) <= Len(g)
      /\ \A i \in 1 .. Len(h) : h[i] = g[Len(g) - Len(h) + i]
      /\ \A i \in 1 .. Len(g) : g[i] <= t /\ \A j \in 1 .. i : g[j] <= g[i]
  BY DEF LimiterProofs!KeyInv, LimiterProofs!Tracks, LimiterProofs!Ordered
<1>2. PICK m, n : m = Len(h) /\ n = Len(g)
  OBVIOUS
<1>3. m \in Nat /\ n \in Nat /\ m <= n
  BY <1>1, <1>2, LenProperties
<1>4. ASSUME NEW i \in 1 .. m PROVE h[i] <= h[m] /\ h[i] <= t
  <2>1. m \in 1 .. m /\ n - m + i \in 1 .. n /\ n - m + m = n /\ n \in 1 .. n /\ n - m + i \in 1 .. n
    BY <1>3
  <2>2. h[i] = g[n - m + i] /\ h[m] = g[n]
    <3>1. h[m] = g[n - m + m]
      BY <1>1, <1>2, <2>1
    <3> QED BY <1>1, <1>2, <2>1, <3>1
  <2> QED BY <1>1, <1>2, <2>1, <2>2
<1> QED BY <1>1, <1>2, <1>4

(* The cutoff of any check is behind the window of the buckets.            *)
LEMMA CutoffFacts ==
  ASSUME NEW k \in GateKeys, now \in Nat
  PROVE  /\ LimiterProofs!Cutoff(k) = now - GateWindow[k]
         /\ now - GateWindow[k] \in Int
         /\ now - GateWindow[k] <= now - BucketWindow
<1>1. GateWindow[k] \in Nat /\ BucketWindow \in Nat /\ BucketWindow <= GateWindow[k]
  BY GateTypes, GateAssumption
<1> QED BY <1>1 DEF LimiterProofs!Cutoff

(* An admission: the deque of the key is pruned and has one hit more, any  *)
(* deque may be forgotten.                                                 *)
LEMMA AllowedCounts ==
  ASSUME GateInv, NEW k \in GateKeys, Limiter!CheckAllowed(k),
         counted' = [counted EXCEPT ![k] = Append(@, now)], refunds' = refunds
  PROVE  /\ now' = now
         /\ counted' \in [GateKeys -> Seq(Times)]
         /\ \A j \in GateKeys : CountsAgree(j, hits'[j], counted'[j], refunds'[j], now')
<1>1. /\ now \in Nat /\ now \in Times /\ LimiterProofs!IInv
      /\ hits \in [GateKeys -> Seq(Nat)]
      /\ counted \in [GateKeys -> Seq(Times)] /\ counted \in [GateKeys -> Seq(Nat)]
      /\ \A j \in GateKeys : /\ LimiterProofs!KeyInv(j, hits[j], log[j], now)
                             /\ CountsAgree(j, hits[j], counted[j], refunds[j], now)
  BY GateFacts
<1>2. PICK c, p, r : /\ c = now - GateWindow[k]
                     /\ p = LimiterProofs!Prune(hits[k], c)
                     /\ r = [hits EXCEPT ![k] = Append(p, now)]
  OBVIOUS
<1>3. c \in Int /\ c <= now - BucketWindow /\ c = LimiterProofs!Cutoff(k)
  BY <1>1, <1>2, CutoffFacts
<1>4. /\ Len(p) < GateLimit[k] /\ hits' = LimiterProofs!Record(k, p) /\ now' = now
  BY <1>2, <1>3, SameAllowed DEF LimiterProofs!CheckAllowed
<1>5. p \in Seq(Nat) /\ LimiterProofs!KeyInv(k, p, log[k], now)
  <2>1. /\ LimiterProofs!Prune(hits[k], LimiterProofs!Cutoff(k)) \in Seq(Nat)
        /\ LimiterProofs!KeyInv(k, LimiterProofs!Prune(hits[k], LimiterProofs!Cutoff(k)), log[k], now)
    BY <1>1, LimiterAssumed, LimiterProofs!PrunedKeyInv
  <2> QED BY <1>2, <1>3, <2>1
<1>6. LimiterProofs!KeyInv(k, Append(p, now), Append(log[k], now), now)
  BY <1>1, <1>4, <1>5, LimiterAssumed, LimiterProofs!KeyAppend
<1>7. counted' \in [GateKeys -> Seq(Times)]
  <2>1. Append(counted[k], now) \in Seq(Times)
    BY <1>1, AppendProperties
  <2> QED BY <1>1, <2>1
<1>8. ASSUME NEW j \in GateKeys
      PROVE  /\ r[j] \in Seq(Nat) /\ counted'[j] \in Seq(Nat)
             /\ CountsAgree(j, r[j], counted'[j], refunds[j], now)
             /\ \A i \in 1 .. Len(r[j]) : r[j][i] <= r[j][Len(r[j])]
  <2>1. CASE j = k
    <3>1. r[j] = Append(p, now) /\ counted'[j] = Append(counted[j], now)
      BY <1>1, <1>2, <2>1
    <3>2. CountsAgree(j, p, counted[j], refunds[j], now)
      BY <1>1, <1>2, <1>3, <2>1, CountsPrune
    <3>3. CountsAgree(j, r[j], counted'[j], refunds[j], now)
      BY <1>1, <1>5, <3>1, <3>2, CountsAppend
    <3>4. r[j] \in Seq(Nat) /\ \A i \in 1 .. Len(r[j]) : r[j][i] <= r[j][Len(r[j])]
      BY <1>1, <1>6, <2>1, <3>1, DequeSorted
    <3>5. counted'[j] \in Seq(Nat)
      BY <1>1, <3>1, AppendProperties
    <3> QED BY <3>3, <3>4, <3>5
  <2>2. CASE j # k
    <3>1. r[j] = hits[j] /\ counted'[j] = counted[j]
      BY <1>1, <1>2, <2>2
    <3>2. LimiterProofs!KeyInv(j, hits[j], log[j], now)
      BY <1>1
    <3>3. hits[j] \in Seq(Nat) /\ \A i \in 1 .. Len(hits[j]) : hits[j][i] <= hits[j][Len(hits[j])]
      BY <1>1, <3>2, DequeSorted
    <3> QED BY <1>1, <3>1, <3>3
  <2> QED BY <2>1, <2>2
<1>9. ASSUME NEW j \in GateKeys
      PROVE  CountsAgree(j, hits'[j], counted'[j], refunds[j], now)
  <2>1. \/ hits'[j] = r[j]
        \/ hits'[j] = << >> /\ LimiterProofs!Stale(r[j], c)
    BY <1>1, <1>2, <1>4, <1>5, LimiterAssumed, LimiterProofs!RecordFacts
  <2>2. CASE hits'[j] = r[j]
    BY <1>8, <2>2
  <2>3. CASE hits'[j] = << >> /\ LimiterProofs!Stale(r[j], c)
    <3>1. PICK h : h = r[j]
      OBVIOUS
    <3>2. /\ h \in Seq(Nat) /\ counted'[j] \in Seq(Nat)
          /\ CountsAgree(j, h, counted'[j], refunds[j], now)
          /\ \A i \in 1 .. Len(h) : h[i] <= h[Len(h)]
      BY <1>8, <3>1
    <3>3. ASSUME NEW i \in 1 .. Len(h) PROVE h[i] <= c
      <4>1. h # << >> /\ Len(h) \in 1 .. Len(h)
        <5>1. Len(h) \in Nat /\ i \in Nat /\ 1 <= i /\ i <= Len(h)
          BY <3>2, LenProperties
        <5> QED BY <5>1
      <4>2. h[Len(h)] <= c
        BY <2>3, <3>1, <4>1 DEF LimiterProofs!Stale
      <4>3. h[i] \in Nat /\ h[Len(h)] \in Nat /\ h[i] <= h[Len(h)]
        BY <3>2, <4>1
      <4> QED BY <1>3, <4>2, <4>3
    <3>4. CountsAgree(j, << >>, counted'[j], refunds[j], now)
      BY <1>1, <1>3, <3>2, <3>3, CountsForget
    <3> QED BY <2>3, <3>4
  <2> QED BY <2>1, <2>2, <2>3
<1> QED BY <1>4, <1>7, <1>9

(* A refusal only prunes.                                                  *)
LEMMA RejectedCounts ==
  ASSUME GateInv, NEW k \in GateKeys, Limiter!CheckRejected(k),
         counted' = counted, refunds' = refunds
  PROVE  /\ now' = now
         /\ \A j \in GateKeys : CountsAgree(j, hits'[j], counted'[j], refunds'[j], now')
<1>1. /\ now \in Nat /\ hits \in [GateKeys -> Seq(Nat)] /\ counted \in [GateKeys -> Seq(Nat)]
      /\ \A j \in GateKeys : CountsAgree(j, hits[j], counted[j], refunds[j], now)
  BY GateFacts
<1>2. PICK c, p : c = now - GateWindow[k] /\ p = LimiterProofs!Prune(hits[k], c)
  OBVIOUS
<1>3. c \in Int /\ c <= now - BucketWindow /\ c = LimiterProofs!Cutoff(k)
  BY <1>1, <1>2, CutoffFacts
<1>4. hits' = [hits EXCEPT ![k] = p] /\ now' = now
  BY <1>2, <1>3, SameRejected DEF LimiterProofs!CheckRejected
<1>5. CountsAgree(k, p, counted[k], refunds[k], now)
  BY <1>1, <1>2, <1>3, CountsPrune
<1>6. hits'[k] = p /\ \A j \in GateKeys : j # k => hits'[j] = hits[j]
  BY <1>1, <1>4
<1>7. ASSUME NEW j \in GateKeys PROVE CountsAgree(j, hits'[j], counted'[j], refunds'[j], now')
  <2>1. CASE j = k
    BY <1>4, <1>5, <1>6, <2>1
  <2>2. CASE j # k
    BY <1>1, <1>4, <1>6, <2>2
  <2> QED BY <2>1, <2>2
<1> QED BY <1>4, <1>7

(* A redirect: the latest hit goes, if there is one, and so does the       *)
(* request from what is counted.                                           *)
LEMMA RedirectCounts ==
  ASSUME GateInv, NEW r, BucketKey(r) \in GateKeys, UnCount(r), NEW s \in Times,
         counted' = [counted EXCEPT ![BucketKey(r)] = Without(@, s)],
         refunds' = [refunds EXCEPT ![BucketKey(r)] = Append(@, now)]
  PROVE  /\ now' = now
         /\ counted' \in [GateKeys -> Seq(Times)] /\ refunds' \in [GateKeys -> Seq(Times)]
         /\ \A j \in GateKeys : CountsAgree(j, hits'[j], counted'[j], refunds'[j], now')
<1>1. /\ now \in Nat /\ now \in Times
      /\ hits \in [GateKeys -> Seq(Nat)]
      /\ counted \in [GateKeys -> Seq(Times)] /\ counted \in [GateKeys -> Seq(Nat)]
      /\ refunds \in [GateKeys -> Seq(Times)] /\ refunds \in [GateKeys -> Seq(Nat)]
      /\ \A j \in GateKeys : /\ LimiterProofs!KeyInv(j, hits[j], log[j], now)
                             /\ CountsAgree(j, hits[j], counted[j], refunds[j], now)
  BY GateFacts
<1>2. PICK k : k = BucketKey(r)
  OBVIOUS
<1>3. k \in GateKeys /\ s \in Nat
  BY <1>2, GateAssumption DEF Times
<1>4. /\ counted' = [counted EXCEPT ![k] = Without(counted[k], s)]
      /\ refunds' = [refunds EXCEPT ![k] = Append(refunds[k], now)]
  BY <1>2
<1>5. PICK h : h = hits[k]
  OBVIOUS
<1>6. /\ now' = now
      /\ h # << >> => hits' = [hits EXCEPT ![k] = SubSeq(h, 1, Len(h) - 1)]
      /\ h = << >> => hits' = hits
  BY <1>2, <1>5 DEF UnCount, Limiter!Refund, limiter_vars
<1>7. counted' \in [GateKeys -> Seq(Times)] /\ refunds' \in [GateKeys -> Seq(Times)]
  <2>1. Without(counted[k], s) \in Seq(Times)
    BY <1>1, <1>3, WithoutType
  <2>2. Append(refunds[k], now) \in Seq(Times)
    BY <1>1, <1>3, AppendProperties
  <2>3. counted' \in [GateKeys -> Seq(Times)]
    BY <1>1, <1>4, <2>1
  <2>4. refunds' \in [GateKeys -> Seq(Times)]
    BY <1>1, <1>4, <2>2
  <2> QED BY <2>3, <2>4
<1>8. h \in Seq(Nat) /\ \A i \in 1 .. Len(h) : h[i] <= h[Len(h)]
  BY <1>1, <1>3, <1>5, DequeSorted
<1>9. PICK v, f : v = Without(counted[k], s) /\ f = Append(refunds[k], now)
  OBVIOUS
<1>10. /\ h # << >> => CountsAgree(k, SubSeq(h, 1, Len(h) - 1), v, f, now)
       /\ h = << >> => CountsAgree(k, h, v, f, now)
  BY <1>1, <1>3, <1>5, <1>8, <1>9, CountsRefund
<1>11. /\ counted'[k] = v /\ refunds'[k] = f
       /\ h # << >> => hits'[k] = SubSeq(h, 1, Len(h) - 1)
       /\ h = << >> => hits'[k] = h
       /\ \A j \in GateKeys : j # k => /\ counted'[j] = counted[j] /\ refunds'[j] = refunds[j]
                                       /\ hits'[j] = hits[j]
  BY <1>1, <1>3, <1>4, <1>5, <1>6, <1>9
<1>12. ASSUME NEW j \in GateKeys PROVE CountsAgree(j, hits'[j], counted'[j], refunds'[j], now')
  <2>1. CASE j = k
    <3>1. CASE h = << >>
      BY <1>6, <1>10, <1>11, <2>1, <3>1
    <3>2. CASE h # << >>
      BY <1>6, <1>10, <1>11, <2>1, <3>2
    <3> QED BY <3>1, <3>2
  <2>2. CASE j # k
    BY <1>1, <1>6, <1>11, <2>2
  <2> QED BY <2>1, <2>2
<1> QED BY <1>6, <1>7, <1>12

LEMMA TickCounts ==
  ASSUME GateInv, Tick
  PROVE  /\ now' <= MaxTime
         /\ \A j \in GateKeys : CountsAgree(j, hits'[j], counted'[j], refunds'[j], now')
<1>1. /\ now \in Nat
      /\ hits \in [GateKeys -> Seq(Nat)]
      /\ counted \in [GateKeys -> Seq(Nat)] /\ refunds \in [GateKeys -> Seq(Nat)]
      /\ \A j \in GateKeys : /\ LimiterProofs!KeyInv(j, hits[j], log[j], now)
                             /\ CountsAgree(j, hits[j], counted[j], refunds[j], now)
  BY GateFacts
<1>2. /\ now < MaxTime /\ now' = now + 1
      /\ hits' = hits /\ counted' = counted /\ refunds' = refunds
  BY DEF Tick, Limiter!Tick
<1>3. ASSUME NEW j \in GateKeys PROVE CountsAgree(j, hits[j], counted[j], refunds[j], now + 1)
  <2>1. \A i \in 1 .. Len(hits[j]) : hits[j][i] <= now
    BY <1>1, DequeSorted
  <2> QED BY <1>1, <2>1, CountsLater
<1>4. now' <= MaxTime
  BY <1>1, <1>2, GateAssumption
<1> QED BY <1>2, <1>3, <1>4

-----------------------------------------------------------------------------
(***************************************************************************)
(* The gate                                                                *)
(***************************************************************************)

LEMMA ThrottledKey ==
  ASSUME NEW r \in Requests, Throttled(r)
  PROVE  BucketKey(r) \in GateKeys
<1>1. BucketFor(r) \in Buckets
  BY DEF Throttled, BucketFor, NoBucket, Buckets
<1>2. r.host \in Hosts /\ BucketLimit[BucketFor(r)] > 0
  BY DEF Requests, Throttled
<1> QED BY <1>1, <1>2 DEF BucketKey, GateKeys

LEMMA RefreshKeyed ==
  ASSUME NEW u \in Users, RefreshBudget > 0
  PROVE  RefreshKey(u) \in GateKeys
  BY DEF GateKeys

ConnType == [Conns -> {Idle} \cup {Inside(r, t) : r \in Requests, t \in 0 .. MaxTime}]

LEMMA InsideFacts ==
  ASSUME conn \in ConnType, NEW c \in Conns, conn[c] # Idle
  PROVE  conn[c].request \in Requests /\ conn[c].since \in Times
  BY DEF ConnType, Inside, Times

(* What a step has to leave true.                                          *)
LEMMA GateInvNext ==
  ASSUME Limiter!IInv', now' <= MaxTime,
         conn' \in ConnType, arrived' \in 0 .. MaxRequests,
         counted' \in [GateKeys -> Seq(Times)], refunds' \in [GateKeys -> Seq(Times)],
         \A k \in GateKeys : CountsAgree(k, hits'[k], counted'[k], refunds'[k], now')
  PROVE  GateInv'
<1>1. TypeOK'
  BY DEF TypeOK, Limiter!IInv, ConnType, Times
<1> QED BY <1>1 DEF GateInv

LEMMA GateTyping ==
  ASSUME GateInv
  PROVE  /\ conn \in ConnType /\ arrived \in 0 .. MaxRequests
         /\ now \in Times /\ now <= MaxTime /\ Limiter!IInv
         /\ counted \in [GateKeys -> Seq(Times)] /\ refunds \in [GateKeys -> Seq(Times)]
         /\ \A k \in GateKeys : CountsAgree(k, hits[k], counted[k], refunds[k], now)
  BY GateFacts DEF GateInv, TypeOK, ConnType

LEMMA GateInitInv == Init => GateInv
<1> SUFFICES ASSUME Init PROVE GateInv
  OBVIOUS
<1>1. /\ Limiter!Init /\ conn = [c \in Conns |-> Idle] /\ arrived = 0
      /\ counted = [k \in GateKeys |-> << >>] /\ refunds = [k \in GateKeys |-> << >>]
  BY DEF Init
<1>2. Limiter!IInv
  BY <1>1, SameInit, SameIInv, LimiterAssumed, LimiterProofs!InitInv
<1>3. now = 0 /\ hits = [k \in GateKeys |-> << >>] /\ MaxTime \in Nat /\ MaxRequests \in Nat
  BY <1>1, GateAssumption DEF Limiter!Init
<1>4. TypeOK
  <2>1. << >> \in Seq(0 .. MaxTime)
    BY EmptySeq
  <2> QED BY <1>1, <1>2, <1>3, <2>1 DEF TypeOK, Limiter!IInv
<1>5. ASSUME NEW k \in GateKeys
      PROVE  CountsAgree(k, << >>, << >>, << >>, 0)
  <2>1. \A w \in 0 .. 0 : Since(<< >>, w) = 0
    BY SinceNone
  <2>2. Len(<< >>) = 0
    BY EmptySeq
  <2> QED BY <2>1, <2>2 DEF CountsAgree
<1> QED BY <1>1, <1>2, <1>3, <1>4, <1>5 DEF GateInv

LEMMA ArriveInv ==
  ASSUME GateInv, NEW c \in Conns, NEW r \in Requests, Arrive(c, r)
  PROVE  GateInv'
<1>1. /\ conn \in ConnType /\ arrived \in 0 .. MaxRequests
      /\ now \in Times /\ now <= MaxTime /\ Limiter!IInv
      /\ counted \in [GateKeys -> Seq(Times)] /\ refunds \in [GateKeys -> Seq(Times)]
      /\ \A k \in GateKeys : CountsAgree(k, hits[k], counted[k], refunds[k], now)
  BY GateTyping
<1>2. arrived' \in 0 .. MaxRequests
  BY <1>1, GateAssumption DEF Arrive
<1>3. [conn EXCEPT ![c] = Inside(r, now)] \in ConnType
  BY <1>1 DEF ConnType, Times
<1>4. CASE PassThrough(c, r)
  <2>1. /\ conn' = [conn EXCEPT ![c] = Inside(r, now)] /\ UNCHANGED limiter_vars
        /\ now' = now /\ hits' = hits /\ counted' = counted /\ refunds' = refunds
    BY <1>4 DEF PassThrough, limiter_vars
  <2>2. Limiter!IInv'
    BY <1>1, <2>1, LimiterStays
  <2> QED BY <1>1, <1>2, <1>3, <2>1, <2>2, GateInvNext
<1>5. CASE Forward(c, r)
  <2>1. /\ BucketKey(r) \in GateKeys /\ Limiter!CheckAllowed(BucketKey(r))
        /\ conn' = [conn EXCEPT ![c] = Inside(r, now)]
        /\ counted' = [counted EXCEPT ![BucketKey(r)] = Append(@, now)] /\ refunds' = refunds
    BY <1>5, ThrottledKey DEF Forward
  <2>2. Limiter!IInv'
    BY <1>1, <2>1, LimiterStays
  <2>3. /\ now' = now /\ counted' \in [GateKeys -> Seq(Times)]
        /\ \A k \in GateKeys : CountsAgree(k, hits'[k], counted'[k], refunds'[k], now')
    BY <2>1, AllowedCounts
  <2> QED BY <1>1, <1>2, <1>3, <2>1, <2>2, <2>3, GateInvNext
<1>6. CASE Reject(c, r)
  <2>1. /\ BucketKey(r) \in GateKeys /\ Limiter!CheckRejected(BucketKey(r))
        /\ conn' = conn /\ counted' = counted /\ refunds' = refunds
    BY <1>6, ThrottledKey DEF Reject
  <2>2. Limiter!IInv'
    BY <1>1, <2>1, LimiterStays
  <2>3. /\ now' = now
        /\ \A k \in GateKeys : CountsAgree(k, hits'[k], counted'[k], refunds'[k], now')
    BY <2>1, RejectedCounts
  <2> QED BY <1>1, <1>2, <2>1, <2>2, <2>3, GateInvNext
<1> QED BY <1>4, <1>5, <1>6 DEF Arrive

LEMMA AnswerInv ==
  ASSUME GateInv, NEW c \in Conns, Answer(c)
  PROVE  GateInv'
<1>1. /\ conn \in ConnType /\ arrived \in 0 .. MaxRequests
      /\ now \in Times /\ now <= MaxTime /\ Limiter!IInv
      /\ counted \in [GateKeys -> Seq(Times)] /\ refunds \in [GateKeys -> Seq(Times)]
      /\ \A k \in GateKeys : CountsAgree(k, hits[k], counted[k], refunds[k], now)
  BY GateTyping
<1>2. arrived' \in 0 .. MaxRequests
  BY <1>1 DEF Answer
<1>3. [conn EXCEPT ![c] = Idle] \in ConnType
  BY <1>1 DEF ConnType
<1>4. PICK r, s : r = conn[c].request /\ s = conn[c].since
  OBVIOUS
<1>5. r \in Requests /\ s \in Times
  BY <1>1, <1>4, InsideFacts DEF Answer
<1>6. ASSUME conn' = [conn EXCEPT ![c] = Idle], UNCHANGED <<limiter_vars, counted, refunds>>
      PROVE  GateInv'
  <2>1. now' = now /\ hits' = hits /\ counted' = counted /\ refunds' = refunds
    BY <1>6 DEF limiter_vars
  <2>2. Limiter!IInv'
    BY <1>1, <1>6, LimiterStays
  <2> QED BY <1>1, <1>2, <1>3, <1>6, <2>1, <2>2, GateInvNext
<1>7. CASE Redirect(c)
  <2>1. conn' = [conn EXCEPT ![c] = Idle]
    BY <1>7 DEF Redirect
  <2>2. CASE Throttled(r)
    <3>1. /\ BucketKey(r) \in GateKeys /\ UnCount(r)
          /\ counted' = [counted EXCEPT ![BucketKey(r)] = Without(@, s)]
          /\ refunds' = [refunds EXCEPT ![BucketKey(r)] = Append(@, now)]
      BY <1>4, <1>5, <1>7, <2>2, ThrottledKey DEF Redirect
    <3>2. /\ now' = now
          /\ counted' \in [GateKeys -> Seq(Times)] /\ refunds' \in [GateKeys -> Seq(Times)]
          /\ \A k \in GateKeys : CountsAgree(k, hits'[k], counted'[k], refunds'[k], now')
      BY <1>5, <3>1, RedirectCounts
    <3>3. Limiter!IInv'
      BY <1>1, <3>1, LimiterStays DEF UnCount
    <3> QED BY <1>1, <1>2, <1>3, <2>1, <3>2, <3>3, GateInvNext
  <2>3. CASE ~Throttled(r)
    BY <1>4, <1>6, <1>7, <2>3 DEF Redirect
  <2> QED BY <2>2, <2>3
<1>8. CASE Handle(c)
  <2>1. conn' = [conn EXCEPT ![c] = Idle] /\ refunds' = refunds
    BY <1>8 DEF Handle
  <2>2. CASE r.route = "refresh_insights" /\ RefreshBudget > 0
    <3>1. RefreshKey(r.user) \in GateKeys
      BY <1>5, <2>2, RefreshKeyed DEF Requests
    <3>2. \/ /\ Limiter!CheckAllowed(RefreshKey(r.user))
             /\ counted' = [counted EXCEPT ![RefreshKey(r.user)] = Append(@, now)]
          \/ /\ Limiter!CheckRejected(RefreshKey(r.user))
             /\ counted' = counted
      BY <1>4, <1>8, <2>2 DEF Handle
    <3>3. Limiter!IInv'
      BY <1>1, <3>1, <3>2, LimiterStays
    <3>4. /\ now' = now /\ counted' \in [GateKeys -> Seq(Times)]
          /\ \A k \in GateKeys : CountsAgree(k, hits'[k], counted'[k], refunds'[k], now')
      BY <1>1, <2>1, <3>1, <3>2, AllowedCounts, RejectedCounts
    <3> QED BY <1>1, <1>2, <1>3, <2>1, <3>3, <3>4, GateInvNext
  <2>3. CASE ~(r.route = "refresh_insights" /\ RefreshBudget > 0)
    BY <1>4, <1>6, <1>8, <2>3 DEF Handle
  <2> QED BY <2>2, <2>3
<1> QED BY <1>7, <1>8 DEF Answer

LEMMA GateNextInv == GateInv /\ [Next]_gate_vars => GateInv'
<1> SUFFICES ASSUME GateInv, [Next]_gate_vars PROVE GateInv'
  OBVIOUS
<1>1. /\ conn \in ConnType /\ arrived \in 0 .. MaxRequests
      /\ now \in Times /\ now <= MaxTime /\ Limiter!IInv
      /\ counted \in [GateKeys -> Seq(Times)] /\ refunds \in [GateKeys -> Seq(Times)]
      /\ \A k \in GateKeys : CountsAgree(k, hits[k], counted[k], refunds[k], now)
  BY GateTyping
<1>2. CASE Tick
  <2>1. Limiter!Tick /\ conn' = conn /\ arrived' = arrived /\ counted' = counted /\ refunds' = refunds
    BY <1>2 DEF Tick
  <2>2. Limiter!IInv'
    BY <1>1, <2>1, LimiterStays
  <2>3. /\ now' <= MaxTime
        /\ \A k \in GateKeys : CountsAgree(k, hits'[k], counted'[k], refunds'[k], now')
    BY <1>2, TickCounts
  <2> QED BY <1>1, <2>1, <2>2, <2>3, GateInvNext
<1>3. CASE UNCHANGED gate_vars
  <2>1. /\ UNCHANGED limiter_vars /\ conn' = conn /\ arrived' = arrived
        /\ now' = now /\ hits' = hits /\ counted' = counted /\ refunds' = refunds
    BY <1>3 DEF gate_vars, limiter_vars
  <2>2. Limiter!IInv'
    BY <1>1, <2>1, LimiterStays
  <2> QED BY <1>1, <2>1, <2>2, GateInvNext
<1> QED BY <1>2, <1>3, ArriveInv, AnswerInv DEF Next

LEMMA GateInvAlways == Spec => []GateInv
<1> QED BY GateInitInv, GateNextInv, PTL DEF Spec

(* The gate never leaves its types.                                        *)
THEOREM GateTyped == Spec => []TypeOK
<1>1. GateInv => TypeOK
  BY DEF GateInv
<1> QED BY <1>1, GateInvAlways, PTL

(* The window of k that ends now is the times from one time on.            *)
LEMMA WindowSince ==
  ASSUME GateInv, NEW k \in GateKeys
  PROVE  \E w \in 0 .. now :
           /\ w > now - GateWindow[k]
           /\ \A g \in Seq(Nat) : InWindow(g, k) = Since(g, w)
<1>1. now \in Nat /\ GateWindow[k] \in Nat \ {0}
  BY GateFacts, GateTypes
<1>2. PICK x : x = GateWindow[k]
  OBVIOUS
<1>3. \E w \in 0 .. now : w > now - x /\ \A n \in Nat : n >= w <=> n > now - x
  <2>1. CASE now >= x
    <3>1. now - x + 1 \in 0 .. now /\ now - x + 1 > now - x
      BY <1>1, <1>2, <2>1
    <3>2. \A n \in Nat : n >= now - x + 1 <=> n > now - x
      BY <1>1, <1>2
    <3> QED BY <3>1, <3>2
  <2>2. CASE now < x
    <3>1. 0 \in 0 .. now /\ 0 > now - x
      BY <1>1, <1>2, <2>2
    <3>2. \A n \in Nat : n >= 0 <=> n > now - x
      BY <1>1, <1>2, <2>2
    <3> QED BY <3>1, <3>2
  <2> QED BY <1>1, <1>2, <2>1, <2>2
<1>4. PICK w \in 0 .. now : w > now - x /\ \A n \in Nat : n >= w <=> n > now - x
  BY <1>3
<1>5. ASSUME NEW g \in Seq(Nat) PROVE InWindow(g, k) = Since(g, w)
  <2>1. {i \in 1 .. Len(g) : g[i] > now - x} = {i \in 1 .. Len(g) : g[i] >= w}
    <3>1. \A i \in 1 .. Len(g) : g[i] \in Nat
      OBVIOUS
    <3> QED BY <1>4, <3>1
  <2> QED BY <1>2, <2>1 DEF InWindow, Since
<1> QED BY <1>2, <1>4, <1>5

(* What the limiter counts in a window is never more than the requests     *)
(* that were not redirected (RateLimitMiddleware, send_unless_redirect).   *)
THEOREM NoDoubleCount == Spec => []NeverOverCounted
<1>1. ASSUME GateInv PROVE NeverOverCounted
  <2>1. ASSUME NEW k \in GateKeys PROVE InWindow(hits[k], k) <= InWindow(counted[k], k)
    <3>1. PICK w \in 0 .. now : \A g \in Seq(Nat) : InWindow(g, k) = Since(g, w)
      BY <1>1, WindowSince
    <3>2. hits[k] \in Seq(Nat) /\ counted[k] \in Seq(Nat) /\ Since(hits[k], w) <= Since(counted[k], w)
      BY <1>1, GateFacts DEF CountsAgree
    <3> QED BY <3>1, <3>2
  <2> QED BY <2>1 DEF NeverOverCounted
<1> QED BY <1>1, GateInvAlways, PTL

LEMMA UnderCountBounded ==
  ASSUME GateInv, NEW k \in GateKeys, k[1] \in Buckets
  PROVE  InWindow(counted[k], k) - InWindow(hits[k], k) <= InWindow(refunds[k], k)
<1>1. PICK w \in 0 .. now : /\ w > now - GateWindow[k]
                            /\ \A g \in Seq(Nat) : InWindow(g, k) = Since(g, w)
  BY WindowSince
<1>2. w > now - BucketWindow
  BY <1>1, GateTypes
<1>3. /\ hits[k] \in Seq(Nat) /\ counted[k] \in Seq(Nat) /\ refunds[k] \in Seq(Nat)
      /\ CountsAgree(k, hits[k], counted[k], refunds[k], now)
  BY GateFacts
<1>4. Since(counted[k], w) - Since(hits[k], w) <= Since(refunds[k], w)
  BY <1>2, <1>3 DEF CountsAgree
<1> QED BY <1>1, <1>3, <1>4

(* A refund lets at most one request go uncounted, whatever order the      *)
(* requests of a bucket are answered in (send_unless_redirect, refund).    *)
THEOREM RefundBounded == Spec => []UnderCountPerRedirect
<1>1. GateInv => UnderCountPerRedirect
  BY UnderCountBounded DEF UnderCountPerRedirect
<1> QED BY <1>1, GateInvAlways, PTL

(* A host has no more requests of a bucket served in a window than the     *)
(* limit and one for each redirect (RateLimitMiddleware, check, refund).   *)
THEOREM ServedBounded == Spec => []ServedWithinBudget
<1>1. ASSUME GateInv, NEW k \in GateKeys, k[1] \in Buckets
      PROVE  InWindow(counted[k], k) <= GateLimit[k] + InWindow(refunds[k], k)
  <2>1. /\ hits[k] \in Seq(Nat) /\ counted[k] \in Seq(Nat) /\ refunds[k] \in Seq(Nat)
        /\ Len(hits[k]) <= GateLimit[k] /\ Len(hits[k]) \in Nat /\ GateLimit[k] \in Nat
    BY <1>1, GateFacts, GateTypes, LenProperties DEF LimiterProofs!KeyInv
  <2>2. InWindow(hits[k], k) <= Len(hits[k])
    <3>1. PICK S : S = {i \in 1 .. Len(hits[k]) : hits[k][i] > now - GateWindow[k]}
      OBVIOUS
    <3>2. /\ IsFiniteSet(1 .. Len(hits[k])) /\ Cardinality(1 .. Len(hits[k])) = Len(hits[k])
          /\ S \subseteq 1 .. Len(hits[k])
      <4>1. PICK n : n = Len(hits[k])
        OBVIOUS
      <4>2. n \in Nat /\ n \in Int /\ 1 \in Int
        BY <2>1, <4>1
      <4>3. IsFiniteSet(1 .. n) /\ Cardinality(1 .. n) = IF 1 > n THEN 0 ELSE n - 1 + 1
        BY ONLY <4>2, FS_Interval, Zenon
      <4>4. Cardinality(1 .. n) = n
        BY <4>2, <4>3
      <4> QED BY <3>1, <4>1, <4>3, <4>4
    <3>3. Cardinality(S) <= Cardinality(1 .. Len(hits[k]))
      BY <3>2, FS_Subset
    <3> QED BY <3>1, <3>2, <3>3 DEF InWindow
  <2>3. InWindow(hits[k], k) \in Nat /\ InWindow(counted[k], k) \in Nat /\ InWindow(refunds[k], k) \in Nat
    <3>1. PICK w \in 0 .. now : \A g \in Seq(Nat) : InWindow(g, k) = Since(g, w)
      BY <1>1, WindowSince
    <3>2. w \in Int
      BY <1>1, GateFacts
    <3> QED BY <2>1, <3>1, <3>2, SinceType
  <2>4. InWindow(counted[k], k) - InWindow(hits[k], k) <= InWindow(refunds[k], k)
    BY <1>1, UnderCountBounded
  <2> QED BY <2>1, <2>2, <2>3, <2>4
<1>2. GateInv => ServedWithinBudget
  BY <1>1 DEF ServedWithinBudget
<1> QED BY <1>2, GateInvAlways, PTL

(* The gate and the router go through the limiter's methods only: what the *)
(* requests do to it is a behaviour of SlidingWindowLimiter.               *)
THEOREM LimiterUsed == Spec => Limiter!Spec
<1>1. ASSUME GateInv, [Next]_gate_vars PROVE [Limiter!Next]_Limiter!limiter_vars
  <2>1. conn \in ConnType
    BY <1>1, GateTyping
  <2>2. ASSUME UNCHANGED limiter_vars PROVE [Limiter!Next]_Limiter!limiter_vars
    BY <2>2 DEF limiter_vars, Limiter!limiter_vars
  <2>3. ASSUME NEW k \in GateKeys,
               Limiter!CheckAllowed(k) \/ Limiter!CheckRejected(k) \/ Limiter!Refund(k)
        PROVE  [Limiter!Next]_Limiter!limiter_vars
    BY <2>3 DEF Limiter!Next, Limiter!Check
  <2>4. ASSUME NEW c \in Conns, NEW r \in Requests, Arrive(c, r)
        PROVE  [Limiter!Next]_Limiter!limiter_vars
    <3>1. CASE PassThrough(c, r)
      BY <2>2, <3>1 DEF PassThrough
    <3>2. CASE Forward(c, r)
      BY <2>3, <3>2, ThrottledKey DEF Forward
    <3>3. CASE Reject(c, r)
      BY <2>3, <3>3, ThrottledKey DEF Reject
    <3> QED BY <2>4, <3>1, <3>2, <3>3 DEF Arrive
  <2>5. ASSUME NEW c \in Conns, Answer(c)
        PROVE  [Limiter!Next]_Limiter!limiter_vars
    <3>1. PICK r : r = conn[c].request
      OBVIOUS
    <3>2. r \in Requests
      BY <2>1, <2>5, <3>1, InsideFacts DEF Answer
    <3>3. CASE Redirect(c)
      <4>1. CASE Throttled(r)
        <5>1. BucketKey(r) \in GateKeys /\ UnCount(r)
          BY <3>1, <3>2, <3>3, <4>1, ThrottledKey DEF Redirect
        <5> QED BY <2>2, <2>3, <5>1 DEF UnCount
      <4>2. CASE ~Throttled(r)
        BY <2>2, <3>1, <3>3, <4>2 DEF Redirect
      <4> QED BY <4>1, <4>2
    <3>4. CASE Handle(c)
      <4>1. CASE r.route = "refresh_insights" /\ RefreshBudget > 0
        <5>1. RefreshKey(r.user) \in GateKeys
          BY <3>2, <4>1, RefreshKeyed DEF Requests
        <5>2. Limiter!CheckAllowed(RefreshKey(r.user)) \/ Limiter!CheckRejected(RefreshKey(r.user))
          BY <3>1, <3>4, <4>1 DEF Handle
        <5> QED BY <2>3, <5>1, <5>2
      <4>2. CASE ~(r.route = "refresh_insights" /\ RefreshBudget > 0)
        BY <2>2, <3>1, <3>4, <4>2 DEF Handle
      <4> QED BY <4>1, <4>2
    <3> QED BY <2>5, <3>3, <3>4 DEF Answer
  <2>6. CASE Tick
    BY <2>6 DEF Tick, Limiter!Next
  <2>7. CASE UNCHANGED gate_vars
    BY <2>2, <2>7 DEF gate_vars, limiter_vars
  <2> QED BY <1>1, <2>4, <2>5, <2>6, <2>7 DEF Next
<1>2. Init => Limiter!Init
  BY DEF Init
<1> QED BY <1>1, <1>2, GateInvAlways, PTL DEF Spec, Limiter!Spec

(* The buckets of the middleware keep their budget, whatever refreshes     *)
(* draw from the same limiter: no host has more than BucketLimit hits of a *)
(* bucket, less the refunded, in any window (RateLimitMiddleware).         *)
THEOREM BucketBudget ==
  Spec => [](\A k \in GateKeys : k[1] \in Buckets => Limiter!WithinBudget(k))
<1>1. ASSUME GateInv, NEW k \in GateKeys, k[1] \in Buckets PROVE Limiter!WithinBudget(k)
  <2>1. LimiterProofs!KeyInv(k, hits[k], log[k], now)
    BY <1>1, GateFacts
  <2>2. k \in LimiterProofs!ShortKeys
    BY <1>1, GateTypes DEF LimiterProofs!ShortKeys
  <2>3. LimiterProofs!Spaced(log[k], GateLimit[k], GateWindow[k])
    BY <2>1, <2>2 DEF LimiterProofs!KeyInv
  <2> QED BY <2>3 DEF LimiterProofs!Spaced, Limiter!WithinBudget, Limiter!Spaced
<1>2. GateInv => \A k \in GateKeys : k[1] \in Buckets => Limiter!WithinBudget(k)
  BY <1>1
<1> QED BY <1>2, GateInvAlways, PTL
=============================================================================
