--------------------- MODULE SlidingWindowLimiterProofs ---------------------
(***************************************************************************)
(* Theorems about SlidingWindowLimiter, for every set of keys and every    *)
(* limits, windows and sweep cadence.                                      *)
(***************************************************************************)
EXTENDS SlidingWindowLimiter, SequenceTheorems, WellFoundedInduction, TLAPS

(***************************************************************************)
(* Pruning a deque                                                         *)
(***************************************************************************)

(* A nonempty set of naturals has a least element.                         *)
LEMMA LeastIndex ==
  ASSUME NEW T \in SUBSET Nat, T # {}
  PROVE  \E i \in T : \A j \in T : i <= j
<1>1. IsWellFoundedOn(OpToRel(<, Nat), Nat)
  BY NatLessThanWellFounded
<1>2. PICK i \in T : \A j \in T : <<j, i>> \notin OpToRel(<, Nat)
  BY <1>1, WFMin
<1>3. \A j \in T : ~(j < i)
  BY <1>2 DEF OpToRel
<1> QED BY <1>3

(* The popping loop stops somewhere: everything before FirstLive is at or  *)
(* before the cutoff, and the hit it stops at, if any, is after it.        *)
LEMMA FirstLiveFacts ==
  ASSUME NEW h \in Seq(Nat), NEW cutoff \in Int
  PROVE  /\ FirstLive(h, cutoff) \in 1 .. Len(h) + 1
         /\ \A j \in 1 .. FirstLive(h, cutoff) - 1 : h[j] <= cutoff
         /\ FirstLive(h, cutoff) <= Len(h) => h[FirstLive(h, cutoff)] > cutoff
<1> DEFINE T == {i \in 1 .. Len(h) + 1 : i <= Len(h) => h[i] > cutoff}
           P(i) == /\ \A j \in 1 .. i - 1 : h[j] <= cutoff
                   /\ i <= Len(h) => h[i] > cutoff
<1>1. Len(h) \in Nat /\ \A i \in 1 .. Len(h) : h[i] \in Nat
  BY LenProperties
<1>2. T \in SUBSET Nat /\ Len(h) + 1 \in T
  BY <1>1
<1>3. PICK m \in T : \A j \in T : m <= j
  BY <1>2, LeastIndex
<1>4. \A j \in 1 .. m - 1 : h[j] <= cutoff
  <2>1. SUFFICES ASSUME NEW j \in 1 .. m - 1
                 PROVE  h[j] <= cutoff
    OBVIOUS
  <2>2. j \notin T /\ j \in 1 .. Len(h)
    BY <1>1, <1>3, <2>1
  <2> QED BY <1>1, <2>2
<1>5. \E i \in 1 .. Len(h) + 1 : P(i)
  BY <1>3, <1>4
<1>6. FirstLive(h, cutoff) = CHOOSE i \in 1 .. Len(h) + 1 : P(i)
  BY DEF FirstLive
<1>7. FirstLive(h, cutoff) \in 1 .. Len(h) + 1 /\ P(FirstLive(h, cutoff))
  BY <1>5, <1>6
<1> QED BY <1>7

(* Pruning removes a prefix of expired hits and nothing else.              *)
LEMMA PruneFacts ==
  ASSUME NEW h \in Seq(Nat), NEW cutoff \in Int
  PROVE  /\ Prune(h, cutoff) \in Seq(Nat)
         /\ Len(Prune(h, cutoff)) = Len(h) - FirstLive(h, cutoff) + 1
         /\ Len(Prune(h, cutoff)) <= Len(h)
         /\ \A i \in 1 .. Len(Prune(h, cutoff)) :
              Prune(h, cutoff)[i] = h[Len(h) - Len(Prune(h, cutoff)) + i]
         /\ \A j \in 1 .. Len(h) - Len(Prune(h, cutoff)) : h[j] <= cutoff
         /\ Prune(h, cutoff) # << >> => Prune(h, cutoff)[1] > cutoff
<1> DEFINE f == FirstLive(h, cutoff)
<1>1. Len(h) \in Nat /\ \A i \in 1 .. Len(h) : h[i] \in Nat
  BY LenProperties
<1>2. /\ f \in 1 .. Len(h) + 1
      /\ \A j \in 1 .. f - 1 : h[j] <= cutoff
      /\ f <= Len(h) => h[f] > cutoff
  BY FirstLiveFacts
<1> HIDE DEF f
<1>3. Prune(h, cutoff) = SubSeq(h, f, Len(h))
  BY DEF Prune, f
<1>4. /\ SubSeq(h, f, Len(h)) \in Seq(Nat)
      /\ Len(SubSeq(h, f, Len(h))) = Len(h) - f + 1
      /\ \A i \in 1 .. Len(h) - f + 1 : SubSeq(h, f, Len(h))[i] = h[f + i - 1]
  <2>1. f \in 1 .. Len(h) + 1 /\ Len(h) \in f - 1 .. Len(h) /\ f <= Len(h) + 1
    BY <1>1, <1>2
  <2> QED BY <2>1, SubSeqProperties
<1>5. Len(h) - (Len(h) - f + 1) = f - 1
  BY <1>1, <1>2
<1>6. SubSeq(h, f, Len(h)) # << >> => SubSeq(h, f, Len(h))[1] > cutoff
  <2>1. SUFFICES ASSUME SubSeq(h, f, Len(h)) # << >>
                 PROVE  SubSeq(h, f, Len(h))[1] > cutoff
    OBVIOUS
  <2>2. Len(h) - f + 1 # 0
    BY <1>4, <2>1, EmptySeq
  <2>3. f <= Len(h) /\ 1 \in 1 .. Len(h) - f + 1
    BY <1>1, <1>2, <2>2
  <2>4. SubSeq(h, f, Len(h))[1] = h[f]
    BY <1>1, <1>2, <1>4, <2>3
  <2> QED BY <1>2, <2>3, <2>4
<1> DEFINE p == Prune(h, cutoff)
<1>7. /\ p \in Seq(Nat)
      /\ Len(p) = Len(h) - f + 1
      /\ Len(p) <= Len(h)
      /\ p # << >> => p[1] > cutoff
  BY <1>1, <1>2, <1>3, <1>4, <1>6
<1>8. \A i \in 1 .. Len(p) : p[i] = h[Len(h) - Len(p) + i]
  <2>1. SUFFICES ASSUME NEW i \in 1 .. Len(p)
                 PROVE  p[i] = h[Len(h) - Len(p) + i]
    OBVIOUS
  <2>2. i \in 1 .. Len(h) - f + 1 /\ Len(h) - Len(p) + i = f + i - 1
    BY <1>1, <1>2, <1>7
  <2> QED BY <1>3, <1>4, <2>2
<1>9. \A j \in 1 .. Len(h) - Len(p) : h[j] <= cutoff
  BY <1>2, <1>5, <1>7
<1> QED BY <1>7, <1>8, <1>9 DEF f

-----------------------------------------------------------------------------
(***************************************************************************)
(* One deque h and the history g it is the end of                          *)
(***************************************************************************)

(* Pruning keeps the deque an end of the history, and what it pops at or   *)
(* before the cutoff of the key's own window has left that window.         *)
LEMMA PruneTracks ==
  ASSUME NEW h \in Seq(Nat), NEW g \in Seq(Nat), NEW w \in Nat, NEW t \in Nat,
         Tracks(h, g)
  PROVE  /\ Tracks(Prune(h, t - w), g)
         /\ Expired(h, g, w, t) => Expired(Prune(h, t - w), g, w, t)
<1> DEFINE p == Prune(h, t - w)
<1>1. /\ p \in Seq(Nat) /\ Len(p) <= Len(h)
      /\ \A i \in 1 .. Len(p) : p[i] = h[Len(h) - Len(p) + i]
      /\ \A j \in 1 .. Len(h) - Len(p) : h[j] <= t - w
  BY PruneFacts, t - w \in Int
<1>2. /\ Len(p) \in Nat /\ Len(h) \in Nat /\ Len(g) \in Nat
      /\ Len(h) <= Len(g)
      /\ \A i \in 1 .. Len(h) : h[i] = g[Len(g) - Len(h) + i]
      /\ \A i \in 1 .. Len(g) : g[i] \in Nat
  BY <1>1, LenProperties DEF Tracks
<1> HIDE DEF p
<1>3. Tracks(p, g)
  <2>1. Len(p) <= Len(g)
    BY <1>1, <1>2
  <2>2. ASSUME NEW i \in 1 .. Len(p)
        PROVE  p[i] = g[Len(g) - Len(p) + i]
    <3>1. Len(h) - Len(p) + i \in 1 .. Len(h)
      BY <1>1, <1>2
    <3>2. h[Len(h) - Len(p) + i] = g[Len(g) - Len(h) + (Len(h) - Len(p) + i)]
      BY <1>2, <3>1
    <3>3. Len(g) - Len(h) + (Len(h) - Len(p) + i) = Len(g) - Len(p) + i
      BY <1>2
    <3> QED BY <1>1, <3>2, <3>3
  <2> QED BY <2>1, <2>2 DEF Tracks
<1>4. ASSUME Expired(h, g, w, t), NEW i \in 1 .. Len(g) - Len(p)
      PROVE  g[i] + w <= t
  <2>1. CASE i \in 1 .. Len(g) - Len(h)
    BY <1>4, <2>1 DEF Expired
  <2>2. CASE i \notin 1 .. Len(g) - Len(h)
    <3>1. i - (Len(g) - Len(h)) \in 1 .. Len(h) - Len(p)
      BY <1>1, <1>2, <2>2
    <3>2. i - (Len(g) - Len(h)) \in 1 .. Len(h)
      BY <1>1, <1>2, <3>1
    <3>3. h[i - (Len(g) - Len(h))] = g[Len(g) - Len(h) + (i - (Len(g) - Len(h)))]
      BY <1>2, <3>2
    <3>4. Len(g) - Len(h) + (i - (Len(g) - Len(h))) = i
      BY <1>2
    <3>5. h[i - (Len(g) - Len(h))] <= t - w
      BY <1>1, <3>1
    <3>6. i \in 1 .. Len(g)
      BY <1>1, <1>2, <1>4
    <3>7. g[i] \in Nat /\ g[i] <= t - w
      BY <1>2, <3>3, <3>4, <3>5, <3>6
    <3> QED BY <3>7
  <2> QED BY <2>1, <2>2
<1>5. Expired(h, g, w, t) => Expired(p, g, w, t)
  BY <1>4 DEF Expired
<1> QED BY <1>3, <1>5 DEF p

(* Recording a hit now.                                                    *)
LEMMA AppendTracks ==
  ASSUME NEW h \in Seq(Nat), NEW g \in Seq(Nat), NEW t \in Nat,
         Tracks(h, g), Ordered(g, t)
  PROVE  /\ Tracks(Append(h, t), Append(g, t))
         /\ Ordered(Append(g, t), t)
         /\ \A w \in Nat : Expired(h, g, w, t)
                             => Expired(Append(h, t), Append(g, t), w, t)
<1>1. /\ Len(h) \in Nat /\ Len(g) \in Nat /\ Len(h) <= Len(g)
      /\ \A i \in 1 .. Len(h) : h[i] = g[Len(g) - Len(h) + i]
      /\ \A i \in 1 .. Len(g) : g[i] \in Nat
  BY LenProperties DEF Tracks
<1>2. /\ Len(Append(h, t)) = Len(h) + 1
      /\ \A i \in 1 .. Len(h) : Append(h, t)[i] = h[i]
      /\ Append(h, t)[Len(h) + 1] = t
      /\ Len(Append(g, t)) = Len(g) + 1
      /\ \A i \in 1 .. Len(g) : Append(g, t)[i] = g[i]
      /\ Append(g, t)[Len(g) + 1] = t
  BY AppendProperties
<1>3. Tracks(Append(h, t), Append(g, t))
  <2>1. ASSUME NEW i \in 1 .. Len(h) + 1
        PROVE  Append(h, t)[i] = Append(g, t)[(Len(g) + 1) - (Len(h) + 1) + i]
    <3>1. CASE i = Len(h) + 1
      <4>1. (Len(g) + 1) - (Len(h) + 1) + i = Len(g) + 1
        BY <1>1, <3>1
      <4> QED BY <1>2, <3>1, <4>1
    <3>2. CASE i # Len(h) + 1
      <4>1. i \in 1 .. Len(h) /\ Len(g) - Len(h) + i \in 1 .. Len(g)
        BY <1>1, <3>2
      <4>2. (Len(g) + 1) - (Len(h) + 1) + i = Len(g) - Len(h) + i
        BY <1>1
      <4> QED BY <1>1, <1>2, <4>1, <4>2
    <3> QED BY <3>1, <3>2
  <2>2. Len(Append(h, t)) <= Len(Append(g, t))
    BY <1>1, <1>2
  <2>3. \A i \in 1 .. Len(Append(h, t)) :
          Append(h, t)[i] = Append(g, t)[Len(Append(g, t)) - Len(Append(h, t)) + i]
    BY <1>2, <2>1
  <2> QED BY <2>2, <2>3 DEF Tracks
<1>4. Ordered(Append(g, t), t)
  BY <1>1, <1>2 DEF Ordered
<1>5. ASSUME NEW w \in Nat, Expired(h, g, w, t)
      PROVE  Expired(Append(h, t), Append(g, t), w, t)
  <2>1. (Len(g) + 1) - (Len(h) + 1) = Len(g) - Len(h)
    BY <1>1
  <2>2. \A i \in 1 .. Len(g) - Len(h) : i \in 1 .. Len(g)
    BY <1>1
  <2> QED BY <1>2, <1>5, <2>1, <2>2 DEF Expired
<1> QED BY <1>3, <1>4, <1>5

(* What is left of a sequence once its last element is taken off.          *)
LEMMA FrontFacts ==
  ASSUME NEW s \in Seq(Nat), s # << >>
  PROVE  /\ SubSeq(s, 1, Len(s) - 1) \in Seq(Nat)
         /\ Len(SubSeq(s, 1, Len(s) - 1)) = Len(s) - 1
         /\ \A i \in 1 .. Len(s) - 1 : SubSeq(s, 1, Len(s) - 1)[i] = s[i]
<1>1. Len(s) \in Nat \ {0} /\ \A i \in 1 .. Len(s) - 1 : s[i] \in Nat
  BY LenProperties, EmptySeq
<1> DEFINE m == Len(s) - 1
<1>2. m \in Nat /\ \A i \in 1 .. m : s[i] \in Nat
  BY <1>1
<1> HIDE DEF m
<1>3. /\ SubSeq(s, 1, m) \in Seq(Nat)
      /\ Len(SubSeq(s, 1, m)) = IF 1 <= m THEN m - 1 + 1 ELSE 0
      /\ \A i \in 1 .. m - 1 + 1 : SubSeq(s, 1, m)[i] = s[1 + i - 1]
  BY <1>2, SubSeqProperties
<1>4. /\ Len(SubSeq(s, 1, m)) = m
      /\ \A i \in 1 .. m : SubSeq(s, 1, m)[i] = s[i]
  <2>1. m - 1 + 1 = m /\ \A i \in 1 .. m : 1 + i - 1 = i
    BY <1>2
  <2> QED BY <1>2, <1>3, <2>1
<1> QED BY <1>3, <1>4 DEF m

(* Taking the latest hit back from both.                                   *)
LEMMA PopTracks ==
  ASSUME NEW h \in Seq(Nat), NEW g \in Seq(Nat), NEW t \in Nat,
         Tracks(h, g), Ordered(g, t), h # << >>
  PROVE  LET h1 == SubSeq(h, 1, Len(h) - 1)
             g1 == SubSeq(g, 1, Len(g) - 1)
         IN  /\ h1 \in Seq(Nat) /\ g1 \in Seq(Nat)
             /\ Len(h1) = Len(h) - 1 /\ Len(g1) = Len(g) - 1
             /\ g # << >>
             /\ \A i \in 1 .. Len(g1) : g1[i] = g[i]
             /\ Tracks(h1, g1)
             /\ Ordered(g1, t)
             /\ \A w \in Nat : Expired(h, g, w, t) => Expired(h1, g1, w, t)
<1> DEFINE h1 == SubSeq(h, 1, Len(h) - 1)
           g1 == SubSeq(g, 1, Len(g) - 1)
<1>1. /\ Len(h) \in Nat \ {0} /\ Len(g) \in Nat /\ Len(h) <= Len(g)
      /\ \A i \in 1 .. Len(h) : h[i] = g[Len(g) - Len(h) + i] /\ h[i] \in Nat
      /\ \A i \in 1 .. Len(g) : g[i] \in Nat
  BY LenProperties, EmptySeq DEF Tracks
<1>2. /\ h1 \in Seq(Nat) /\ Len(h1) = Len(h) - 1
      /\ \A i \in 1 .. Len(h) - 1 : h1[i] = h[i]
  BY FrontFacts
<1>4. g # << >>
  BY <1>1, EmptySeq
<1>3. /\ g1 \in Seq(Nat) /\ Len(g1) = Len(g) - 1
      /\ \A i \in 1 .. Len(g) - 1 : g1[i] = g[i]
  BY <1>4, FrontFacts
<1> HIDE DEF h1, g1
<1>5. Tracks(h1, g1)
  <2>1. ASSUME NEW i \in 1 .. Len(h) - 1
        PROVE  h1[i] = g1[(Len(g) - 1) - (Len(h) - 1) + i]
    <3>1. /\ (Len(g) - 1) - (Len(h) - 1) + i = Len(g) - Len(h) + i
          /\ Len(g) - Len(h) + i \in 1 .. Len(g) - 1
          /\ i \in 1 .. Len(h)
      BY <1>1
    <3> QED BY <1>1, <1>2, <1>3, <3>1
  <2> QED BY <1>1, <1>2, <1>3, <2>1 DEF Tracks
<1>6. Ordered(g1, t)
  <2>1. ASSUME NEW i \in 1 .. Len(g) - 1
        PROVE  g1[i] <= t /\ \A j \in 1 .. i : g1[j] <= g1[i]
    <3>1. i \in 1 .. Len(g) /\ \A j \in 1 .. i : j \in 1 .. Len(g) - 1
      BY <1>1
    <3>2. g[i] <= t /\ \A j \in 1 .. i : g[j] <= g[i]
      BY <3>1 DEF Ordered
    <3> QED BY <1>3, <3>1, <3>2
  <2> QED BY <1>3, <2>1 DEF Ordered
<1>7. ASSUME NEW w \in Nat, Expired(h, g, w, t)
      PROVE  Expired(h1, g1, w, t)
  <2>1. /\ (Len(g) - 1) - (Len(h) - 1) = Len(g) - Len(h)
        /\ \A i \in 1 .. Len(g) - Len(h) : i \in 1 .. Len(g) - 1
    BY <1>1
  <2> QED BY <1>2, <1>3, <1>7, <2>1 DEF Expired
<1> QED BY <1>2, <1>3, <1>4, <1>5, <1>6, <1>7 DEF h1, g1

(* Forgetting a stale deque altogether, with any cutoff that is no later   *)
(* than the one of the key's own window.                                   *)
LEMMA ForgetTracks ==
  ASSUME NEW h \in Seq(Nat), NEW g \in Seq(Nat), NEW t \in Nat, NEW w \in Nat,
         NEW cutoff \in Int, Tracks(h, g), Ordered(g, t), Stale(h, cutoff)
  PROVE  /\ Tracks(<< >>, g)
         /\ (Expired(h, g, w, t) /\ cutoff <= t - w) => Expired(<< >>, g, w, t)
<1>1. /\ Len(h) \in Nat /\ Len(g) \in Nat /\ Len(h) <= Len(g)
      /\ \A i \in 1 .. Len(h) : h[i] = g[Len(g) - Len(h) + i]
      /\ \A i \in 1 .. Len(g) : g[i] \in Nat
      /\ h # << >> => Len(h) # 0
  BY LenProperties, EmptySeq DEF Tracks
<1>2. Len(<< >>) = 0 /\ Tracks(<< >>, g)
  BY <1>1, EmptySeq DEF Tracks
<1>3. ASSUME Expired(h, g, w, t), cutoff <= t - w, NEW i \in 1 .. Len(g)
      PROVE  g[i] + w <= t
  <2>1. CASE h = << >>
    <3>1. i \in 1 .. Len(g) - Len(h)
      BY <1>1, <2>1, <1>2
    <3> QED BY <1>3, <3>1 DEF Expired
  <2>2. CASE h # << >>
    <3>1. h[Len(h)] = g[Len(g)] /\ Len(g) \in 1 .. Len(g)
      BY <1>1, <2>2
    <3>2. h[Len(h)] <= cutoff
      BY <2>2 DEF Stale
    <3>3. g[i] <= g[Len(g)]
      <4>1. i \in 1 .. Len(g)
        BY <1>3
      <4> QED BY <1>1, <3>1, <4>1 DEF Ordered
    <3>4. g[Len(g)] \in Nat /\ g[i] \in Nat
      BY <1>1, <1>3, <3>1
    <3>5. cutoff <= t - w
      BY <1>3
    <3> QED BY <3>1, <3>2, <3>3, <3>4, <3>5
  <2> QED BY <2>1, <2>2
<1> QED BY <1>1, <1>2, <1>3 DEF Expired

-----------------------------------------------------------------------------
(***************************************************************************)
(* The invariant of one key, and how each operation preserves it           *)
(***************************************************************************)
LEMMA KeyTypes ==
  ASSUME NEW k \in Keys
  PROVE  Limit[k] \in Nat \ {0} /\ Window[k] \in Nat \ {0}
BY LimiterAssumption

LEMMA KeyPrune ==
  ASSUME NEW k \in Keys, NEW h, NEW g, NEW t \in Nat, KeyInv(k, h, g, t)
  PROVE  KeyInv(k, Prune(h, t - Window[k]), g, t)
<1>1. h \in Seq(Nat) /\ g \in Seq(Nat) /\ Window[k] \in Nat /\ Limit[k] \in Nat
  BY KeyTypes DEF KeyInv
<1>2. /\ Prune(h, t - Window[k]) \in Seq(Nat)
      /\ Len(Prune(h, t - Window[k])) <= Len(h)
  BY <1>1, PruneFacts, t - Window[k] \in Int
<1>3. Len(Prune(h, t - Window[k])) <= Limit[k]
  BY <1>1, <1>2, LenProperties DEF KeyInv
<1>4. /\ Tracks(Prune(h, t - Window[k]), g)
      /\ Expired(h, g, Window[k], t)
           => Expired(Prune(h, t - Window[k]), g, Window[k], t)
  BY <1>1, PruneTracks DEF KeyInv
<1> QED BY <1>1, <1>2, <1>3, <1>4 DEF KeyInv

(* The hit that makes the history longer by one is a window later than the *)
(* one Limit[k] places before it, which the deque no longer holds.         *)
LEMMA SpacedAppend ==
  ASSUME NEW h \in Seq(Nat), NEW g \in Seq(Nat), NEW t \in Nat,
         NEW n \in Nat \ {0}, NEW w \in Nat,
         Tracks(h, g), Expired(h, g, w, t), Spaced(g, n, w), Len(h) < n
  PROVE  Spaced(Append(g, t), n, w)
<1>1. /\ Len(h) \in Nat /\ Len(g) \in Nat /\ Len(h) <= Len(g)
      /\ Len(Append(g, t)) = Len(g) + 1
      /\ \A i \in 1 .. Len(g) : Append(g, t)[i] = g[i]
      /\ Append(g, t)[Len(g) + 1] = t
  BY LenProperties, AppendProperties DEF Tracks
<1>1a. Len(h) \in Nat /\ Len(g) \in Nat /\ Len(h) < n
  BY <1>1
<1>2. ASSUME NEW i \in 1 .. Len(g) + 1 - n
      PROVE  Append(g, t)[i + n] >= Append(g, t)[i] + w
  <2> i \in Nat /\ i >= 1 /\ i + n <= Len(g) + 1
    BY <1>2, <1>1a
  <2>1. CASE i + n = Len(g) + 1
    <3>1. i \in 1 .. Len(g) - Len(h) /\ i \in 1 .. Len(g)
      BY <1>1a, <2>1
    <3>2. g[i] + w <= t
      BY <3>1 DEF Expired
    <3>3. g[i] \in Nat
      BY <3>1, LenProperties
    <3> QED BY <1>1, <2>1, <3>1, <3>2, <3>3
  <2>2. CASE i + n # Len(g) + 1
    <3>1. i + n <= Len(g)
      BY <1>1a, <2>2
    <3>2. i \in 1 .. Len(g) /\ i + n \in 1 .. Len(g)
      BY <1>1a, <3>1
    <3>3. i \in 1 .. Len(g) - n
      BY <1>1a, <3>1
    <3>4. g[i + n] >= g[i] + w
      BY <3>3 DEF Spaced
    <3> QED BY <1>1, <3>2, <3>4
  <2> QED BY <2>1, <2>2
<1>3. \A i \in 1 .. Len(Append(g, t)) - n :
        Append(g, t)[i + n] >= Append(g, t)[i] + w
  <2>1. Len(Append(g, t)) - n = Len(g) + 1 - n
    BY <1>1
  <2> QED BY <1>2, <2>1
<1> QED BY <1>3 DEF Spaced

LEMMA KeyAppend ==
  ASSUME NEW k \in Keys, NEW h, NEW g, NEW t \in Nat,
         KeyInv(k, h, g, t), Len(h) < Limit[k]
  PROVE  KeyInv(k, Append(h, t), Append(g, t), t)
<1>1. h \in Seq(Nat) /\ g \in Seq(Nat) /\ Tracks(h, g) /\ Ordered(g, t)
  BY DEF KeyInv
<1>2. Limit[k] \in Nat \ {0} /\ Window[k] \in Nat
  BY KeyTypes
<1>3. /\ Append(h, t) \in Seq(Nat) /\ Append(g, t) \in Seq(Nat)
      /\ Len(Append(h, t)) <= Limit[k]
  BY <1>1, <1>2, AppendProperties, LenProperties
<1>4. /\ Tracks(Append(h, t), Append(g, t))
      /\ Ordered(Append(g, t), t)
      /\ Expired(h, g, Window[k], t)
           => Expired(Append(h, t), Append(g, t), Window[k], t)
  BY <1>1, <1>2, AppendTracks
<1>5. k \in ShortKeys => Spaced(Append(g, t), Limit[k], Window[k])
  BY <1>1, <1>2, SpacedAppend DEF KeyInv
<1> QED BY <1>3, <1>4, <1>5 DEF KeyInv

LEMMA KeyPop ==
  ASSUME NEW k \in Keys, NEW h, NEW g, NEW t \in Nat,
         KeyInv(k, h, g, t), h # << >>
  PROVE  KeyInv(k, SubSeq(h, 1, Len(h) - 1), SubSeq(g, 1, Len(g) - 1), t)
<1> DEFINE h1 == SubSeq(h, 1, Len(h) - 1)
           g1 == SubSeq(g, 1, Len(g) - 1)
<1>1. h \in Seq(Nat) /\ g \in Seq(Nat) /\ Tracks(h, g) /\ Ordered(g, t)
  BY DEF KeyInv
<1>2. Limit[k] \in Nat /\ Window[k] \in Nat /\ Len(h) \in Nat /\ Len(g) \in Nat
  BY <1>1, KeyTypes, LenProperties
<1>3. /\ h1 \in Seq(Nat) /\ g1 \in Seq(Nat)
      /\ Len(h1) = Len(h) - 1 /\ Len(g1) = Len(g) - 1
      /\ \A i \in 1 .. Len(g1) : g1[i] = g[i]
      /\ Tracks(h1, g1) /\ Ordered(g1, t)
      /\ Expired(h, g, Window[k], t) => Expired(h1, g1, Window[k], t)
  BY <1>1, <1>2, PopTracks
<1> HIDE DEF h1, g1
<1>4. Len(h1) <= Limit[k]
  <2>1. Len(h) <= Limit[k]
    BY DEF KeyInv
  <2> QED BY <1>2, <1>3, <2>1
<1>5. ASSUME Spaced(g, Limit[k], Window[k])
      PROVE  Spaced(g1, Limit[k], Window[k])
  <2>1. ASSUME NEW i \in 1 .. Len(g1) - Limit[k]
        PROVE  g1[i + Limit[k]] >= g1[i] + Window[k]
    <3>1. /\ i \in 1 .. Len(g) - Limit[k]
          /\ i \in 1 .. Len(g1) /\ i + Limit[k] \in 1 .. Len(g1)
      <4>1. Len(g1) = Len(g) - 1
        BY <1>3
      <4>2. i \in Int /\ 1 <= i /\ i <= Len(g1) - Limit[k]
        BY <1>2, <2>1, <4>1
      <4> QED BY <1>2, <4>1, <4>2
    <3> QED BY <1>3, <1>5, <3>1 DEF Spaced
  <2> QED BY <2>1 DEF Spaced
<1>6. KeyInv(k, h1, g1, t)
  BY <1>3, <1>4, <1>5 DEF KeyInv
<1> QED BY <1>6 DEF h1, g1

(* A sweep may forget the deque of k when its cutoff comes from a window   *)
(* that is not shorter than that of k, or when k makes no promise.         *)
LEMMA KeyForget ==
  ASSUME NEW k \in Keys, NEW j \in Keys, NEW h, NEW g, NEW t \in Nat,
         KeyInv(k, h, g, t), Stale(h, t - Window[j])
  PROVE  KeyInv(k, << >>, g, t)
<1>1. h \in Seq(Nat) /\ g \in Seq(Nat) /\ Tracks(h, g) /\ Ordered(g, t)
  BY DEF KeyInv
<1>2. Limit[k] \in Nat /\ Window[k] \in Nat /\ Window[j] \in Nat
  BY KeyTypes
<1>3. t - Window[j] \in Int /\ (k \in ShortKeys => t - Window[j] <= t - Window[k])
  BY <1>2 DEF ShortKeys
<1>4. /\ Tracks(<< >>, g)
      /\ k \in ShortKeys => (Expired(h, g, Window[k], t)
                               => Expired(<< >>, g, Window[k], t))
  BY <1>1, <1>2, <1>3, ForgetTracks
<1>5. << >> \in Seq(Nat) /\ Len(<< >>) <= Limit[k]
  BY <1>2, EmptySeq
<1> QED BY <1>1, <1>4, <1>5 DEF KeyInv

LEMMA KeyLater ==
  ASSUME NEW k \in Keys, NEW h, NEW g, NEW t \in Nat, NEW u \in Nat, t <= u,
         KeyInv(k, h, g, t)
  PROVE  KeyInv(k, h, g, u)
<1>1. /\ h \in Seq(Nat) /\ Len(h) \in Nat
      /\ g \in Seq(Nat) /\ Len(g) \in Nat /\ Window[k] \in Nat
      /\ \A i \in 1 .. Len(g) : g[i] \in Nat
  BY KeyTypes, LenProperties DEF KeyInv
<1>2. Ordered(g, u)
  BY <1>1 DEF KeyInv, Ordered
<1>3. Expired(h, g, Window[k], t) => Expired(h, g, Window[k], u)
  <2>1. ASSUME Expired(h, g, Window[k], t), NEW i \in 1 .. Len(g) - Len(h)
        PROVE  g[i] + Window[k] <= u
    <3>1. i \in 1 .. Len(g) /\ g[i] + Window[k] <= t
      BY <1>1, <2>1 DEF Expired
    <3> QED BY <1>1, <3>1
  <2> QED BY <2>1 DEF Expired
<1> QED BY <1>2, <1>3 DEF KeyInv

LEMMA KeyFresh ==
  ASSUME NEW k \in Keys, NEW t \in Nat
  PROVE  KeyInv(k, << >>, << >>, t)
<1>1. << >> \in Seq(Nat) /\ Len(<< >>) = 0
  BY EmptySeq
<1>2. Limit[k] \in Nat \ {0}
  BY KeyTypes
<1> QED BY <1>1, <1>2 DEF KeyInv, Tracks, Ordered, Expired, Spaced

-----------------------------------------------------------------------------
(***************************************************************************)
(* The invariant of the limiter                                            *)
(***************************************************************************)

(* What a sweep leaves of one deque.                                       *)
LEMMA RecordFacts ==
  ASSUME NEW k \in Keys, NEW h \in Seq(Nat), hits \in [Keys -> Seq(Nat)],
         now \in Nat
  PROVE  LET r == [hits EXCEPT ![k] = Append(h, now)]
         IN  /\ Record(k, h) \in [Keys -> Seq(Nat)]
             /\ \A j \in Keys :
                  \/ Record(k, h)[j] = r[j]
                  \/ Record(k, h)[j] = << >> /\ Stale(r[j], now - Window[k])
<1> DEFINE r == [hits EXCEPT ![k] = Append(h, now)]
<1>1. r \in [Keys -> Seq(Nat)]
  BY AppendProperties
<1> HIDE DEF r
<1> DEFINE Left(j) == \/ Record(k, h)[j] = r[j]
                      \/ Record(k, h)[j] = << >> /\ Stale(r[j], now - Window[k])
<1>2. << >> \in Seq(Nat)
  BY EmptySeq
<1>3. ASSUME (checks + 1) % SweepEvery = 0
      PROVE  Record(k, h) \in [Keys -> Seq(Nat)] /\ \A j \in Keys : Left(j)
  <2>1. Record(k, h) = DropExpired(r, now - Window[k])
    BY <1>3 DEF Record, Cutoff, r
  <2> QED BY <1>1, <1>2, <2>1 DEF DropExpired
<1>4. ASSUME (checks + 1) % SweepEvery # 0
      PROVE  Record(k, h) \in [Keys -> Seq(Nat)] /\ \A j \in Keys : Left(j)
  <2>1. Record(k, h) = r
    BY <1>4 DEF Record, r
  <2> QED BY <1>1, <2>1
<1> QED BY <1>3, <1>4 DEF r

(* The seconds a refused caller is told are a natural number.              *)
LEMMA WholeSecondsNat ==
  ASSUME NEW d \in Int
  PROVE  WholeSeconds(d) \in Nat
<1>1. Second \in Nat \ {0}
  BY LimiterAssumption
<1>2. (d + Second - 1) \div Second \in Int
  BY <1>1
<1> QED BY <1>2 DEF WholeSeconds

(* The prune a check of k begins with leaves a deque that still satisfies  *)
(* the invariant of k.                                                     *)
LEMMA PrunedKeyInv ==
  ASSUME IInv, NEW k \in Keys
  PROVE  /\ Prune(hits[k], Cutoff(k)) \in Seq(Nat)
         /\ KeyInv(k, Prune(hits[k], Cutoff(k)), log[k], now)
<1>1. now \in Nat /\ KeyInv(k, hits[k], log[k], now)
  BY DEF IInv, TypeOK
<1>2. KeyInv(k, Prune(hits[k], now - Window[k]), log[k], now)
  BY <1>1, KeyPrune
<1> QED BY <1>2 DEF Cutoff, KeyInv

LEMMA InitInv == Init => IInv
<1> SUFFICES ASSUME Init PROVE IInv
  OBVIOUS
<1>1. << >> \in Seq(Nat)
  BY EmptySeq
<1>2. TypeOK
  BY <1>1, LimiterAssumption DEF Init, TypeOK, NoAnswer
<1>3. \A k \in Keys : KeyInv(k, hits[k], log[k], now)
  BY KeyFresh DEF Init
<1> QED BY <1>2, <1>3 DEF IInv

LEMMA AllowedInv ==
  ASSUME IInv, NEW k \in Keys, CheckAllowed(k)
  PROVE  IInv'
<1> DEFINE h == Prune(hits[k], Cutoff(k))
           r == [hits EXCEPT ![k] = Append(h, now)]
<1>1. /\ TypeOK /\ now \in Nat
      /\ \A j \in Keys : KeyInv(j, hits[j], log[j], now)
  BY DEF IInv, TypeOK
<1>2. h \in Seq(Nat) /\ KeyInv(k, h, log[k], now)
  BY PrunedKeyInv
<1>3. /\ Len(h) < Limit[k] /\ hits' = Record(k, h)
      /\ checks' = (checks + 1) % SweepEvery
      /\ answer' = [answer EXCEPT ![k] = [allowed |-> TRUE, retry |-> 0]]
      /\ log' = [log EXCEPT ![k] = Append(@, now)]
      /\ now' = now
  BY DEF CheckAllowed
<1> HIDE DEF h
<1>4. /\ hits' \in [Keys -> Seq(Nat)]
      /\ \A j \in Keys : \/ hits'[j] = r[j]
                         \/ hits'[j] = << >> /\ Stale(r[j], now - Window[k])
  BY <1>1, <1>2, <1>3, RecordFacts DEF TypeOK
<1>5. log' \in [Keys -> Seq(Nat)]
  BY <1>1, <1>3, AppendProperties DEF TypeOK
<1>6. TypeOK'
  BY <1>1, <1>3, <1>4, <1>5, LimiterAssumption DEF TypeOK
<1>7. ASSUME NEW j \in Keys
      PROVE  KeyInv(j, hits'[j], log'[j], now)
  <2>1. KeyInv(j, r[j], log'[j], now)
    <3>1. CASE j = k
      <4>1. KeyInv(k, Append(h, now), Append(log[k], now), now)
        BY <1>1, <1>2, <1>3, KeyAppend
      <4>2. r[k] = Append(h, now) /\ log'[k] = Append(log[k], now)
        BY <1>1, <1>3 DEF TypeOK
      <4> QED BY <3>1, <4>1, <4>2
    <3>2. CASE j # k
      <4>1. r[j] = hits[j] /\ log'[j] = log[j]
        BY <1>1, <1>3, <3>2 DEF TypeOK
      <4> QED BY <1>1, <4>1
    <3> QED BY <3>1, <3>2
  <2> HIDE DEF r
  <2>2. CASE hits'[j] = r[j]
    BY <2>1, <2>2
  <2>3. CASE hits'[j] = << >> /\ Stale(r[j], now - Window[k])
    BY <1>1, <2>1, <2>3, KeyForget
  <2> QED BY <1>4, <2>2, <2>3
<1>8. \A j \in Keys : KeyInv(j, hits'[j], log'[j], now')
  BY <1>3, <1>7
<1> QED BY <1>6, <1>8 DEF IInv

LEMMA RejectedInv ==
  ASSUME IInv, NEW k \in Keys, CheckRejected(k)
  PROVE  IInv'
<1> DEFINE h == Prune(hits[k], Cutoff(k))
<1>1. /\ TypeOK /\ now \in Nat
      /\ \A j \in Keys : KeyInv(j, hits[j], log[j], now)
  BY DEF IInv, TypeOK
<1>2. h \in Seq(Nat) /\ KeyInv(k, h, log[k], now)
  BY PrunedKeyInv
<1>3. /\ Len(h) >= Limit[k]
      /\ hits' = [hits EXCEPT ![k] = h]
      /\ answer' = [answer EXCEPT
                      ![k] = [allowed |-> FALSE, retry |-> RetryAfter(k, h)]]
      /\ log' = log /\ now' = now /\ checks' = checks
  BY DEF CheckRejected
<1> HIDE DEF h
<1>4. RetryAfter(k, h) \in Nat
  <2>1. Len(h) \in Nat \ {0}
    BY <1>2, <1>3, KeyTypes, LenProperties
  <2>2. h[1] \in Nat
    BY <1>2, <2>1, LenProperties
  <2>3. h[1] + Window[k] - now \in Int
    BY <1>1, <2>2, KeyTypes
  <2> QED BY <2>3, WholeSecondsNat DEF RetryAfter
<1>5. TypeOK'
  BY <1>1, <1>2, <1>3, <1>4 DEF TypeOK
<1>6. ASSUME NEW j \in Keys
      PROVE  KeyInv(j, hits'[j], log'[j], now')
  BY <1>1, <1>2, <1>3 DEF TypeOK
<1> QED BY <1>5, <1>6 DEF IInv

LEMMA RefundInv ==
  ASSUME IInv, NEW k \in Keys, Refund(k)
  PROVE  IInv'
<1> DEFINE h == SubSeq(hits[k], 1, Len(hits[k]) - 1)
           g == SubSeq(log[k], 1, Len(log[k]) - 1)
<1>1. /\ TypeOK /\ now \in Nat
      /\ \A j \in Keys : KeyInv(j, hits[j], log[j], now)
  BY DEF IInv, TypeOK
<1>2. /\ hits[k] # << >>
      /\ hits' = [hits EXCEPT ![k] = h]
      /\ log' = [log EXCEPT ![k] = g]
      /\ now' = now /\ checks' = checks /\ answer' = answer
  BY DEF Refund
<1>3. KeyInv(k, h, g, now)
  BY <1>1, <1>2, KeyPop
<1> HIDE DEF h, g
<1>4. h \in Seq(Nat) /\ g \in Seq(Nat)
  BY <1>3 DEF KeyInv
<1>5. TypeOK'
  BY <1>1, <1>2, <1>4 DEF TypeOK
<1>6. ASSUME NEW j \in Keys
      PROVE  KeyInv(j, hits'[j], log'[j], now')
  BY <1>1, <1>2, <1>3 DEF TypeOK
<1> QED BY <1>5, <1>6 DEF IInv

LEMMA ResetInv ==
  ASSUME IInv, Reset
  PROVE  IInv'
<1>1. TypeOK /\ now \in Nat /\ << >> \in Seq(Nat)
  BY EmptySeq DEF IInv, TypeOK
<1>2. TypeOK'
  BY <1>1 DEF TypeOK, Reset
<1>3. \A j \in Keys : KeyInv(j, hits'[j], log'[j], now')
  BY <1>1, KeyFresh DEF Reset
<1> QED BY <1>2, <1>3 DEF IInv

LEMMA TickInv ==
  ASSUME IInv, Tick
  PROVE  IInv'
<1>1. /\ TypeOK /\ now \in Nat
      /\ \A j \in Keys : KeyInv(j, hits[j], log[j], now)
  BY DEF IInv, TypeOK
<1>2. now' = now + 1 /\ UNCHANGED <<hits, checks, answer, log>>
  BY DEF Tick
<1>3. TypeOK'
  BY <1>1, <1>2 DEF TypeOK
<1>4. now + 1 \in Nat /\ now <= now + 1
  BY <1>1
<1>6. \A j \in Keys : KeyInv(j, hits[j], log[j], now + 1)
  BY <1>1, <1>4, KeyLater
<1>5. \A j \in Keys : KeyInv(j, hits'[j], log'[j], now')
  BY <1>2, <1>6
<1> QED BY <1>3, <1>5 DEF IInv

LEMMA NextInv == IInv /\ [Next]_limiter_vars => IInv'
<1> SUFFICES ASSUME IInv, [Next]_limiter_vars PROVE IInv'
  OBVIOUS
<1>1. ASSUME NEW k \in Keys, CheckAllowed(k) PROVE IInv'
  BY <1>1, AllowedInv
<1>2. ASSUME NEW k \in Keys, CheckRejected(k) PROVE IInv'
  BY <1>2, RejectedInv
<1>3. ASSUME NEW k \in Keys, Refund(k) PROVE IInv'
  BY <1>3, RefundInv
<1>4. CASE Reset
  BY <1>4, ResetInv
<1>5. CASE Tick
  BY <1>5, TickInv
<1>6. CASE UNCHANGED limiter_vars
  BY <1>6 DEF limiter_vars, IInv, TypeOK
<1> QED BY <1>1, <1>2, <1>3, <1>4, <1>5, <1>6 DEF Next, Check

LEMMA InvAlways == Spec => []IInv
<1>1. Init => IInv
  BY InitInv
<1>2. IInv /\ [Next]_limiter_vars => IInv'
  BY NextInv
<1> QED BY <1>1, <1>2, PTL DEF Spec

(* The limiter never leaves its types.                                     *)
THEOREM TypeCorrect == Spec => []TypeOK
<1>1. IInv => TypeOK
  BY DEF IInv
<1> QED BY <1>1, InvAlways, PTL

(* No operation invents, duplicates or reorders hits, and no deque         *)
(* outgrows its limit (check, refund, _drop_expired, reset).               *)
THEOREM HitsRecent == Spec => []HitsAreRecentLog
<1>1. IInv => HitsAreRecentLog
  BY DEF IInv, KeyInv, HitsAreRecentLog
<1> QED BY <1>1, InvAlways, PTL

(* For every number of keys, whatever windows they have and however often  *)
(* the limiter sweeps: a key with the shortest window never has more than  *)
(* Limit[k] counted hits in one window.                                    *)
THEOREM Budget == Spec => []ShortKeyBudget
<1>1. IInv => ShortKeyBudget
  BY DEF IInv, KeyInv, ShortKeyBudget, WithinBudget, ShortKeys
<1> QED BY <1>1, InvAlways, PTL

-----------------------------------------------------------------------------
(***************************************************************************)
(* The limiter implements the abstract sliding window                      *)
(***************************************************************************)

(* A check that admits finds fewer than Limit[k] admissions in the window. *)
LEMMA AdmitOnlyWithRoom ==
  ASSUME IInv, NEW k \in ShortKeys, Len(Prune(hits[k], Cutoff(k))) < Limit[k]
  PROVE  ~(/\ Len(log[k]) >= Limit[k]
           /\ log[k][Len(log[k]) - Limit[k] + 1] + Window[k] > now)
<1> DEFINE h == Prune(hits[k], Cutoff(k))
<1>1. k \in Keys
  BY DEF ShortKeys
<1>2. h \in Seq(Nat) /\ KeyInv(k, h, log[k], now)
  BY <1>1, PrunedKeyInv
<1>3. Len(h) < Limit[k]
  OBVIOUS
<1> HIDE DEF h
<1>4. /\ Len(h) \in Nat /\ Len(log[k]) \in Nat /\ Limit[k] \in Nat \ {0}
      /\ Window[k] \in Nat /\ now \in Nat
      /\ \A i \in 1 .. Len(log[k]) : log[k][i] \in Nat
  <2>1. log[k] \in Seq(Nat)
    BY <1>2 DEF KeyInv
  <2>2. now \in Nat /\ Limit[k] \in Nat \ {0} /\ Window[k] \in Nat
    BY <1>1, KeyTypes DEF IInv, TypeOK
  <2> QED BY <1>2, <2>1, <2>2, LenProperties
<1> SUFFICES ASSUME Len(log[k]) >= Limit[k]
             PROVE  ~(log[k][Len(log[k]) - Limit[k] + 1] + Window[k] > now)
  OBVIOUS
<1>5. /\ Len(log[k]) - Limit[k] + 1 \in 1 .. Len(log[k]) - Len(h)
      /\ Len(log[k]) - Limit[k] + 1 \in 1 .. Len(log[k])
  BY <1>3, <1>4
<1>6. log[k][Len(log[k]) - Limit[k] + 1] + Window[k] <= now
  BY <1>2, <1>5 DEF KeyInv, Expired
<1> DEFINE p == log[k][Len(log[k]) - Limit[k] + 1]
<1>7. p \in Nat /\ p + Window[k] <= now
  BY <1>4, <1>5, <1>6
<1> HIDE DEF p
<1>8. ~(p + Window[k] > now)
  BY <1>4, <1>7
<1> QED BY <1>8 DEF p

(* A check that refuses finds the window full, and the head of the deque   *)
(* is the admission whose expiry makes room again.                         *)
LEMMA RefuseOnlyWhenFull ==
  ASSUME IInv, NEW k \in Keys, Len(Prune(hits[k], Cutoff(k))) >= Limit[k]
  PROVE  /\ Len(log[k]) >= Limit[k]
         /\ Prune(hits[k], Cutoff(k))[1] = log[k][Len(log[k]) - Limit[k] + 1]
         /\ log[k][Len(log[k]) - Limit[k] + 1] + Window[k] > now
<1> DEFINE h == Prune(hits[k], Cutoff(k))
<1>1. h \in Seq(Nat) /\ KeyInv(k, h, log[k], now)
  BY PrunedKeyInv
<1>2. now \in Nat /\ Cutoff(k) \in Int /\ hits[k] \in Seq(Nat)
  BY KeyTypes DEF IInv, TypeOK, Cutoff
<1>3. h # << >> => h[1] > Cutoff(k)
  BY <1>2, PruneFacts
<1>4. Len(h) >= Limit[k]
  OBVIOUS
<1> HIDE DEF h
<1>5. /\ Len(h) \in Nat /\ Len(log[k]) \in Nat /\ Limit[k] \in Nat \ {0}
      /\ Window[k] \in Nat
      /\ \A i \in 1 .. Len(h) : h[i] \in Nat
  BY <1>1, KeyTypes, LenProperties DEF KeyInv
<1>6. Len(h) = Limit[k] /\ Len(h) <= Len(log[k]) /\ 1 \in 1 .. Len(h)
  BY <1>1, <1>4, <1>5 DEF KeyInv, Tracks
<1>7. h[1] = log[k][Len(log[k]) - Limit[k] + 1]
  <2>1. h[1] = log[k][Len(log[k]) - Len(h) + 1]
    BY <1>1, <1>6 DEF KeyInv, Tracks
  <2> QED BY <1>6, <2>1
<1>8. h[1] + Window[k] > now
  <2>1. h # << >>
    BY <1>5, <1>6, EmptySeq
  <2>2. h[1] > now - Window[k] /\ h[1] \in Nat
    BY <1>3, <1>5, <1>6, <2>1 DEF Cutoff
  <2> QED BY <1>2, <1>5, <2>2
<1> QED BY <1>6, <1>7, <1>8 DEF h

LEMMA StepSimulation ==
  IInv /\ [Next]_limiter_vars => [Abstract!Next]_(Abstract!sw_vars)
<1> DEFINE slog == [k \in ShortKeys |-> log[k]]
           sans == [k \in ShortKeys |-> answer[k]]
<1> SUFFICES ASSUME IInv, [Next]_limiter_vars
             PROVE  Abstract!Next \/ UNCHANGED <<now, slog, sans>>
  BY DEF Abstract!sw_vars
<1>1. TypeOK /\ now \in Nat /\ ShortKeys \subseteq Keys
  BY DEF IInv, TypeOK, ShortKeys
<1>2. ASSUME NEW k \in Keys, k \notin ShortKeys, Check(k) \/ Refund(k)
      PROVE  UNCHANGED <<now, slog, sans>>
  BY <1>1, <1>2 DEF Check, CheckAllowed, CheckRejected, Refund, TypeOK
<1>3. ASSUME NEW k \in ShortKeys, CheckAllowed(k)
      PROVE  Abstract!Admit(k)
  <2>1. Len(Prune(hits[k], Cutoff(k))) < Limit[k]
    BY <1>3 DEF CheckAllowed
  <2>2. ~Abstract!WindowFull(k)
    BY <2>1, AdmitOnlyWithRoom DEF Abstract!WindowFull, Abstract!Pivot
  <2>3. slog' = [slog EXCEPT ![k] = Append(@, now)]
    BY <1>1, <1>3 DEF CheckAllowed, TypeOK
  <2>4. sans' = [sans EXCEPT ![k] = Abstract!Admitted]
    BY <1>1, <1>3 DEF CheckAllowed, TypeOK, Abstract!Admitted
  <2> QED BY <1>3, <2>2, <2>3, <2>4 DEF Abstract!Admit, CheckAllowed
<1>4. ASSUME NEW k \in ShortKeys, CheckRejected(k)
      PROVE  Abstract!Refuse(k)
  <2> DEFINE h == Prune(hits[k], Cutoff(k))
             s == WholeSeconds(log[k][Len(log[k]) - Limit[k] + 1] + Window[k] - now)
  <2>1. Len(h) >= Limit[k]
    BY <1>4 DEF CheckRejected
  <2>2. Abstract!WindowFull(k)
    BY <1>1, <2>1, RefuseOnlyWhenFull DEF Abstract!WindowFull, Abstract!Pivot
  <2>3. RetryAfter(k, h) = s
    BY <1>1, <2>1, RefuseOnlyWhenFull DEF RetryAfter
  <2>4. answer' = [answer EXCEPT ![k] = [allowed |-> FALSE, retry |-> s]]
    BY <1>4, <2>3 DEF CheckRejected
  <2>5. Abstract!WholeSeconds(Abstract!Pivot(k) + Window[k] - now) = s
    BY DEF Abstract!WholeSeconds, WholeSeconds, Abstract!Pivot
  <2> HIDE DEF s
  <2>6. sans' = [sans EXCEPT ![k] = [allowed |-> FALSE, retry |-> s]]
    BY <1>1, <2>4 DEF TypeOK
  <2>7. now' = now /\ slog' = slog
    BY <1>4 DEF CheckRejected
  <2> QED BY <2>2, <2>5, <2>6, <2>7 DEF Abstract!Refuse, Abstract!Refused
<1>5. ASSUME NEW k \in ShortKeys, Refund(k)
      PROVE  Abstract!Withdraw(k)
  <2>1. KeyInv(k, hits[k], log[k], now) /\ hits[k] # << >>
    BY <1>1, <1>5 DEF IInv, Refund
  <2>2. log[k] # << >>
    BY <1>1, <2>1, PopTracks DEF KeyInv
  <2>3. slog' = [slog EXCEPT ![k] = SubSeq(@, 1, Len(@) - 1)]
    BY <1>1, <1>5 DEF Refund, TypeOK
  <2>4. now' = now /\ sans' = sans
    BY <1>5 DEF Refund
  <2> QED BY <2>2, <2>3, <2>4 DEF Abstract!Withdraw
<1>6. CASE Reset
  <2>1. slog' = [k \in ShortKeys |-> << >>] /\ now' = now /\ sans' = sans
    BY <1>1, <1>6 DEF Reset
  <2> QED BY <2>1 DEF Abstract!Next, Abstract!Forget
<1>7. CASE Tick
  <2>1. now' \in Nat /\ now' > now /\ slog' = slog /\ sans' = sans
    BY <1>1, <1>7 DEF Tick
  <2> QED BY <2>1 DEF Abstract!Next, Abstract!Advance
<1>8. CASE UNCHANGED limiter_vars
  BY <1>8 DEF limiter_vars
<1> QED BY <1>2, <1>3, <1>4, <1>5, <1>6, <1>7, <1>8
        DEF Next, Check, Abstract!Next

(* Whatever the other keys do, the limiter admits a shortest-window key    *)
(* exactly when its window has room, and tells a refused caller exactly    *)
(* when room returns.                                                      *)
THEOREM Implements == Spec => ImplementsSlidingWindow
<1>1. Init => Abstract!Init
  BY DEF Init, Abstract!Init, NoAnswer, Abstract!NoAnswer, ShortKeys
<1>2. IInv /\ [Next]_limiter_vars => [Abstract!Next]_(Abstract!sw_vars)
  BY StepSimulation
<1> QED BY <1>1, <1>2, InvAlways, PTL
        DEF Spec, ImplementsSlidingWindow, Abstract!Spec

-----------------------------------------------------------------------------
(***************************************************************************)
(* Retry-After                                                             *)
(***************************************************************************)

(* Rounding up to whole seconds: at least d, and less than d + 1 second.   *)
LEMMA WholeSecondsFacts ==
  ASSUME NEW d \in Nat \ {0}
  PROVE  LET s == WholeSeconds(d)
         IN  /\ s \in Nat \ {0}
             /\ s * Second >= d
             /\ (s - 1) * Second < d
<1> DEFINE q == (d + Second - 1) \div Second
<1>1. Second \in Nat \ {0}
  BY LimiterAssumption
<1>2. q \in Int /\ q * Second <= d + Second - 1 /\ d + Second - 1 < (q + 1) * Second
  BY <1>1
<1> HIDE DEF q
<1>3. q >= 1
  BY <1>1, <1>2
<1>4. q * Second >= d /\ (q - 1) * Second < d
  BY <1>1, <1>2
<1>5. WholeSeconds(d) = q
  BY <1>2, <1>3 DEF WholeSeconds, q
<1> QED BY <1>2, <1>3, <1>4, <1>5

(* A deque of at most n hits still holds n after pruning exactly when it   *)
(* held n and its head survives; then nothing was popped.                  *)
LEMMA PruneFull ==
  ASSUME NEW h \in Seq(Nat), NEW n \in Nat \ {0}, NEW c \in Int, Len(h) <= n
  PROVE  /\ Len(Prune(h, c)) >= n <=> (Len(h) = n /\ h[1] > c)
         /\ Len(Prune(h, c)) >= n => Prune(h, c) = h
<1> DEFINE f == FirstLive(h, c)
<1>1. Len(h) \in Nat /\ Prune(h, c) = SubSeq(h, f, Len(h))
  BY LenProperties DEF Prune
<1>2. /\ f \in 1 .. Len(h) + 1
      /\ \A j \in 1 .. f - 1 : h[j] <= c
      /\ f <= Len(h) => h[f] > c
      /\ Len(Prune(h, c)) = Len(h) - f + 1
  BY FirstLiveFacts, PruneFacts
<1>3. \A i \in 1 .. Len(h) : h[i] \in Nat
  BY LenProperties
<1> HIDE DEF f
<1>4. ASSUME Len(Prune(h, c)) >= n
      PROVE  Len(h) = n /\ h[1] > c /\ Prune(h, c) = h
  <2>1. f \in Int /\ 1 <= f /\ Len(h) - f + 1 >= n
    BY <1>1, <1>2, <1>4
  <2>2. f = 1 /\ Len(h) = n
    BY <1>1, <2>1
  <2>3. 1 <= Len(h)
    BY <2>2
  <2>4. SubSeq(h, 1, Len(h)) = h
    BY SubSeqFull
  <2> QED BY <1>1, <1>2, <2>2, <2>3, <2>4
<1>5. ASSUME Len(h) = n, h[1] > c
      PROVE  Len(Prune(h, c)) >= n
  <2>1. 1 \in 1 .. Len(h) /\ h[1] \in Nat
    BY <1>1, <1>3, <1>5
  <2>2. ~(1 \in 1 .. f - 1)
    <3>1. 1 \in 1 .. f - 1 => h[1] <= c
      BY <1>2
    <3> QED BY <1>5, <2>1, <3>1
  <2>3. f = 1
    BY <1>1, <1>2, <2>2
  <2> QED BY <1>1, <1>2, <1>5, <2>3
<1> QED BY <1>4, <1>5

(* The two halves of an honest Retry-After: waiting as told is enough, and *)
(* waiting a second less is not.                                           *)
THEOREM RetryHonest == Spec => []RetryAfterHonest
<1>1. ASSUME IInv, NEW k \in Keys, Len(LiveAt(k, now)) >= Limit[k],
             NEW r, r = RetryAfter(k, LiveAt(k, now))
      PROVE  /\ Len(LiveAt(k, now + r * Second)) < Limit[k]
             /\ r > 1 => Len(LiveAt(k, now + (r - 1) * Second)) >= Limit[k]
  <2>1. /\ hits[k] \in Seq(Nat) /\ Len(hits[k]) \in Nat
        /\ Len(hits[k]) <= Limit[k]
        /\ now \in Nat /\ Window[k] \in Nat \ {0} /\ Limit[k] \in Nat \ {0}
        /\ Second \in Nat \ {0}
    BY <1>1, KeyTypes, LenProperties, LimiterAssumption
       DEF IInv, KeyInv, TypeOK
  <2>2. \A t \in Int :
          /\ Len(LiveAt(k, t)) >= Limit[k]
               <=> (Len(hits[k]) = Limit[k] /\ hits[k][1] > t - Window[k])
          /\ Len(LiveAt(k, t)) >= Limit[k] => LiveAt(k, t) = hits[k]
    <3>1. SUFFICES ASSUME NEW t \in Int
          PROVE  /\ Len(LiveAt(k, t)) >= Limit[k]
                      <=> (Len(hits[k]) = Limit[k] /\ hits[k][1] > t - Window[k])
                 /\ Len(LiveAt(k, t)) >= Limit[k] => LiveAt(k, t) = hits[k]
      OBVIOUS
    <3>2. t - Window[k] \in Int
      BY <2>1
    <3> QED BY <2>1, <3>2, PruneFull DEF LiveAt
  <2>3. /\ Len(hits[k]) = Limit[k] /\ hits[k][1] > now - Window[k]
        /\ LiveAt(k, now) = hits[k]
    BY <1>1, <2>1, <2>2
  <2>4. hits[k][1] \in Nat
    BY <2>1, <2>3, LenProperties
  <2> DEFINE d == hits[k][1] + Window[k] - now
  <2>5. r = WholeSeconds(d) /\ d \in Nat \ {0}
    <3> DEFINE x == hits[k][1]
               y == Window[k]
    <3>a. x \in Nat /\ y \in Nat /\ now \in Nat /\ x > now - y /\ d = x + y - now
      BY <2>1, <2>3, <2>4
    <3> HIDE DEF d, x, y
    <3>1. d \in Nat \ {0}
      BY <3>a
    <3> USE DEF d
    <3>2. r = WholeSeconds(d)
      BY <1>1, <2>3 DEF RetryAfter
    <3> QED BY <3>1, <3>2
  <2>6. /\ r \in Nat \ {0}
        /\ r * Second >= d
        /\ (r - 1) * Second < d
    <3> HIDE DEF d
    <3> QED BY <2>5, WholeSecondsFacts
  <2>7. r * Second \in Int /\ (r - 1) * Second \in Int
    BY <2>1, <2>6
  <2>8. /\ now + r * Second \in Int /\ now + (r - 1) * Second \in Int
        /\ ~(hits[k][1] > now + r * Second - Window[k])
        /\ hits[k][1] > now + (r - 1) * Second - Window[k]
    BY <2>1, <2>4, <2>6, <2>7
  <2>9. \A t \in Int : Len(LiveAt(k, t)) \in Nat
    <3>1. SUFFICES ASSUME NEW t \in Int PROVE Len(LiveAt(k, t)) \in Nat
      OBVIOUS
    <3>2. t - Window[k] \in Int
      BY <2>1
    <3> QED BY <2>1, <3>2, PruneFacts, LenProperties DEF LiveAt
  <2> DEFINE u == now + r * Second
             v == now + (r - 1) * Second
  <2>10. /\ u \in Int /\ v \in Int
         /\ ~(hits[k][1] > u - Window[k])
         /\ hits[k][1] > v - Window[k]
    BY <2>1, <2>4, <2>7, <2>8
  <2> HIDE DEF u, v
  <2>11. Len(LiveAt(k, u)) < Limit[k]
    <3>1. ~(Len(LiveAt(k, u)) >= Limit[k])
      BY <2>2, <2>10
    <3>2. Len(LiveAt(k, u)) \in Nat
      BY <2>9, <2>10
    <3> QED BY <2>1, <3>1, <3>2
  <2>12. Len(LiveAt(k, v)) >= Limit[k]
    BY <2>2, <2>3, <2>10
  <2> QED BY <2>11, <2>12 DEF u, v
<1>2. IInv => RetryAfterHonest
  BY <1>1 DEF RetryAfterHonest
<1> QED BY <1>2, InvAlways, PTL
=============================================================================
