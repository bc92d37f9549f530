--------------------------- MODULE EventBusProofs ---------------------------
(***************************************************************************)
(* Theorems about EventBus, for every set of users and streams, every      *)
(* capacity of the queues and any number of events.                        *)
(***************************************************************************)
EXTENDS EventBus, SequenceTheorems, TLAPS

(***************************************************************************)
(* Sequences of events                                                     *)
(***************************************************************************)

(* Appending e adds e to the elements and nothing else.                    *)
LEMMA ElementsAppend ==
  ASSUME NEW S, NEW q \in Seq(S), NEW e \in S
  PROVE  Elements(Append(q, e)) = Elements(q) \cup {e}
<1>1. /\ Len(q) \in Nat /\ Len(Append(q, e)) = Len(q) + 1
      /\ \A i \in 1 .. Len(q) : Append(q, e)[i] = q[i]
      /\ Append(q, e)[Len(q) + 1] = e
  BY AppendProperties, LenProperties
<1> DEFINE a == Append(q, e)
           n == Len(q)
<1> HIDE DEF a, n
<1>2. /\ n \in Nat /\ Len(a) = n + 1 /\ \A i \in 1 .. n : a[i] = q[i]
      /\ a[n + 1] = e
  BY <1>1 DEF a, n
<1>3. {a[i] : i \in 1 .. n + 1} = {q[i] : i \in 1 .. n} \cup {e}
  <2>1. 1 .. n + 1 = (1 .. n) \cup {n + 1}
    BY <1>2
  <2> QED BY <1>2, <2>1
<1> QED BY <1>2, <1>3 DEF Elements, a, n

LEMMA ElementsConcat ==
  ASSUME NEW S, NEW q \in Seq(S), NEW r \in Seq(S)
  PROVE  Elements(q \o r) = Elements(q) \cup Elements(r)
<1> DEFINE c == q \o r
           m == Len(q)
           n == Len(r)
<1>1. /\ m \in Nat /\ n \in Nat /\ Len(c) = m + n
      /\ \A i \in 1 .. m + n : c[i] = IF i <= m THEN q[i] ELSE r[i - m]
  BY ConcatProperties, LenProperties
<1> HIDE DEF c, m, n
<1>2. ASSUME NEW i \in 1 .. m + n PROVE c[i] \in Elements(q) \cup Elements(r)
  <2>1. CASE i <= m
    BY <1>1, <2>1 DEF Elements, m
  <2>2. CASE ~(i <= m)
    <3>1. i - m \in 1 .. n
      BY <1>1, <2>2
    <3> QED BY <1>1, <2>2, <3>1 DEF Elements, n
  <2> QED BY <2>1, <2>2
<1>3. ASSUME NEW i \in 1 .. m PROVE q[i] \in Elements(c)
  <2>1. i \in 1 .. m + n /\ c[i] = q[i]
    BY <1>1
  <2> QED BY <1>1, <2>1 DEF Elements
<1>4. ASSUME NEW i \in 1 .. n PROVE r[i] \in Elements(c)
  <2>1. i + m \in 1 .. m + n /\ ~(i + m <= m) /\ (i + m) - m = i
    BY <1>1
  <2>2. c[i + m] = r[i]
    BY <1>1, <2>1
  <2> QED BY <1>1, <2>1, <2>2 DEF Elements
<1>5. Elements(c) \subseteq Elements(q) \cup Elements(r)
  BY <1>1, <1>2 DEF Elements
<1>6. Elements(q) \subseteq Elements(c) /\ Elements(r) \subseteq Elements(c)
  BY <1>3, <1>4 DEF Elements, m, n
<1> QED BY <1>5, <1>6 DEF c

(* An event later than all before it keeps the order.                      *)
LEMMA IncreasingAppend ==
  ASSUME NEW q \in Seq(Events), NEW e \in Events, Increasing(q),
         \A x \in Elements(q) : x.seq < e.seq
  PROVE  Increasing(Append(q, e))
<1>1. /\ Len(q) \in Nat /\ Len(Append(q, e)) = Len(q) + 1
      /\ \A i \in 1 .. Len(q) : Append(q, e)[i] = q[i]
      /\ Append(q, e)[Len(q) + 1] = e
  BY AppendProperties, LenProperties
<1>2. \A i \in 1 .. Len(q) : q[i].seq < e.seq
  BY DEF Elements
<1> QED BY <1>1, <1>2 DEF Increasing

(* Handing the head of the queue on leaves the whole as it is.             *)
LEMMA HeadMoves ==
  ASSUME NEW S, NEW r \in Seq(S), NEW q \in Seq(S), q # << >>
  PROVE  /\ <<Head(q)>> \in Seq(S) /\ Tail(q) \in Seq(S)
         /\ (r \o <<Head(q)>>) \o Tail(q) = r \o q
<1>1. Len(q) \in Nat \ {0} /\ Head(q) \in S /\ Tail(q) \in Seq(S)
  BY EmptySeq, HeadTailProperties
<1>2. Head(q) = q[1] /\ Tail(q) = SubSeq(q, 2, Len(q))
  BY TailIsSubSeq
<1>3. <<Head(q)>> \o Tail(q) = q
  <2>1. 1 \in 1 .. Len(q) /\ Len(q) \in 1 .. Len(q)
    BY <1>1
  <2>2. SubSeq(q, 1, Len(q)) = <<q[1]>> \o SubSeq(q, 1 + 1, Len(q))
    BY <2>1, SubSeqRecursiveFirst
  <2>3. SubSeq(q, 1, Len(q)) = q
    BY SubSeqFull
  <2> QED BY <1>2, <2>2, <2>3
<1>4. <<Head(q)>> \in Seq(S)
  BY <1>1
<1> QED BY <1>1, <1>3, <1>4, ConcatAssociative

(* An event appended to the queue is appended to the whole.                *)
LEMMA AppendMoves ==
  ASSUME NEW S, NEW r \in Seq(S), NEW q \in Seq(S), NEW e \in S
  PROVE  r \o Append(q, e) = Append(r \o q, e)
<1>1. <<e>> \in Seq(S) /\ r \o q \in Seq(S)
  BY ConcatProperties
<1> QED BY <1>1, AppendIsConcat, ConcatAssociative

(* If the events since a are those of the pipeline r \o t and those        *)
(* dropped, and the pipeline is in order, then what is missing between two *)
(* consecutive events of r was dropped.                                    *)
LEMMA GapsFollow ==
  ASSUME NEW r \in Seq(Events), NEW t \in Seq(Events), Increasing(r \o t),
         NEW u, NEW a \in Nat, NEW b \in Nat, NEW D,
         {Event(u, n) : n \in (a + 1) .. b} = Elements(r \o t) \cup D,
         NEW i \in 1 .. Len(r) - 1, NEW n \in r[i].seq + 1 .. r[i + 1].seq - 1
  PROVE  Event(u, n) \in D
<1> DEFINE p == r \o t
<1>1. /\ p \in Seq(Events) /\ Len(r) \in Nat /\ Len(t) \in Nat
      /\ Len(p) = Len(r) + Len(t)
      /\ \A k \in 1 .. Len(r) : p[k] = r[k]
  BY ConcatProperties, LenProperties
<1> HIDE DEF p
<1>2. /\ i \in 1 .. Len(p) /\ i + 1 \in 1 .. Len(p)
      /\ p[i] = r[i] /\ p[i + 1] = r[i + 1]
  <2>1. i \in 1 .. Len(r) /\ i + 1 \in 1 .. Len(r)
    BY <1>1
  <2> QED BY <1>1, <2>1
<1>3. p[i] \in Elements(p) /\ p[i + 1] \in Elements(p)
  BY <1>2 DEF Elements
<1>4. \A e \in Elements(p) : e.seq \in (a + 1) .. b
  <2>1. Elements(p) \subseteq {Event(u, k) : k \in (a + 1) .. b}
    BY DEF p
  <2>2. \A k : Event(u, k).seq = k
    BY DEF Event
  <2> QED BY <2>1, <2>2
<1> DEFINE lo == p[i].seq
           hi == p[i + 1].seq
<1>5. lo \in (a + 1) .. b /\ hi \in (a + 1) .. b /\ n \in lo + 1 .. hi - 1
  BY <1>2, <1>3, <1>4
<1>6. \A k \in 1 .. Len(p) : /\ k <= i => p[k].seq <= lo
                             /\ k >= i + 1 => p[k].seq >= hi
  <2>1. \A j, l \in 1 .. Len(p) : j < l => p[j].seq < p[l].seq
    BY DEF Increasing, p
  <2>2. \A k \in 1 .. Len(p) : p[k].seq \in Nat
    BY <1>4 DEF Elements
  <2>3. ASSUME NEW k \in 1 .. Len(p)
        PROVE  (k <= i => p[k].seq <= lo) /\ (k >= i + 1 => p[k].seq >= hi)
    <3>1. k \in Nat /\ i \in Nat /\ p[k].seq \in Nat /\ lo \in Nat /\ hi \in Nat
      BY <1>1, <1>2, <2>2
    <3>2. /\ k < i => p[k].seq < lo
          /\ k = i => p[k].seq = lo
          /\ k = i + 1 => p[k].seq = hi
          /\ i + 1 < k => hi < p[k].seq
      BY <1>2, <2>1
    <3> DEFINE x == p[k].seq
    <3> HIDE DEF x, lo, hi
    <3>3. k \in Nat /\ i \in Nat /\ x \in Nat /\ lo \in Nat /\ hi \in Nat
      BY <3>1 DEF x
    <3>4. /\ k < i => x < lo
          /\ k = i => x = lo
          /\ k = i + 1 => x = hi
          /\ i + 1 < k => hi < x
      BY <3>2 DEF x
    <3>5. (k <= i => x <= lo) /\ (k >= i + 1 => x >= hi)
      BY <3>3, <3>4
    <3> QED BY <3>5 DEF x
  <2> QED BY <2>3
<1> HIDE DEF lo, hi
<1>7. n \in (a + 1) .. b /\ lo < n /\ n < hi
  BY <1>5
<1>8. Event(u, n) \in Elements(p) \cup D
  BY <1>7 DEF p
<1>9. ASSUME Event(u, n) \in Elements(p) PROVE FALSE
  <2>1. PICK k \in 1 .. Len(p) : p[k].seq = n
    BY <1>9 DEF Elements, Event
  <2>2. ~(n <= lo) /\ ~(n >= hi)
    BY <1>5, <1>7
  <2>3. ~(k <= i) /\ ~(k >= i + 1)
    BY <1>6, <2>1, <2>2
  <2> QED BY <1>1, <2>3
<1> QED BY <1>8, <1>9

-----------------------------------------------------------------------------
(***************************************************************************)
(* Typing                                                                  *)
(***************************************************************************)

LEMMA TypeInit == Init => TypeOK
  BY DEF Init, TypeOK, Phases

(* Typing is not inductive by itself: that a stream to be cleaned up has   *)
(* an owner is needed, or nothing would be said of the subscribers.        *)
LEMMA TypeStep == BusInv /\ [Next]_bus_vars => TypeOK'
<1> SUFFICES ASSUME BusInv, [Next]_bus_vars PROVE TypeOK'
  OBVIOUS
<1>0. TypeOK /\ \A s \in Streams : OwnedAt(s)
  BY DEF BusInv, StreamInv
<1> USE <1>0 DEF TypeOK
<1>1. ASSUME NEW u \in Users, Publish(u) PROVE TypeOK'
  <2> DEFINE e == Event(u, sequences[u] + 1)
  <2>1. e \in Events /\ sequences' \in [Users -> Nat]
    BY <1>1 DEF Publish, Event, Events
  <2>2. \A s \in Streams : Append(queue[s], e) \in Seq(Events)
    BY <2>1, AppendProperties
  <2> HIDE DEF e
  <2>3. queue' = [s \in Streams |-> IF s \in subscribers[u] /\ ~Full(s)
                                      THEN Append(queue[s], e) ELSE queue[s]]
    BY <1>1 DEF Publish, e
  <2>4. dropped' = [s \in Streams |-> IF s \in subscribers[u] /\ Full(s)
                                        THEN dropped[s] \cup {e} ELSE dropped[s]]
    BY <1>1 DEF Publish, e
  <2>5. queue' \in [Streams -> Seq(Events)] /\ dropped' \in [Streams -> SUBSET Events]
    BY <2>1, <2>2, <2>3, <2>4
  <2> QED BY <1>1, <2>1, <2>5 DEF Publish
<1>2. ASSUME NEW s \in Streams, NEW u \in Users, Connect(s, u) PROVE TypeOK'
  BY <1>2 DEF Connect, Goto, Subscribe, Phases
<1>3. ASSUME NEW s \in Streams, Start(s) PROVE TypeOK'
  BY <1>3 DEF Start, Goto, Phases
<1>4. ASSUME NEW s \in Streams, queue[s] # << >>, Yield(s),
             UNCHANGED <<subscribers, sequences, owner, dropped, start>>,
             received' \in [Streams -> Seq(Events)]
      PROVE  TypeOK'
  <2>1. <<Head(queue[s])>> \in Seq(Events) /\ Tail(queue[s]) \in Seq(Events)
    BY <1>4, HeadMoves, EmptySeq
  <2>2. /\ hand' = [hand EXCEPT ![s] = <<Head(queue[s])>>]
        /\ queue' = [queue EXCEPT ![s] = Tail(queue[s])]
        /\ phase' = [phase EXCEPT ![s] = "sending"]
    BY <1>4 DEF Yield, Goto
  <2> HIDE DEF Yield
  <2>3. hand' \in [Streams -> Seq(Events)] /\ queue' \in [Streams -> Seq(Events)]
    BY <2>1, <2>2
  <2>4. phase' \in [Streams -> Phases]
    BY <2>2 DEF Phases
  <2> QED BY <1>4, <2>3, <2>4
<1>5. ASSUME NEW s \in Streams, Sent(s) PROVE TypeOK'
  <2>1. received' \in [Streams -> Seq(Events)]
    <3>1. received[s] \o hand[s] \in Seq(Events)
      BY ConcatProperties
    <3>2. received' = [received EXCEPT ![s] = received[s] \o hand[s]]
      BY <1>5 DEF Sent
    <3> QED BY <3>1, <3>2
  <2>2. CASE queue[s] # << >> /\ Yield(s)
    BY <1>4, <1>5, <2>1, <2>2 DEF Sent
  <2>3. CASE /\ hand' = [hand EXCEPT ![s] = << >>]
             /\ Goto(s, "waiting")
             /\ UNCHANGED queue
    BY <1>5, <2>1, <2>3 DEF Sent, Goto, Phases
  <2> QED BY <1>5, <2>2, <2>3 DEF Sent
<1>6. ASSUME NEW s \in Streams, Take(s) PROVE TypeOK'
  BY <1>4, <1>6 DEF Take
<1>7. ASSUME NEW s \in Streams, Cleanup(s) PROVE TypeOK'
  <2>1. phase' \in [Streams -> Phases]
    BY <1>7 DEF Cleanup, Goto, Phases
  <2>2. PICK u \in Users : owner[s] = {u}
    BY <1>0, <1>7 DEF Cleanup, OwnedAt
  <2>3. subscribers' = [subscribers EXCEPT ![u] = @ \ {s}]
    BY <1>7, <2>2 DEF Cleanup, Unsubscribe
  <2> QED BY <1>0, <1>7, <2>1, <2>3 DEF Cleanup
<1>8. ASSUME NEW s \in Streams, KeepAlive(s) PROVE TypeOK'
  BY <1>8 DEF KeepAlive, Goto, Phases
<1>9. ASSUME NEW s \in Streams, Disconnect(s) PROVE TypeOK'
  BY <1>9 DEF Disconnect, Goto, Phases
<1>10. ASSUME NEW s \in Streams, Abandon(s) PROVE TypeOK'
  BY <1>10 DEF Abandon, Goto, Phases
<1>11. CASE UNCHANGED bus_vars
  BY <1>11 DEF bus_vars
<1> QED
  BY <1>1, <1>2, <1>3, <1>5, <1>6, <1>7, <1>8, <1>9, <1>10, <1>11 DEF Next, Step

-----------------------------------------------------------------------------
(***************************************************************************)
(* What a step does to one stream                                          *)
(***************************************************************************)

(* A stream whose own variables and registration a step leaves alone, and  *)
(* whose users' numbers too.                                               *)
LEMMA Untouched ==
  ASSUME NEW s \in Streams, StreamInv(s), sequences' = sequences,
         queue'[s] = queue[s], phase'[s] = phase[s], owner'[s] = owner[s],
         hand'[s] = hand[s], received'[s] = received[s],
         dropped'[s] = dropped[s], start'[s] = start[s],
         \A u \in Users : s \in subscribers'[u] <=> s \in subscribers[u]
  PROVE  StreamInv(s)'
<1>1. OwnedAt(s)'
  BY DEF StreamInv, OwnedAt
<1>2. Pipeline(s)' = Pipeline(s)
  BY DEF Pipeline
<1>3. PublishedAt(s)'
  BY <1>2 DEF StreamInv, PublishedAt
<1>4. AccountedAt(s)'
  BY <1>2 DEF StreamInv, AccountedAt, Since, Owns
<1>5. GapMeansDroppedAt(s)'
  BY DEF StreamInv, GapMeansDroppedAt
<1>6. RegisteredAt(s)'
  BY DEF StreamInv, RegisteredAt, Owns
<1> QED BY <1>1, <1>3, <1>4, <1>5, <1>6 DEF StreamInv

(* A stream that takes a step of its own after which its pipeline is what  *)
(* it was: it is typed, the accounting is untouched, and the gaps are what *)
(* the pipeline says when the stream was, and still is, open.              *)
LEMMA PipelineKept ==
  ASSUME TypeOK, TypeOK', NEW s \in Streams, StreamInv(s),
         phase[s] \in {"starting", "sending", "waiting"},
         phase'[s] \in {"sending", "waiting"},
         Pipeline(s)' = Pipeline(s), phase'[s] = "waiting" => hand'[s] = << >>,
         UNCHANGED <<subscribers, sequences, owner, dropped, start>>
  PROVE  StreamInv(s)'
<1>1. PICK u \in Users : owner[s] = {u} /\ start[s] <= sequences[u]
  BY DEF StreamInv, OwnedAt
<1>2. OwnedAt(s)'
  BY <1>1 DEF OwnedAt
<1>3. PublishedAt(s)'
  BY DEF StreamInv, PublishedAt
<1>4. AccountedAt(s)'
  BY DEF StreamInv, AccountedAt, Since, Owns
<1>5. GapMeansDroppedAt(s)'
  <2> DEFINE r == received'[s]
             t == hand'[s] \o queue'[s]
             a == start'[s]
             b == sequences'[u]
             D == dropped'[s]
  <2>1. r \in Seq(Events) /\ t \in Seq(Events) /\ a \in Nat /\ b \in Nat
    BY ConcatProperties DEF TypeOK
  <2>2. Pipeline(s)' = r \o t
    <3>1. /\ received'[s] \in Seq(Events) /\ hand'[s] \in Seq(Events)
          /\ queue'[s] \in Seq(Events)
      BY DEF TypeOK
    <3> DEFINE h == hand'[s]
               q == queue'[s]
    <3>2. r \in Seq(Events) /\ h \in Seq(Events) /\ q \in Seq(Events)
      BY <3>1
    <3> HIDE DEF r, t, h, q
    <3>3. (r \o h) \o q = r \o (h \o q)
      BY <3>2, ConcatAssociative
    <3> QED BY <3>3 DEF Pipeline, r, t, h, q
  <2>3. Increasing(r \o t) /\ {Event(u, n) : n \in (a + 1) .. b} = Elements(r \o t) \cup D
    BY <1>1, <1>4, <2>2 DEF AccountedAt, Owns, Since
  <2> HIDE DEF r, t, a, b, D
  <2>4. \A i \in 1 .. Len(r) - 1 : \A n \in r[i].seq + 1 .. r[i + 1].seq - 1 :
          Event(u, n) \in D
    BY <2>1, <2>3, GapsFollow
  <2> QED BY <1>1, <2>4 DEF GapMeansDroppedAt, r, D
<1>6. RegisteredAt(s)'
  BY DEF StreamInv, RegisteredAt, Owns
<1> QED BY <1>2, <1>3, <1>4, <1>5, <1>6 DEF StreamInv

(* A stream that is no longer open keeps what it has received, and loses   *)
(* at most the frame in its hand.                                          *)
LEMMA Leaves ==
  ASSUME TypeOK, TypeOK', NEW s \in Streams, StreamInv(s), phase[s] # "idle",
         phase'[s] \in {"closing", "abandoned", "closed"}, hand'[s] = << >>,
         UNCHANGED <<sequences, queue, owner, received, dropped, start>>,
         RegisteredAt(s)'
  PROVE  StreamInv(s)'
<1>1. OwnedAt(s)'
  BY DEF StreamInv, OwnedAt
<1>2. PublishedAt(s)'
  <2>1. Elements(Pipeline(s)') \subseteq Elements(Pipeline(s))
    <3> DEFINE r == received[s]
               h == hand[s]
               q == queue[s]
    <3>1. r \in Seq(Events) /\ h \in Seq(Events) /\ q \in Seq(Events)
      BY DEF TypeOK
    <3>2. Pipeline(s)' = r \o q /\ Pipeline(s) = (r \o h) \o q
      BY <3>1, ConcatEmptySeq DEF Pipeline
    <3> HIDE DEF r, h, q
    <3>3. /\ Elements(r \o q) = Elements(r) \cup Elements(q)
          /\ Elements((r \o h) \o q) = Elements(r) \cup Elements(h) \cup Elements(q)
      <4>1. r \o h \in Seq(Events) /\ Elements(r \o h) = Elements(r) \cup Elements(h)
        BY <3>1, ElementsConcat, ConcatProperties
      <4>2. Elements((r \o h) \o q) = Elements(r \o h) \cup Elements(q)
        <5> DEFINE c == r \o h
        <5>1. c \in Seq(Events)
          BY <4>1
        <5> HIDE DEF c
        <5>2. Elements(c \o q) = Elements(c) \cup Elements(q)
          BY <3>1, <5>1, ElementsConcat
        <5> QED BY <5>2 DEF c
      <4>3. Elements(r \o q) = Elements(r) \cup Elements(q)
        BY <3>1, ElementsConcat
      <4> QED BY <4>1, <4>2, <4>3
    <3> QED BY <3>2, <3>3
  <2> QED BY <2>1 DEF StreamInv, PublishedAt
<1>3. AccountedAt(s)'
  BY DEF AccountedAt
<1>4. GapMeansDroppedAt(s)'
  BY DEF StreamInv, GapMeansDroppedAt
<1> QED BY <1>1, <1>2, <1>3, <1>4 DEF StreamInv

-----------------------------------------------------------------------------
(***************************************************************************)
(* The actions                                                             *)
(***************************************************************************)

(* The streams registered with the user get the event or drop it, the      *)
(* others see at most a number go up that does not concern them.           *)
LEMMA PublishStep ==
  ASSUME TypeOK, TypeOK', NEW s \in Streams, StreamInv(s), NEW u \in Users, Publish(u)
  PROVE  StreamInv(s)'
<1> DEFINE e == Event(u, sequences[u] + 1)
<1>1. /\ sequences[u] \in Nat
      /\ sequences' = [sequences EXCEPT ![u] = @ + 1]
      /\ UNCHANGED <<subscribers, phase, owner, hand, received, start>>
      /\ queue'[s] = IF s \in subscribers[u] /\ ~Full(s)
                       THEN Append(queue[s], e) ELSE queue[s]
      /\ dropped'[s] = IF s \in subscribers[u] /\ Full(s)
                         THEN dropped[s] \cup {e} ELSE dropped[s]
  BY DEF Publish, TypeOK
<1>2. /\ received[s] \in Seq(Events) /\ hand[s] \in Seq(Events)
      /\ queue[s] \in Seq(Events) /\ e \in Events /\ start[s] \in Nat
      /\ e.user = u /\ e.seq = sequences[u] + 1
  BY <1>1 DEF TypeOK, Event, Events
<1>3. \A v \in Users : sequences'[v] = IF v = u THEN sequences[v] + 1 ELSE sequences[v]
  BY <1>1 DEF TypeOK
<1>4. sequences[u] + 1 = sequences'[u] /\ \A v \in Users : sequences[v] \in Nat
  BY <1>1, <1>3 DEF TypeOK
<1> HIDE DEF e
<1>5. RegisteredAt(s)'
  BY <1>1 DEF StreamInv, RegisteredAt, Owns
<1>6. GapMeansDroppedAt(s)'
  BY <1>1 DEF StreamInv, GapMeansDroppedAt
<1>7. CASE s \notin subscribers[u]
  <2>1. UNCHANGED <<queue[s], dropped[s]>> /\ Pipeline(s)' = Pipeline(s)
    BY <1>1, <1>7 DEF Pipeline
  <2>2. OwnedAt(s)'
    <3>1. phase[s] # "idle" => \E v \in Users : owner[s] = {v} /\ start[s] <= sequences'[v]
      <4>1. SUFFICES ASSUME phase[s] # "idle"
                     PROVE  \E v \in Users : owner[s] = {v} /\ start[s] <= sequences'[v]
        OBVIOUS
      <4>2. PICK v \in Users : owner[s] = {v} /\ start[s] <= sequences[v]
        BY <4>1 DEF StreamInv, OwnedAt
      <4>3. start[s] <= sequences'[v]
        BY <1>2, <1>3, <1>4, <4>2
      <4> QED BY <4>2, <4>3
    <3> QED BY <1>1, <2>1, <3>1 DEF StreamInv, OwnedAt
  <2>3. PublishedAt(s)'
    <3>1. \A v \in owner[s] : v \in Users
      BY DEF TypeOK
    <3> QED BY <1>1, <1>3, <1>4, <2>1, <3>1 DEF StreamInv, PublishedAt
  <2>4. AccountedAt(s)'
    <3>1. phase[s] \in {"starting", "sending", "waiting"} => ~Owns(u, s)
      BY <1>7 DEF StreamInv, RegisteredAt
    <3> QED BY <1>1, <1>3, <2>1, <3>1 DEF StreamInv, AccountedAt, Since, Owns
  <2> QED BY <1>5, <1>6, <2>2, <2>3, <2>4 DEF StreamInv
<1>8. CASE s \in subscribers[u]
  <2>1. owner[s] = {u} /\ phase[s] # "idle" /\ start[s] <= sequences[u]
    BY <1>8 DEF StreamInv, RegisteredAt, OwnedAt, Owns
  <2>2. OwnedAt(s)'
    BY <1>1, <1>2, <1>4, <2>1 DEF StreamInv, OwnedAt
  <2>3. \A x \in Elements(Pipeline(s)) \cup dropped[s] :
          x.user = u /\ x.seq \in 1 .. sequences[u]
    BY <2>1 DEF StreamInv, PublishedAt
  <2>4. e \notin Elements(Pipeline(s)) \cup dropped[s]
    BY <1>2, <1>4, <2>3
  <2>5. Since(u, s)' = Since(u, s) \cup {e}
    <3>1. (start[s] + 1) .. sequences'[u] = ((start[s] + 1) .. sequences[u]) \cup {sequences'[u]}
      BY <1>2, <1>4, <2>1
    <3> QED BY <1>1, <1>4, <3>1 DEF Since, e
  <2>6. Elements(Pipeline(s)') \cup dropped'[s] = Elements(Pipeline(s)) \cup dropped[s] \cup {e}
        /\ (Elements(Pipeline(s)) \cap dropped[s] = {}
              => Elements(Pipeline(s)') \cap dropped'[s] = {})
        /\ (Increasing(Pipeline(s)) => Increasing(Pipeline(s)'))
    <3>1. CASE Full(s)
      <4>1. Pipeline(s)' = Pipeline(s) /\ dropped'[s] = dropped[s] \cup {e}
        BY <1>1, <1>8, <3>1 DEF Pipeline
      <4> QED BY <2>4, <4>1
    <3>2. CASE ~Full(s)
      <4>1. Pipeline(s)' = (received[s] \o hand[s]) \o Append(queue[s], e)
        BY <1>1, <1>8, <3>2 DEF Pipeline
      <4>2. received[s] \o hand[s] \in Seq(Events) /\ Pipeline(s) \in Seq(Events)
        BY <1>2, ConcatProperties DEF Pipeline
      <4>3. Pipeline(s)' = Append(Pipeline(s), e)
        <5> DEFINE c == received[s] \o hand[s]
        <5>1. c \in Seq(Events) /\ Pipeline(s) = c \o queue[s]
          BY <4>2 DEF Pipeline
        <5> DEFINE q == queue[s]
        <5>2. q \in Seq(Events) /\ e \in Events
          BY <1>2
        <5> HIDE DEF c, q
        <5>3. c \o Append(q, e) = Append(c \o q, e)
          BY <5>1, <5>2, AppendMoves
        <5> QED BY <4>1, <5>1, <5>3 DEF c, q
      <4>4. Elements(Pipeline(s)') = Elements(Pipeline(s)) \cup {e}
        BY <1>2, <4>2, <4>3, ElementsAppend
      <4>5. \A x \in Elements(Pipeline(s)) : x.seq < e.seq
        BY <1>2, <1>4, <2>3
      <4>6. Increasing(Pipeline(s)) => Increasing(Pipeline(s)')
        BY <1>2, <4>2, <4>3, <4>5, IncreasingAppend
      <4>7. dropped'[s] = dropped[s]
        BY <1>1, <3>2
      <4> QED BY <2>4, <4>4, <4>6, <4>7
    <3> QED BY <3>1, <3>2
  <2>7. PublishedAt(s)'
    <3>1. \A x \in Elements(Pipeline(s)') \cup dropped'[s] :
            x.user = u /\ x.seq \in 1 .. sequences'[u]
      BY <1>2, <1>4, <2>3, <2>6
    <3> QED BY <1>1, <2>1, <3>1 DEF PublishedAt
  <2>8. AccountedAt(s)'
    BY <1>1, <2>1, <2>5, <2>6 DEF StreamInv, AccountedAt, Owns
  <2> QED BY <1>5, <1>6, <2>2, <2>7, <2>8 DEF StreamInv
<1> QED BY <1>7, <1>8

LEMMA EmptyPipeline ==
  ASSUME NEW s \in Streams, received[s] = << >>, hand[s] = << >>, queue[s] = << >>
  PROVE  Pipeline(s) = << >> /\ Elements(Pipeline(s)) = {} /\ Increasing(Pipeline(s))
<1>1. Pipeline(s) = << >>
  BY EmptySeq, ConcatEmptySeq DEF Pipeline
<1> QED BY <1>1 DEF Elements, Increasing

LEMMA ConnectStep ==
  ASSUME TypeOK, TypeOK', NEW s \in Streams, StreamInv(s), NEW u \in Users, Connect(s, u)
  PROVE  StreamInv(s)'
<1>1. /\ phase[s] = "idle" /\ phase'[s] = "starting"
      /\ owner[s] = {} /\ owner'[s] = {u} /\ start'[s] = sequences[u]
      /\ subscribers' = [subscribers EXCEPT ![u] = @ \cup {s}]
      /\ UNCHANGED <<sequences, queue, hand, received, dropped>>
      /\ hand[s] = << >> /\ queue[s] = << >> /\ received[s] = << >> /\ dropped[s] = {}
  BY DEF Connect, Goto, Subscribe, TypeOK, StreamInv, OwnedAt
<1>2. Pipeline(s)' = Pipeline(s) /\ Elements(Pipeline(s)) = {} /\ Increasing(Pipeline(s))
  BY <1>1, EmptyPipeline DEF Pipeline
<1>3. OwnedAt(s)'
  BY <1>1 DEF OwnedAt, TypeOK
<1>4. PublishedAt(s)'
  BY <1>1, <1>2 DEF PublishedAt
<1>5. AccountedAt(s)'
  <2>1. \A v \in Users : Owns(v, s)' => v = u
    BY <1>1 DEF Owns
  <2>2. (start'[s] + 1) .. sequences'[u] = {}
    BY <1>1 DEF TypeOK
  <2>3. Since(u, s)' = {}
    BY <2>2 DEF Since
  <2> QED BY <1>1, <1>2, <2>1, <2>3 DEF AccountedAt
<1>6. GapMeansDroppedAt(s)'
  <2>1. Len(received'[s]) = 0
    BY <1>1, EmptySeq
  <2> QED BY <2>1 DEF GapMeansDroppedAt
<1>7. RegisteredAt(s)'
  BY <1>1 DEF StreamInv, RegisteredAt, Owns, TypeOK
<1> QED BY <1>3, <1>4, <1>5, <1>6, <1>7 DEF StreamInv

(* What an action of stream s does to s itself.                            *)
LEMMA OwnStep ==
  ASSUME TypeOK, TypeOK', NEW s \in Streams, StreamInv(s),
         Step(s) \/ KeepAlive(s) \/ Disconnect(s) \/ Abandon(s)
  PROVE  StreamInv(s)'
<1>0. /\ received[s] \in Seq(Events) /\ hand[s] \in Seq(Events)
      /\ queue[s] \in Seq(Events)
  BY DEF TypeOK
<1>1. CASE Start(s) \/ KeepAlive(s)
  <2>1. /\ phase[s] \in {"starting", "waiting"} /\ phase'[s] = "sending"
        /\ UNCHANGED <<subscribers, sequences, queue, owner, hand, received, dropped, start>>
    BY <1>1 DEF Start, KeepAlive, Goto, TypeOK
  <2>2. Pipeline(s)' = Pipeline(s)
    BY <2>1 DEF Pipeline
  <2> QED BY <2>1, <2>2, PipelineKept
<1>2. CASE Sent(s)
  <2>1. /\ phase[s] = "sending" /\ received'[s] = received[s] \o hand[s]
        /\ UNCHANGED <<subscribers, sequences, owner, dropped, start>>
    BY <1>2 DEF Sent, TypeOK
  <2>2. CASE queue[s] # << >> /\ Yield(s)
    <3>1. phase'[s] = "sending" /\ hand'[s] = <<Head(queue[s])>> /\ queue'[s] = Tail(queue[s])
      BY <2>2 DEF Yield, Goto, TypeOK
    <3>2. Pipeline(s)' = Pipeline(s)
      <4> DEFINE c == received[s] \o hand[s]
                 q == queue[s]
      <4>1. c \in Seq(Events) /\ q \in Seq(Events) /\ q # << >>
        BY <1>0, <2>2, ConcatProperties
      <4>2. Pipeline(s) = c \o q /\ Pipeline(s)' = (c \o <<Head(q)>>) \o Tail(q)
        BY <2>1, <3>1 DEF Pipeline
      <4> HIDE DEF c, q
      <4> QED BY <4>1, <4>2, HeadMoves
    <3> QED BY <2>1, <3>1, <3>2, PipelineKept
  <2>3. CASE /\ queue[s] = << >> /\ hand' = [hand EXCEPT ![s] = << >>]
             /\ Goto(s, "waiting") /\ UNCHANGED queue
    <3>1. phase'[s] = "waiting" /\ hand'[s] = << >> /\ queue'[s] = << >>
      BY <2>3 DEF Goto, TypeOK
    <3>2. Pipeline(s)' = Pipeline(s)
      <4> DEFINE c == received[s] \o hand[s]
      <4>1. c \in Seq(Events)
        BY <1>0, ConcatProperties
      <4>2. Pipeline(s) = c \o << >> /\ Pipeline(s)' = (c \o << >>) \o << >>
        BY <2>1, <2>3, <3>1 DEF Pipeline
      <4> HIDE DEF c
      <4>3. c \o << >> = c
        BY <4>1, ConcatEmptySeq
      <4> QED BY <4>2, <4>3
    <3> QED BY <2>1, <3>1, <3>2, PipelineKept
  <2> QED BY <1>2, <2>2, <2>3 DEF Sent
<1>3. CASE Take(s)
  <2>1. /\ phase[s] = "waiting" /\ queue[s] # << >> /\ hand[s] = << >>
        /\ phase'[s] = "sending" /\ hand'[s] = <<Head(queue[s])>> /\ queue'[s] = Tail(queue[s])
        /\ UNCHANGED <<subscribers, sequences, owner, received, dropped, start>>
    BY <1>3 DEF Take, Yield, Goto, TypeOK, StreamInv, OwnedAt
  <2>2. Pipeline(s) = received[s] \o queue[s]
    BY <1>0, <2>1, ConcatEmptySeq DEF Pipeline
  <2>3. Pipeline(s)' = Pipeline(s)
    <3> DEFINE r == received[s]
               q == queue[s]
    <3>1. r \in Seq(Events) /\ q \in Seq(Events) /\ q # << >>
      BY <1>0, <2>1
    <3>2. Pipeline(s) = r \o q /\ Pipeline(s)' = (r \o <<Head(q)>>) \o Tail(q)
      BY <2>1, <2>2 DEF Pipeline
    <3> HIDE DEF r, q
    <3> QED BY <3>1, <3>2, HeadMoves
  <2> QED BY <2>1, <2>3, PipelineKept
<1>4. CASE Cleanup(s)
  <2>1. /\ phase[s] = "closing" /\ phase'[s] = "closed" /\ hand[s] = << >>
        /\ UNCHANGED <<sequences, queue, owner, hand, received, dropped, start>>
    BY <1>4 DEF Cleanup, Goto, TypeOK, StreamInv, OwnedAt
  <2>2. PICK u \in Users : owner[s] = {u}
    BY <2>1 DEF StreamInv, OwnedAt
  <2>3. subscribers' = [subscribers EXCEPT ![u] = @ \ {s}]
    BY <1>4, <2>2 DEF Cleanup, Unsubscribe
  <2>4. RegisteredAt(s)'
    BY <2>1, <2>2, <2>3 DEF StreamInv, RegisteredAt, Owns, TypeOK
  <2> QED BY <2>1, <2>4, Leaves
<1>5. CASE Disconnect(s) \/ Abandon(s)
  <2>1. /\ phase[s] \in {"starting", "sending", "waiting"}
        /\ phase'[s] \in {"closing", "abandoned"} /\ hand'[s] = << >>
        /\ UNCHANGED <<subscribers, sequences, queue, owner, received, dropped, start>>
    BY <1>5 DEF Disconnect, Abandon, Goto, TypeOK, StreamInv, OwnedAt
  <2>2. RegisteredAt(s)'
    BY <2>1 DEF StreamInv, RegisteredAt, Owns
  <2> QED BY <2>1, <2>2, Leaves
<1> QED BY <1>1, <1>2, <1>3, <1>4, <1>5 DEF Step

(* What it leaves alone: every other stream.                               *)
LEMMA OthersStep ==
  ASSUME TypeOK, NEW s \in Streams, NEW x \in Streams, x # s, StreamInv(s), StreamInv(x),
         \/ Step(s) \/ KeepAlive(s) \/ Disconnect(s) \/ Abandon(s)
         \/ \E u \in Users : Connect(s, u)
  PROVE  StreamInv(x)'
<1>1. \A u \in Users : x \in subscribers'[u] <=> x \in subscribers[u]
  <2>1. CASE \E u \in Users : Connect(s, u)
    <3>1. PICK u \in Users : subscribers' = [subscribers EXCEPT ![u] = @ \cup {s}]
      BY <2>1 DEF Connect, Subscribe
    <3> QED BY <3>1 DEF TypeOK
  <2>2. CASE Cleanup(s)
    <3>1. PICK u \in Users : owner[s] = {u}
      BY <2>2 DEF Cleanup, StreamInv, OwnedAt
    <3>2. subscribers' = [subscribers EXCEPT ![u] = @ \ {s}]
      BY <2>2, <3>1 DEF Cleanup, Unsubscribe
    <3> QED BY <3>2 DEF TypeOK
  <2>3. CASE Start(s) \/ Sent(s) \/ Take(s) \/ KeepAlive(s) \/ Disconnect(s) \/ Abandon(s)
    BY <2>3 DEF Start, Sent, Take, KeepAlive, Disconnect, Abandon
  <2> QED BY <2>1, <2>2, <2>3 DEF Step
<1>2. /\ sequences' = sequences /\ dropped' = dropped
      /\ queue'[x] = queue[x] /\ phase'[x] = phase[x] /\ owner'[x] = owner[x]
      /\ hand'[x] = hand[x] /\ received'[x] = received[x] /\ start'[x] = start[x]
  BY DEF Step, Start, Sent, Take, Cleanup, KeepAlive, Disconnect, Abandon, Connect,
         Yield, Goto, TypeOK
<1> QED BY <1>1, <1>2, Untouched

-----------------------------------------------------------------------------
(***************************************************************************)
(* The theorems                                                            *)
(***************************************************************************)

LEMMA BusInit == Init => BusInv
<1> SUFFICES ASSUME Init PROVE BusInv
  OBVIOUS
<1>1. TypeOK
  BY TypeInit
<1>2. ASSUME NEW s \in Streams PROVE StreamInv(s)
  <2>1. /\ phase[s] = "idle" /\ owner[s] = {} /\ dropped[s] = {}
        /\ queue[s] = << >> /\ hand[s] = << >> /\ received[s] = << >>
        /\ \A u \in Users : subscribers[u] = {}
    BY DEF Init
  <2>2. Elements(Pipeline(s)) = {}
    BY <2>1, EmptyPipeline
  <2> QED BY <2>1, <2>2 DEF StreamInv, OwnedAt, PublishedAt, AccountedAt,
                            GapMeansDroppedAt, RegisteredAt, Owns
<1> QED BY <1>1, <1>2 DEF BusInv

LEMMA BusStep == BusInv /\ [Next]_bus_vars => BusInv'
<1> SUFFICES ASSUME BusInv, [Next]_bus_vars PROVE BusInv'
  OBVIOUS
<1>1. TypeOK /\ TypeOK' /\ \A s \in Streams : StreamInv(s)
  BY TypeStep DEF BusInv
<1>2. ASSUME NEW x \in Streams PROVE StreamInv(x)'
  <2>1. ASSUME NEW u \in Users, Publish(u) PROVE StreamInv(x)'
    BY <1>1, <2>1, PublishStep
  <2>2. ASSUME NEW s \in Streams, NEW u \in Users, Connect(s, u) PROVE StreamInv(x)'
    BY <1>1, <2>2, ConnectStep, OthersStep
  <2>3. ASSUME NEW s \in Streams, Step(s) \/ KeepAlive(s) \/ Disconnect(s) \/ Abandon(s)
        PROVE  StreamInv(x)'
    BY <1>1, <2>3, OwnStep, OthersStep
  <2>4. CASE UNCHANGED bus_vars
    BY <1>1, <2>4, Untouched DEF bus_vars
  <2> QED BY <2>1, <2>2, <2>3, <2>4 DEF Next
<1> QED BY <1>1, <1>2 DEF BusInv

LEMMA BusInvariant == Spec => []BusInv
  BY BusInit, BusStep, PTL DEF Spec

(* Every reachable state is well typed.                                    *)
THEOREM BusTyped == Spec => []TypeOK
<1>1. BusInv => TypeOK
  BY DEF BusInv
<1> QED BY <1>1, BusInvariant, PTL

(* Every event of a user since a stream connected is in the stream's       *)
(* pipeline, in order and once, or was dropped by its full queue (publish, *)
(* event_stream).                                                          *)
THEOREM EverythingAccounted == Spec => []Accounted
<1>1. BusInv => Accounted
  BY DEF BusInv, StreamInv, Accounted
<1> QED BY <1>1, BusInvariant, PTL

(* A jump in the numbers a client sees is exactly what was dropped (the    *)
(* promise of events.py).                                                  *)
THEOREM GapsAreDrops == Spec => []GapMeansDropped
<1>1. BusInv => GapMeansDropped
  BY DEF BusInv, StreamInv, GapMeansDropped
<1> QED BY <1>1, BusInvariant, PTL

(* A stream whose client is there is registered with its owner; with       *)
(* anyone else, or after its clean-up, no stream is (subscribe,            *)
(* unsubscribe).                                                           *)
THEOREM Registered == Spec => []RegisteredWhileOpen
<1>1. BusInv => RegisteredWhileOpen
  BY DEF BusInv, StreamInv, RegisteredWhileOpen
<1> QED BY <1>1, BusInvariant, PTL
=============================================================================
