-------------------------- MODULE WorkflowsProofs --------------------------
(***************************************************************************)
(* Theorems about Workflows, for every set of users, requests and streams, *)
(* every queue capacity, every number of earlier assessments and every set *)
(* of edits.                                                               *)
(***************************************************************************)
EXTENDS Workflows, FiniteSetTheorems, SequenceTheorems, TLAPS

BusProofs == INSTANCE EventBusProofs

(***************************************************************************)
(* The bus                                                                 *)
(***************************************************************************)

LEMMA BusAssumed == BusProofs!BusAssumption
  BY WorkflowAssumption DEF BusProofs!BusAssumption

(* The bus of the workflows is the one of EventBusProofs.                  *)
LEMMA SameBusInit == Bus!Init => BusProofs!Init
  BY DEF Bus!Init, BusProofs!Init

LEMMA SameBusStep ==
  ASSUME \/ \E u \in Users : Bus!Publish(u)
         \/ \E s \in Streams : \/ \E u \in Users : Bus!Connect(s, u)
                               \/ Bus!Step(s) \/ Bus!KeepAlive(s) \/ Bus!Disconnect(s)
                               \/ Bus!Abandon(s)
         \/ UNCHANGED bus_vars
  PROVE  [BusProofs!Next]_BusProofs!bus_vars
<1>1. ASSUME NEW u \in Users, Bus!Publish(u) PROVE BusProofs!Publish(u)
  BY <1>1 DEF Bus!Publish, BusProofs!Publish, Bus!Event, BusProofs!Event, Bus!Full, BusProofs!Full
<1>2. ASSUME NEW s \in Streams, NEW u \in Users, Bus!Connect(s, u) PROVE BusProofs!Connect(s, u)
  BY <1>2 DEF Bus!Connect, BusProofs!Connect, Bus!Subscribe, BusProofs!Subscribe,
              Bus!Goto, BusProofs!Goto
<1>3. ASSUME NEW s \in Streams, Bus!Step(s) PROVE BusProofs!Step(s)
  BY <1>3 DEF Bus!Step, BusProofs!Step, Bus!Start, BusProofs!Start, Bus!Sent, BusProofs!Sent,
              Bus!Take, BusProofs!Take, Bus!Cleanup, BusProofs!Cleanup, Bus!Yield, BusProofs!Yield,
              Bus!Unsubscribe, BusProofs!Unsubscribe, Bus!Goto, BusProofs!Goto
<1>4. ASSUME NEW s \in Streams, Bus!KeepAlive(s) \/ Bus!Disconnect(s) \/ Bus!Abandon(s)
      PROVE  BusProofs!KeepAlive(s) \/ BusProofs!Disconnect(s) \/ BusProofs!Abandon(s)
  BY <1>4 DEF Bus!KeepAlive, BusProofs!KeepAlive, Bus!Disconnect, BusProofs!Disconnect,
              Bus!Abandon, BusProofs!Abandon, Bus!Goto, BusProofs!Goto
<1>5. CASE UNCHANGED bus_vars
  BY <1>5 DEF bus_vars, BusProofs!bus_vars
<1> QED BY <1>1, <1>2, <1>3, <1>4, <1>5 DEF BusProofs!Next

LEMMA SameBusInv == Bus!BusInv <=> BusProofs!BusInv
  BY DEF Bus!BusInv, BusProofs!BusInv, Bus!TypeOK, BusProofs!TypeOK, Bus!StreamInv,
         BusProofs!StreamInv, Bus!OwnedAt, BusProofs!OwnedAt, Bus!PublishedAt,
         BusProofs!PublishedAt, Bus!AccountedAt, BusProofs!AccountedAt, Bus!GapMeansDroppedAt,
         BusProofs!GapMeansDroppedAt, Bus!RegisteredAt, BusProofs!RegisteredAt, Bus!Owns,
         BusProofs!Owns, Bus!Since, BusProofs!Since, Bus!Event, BusProofs!Event, Bus!Events,
         BusProofs!Events, Bus!Pipeline, BusProofs!Pipeline, Bus!Elements, BusProofs!Elements,
         Bus!Increasing, BusProofs!Increasing, Bus!Phases, BusProofs!Phases

LEMMA BusInit == Bus!Init => Bus!BusInv
  BY SameBusInit, SameBusInv, BusAssumed, BusProofs!BusInit

LEMMA BusStays ==
  ASSUME Bus!BusInv,
         \/ \E u \in Users : Bus!Publish(u)
         \/ Stream
         \/ UNCHANGED bus_vars
  PROVE  Bus!BusInv'
<1>1. [BusProofs!Next]_BusProofs!bus_vars
  BY SameBusStep DEF Stream
<1>2. BusProofs!BusInv'
  BY <1>1, SameBusInv, BusAssumed, BusProofs!BusStep
<1>3. BusProofs!BusInv' => Bus!BusInv'
  BY SameBusInv, PTL
<1> QED BY <1>2, <1>3

(* Streams come and go without the workflows, and draw no number.          *)
LEMMA StreamAside == Stream => UNCHANGED <<rows, job, announced, sequences>>
  BY DEF Stream, Bus!Connect, Bus!Step, Bus!Start, Bus!Sent, Bus!Take, Bus!Cleanup,
         Bus!KeepAlive, Bus!Disconnect, Bus!Abandon

-----------------------------------------------------------------------------
(***************************************************************************)
(* The clock, ids and the newest assessment                                *)
(***************************************************************************)

(* A nonempty set of naturals with a bound has a greatest element.         *)
LEMMA Greatest ==
  ASSUME NEW T \in SUBSET Nat, T # {}, NEW n \in Nat, \A t \in T : t <= n
  PROVE  \E t \in T : \A s \in T : s <= t
<1> DEFINE D == {n - t : t \in T}
<1>1. D \subseteq Nat /\ D # {}
  <2>1. \A t \in T : n - t \in Nat
    OBVIOUS
  <2>2. PICK t \in T : TRUE
    OBVIOUS
  <2>3. n - t \in D
    OBVIOUS
  <2> QED BY <2>1, <2>3
<1>2. IsWellFoundedOn(OpToRel(<, Nat), Nat)
  BY NatLessThanWellFounded
<1>3. PICK d \in D : \A e \in D : <<e, d>> \notin OpToRel(<, Nat)
  BY <1>1, <1>2, WFMin
<1>4. \A e \in D : ~(e < d)
  BY <1>1, <1>3 DEF OpToRel
<1>5. PICK t \in T : d = n - t
  OBVIOUS
<1>6. ASSUME NEW s \in T PROVE s <= t
  <2>1. ~(n - s < n - t)
    BY <1>4, <1>5
  <2> QED BY <2>1
<1> QED BY <1>6

(* utcnow gives the next rank.                                             *)
LEMMA NowFacts ==
  ASSUME RowsInv
  PROVE  /\ Now \in Nat \ {0}
         /\ IsFiniteSet(Stamps \cup {Now})
         /\ Stamps \cup {Now} = 1 .. Cardinality(Stamps \cup {Now})
<1> DEFINE n == Cardinality(Stamps)
<1>1. n \in Nat /\ Stamps = 1 .. n /\ IsFiniteSet(Stamps)
  BY FS_CardinalityType DEF RowsInv
<1> HIDE DEF n
<1>2. n + 1 \in 1 .. n + 1 /\ \A s \in Stamps : n + 1 > s
  BY <1>1
<1>3. Now \in 1 .. n + 1 /\ \A s \in Stamps : Now > s
  BY <1>2 DEF Now, n
<1>4. Now = n + 1
  <2>1. CASE n = 0
    BY <1>1, <1>3, <2>1
  <2>2. CASE n # 0
    <3>1. n \in Stamps
      BY <1>1, <2>2
    <3>2. Now > n
      BY <1>3, <3>1
    <3> QED BY <1>1, <1>3, <3>2
  <2> QED BY <2>1, <2>2
<1>5. Stamps \cup {Now} = 1 .. n + 1
  BY <1>1, <1>4
<1>6. IsFiniteSet(1 .. n + 1) /\ Cardinality(1 .. n + 1) = n + 1
  BY <1>1, FS_Interval
<1> DEFINE T == Stamps \cup {Now}
<1>7. T = 1 .. n + 1
  BY <1>5
<1> HIDE DEF T
<1>8. IsFiniteSet(T) /\ T = 1 .. Cardinality(T)
  BY <1>6, <1>7
<1>9. Now \in Nat \ {0}
  BY <1>1, <1>4
<1> QED BY <1>8, <1>9 DEF T

LEMMA KindFinite ==
  ASSUME RowsInv, NEW k
  PROVE  /\ IsFiniteSet(OfKind(k)) /\ Cardinality(OfKind(k)) \in Nat
         /\ NextId(k) \in Nat \ {0}
         /\ \A x \in OfKind(k) : x.id \in Nat \ {0} /\ x.id < NextId(k)
<1>1. OfKind(k) \in SUBSET rows
  BY DEF OfKind
<1>2. IsFiniteSet(OfKind(k)) /\ Cardinality(OfKind(k)) \in Nat
  BY <1>1, FS_Subset, FS_CardinalityType DEF RowsInv
<1>3. \A x \in OfKind(k) : x.id \in Nat \ {0} /\ x.id <= Cardinality(OfKind(k))
  BY DEF RowsInv, OfKind
<1> QED BY <1>2, <1>3 DEF NextId

(* list_assessments puts an assessment first that no other is newer than.  *)
LEMMA NewestFacts ==
  ASSUME RowsInv, NEW u, Owned("assessment", u) # {}
  PROVE  \E x \in Owned("assessment", u) :
           /\ x.id = Newest(u)
           /\ \A y \in Owned("assessment", u) : x.created >= y.created
<1> DEFINE A == Owned("assessment", u)
           n == Cardinality(Stamps)
           m == Cardinality(OfKind("assessment"))
<1>1. \A x \in A : /\ x \in rows /\ x \in OfKind("assessment")
                   /\ x.created \in Nat /\ x.id \in Nat /\ x.id <= m
  BY DEF Owned, OfKind, RowsInv
<1>2. n \in Nat /\ m \in Nat
  BY KindFinite, FS_CardinalityType DEF RowsInv
<1>3. \A x \in A : x.created <= n
  <2>1. \A x \in A : x.created \in Stamps
    BY <1>1 DEF Stamps
  <2>2. Stamps = 1 .. n
    BY DEF RowsInv
  <2> QED BY <1>2, <2>1, <2>2
<1> HIDE DEF A, n, m
<1> DEFINE C == {x.created : x \in A}
<1>4. PICK t \in C : \A s \in C : s <= t
  <2>1. C \in SUBSET Nat /\ C # {} /\ \A s \in C : s <= n
    BY <1>1, <1>3 DEF A
  <2> HIDE DEF C
  <2> QED BY <1>2, <2>1, Greatest
<1> DEFINE L == {x \in A : x.created = t}
<1> DEFINE I == {x.id : x \in L}
<1>5. PICK i \in I : \A j \in I : j <= i
  <2>1. I \in SUBSET Nat /\ I # {} /\ \A j \in I : j <= m
    BY <1>1, <1>4
  <2> HIDE DEF I
  <2> QED BY <1>2, <2>1, Greatest
<1>6. PICK z \in L : z.id = i
  BY <1>5
<1>7. \A y \in A : Later(z, y)
  <2>1. ASSUME NEW y \in A PROVE Later(z, y)
    <3>1. y.created <= t /\ z.created = t /\ t \in Nat /\ y.created \in Nat
      BY <1>1, <1>4, <1>6
    <3>2. y.created = t => y.id <= i /\ y.id \in Nat /\ i \in Nat
      BY <1>1, <1>5, <1>6
    <3> QED BY <1>6, <3>1, <3>2 DEF Later
  <2> QED BY <2>1
<1> DEFINE c == CHOOSE x \in A : \A y \in A : Later(x, y)
<1>8. c \in A /\ \A y \in A : Later(c, y)
  BY <1>6, <1>7
<1>9. Newest(u) = c.id
  BY DEF Newest, A
<1> HIDE DEF c
<1>10. \A y \in A : c.created >= y.created
  BY <1>1, <1>8 DEF Later
<1> QED BY <1>8, <1>9, <1>10 DEF A

-----------------------------------------------------------------------------
(***************************************************************************)
(* What a step disturbs                                                    *)
(***************************************************************************)

RowsTyped ==
  /\ \A x \in rows :
       /\ Name(x) \in Names
       /\ x.user \in Users /\ x.source \in Nat /\ x.created \in Nat \ {0}
       /\ x.text \in IF x.kind = "resume" THEN [Columns -> Texts] ELSE {<< >>}
  /\ \A x, y \in rows : Name(x) = Name(y) => x = y

(* The parts of the type invariant.                                        *)
LEMMA JobTyped ==
  ASSUME NEW j, JobInv(j)
  PROVE  j.row \subseteq Names
  BY DEF JobInv, Fresh, Answered, Working, Editings

LEMMA Typed ==
  RowsTyped /\ (\A r \in Requests : JobInv(job[r])) /\ announced \in [Users -> Seq(Names)]
    /\ Bus!BusInv => TypeOK
  BY JobTyped DEF TypeOK, RowsTyped, Bus!BusInv

LEMMA TypedNext ==
  (RowsTyped /\ (\A r \in Requests : JobInv(job[r])) /\ announced \in [Users -> Seq(Names)]
    /\ Bus!BusInv)' => TypeOK'
  BY Typed, PTL

(* What a request knows stays true when rows are added.                    *)
LEMMA JobStays ==
  ASSUME rows \subseteq rows', NEW j, JobInv(j)
  PROVE  JobInv(j)'
<1>1. \A k, u : Owned(k, u) \subseteq Owned(k, u)'
  BY DEF Owned, OfKind
<1>2. \A k, u, i : Get(k, u, i) \subseteq Get(k, u, i)'
  BY <1>1 DEF Get
<1>3. CASE j \in Working /\ WorkInv(j)
  <2>1. j \in Working'
    BY <1>3 DEF Working
  <2>2. SourceOf(j) => SourceOf(j)'
    BY <1>1 DEF SourceOf
  <2>3. WorkInv(j)'
    BY <1>1, <1>3, <2>2 DEF WorkInv
  <2> QED BY <2>1, <2>3 DEF JobInv
<1>4. CASE j \in Editings /\ EditInv(j)
  <2>1. EditInv(j)'
    BY <1>2, <1>4 DEF EditInv
  <2> QED BY <1>4, <2>1 DEF JobInv
<1>5. CASE j = Fresh \/ j = [stage |-> "done", row |-> {}] \/ j \in Answered
  BY <1>5 DEF JobInv
<1> QED BY <1>3, <1>4, <1>5 DEF JobInv

LEMMA NamesStay ==
  ASSUME rows \subseteq rows', UNCHANGED <<announced, sequences>>, AnnouncedInv
  PROVE  AnnouncedInv'
<1>1. \A u : NamesOf(u) \subseteq NamesOf(u)'
  BY DEF NamesOf, Name
<1> QED BY <1>1 DEF AnnouncedInv

(* A step of one request that writes no row, and reads the clock if it     *)
(* goes to its commit.                                                     *)
LEMMA JobMoves ==
  ASSUME WorkflowsInv, UNCHANGED <<rows, announced, bus_vars>>,
         NEW r \in Requests, NEW j, Become(r, j), JobInv(j), ~AtStage(r, "commit"),
         j.stage = "commit" => j.created = Now
  PROVE  WorkflowsInv'
<1>1. /\ DOMAIN job = Requests /\ DOMAIN job' = Requests
      /\ job'[r] = j /\ \A q \in Requests \ {r} : job'[q] = job[q]
  BY DEF WorkflowsInv, Become
<1>2. \A q \in Requests : JobInv(job[q])'
  <2>1. ASSUME NEW q \in Requests PROVE JobInv(job'[q])
    BY <1>1 DEF WorkflowsInv
  <2> QED BY <2>1, JobStays
<1>3. RowsInv'
  <2>1. Stamps' = IF j.stage = "commit" THEN Stamps \cup {Now} ELSE Stamps
    BY <1>1 DEF Stamps, AtStage
  <2>2. IsFiniteSet(Stamps') /\ Stamps' = 1 .. Cardinality(Stamps')
    BY <2>1, NowFacts DEF WorkflowsInv, RowsInv
  <2>3. \A k : OfKind(k)' = OfKind(k)
    BY DEF OfKind
  <2> QED BY <2>2, <2>3 DEF WorkflowsInv, RowsInv
<1>4. Bus!BusInv'
  BY BusStays DEF WorkflowsInv
<1>5. AnnouncedInv'
  BY NamesStay DEF WorkflowsInv, bus_vars
<1>6. TypeOK'
  <2>1. RowsTyped /\ announced \in [Users -> Seq(Names)]
    BY DEF WorkflowsInv, TypeOK, RowsTyped
  <2>2. RowsTyped' /\ announced' \in [Users -> Seq(Names)]
    BY <2>1 DEF RowsTyped
  <2> QED BY <1>2, <1>4, <2>2, TypedNext
<1>7. PathsOfOwnAssessments'
  BY DEF WorkflowsInv, PathsOfOwnAssessments, OfKind
<1> QED BY <1>1, <1>2, <1>3, <1>4, <1>5, <1>6, <1>7 DEF WorkflowsInv

-----------------------------------------------------------------------------
(***************************************************************************)
(* Steps that write no row                                                 *)
(***************************************************************************)

(* Where a request is says what it is.                                     *)
LEMMA StageTells ==
  ASSUME WorkflowsInv, NEW r \in Requests
  PROVE  /\ job[r].stage \in {"lookup", "engine", "commit", "publish"}
              => job[r] \in Working /\ WorkInv(job[r])
         /\ job[r].stage \in {"fetch", "update", "reread"}
              => job[r] \in Editings /\ EditInv(job[r])
<1>1. JobInv(job[r])
  BY DEF WorkflowsInv
<1> QED BY <1>1 DEF JobInv, Fresh, Answered, Working, Editings

LEMMA ArriveStep ==
  ASSUME WorkflowsInv, NEW r \in Requests, NEW k \in Kinds, NEW u \in Users,
         NEW w \in Nat, Arrive(r, k, u, w)
  PROVE  WorkflowsInv'
<1> DEFINE j == Job(k, u, w)
<1>1. Become(r, j) /\ ~AtStage(r, "commit") /\ UNCHANGED <<rows, announced, bus_vars>>
  BY DEF Arrive, AtStage
<1>2. Owned("assessment", u) \subseteq rows
  BY DEF Owned, OfKind
<1>3. j \in Working /\ j.stage \in {"lookup", "engine"} /\ j.row = {} /\ j.kind = k /\ j.user = u
      /\ (j.known = {} \/ j.known = Owned("assessment", u))
      /\ (k = "learning_path" => j.stage = "lookup")
  BY <1>2 DEF Job, Working, None
<1>4. WorkInv(j)
  BY <1>3 DEF WorkInv
<1>5. JobInv(j)
  BY <1>3, <1>4 DEF JobInv
<1> QED BY <1>1, <1>3, <1>5, JobMoves

LEMMA FailMoves ==
  ASSUME WorkflowsInv, NEW r \in Requests, Fail(r), ~AtStage(r, "commit"),
         UNCHANGED <<rows, announced, bus_vars>>
  PROVE  WorkflowsInv'
<1> DEFINE j == [stage |-> "done", row |-> {}]
<1>1. Become(r, j) /\ JobInv(j) /\ j.stage # "commit"
  BY DEF Fail, JobInv
<1> QED BY <1>1, JobMoves

(* generate_learning_path finds the assessment to build from.              *)
LEMMA LookUpStep ==
  ASSUME WorkflowsInv, NEW r \in Requests, LookUp(r)
  PROVE  WorkflowsInv'
<1> DEFINE o == job[r]
           j == [o EXCEPT !.source = Source(r), !.stage = "engine"]
<1>1. /\ o \in Working /\ WorkInv(o) /\ o.stage = "lookup"
      /\ UNCHANGED <<rows, announced, bus_vars>> /\ ~AtStage(r, "commit")
  BY StageTells DEF LookUp, AtStage
<1>2. CASE Fail(r)
  BY <1>1, <1>2, FailMoves
<1>3. CASE Source(r) # None /\ Become(r, j)
  <2>0. o.wanted \in Nat /\ o.known \subseteq Owned("assessment", o.user)
    BY <1>1 DEF Working, WorkInv
  <2>1. \E s \in Owned("assessment", o.user) :
          /\ s.id = Source(r)
          /\ o.wanted = None => \A y \in o.known : s.created >= y.created
    <3>1. CASE o.wanted = None
      <4>1. Source(r) = Newest(o.user)
        BY <3>1 DEF Source
      <4>2. Owned("assessment", o.user) # {}
        BY <1>3, <4>1 DEF Newest
      <4>3. RowsInv
        BY DEF WorkflowsInv
      <4> QED BY <2>0, <4>1, <4>2, <4>3, NewestFacts
    <3>2. CASE o.wanted # None
      <4>1. Get("assessment", o.user, o.wanted) # {} /\ Source(r) = o.wanted
        BY <1>3, <3>2 DEF Source
      <4> QED BY <3>2, <4>1 DEF Get
    <3> QED BY <3>1, <3>2
  <2>2. \A s \in Owned("assessment", o.user) : s.id \in Nat
    BY DEF WorkflowsInv, RowsInv, Owned, OfKind
  <2>3. Source(r) \in Nat
    BY <2>1, <2>2
  <2>4. /\ j \in Working /\ j.stage = "engine" /\ j.source = Source(r) /\ j.user = o.user
        /\ j.wanted = o.wanted /\ j.known = o.known /\ j.row = o.row /\ j.kind = o.kind
    BY <1>1, <2>3 DEF Working
  <2> HIDE DEF j
  <2>5. SourceOf(j)
    BY <2>1, <2>4 DEF SourceOf
  <2>6. WorkInv(j)
    BY <1>1, <2>4, <2>5 DEF WorkInv
  <2>7. JobInv(j)
    BY <2>4, <2>6 DEF JobInv
  <2> QED BY <1>1, <1>3, <2>4, <2>7, JobMoves
<1> QED BY <1>2, <1>3 DEF LookUp

LEMMA EngineStep ==
  ASSUME WorkflowsInv, NEW r \in Requests, Engine(r)
  PROVE  WorkflowsInv'
<1> DEFINE o == job[r]
           j == [o EXCEPT !.stage = "commit", !.created = Now]
<1>1. /\ o \in Working /\ WorkInv(o) /\ o.stage = "engine"
      /\ UNCHANGED <<rows, announced, bus_vars>> /\ ~AtStage(r, "commit")
  BY StageTells DEF Engine, AtStage
<1>2. CASE Fail(r)
  BY <1>1, <1>2, FailMoves
<1>3. CASE Become(r, j)
  <2>1. Now \in Nat
    BY NowFacts DEF WorkflowsInv
  <2>2. /\ j \in Working /\ j.stage = "commit" /\ j.created = Now
        /\ j.source = o.source /\ j.user = o.user
        /\ j.wanted = o.wanted /\ j.known = o.known /\ j.row = o.row /\ j.kind = o.kind
    BY <1>1, <2>1 DEF Working
  <2> HIDE DEF j
  <2>3. WorkInv(j)
    BY <1>1, <2>2 DEF WorkInv, SourceOf
  <2>4. JobInv(j)
    BY <2>2, <2>3 DEF JobInv
  <2> QED BY <1>1, <1>3, <2>2, <2>4, JobMoves
<1> QED BY <1>2, <1>3 DEF Engine

LEMMA ArriveEditStep ==
  ASSUME WorkflowsInv, NEW r \in Requests, NEW u \in Users, NEW i \in Nat, NEW e \in Edits,
         ArriveEdit(r, u, i, e)
  PROVE  WorkflowsInv'
<1> DEFINE j == EditJob(u, i, e)
<1>1. Become(r, j) /\ ~AtStage(r, "commit") /\ UNCHANGED <<rows, announced, bus_vars>>
  BY DEF ArriveEdit, AtStage
<1>2. j \in Editings /\ EditInv(j) /\ j.stage = "fetch"
  BY DEF EditJob, Editings, EditInv
<1>3. JobInv(j)
  BY <1>2 DEF JobInv
<1> QED BY <1>1, <1>2, <1>3, JobMoves

(* A row that a look-up finds.                                             *)
LEMMA GotResume ==
  ASSUME WorkflowsInv, NEW u, NEW i, NEW x \in Get("resume", u, i)
  PROVE  /\ x \in rows /\ x.kind = "resume" /\ x.user = u /\ x.id = i
         /\ x.text \in [Columns -> Texts]
         /\ \A y \in Get("resume", u, i) : y = x
<1>1. \A y \in Get("resume", u, i) : y \in rows /\ y.kind = "resume" /\ y.user = u /\ y.id = i
  BY DEF Get, Owned, OfKind
<1>2. x.text \in [Columns -> Texts]
  BY <1>1 DEF WorkflowsInv, TypeOK
<1>3. \A y \in Get("resume", u, i) : Name(y) = Name(x)
  BY <1>1 DEF Name
<1>4. \A y \in Get("resume", u, i) : y = x
  BY <1>1, <1>3 DEF WorkflowsInv, TypeOK
<1> QED BY <1>1, <1>2, <1>4

LEMMA FetchStep ==
  ASSUME WorkflowsInv, NEW r \in Requests, Fetch(r)
  PROVE  WorkflowsInv'
<1> DEFINE o == job[r]
<1>1. /\ o \in Editings /\ EditInv(o) /\ o.stage = "fetch"
      /\ UNCHANGED <<rows, announced, bus_vars>> /\ ~AtStage(r, "commit")
  BY StageTells DEF Fetch, AtStage
<1>2. CASE Fail(r)
  BY <1>1, <1>2, FailMoves
<1>3. ASSUME NEW x \in Get("resume", o.user, o.target),
             Become(r, [o EXCEPT !.loaded = x.text, !.stage = "update"])
      PROVE  WorkflowsInv'
  <2> DEFINE j == [o EXCEPT !.loaded = x.text, !.stage = "update"]
  <2>1. x.text \in [Columns -> Texts]
    BY GotResume
  <2>2. /\ j \in Editings /\ j.stage = "update" /\ j.loaded = x.text /\ j.user = o.user
        /\ j.target = o.target /\ j.row = o.row
    BY <1>1, <2>1 DEF Editings
  <2> HIDE DEF j
  <2>3. EditInv(j)
    BY <1>1, <1>3, <2>1, <2>2 DEF EditInv
  <2>4. JobInv(j)
    BY <2>2, <2>3 DEF JobInv
  <2>5. Become(r, j)
    BY <1>3 DEF j
  <2> QED BY <1>1, <2>2, <2>4, <2>5, JobMoves
<1> QED BY <1>2, <1>3 DEF Fetch

LEMMA RereadStep ==
  ASSUME WorkflowsInv, NEW r \in Requests, Reread(r)
  PROVE  WorkflowsInv'
<1> DEFINE o == job[r]
<1>1. /\ o \in Editings /\ EditInv(o) /\ o.stage = "reread"
      /\ UNCHANGED <<rows, announced, bus_vars>> /\ ~AtStage(r, "commit")
  BY StageTells DEF Reread, AtStage
<1>2. PICK x \in Get("resume", o.user, o.target) :
             Become(r, [o EXCEPT !.answer = x.text, !.stage = "done"])
  BY DEF Reread
<1> DEFINE j == [o EXCEPT !.answer = x.text, !.stage = "done"]
<1>3. x.text \in [Columns -> Texts] /\ \A y \in Get("resume", o.user, o.target) : y = x
  BY GotResume
<1>4. /\ j \in Editings /\ j.stage = "done" /\ j.answer = x.text /\ j.user = o.user
      /\ j.target = o.target /\ j.row = o.row /\ j.loaded = o.loaded /\ j.changes = o.changes
      /\ j.overtaken = o.overtaken
  BY <1>1, <1>3 DEF Editings
<1>5. Become(r, j)
  BY <1>2
<1> HIDE DEF j
<1>6. EditInv(j)
  <2>1. Applied(j) = Applied(o)
    BY <1>4 DEF Applied
  <2>2. \A c \in Columns \ o.overtaken : x.text[c] = Applied(o)[c]
    BY <1>1, <1>2, <1>3 DEF EditInv
  <2> QED BY <1>1, <1>2, <1>4, <2>1, <2>2 DEF EditInv
<1>7. JobInv(j)
  BY <1>4, <1>6 DEF JobInv
<1> QED BY <1>1, <1>4, <1>5, <1>7, JobMoves

-----------------------------------------------------------------------------
(***************************************************************************)
(* Steps that write a row or announce one                                  *)
(***************************************************************************)

(* The row of a new assessment, path or resume.                            *)
LEMMA RowFacts ==
  ASSUME NEW k \in Kinds, NEW i \in Nat \ {0}, NEW u \in Users, NEW src \in Nat,
         NEW at \in Nat \ {0}
  PROVE  LET x == Row(k, i, u, src, at)
         IN  /\ x \in [kind : Kinds, id : Nat \ {0}, user : Users, source : Nat,
                       created : Nat \ {0}, text : [Columns -> Texts] \cup {<< >>}]
             /\ x.kind = k /\ x.id = i /\ x.user = u /\ x.source = src /\ x.created = at
             /\ x.text \in IF k = "resume" THEN [Columns -> Texts] ELSE {<< >>}
             /\ Name(x) = [kind |-> k, id |-> i] /\ Name(x) \in Names
<1>1. [c \in Columns |-> Draft] \in [Columns -> Texts]
  BY WorkflowAssumption
<1> QED BY <1>1 DEF Row, Name, Names

(* A new row takes the next id of its table.                               *)
LEMMA TablesGrow ==
  ASSUME WorkflowsInv, NEW x, rows' = rows \cup {x}, x.id = NextId(x.kind)
  PROVE  /\ IsFiniteSet(rows') /\ \A y \in rows' : y.id <= Cardinality(OfKind(y.kind)')
         /\ \A y \in rows : Name(y) # Name(x)
<1> DEFINE k == x.kind
<1>1. /\ IsFiniteSet(rows) /\ RowsInv
      /\ \A y \in rows : y.id \in Nat \ {0} /\ y.id <= Cardinality(OfKind(y.kind))
  BY DEF WorkflowsInv, RowsInv
<1>2. \A l : /\ IsFiniteSet(OfKind(l)) /\ Cardinality(OfKind(l)) \in Nat
             /\ \A y \in OfKind(l) : y.id < NextId(l)
  BY <1>1, KindFinite
<1>3. \A l : OfKind(l)' = IF l = k THEN OfKind(l) \cup {x} ELSE OfKind(l)
  BY DEF OfKind
<1>4. x \notin OfKind(k)
  <2>1. NextId(k) \in Nat
    BY <1>1, KindFinite
  <2> QED BY <1>2, <2>1
<1>5. Cardinality(OfKind(k) \cup {x}) = Cardinality(OfKind(k)) + 1
  BY <1>2, <1>4, FS_AddElement
<1>6. ASSUME NEW y \in rows' PROVE y.id <= Cardinality(OfKind(y.kind)')
  <2>1. CASE y = x
    <3>1. y.id = Cardinality(OfKind(k)) + 1 /\ OfKind(y.kind)' = OfKind(k) \cup {x}
      BY <1>3, <2>1 DEF NextId
    <3> QED BY <1>2, <1>5, <3>1
  <2>2. CASE y \in rows /\ y.kind = k
    <3>1. y.id \in Nat /\ y.id <= Cardinality(OfKind(k)) /\ OfKind(y.kind)' = OfKind(k) \cup {x}
      BY <1>1, <1>3, <2>2
    <3> QED BY <1>2, <1>5, <3>1
  <2>3. CASE y \in rows /\ y.kind # k
    BY <1>1, <1>3, <2>3
  <2> QED BY <2>1, <2>2, <2>3
<1>7. IsFiniteSet(rows')
  BY <1>1, FS_AddElement
<1>8. ASSUME NEW y \in rows, Name(y) = Name(x) PROVE FALSE
  <2>1. y.kind = k /\ y.id = x.id
    BY <1>8 DEF Name
  <2>2. y \in OfKind(k) /\ y.id \in Nat
    BY <1>1, <2>1 DEF OfKind
  <2> QED BY <1>2, <2>1, <2>2
<1> QED BY <1>6, <1>7, <1>8

(* The request that committed it goes on to announce it.                   *)
LEMMA JobPublishes ==
  ASSUME NEW o \in Working, WorkInv(o), o.stage = "commit",
         NEW x, rows' = rows \cup {x},
         x.kind = o.kind, x.user = o.user, x.source = o.source,
         NEW j \in Working, j.stage = "publish", j.row = {Name(x)},
         j.source = o.source, j.user = o.user, j.wanted = o.wanted, j.known = o.known,
         j.kind = o.kind
  PROVE  JobInv(j)'
<1>1. Owned("assessment", o.user) \subseteq Owned("assessment", o.user)'
  BY DEF Owned, OfKind
<1>2. j.known \subseteq Owned("assessment", j.user)'
  BY <1>1 DEF WorkInv
<1>3. j.kind = "learning_path" => SourceOf(j)'
  BY <1>1 DEF WorkInv, SourceOf
<1>4. x \in Owned(j.kind, j.user)'
  BY DEF Owned, OfKind
<1>5. WorkInv(j)'
  BY <1>2, <1>3, <1>4 DEF WorkInv, Name
<1>6. j \in Working'
  BY DEF Working
<1> QED BY <1>5, <1>6 DEF JobInv

LEMMA CommitStep ==
  ASSUME WorkflowsInv, NEW r \in Requests, Commit(r)
  PROVE  WorkflowsInv'
<1>0. PICK o, x, j : /\ o = job[r]
                     /\ x = Row(o.kind, NextId(o.kind), o.user, o.source, o.created)
                     /\ j = [o EXCEPT !.row = {Name(x)}, !.stage = "publish"]
  OBVIOUS
<1>1. /\ o \in Working /\ WorkInv(o) /\ o.stage = "commit"
      /\ rows' = rows \cup {x} /\ Become(r, j) /\ UNCHANGED <<announced, bus_vars>>
  BY <1>0, StageTells DEF Commit, AtStage
<1>2. /\ o.kind \in Kinds /\ o.user \in Users /\ o.source \in Nat /\ o.created \in Stamps
  BY <1>0, <1>1 DEF Working, Stamps, AtStage
<1>3. o.created \in Nat \ {0}
  <2>1. Stamps = 1 .. Cardinality(Stamps) /\ IsFiniteSet(Stamps)
    BY DEF WorkflowsInv, RowsInv
  <2>2. Cardinality(Stamps) \in Nat
    BY <2>1, FS_CardinalityType
  <2> QED BY <1>2, <2>1, <2>2
<1>4. NextId(o.kind) \in Nat \ {0}
  BY KindFinite DEF WorkflowsInv
<1>5. /\ x \in [kind : Kinds, id : Nat \ {0}, user : Users, source : Nat,
                created : Nat \ {0}, text : [Columns -> Texts] \cup {<< >>}]
      /\ x.kind = o.kind /\ x.id = NextId(o.kind) /\ x.user = o.user
      /\ x.source = o.source /\ x.created = o.created
      /\ x.text \in IF x.kind = "resume" THEN [Columns -> Texts] ELSE {<< >>}
      /\ Name(x) \in Names
  BY <1>0, <1>2, <1>3, <1>4, RowFacts
<1>6. /\ j \in Working /\ j.stage = "publish" /\ j.row = {Name(x)}
      /\ j.source = o.source /\ j.user = o.user /\ j.created = o.created
      /\ j.wanted = o.wanted /\ j.known = o.known /\ j.kind = o.kind
  <2>1. {Name(x)} \in SUBSET Names
    BY <1>5
  <2>2. j = [o EXCEPT !.row = {Name(x)}, !.stage = "publish"] /\ o \in Working
    BY <1>0, <1>1
  <2>3. j \in Working
    BY ONLY <2>1, <2>2 DEF Working
  <2> QED BY ONLY <2>2, <2>3 DEF Working
<1>7. /\ IsFiniteSet(rows') /\ \A y \in rows' : y.id <= Cardinality(OfKind(y.kind)')
      /\ \A y \in rows : Name(y) # Name(x)
  BY <1>1, <1>5, TablesGrow
<1>8. /\ DOMAIN job = Requests /\ DOMAIN job' = Requests
      /\ job'[r] = j /\ \A q \in Requests \ {r} : job'[q] = job[q]
  BY <1>1 DEF WorkflowsInv, Become
<1>9. \A q \in Requests : JobInv(job[q])'
  <2>1. ASSUME NEW q \in Requests, q # r PROVE JobInv(job[q])'
    <3>1. JobInv(job[q]) /\ job'[q] = job[q]
      BY <1>8, <2>1 DEF WorkflowsInv
    <3> QED BY <1>1, <3>1, JobStays
  <2>2. JobInv(j)'
    BY <1>1, <1>5, <1>6, JobPublishes
  <2> QED BY <1>8, <2>1, <2>2
<1>10. RowsInv'
  <2>1. Stamps' = Stamps
    <3>1. \A q \in Requests : q # r => AtStage(q, "commit")' = AtStage(q, "commit")
      BY <1>8 DEF AtStage
    <3>2. AtStage(r, "commit") /\ ~AtStage(r, "commit")'
      BY <1>0, <1>1, <1>6, <1>8 DEF AtStage
    <3> QED BY <1>0, <1>1, <1>5, <1>8, <3>1, <3>2 DEF Stamps
  <2> QED BY <1>1, <1>5, <1>7, <2>1 DEF WorkflowsInv, RowsInv
<1>11. Bus!BusInv'
  BY <1>1, BusStays DEF WorkflowsInv
<1>12. AnnouncedInv'
  BY <1>1, NamesStay DEF WorkflowsInv, bus_vars
<1>13. TypeOK'
  <2>1. RowsTyped /\ announced \in [Users -> Seq(Names)]
    BY DEF WorkflowsInv, TypeOK, RowsTyped
  <2>2. \A y \in rows' :
          /\ Name(y) \in Names
          /\ y.user \in Users /\ y.source \in Nat /\ y.created \in Nat \ {0}
          /\ y.text \in IF y.kind = "resume" THEN [Columns -> Texts] ELSE {<< >>}
    BY <1>1, <1>5, <2>1 DEF RowsTyped
  <2>3. \A y, z \in rows' : Name(y) = Name(z) => y = z
    BY <1>1, <1>7, <2>1 DEF RowsTyped
  <2>4. RowsTyped'
    BY <2>2, <2>3 DEF RowsTyped, Name
  <2>5. announced' \in [Users -> Seq(Names)]
    BY <1>1, <2>1
  <2> QED BY <1>9, <1>11, <2>4, <2>5, TypedNext
<1>14. PathsOfOwnAssessments'
  <2>1. OfKind("assessment") \subseteq OfKind("assessment")'
    BY <1>1 DEF OfKind
  <2>2. ASSUME NEW y \in OfKind("learning_path")'
        PROVE  \E z \in OfKind("assessment")' : z.id = y.source /\ z.user = y.user
    <3>1. CASE y \in OfKind("learning_path")
      BY <2>1, <3>1 DEF WorkflowsInv, PathsOfOwnAssessments
    <3>2. CASE y = x /\ x.kind = "learning_path"
      <4>1. SourceOf(o)
        BY <1>1, <1>5, <3>2 DEF WorkInv
      <4> QED BY <1>5, <2>1, <3>2, <4>1 DEF SourceOf, Owned
    <3> QED BY <1>1, <3>1, <3>2 DEF OfKind
  <2> QED BY <2>2 DEF PathsOfOwnAssessments
<1> QED BY <1>8, <1>9, <1>10, <1>11, <1>12, <1>13, <1>14 DEF WorkflowsInv

(* The event is numbered as its position in the announcements of the user. *)
LEMMA AnnounceStep ==
  ASSUME WorkflowsInv, NEW r \in Requests, Announce(r)
  PROVE  WorkflowsInv'
<1>0. PICK o, j : /\ o = job[r]
                  /\ j = [stage |-> "done", row |-> o.row, kind |-> o.kind, user |-> o.user]
  OBVIOUS
<1>1. /\ o \in Working /\ WorkInv(o) /\ o.stage = "publish"
      /\ Bus!Publish(o.user) /\ Become(r, j) /\ rows' = rows
      /\ \E n \in o.row : announced' = [announced EXCEPT ![o.user] = Append(@, n)]
  BY <1>0, StageTells DEF Announce, AtStage, Succeed
<1>2. PICK x \in Owned(o.kind, o.user) : o.row = {Name(x)}
  BY <1>1 DEF WorkInv
<1>3. o.user \in Users /\ Name(x) \in Names /\ Name(x) \in NamesOf(o.user)
      /\ announced' = [announced EXCEPT ![o.user] = Append(@, Name(x))]
      /\ sequences' = [sequences EXCEPT ![o.user] = @ + 1]
  <2>1. x \in rows /\ x.user = o.user
    BY DEF Owned, OfKind
  <2>2. o.user \in Users /\ Name(x) \in Names /\ Name(x) \in NamesOf(o.user)
    BY <1>1, <2>1 DEF Working, WorkflowsInv, TypeOK, NamesOf
  <2> QED BY <1>1, <1>2, <2>2 DEF Bus!Publish
<1>4. j \in Answered
  BY <1>0, <1>1 DEF Answered, Working
<1>5. /\ DOMAIN job = Requests /\ DOMAIN job' = Requests
      /\ job'[r] = j /\ \A q \in Requests \ {r} : job'[q] = job[q]
  BY <1>1 DEF WorkflowsInv, Become
<1>6. \A q \in Requests : JobInv(job[q])'
  <2>1. ASSUME NEW q \in Requests PROVE JobInv(job'[q])
    BY <1>4, <1>5 DEF WorkflowsInv, JobInv
  <2> QED BY <1>1, <2>1, JobStays
<1>7. RowsInv'
  <2>1. \A q \in Requests : AtStage(q, "commit")' <=> AtStage(q, "commit")
    BY <1>0, <1>1, <1>5 DEF AtStage
  <2>2. \A q \in Requests : AtStage(q, "commit") => job'[q].created = job[q].created
    BY <1>0, <1>1, <1>5 DEF AtStage
  <2>3. Stamps' = Stamps
    BY <1>1, <2>1, <2>2 DEF Stamps
  <2>4. \A k : OfKind(k)' = OfKind(k)
    BY <1>1 DEF OfKind
  <2> QED BY <1>1, <2>3, <2>4 DEF WorkflowsInv, RowsInv
<1>8. Bus!BusInv'
  BY <1>1, <1>3, BusStays DEF WorkflowsInv
<1>9. announced \in [Users -> Seq(Names)] /\ sequences \in [Users -> Nat] /\ AnnouncedInv
  BY DEF WorkflowsInv, TypeOK, Bus!TypeOK
<1>10. announced' \in [Users -> Seq(Names)]
  BY <1>3, <1>9, AppendProperties
<1>11. AnnouncedInv'
  <2>1. \A u : NamesOf(u)' = NamesOf(u)
    BY <1>1 DEF NamesOf, Name
  <2>2. ASSUME NEW u \in Users, u # o.user
        PROVE  Len(announced'[u]) = sequences'[u]
               /\ \A n \in 1 .. Len(announced'[u]) : announced'[u][n] \in NamesOf(u)
    BY <1>3, <1>9, <2>2 DEF AnnouncedInv
  <2> DEFINE a == announced[o.user]
             b == announced'[o.user]
  <2>3. a \in Seq(Names) /\ b = Append(a, Name(x)) /\ sequences'[o.user] = sequences[o.user] + 1
        /\ Len(a) = sequences[o.user] /\ \A n \in 1 .. Len(a) : a[n] \in NamesOf(o.user)
    BY <1>3, <1>9 DEF AnnouncedInv
  <2> HIDE DEF a, b
  <2>4. /\ Len(b) = Len(a) + 1 /\ Len(a) \in Nat
        /\ \A n \in 1 .. Len(a) : b[n] = a[n]
        /\ b[Len(a) + 1] = Name(x)
    BY <1>3, <2>3, AppendProperties, LenProperties
  <2>5. Len(b) = sequences'[o.user] /\ \A n \in 1 .. Len(b) : b[n] \in NamesOf(o.user)
    BY <1>3, <2>3, <2>4
  <2> QED BY <2>1, <2>2, <2>5 DEF AnnouncedInv, b
<1>12. TypeOK'
  <2>1. RowsTyped'
    BY <1>1 DEF WorkflowsInv, TypeOK, RowsTyped, Name
  <2> QED BY <1>6, <1>8, <1>10, <2>1, TypedNext
<1>13. PathsOfOwnAssessments'
  BY <1>1 DEF WorkflowsInv, PathsOfOwnAssessments, OfKind
<1> QED BY <1>5, <1>6, <1>7, <1>8, <1>11, <1>12, <1>13 DEF WorkflowsInv

(* An edit puts another text into a resume, and nothing else changes.      *)
LEMMA ResumeRewritten ==
  ASSUME WorkflowsInv, NEW u, NEW i, NEW x \in Get("resume", u, i),
         NEW t \in [Columns -> Texts], NEW y, y = [x EXCEPT !.text = t],
         rows' = (rows \ {x}) \cup {y}
  PROVE  /\ y.kind = "resume" /\ y.user = u /\ y.id = i /\ y.text = t /\ Name(y) = Name(x)
         /\ y.source = x.source
         /\ IsFiniteSet(rows')
         /\ rows' \subseteq [kind : Kinds, id : Nat \ {0}, user : Users, source : Nat,
                             created : Nat \ {0}, text : [Columns -> Texts] \cup {<< >>}]
         /\ \A z \in rows' : z.id <= Cardinality(OfKind(z.kind)')
         /\ {z.created : z \in rows'} = {z.created : z \in rows}
         /\ RowsTyped'
         /\ \A v : Owned("assessment", v)' = Owned("assessment", v)
         /\ PathsOfOwnAssessments'
<1>1. /\ x \in rows /\ x.kind = "resume" /\ x.user = u /\ x.id = i
  BY GotResume
<1>2. /\ RowsTyped /\ IsFiniteSet(rows)
      /\ rows \subseteq [kind : Kinds, id : Nat \ {0}, user : Users, source : Nat,
                         created : Nat \ {0}, text : [Columns -> Texts] \cup {<< >>}]
      /\ \A z \in rows : z.id <= Cardinality(OfKind(z.kind))
  BY DEF WorkflowsInv, RowsInv, RowsTyped, TypeOK
<1>3. /\ y.kind = "resume" /\ y.user = u /\ y.id = i /\ y.text = t
      /\ y.source = x.source /\ y.created = x.created
      /\ y \in [kind : Kinds, id : Nat \ {0}, user : Users, source : Nat,
                created : Nat \ {0}, text : [Columns -> Texts] \cup {<< >>}]
  BY <1>1, <1>2
<1>4. Name(y) = Name(x)
  BY <1>1, <1>3 DEF Name
<1>5. IsFiniteSet(rows')
  BY <1>2, FS_RemoveElement, FS_AddElement
<1>6. ASSUME NEW k PROVE Cardinality(OfKind(k)') = Cardinality(OfKind(k))
  <2>1. CASE k # "resume"
    <3>1. OfKind(k)' = OfKind(k)
      BY <1>1, <1>3, <2>1 DEF OfKind
    <3> QED BY <3>1
  <2>2. CASE k = "resume"
    <3>1. OfKind(k)' = (OfKind(k) \ {x}) \cup {y} /\ x \in OfKind(k)
      BY <1>1, <1>3, <2>2 DEF OfKind
    <3>2. y \notin OfKind(k) \ {x}
      BY <1>1, <1>2, <1>4 DEF OfKind, RowsTyped
    <3>3. IsFiniteSet(OfKind(k)) /\ Cardinality(OfKind(k)) \in Nat
      BY KindFinite DEF WorkflowsInv
    <3>4. /\ IsFiniteSet(OfKind(k) \ {x})
          /\ Cardinality(OfKind(k) \ {x}) = Cardinality(OfKind(k)) - 1
      BY <3>1, <3>3, FS_RemoveElement
    <3>5. Cardinality((OfKind(k) \ {x}) \cup {y}) = Cardinality(OfKind(k) \ {x}) + 1
      BY <3>2, <3>4, FS_AddElement
    <3> QED BY <3>1, <3>3, <3>4, <3>5
  <2> QED BY <2>1, <2>2
<1>7. \A z \in rows' : z.id <= Cardinality(OfKind(z.kind)')
  <2>1. \A z \in rows' : z \in rows \/ (z.id = x.id /\ z.kind = x.kind /\ x \in rows)
    BY <1>1, <1>3
  <2> QED BY <1>2, <1>6, <2>1
<1>8. {z.created : z \in rows'} = {z.created : z \in rows}
  BY <1>1, <1>3
<1>9. RowsTyped'
  <2>1. \A z \in rows' :
          /\ Name(z) \in Names
          /\ z.user \in Users /\ z.source \in Nat /\ z.created \in Nat \ {0}
          /\ z.text \in IF z.kind = "resume" THEN [Columns -> Texts] ELSE {<< >>}
    BY <1>1, <1>2, <1>3, <1>4 DEF RowsTyped
  <2>2. \A z, w \in rows' : Name(z) = Name(w) => z = w
    BY <1>1, <1>2, <1>4 DEF RowsTyped
  <2> QED BY <2>1, <2>2 DEF RowsTyped, Name
<1>10. OfKind("assessment")' = OfKind("assessment")
       /\ OfKind("learning_path")' = OfKind("learning_path")
  BY <1>1, <1>3 DEF OfKind
<1>11. \A v : Owned("assessment", v)' = Owned("assessment", v)
  BY <1>10 DEF Owned
<1>12. PathsOfOwnAssessments'
  BY <1>10 DEF PathsOfOwnAssessments, WorkflowsInv
<1> QED BY <1>2, <1>3, <1>4, <1>5, <1>7, <1>8, <1>9, <1>11, <1>12

(* What another request knows, when an edit rewrites resume i in the       *)
(* columns D at most, and those are noted if it edits that resume too.     *)
LEMMA JobSeesEdit ==
  ASSUME WorkflowsInv, NEW u, NEW i, NEW x \in Get("resume", u, i),
         NEW t \in [Columns -> Texts], NEW y, y = [x EXCEPT !.text = t],
         rows' = (rows \ {x}) \cup {y},
         NEW D \in SUBSET Columns, \A c \in Columns \ D : t[c] = x.text[c],
         NEW j, JobInv(j),
         NEW p, p = IF (j.stage = "update" \/ (j.row # {} /\ j.kind = "edit")) /\ j.target = i
                      THEN [j EXCEPT !.overtaken = @ \cup D] ELSE j
  PROVE  /\ JobInv(p)'
         /\ p.stage = j.stage /\ (p.stage = "commit" => p.created = j.created)
<1>1. /\ y.kind = "resume" /\ y.user = u /\ y.id = i /\ y.text = t /\ Name(y) = Name(x)
      /\ y.source = x.source
      /\ \A v : Owned("assessment", v)' = Owned("assessment", v)
  BY ResumeRewritten
<1>2. /\ x \in rows /\ x.kind = "resume" /\ x.user = u /\ x.id = i
  BY GotResume
<1>3. CASE j \in Working /\ WorkInv(j)
  <2>1. p = j /\ j.stage # "update" /\ j.kind # "edit"
    BY <1>3 DEF Working, Kinds
  <2>2. j.known \subseteq rows'
    <3>1. \A z \in j.known : z \in rows /\ z.kind = "assessment"
      BY <1>3 DEF WorkInv, Owned, OfKind
    <3> QED BY <1>2, <3>1
  <2>3. j \in Working'
    BY <1>3, <2>2 DEF Working
  <2>4. SourceOf(j) => SourceOf(j)'
    BY <1>1 DEF SourceOf
  <2>5. ASSUME NEW z \in Owned(j.kind, j.user)
        PROVE  \E w \in Owned(j.kind, j.user)' : Name(w) = Name(z) /\ w.source = z.source
    <3>1. CASE z = x
      <4>1. y \in Owned(j.kind, j.user)'
        BY <1>1, <1>2, <2>5, <3>1 DEF Owned, OfKind
      <4> QED BY <1>1, <3>1, <4>1
    <3>2. CASE z # x
      <4>1. z \in Owned(j.kind, j.user)'
        BY <2>5, <3>2 DEF Owned, OfKind
      <4> QED BY <4>1
    <3> QED BY <3>1, <3>2
  <2>6. j.stage = "publish" =>
          \E w \in Owned(j.kind, j.user)' : j.row = {Name(w)} /\ w.source = j.source
    BY <1>3, <2>5 DEF WorkInv
  <2>7. WorkInv(j)'
    BY <1>1, <1>3, <2>4, <2>6 DEF WorkInv, Name
  <2> QED BY <2>1, <2>3, <2>7 DEF JobInv
<1>4. CASE j \in Editings /\ EditInv(j)
  <2>1. CASE j.stage = "fetch"
    <3>1. j.row = {} /\ p = j
      BY <1>4, <2>1 DEF EditInv
    <3>2. EditInv(j)'
      BY <2>1, <3>1 DEF EditInv
    <3> QED BY <1>4, <3>1, <3>2 DEF JobInv
  <2>2. CASE j.stage # "fetch" /\ j.target # i
    <3>1. p = j
      BY <2>2
    <3>2. \A z \in Get("resume", j.user, j.target) : z \in Get("resume", j.user, j.target)'
      BY <1>2, <2>2 DEF Get, Owned, OfKind
    <3>3. EditInv(j)'
      BY <1>4, <3>2 DEF EditInv
    <3> QED BY <1>4, <3>1, <3>3 DEF JobInv
  <2>3. CASE j.stage # "fetch" /\ j.target = i
    <3>1. j.kind = "edit" /\ (j.stage = "update" \/ j.row # {})
      BY <1>4, <2>3 DEF EditInv, Editings
    <3>2. p = [j EXCEPT !.overtaken = @ \cup D]
      BY <2>3, <3>1
    <3>3. /\ p \in Editings /\ p.stage = j.stage /\ p.row = j.row /\ p.user = j.user
          /\ p.target = j.target /\ p.changes = j.changes /\ p.loaded = j.loaded
          /\ p.answer = j.answer /\ p.overtaken = j.overtaken \cup D
      BY <1>4, <3>2 DEF Editings
    <3> HIDE <3>2
    <3>4. PICK z \in Get("resume", j.user, j.target) :
                 \A c \in Columns \ j.overtaken :
                   /\ z.text[c] = IF j.stage = "update" THEN j.loaded[c] ELSE Applied(j)[c]
                   /\ j.stage = "done" => j.answer[c] = z.text[c]
      BY <1>4, <2>3 DEF EditInv
    <3>5. z = x /\ j.user = u
      <4>1. z \in rows /\ z.kind = "resume" /\ z.id = i /\ z.user = j.user
        BY <2>3 DEF Get, Owned, OfKind
      <4>2. Name(z) = Name(x)
        BY <1>2, <4>1 DEF Name
      <4> QED BY <1>2, <4>1, <4>2 DEF WorkflowsInv, TypeOK
    <3>6. y \in Get("resume", p.user, p.target)'
      BY <1>1, <2>3, <3>3, <3>5 DEF Get, Owned, OfKind
    <3>7. Applied(p) = Applied(j)
      BY <3>3 DEF Applied
    <3>8. \A c \in Columns \ p.overtaken : y.text[c] = x.text[c] /\ c \in Columns \ j.overtaken
      BY <1>1, <3>3
    <3>9. j.loaded \in [Columns -> Texts] /\ (j.row # {} <=> j.stage \in {"reread", "done"})
      BY <1>4, <2>3 DEF EditInv
    <3>10. \A c \in Columns \ p.overtaken :
             /\ y.text[c] = IF p.stage = "update" THEN p.loaded[c] ELSE Applied(p)[c]
             /\ p.stage = "done" => p.answer[c] = y.text[c]
      BY <3>3, <3>4, <3>5, <3>7, <3>8
    <3>11. EditInv(p)'
      BY <2>3, <3>3, <3>6, <3>9, <3>10 DEF EditInv, Applied
    <3> QED BY <2>3, <3>3, <3>11 DEF JobInv, Editings
  <2> QED BY <2>1, <2>2, <2>3
<1>5. CASE j = Fresh \/ j = [stage |-> "done", row |-> {}] \/ j \in Answered
  <2>1. p = j
    BY <1>5 DEF Fresh, Answered, Kinds
  <2> QED BY <1>5, <2>1 DEF JobInv
<1> QED BY <1>3, <1>4, <1>5 DEF JobInv

(* What the UPDATE leaves: the columns of the row, but those the edit      *)
(* changed.                                                                *)
LEMMA WrittenFacts ==
  ASSUME NEW o \in Editings, o.loaded \in [Columns -> Texts], NEW x, x.text \in [Columns -> Texts]
  PROVE  /\ Written(o, x) \in [Columns -> Texts]
         /\ DOMAIN o.changes \in SUBSET Columns
         /\ \A c \in Columns \ DOMAIN o.changes : Written(o, x)[c] = x.text[c]
         /\ \A c \in Columns : x.text[c] = o.loaded[c] => Written(o, x)[c] = Applied(o)[c]
<1>1. /\ DOMAIN o.changes \subseteq Columns
      /\ \A c \in DOMAIN o.changes : o.changes[c] \in Texts \/ o.changes[c] = Blank
  BY WorkflowAssumption DEF Editings
<1>2. Applied(o) \in [Columns -> Texts]
  BY <1>1 DEF Applied
<1>3. Written(o, x) \in [Columns -> Texts]
  BY <1>2 DEF Written
<1>4. \A c \in Columns \ DOMAIN o.changes : Applied(o)[c] = o.loaded[c]
  BY DEF Applied
<1> QED BY <1>1, <1>3, <1>4 DEF Written

LEMMA UpdateStep ==
  ASSUME WorkflowsInv, NEW r \in Requests, Update(r)
  PROVE  WorkflowsInv'
<1>1. job[r] \in Editings /\ EditInv(job[r]) /\ job[r].stage = "update"
  BY StageTells DEF Update, AtStage
<1>2. PICK x \in Get("resume", job[r].user, job[r].target) :
        /\ rows' = (rows \ {x}) \cup {[x EXCEPT !.text = Written(job[r], x)]}
        /\ job' = [q \in Requests |->
             CASE q = r -> [job[r] EXCEPT !.row = {Name(x)}, !.stage = "reread"]
               [] q # r /\ Editing(q) /\ job[q].target = job[r].target ->
                    [job[q] EXCEPT !.overtaken = @ \cup DOMAIN job[r].changes]
               [] OTHER -> job[q]]
  BY DEF Update
<1>3. PICK o, t, y, D, j :
        /\ o = job[r] /\ t = Written(o, x) /\ y = [x EXCEPT !.text = t]
        /\ D = DOMAIN o.changes /\ j = [o EXCEPT !.row = {Name(x)}, !.stage = "reread"]
  OBVIOUS
<1>4. /\ o \in Editings /\ EditInv(o) /\ o.stage = "update" /\ x \in Get("resume", o.user, o.target)
      /\ rows' = (rows \ {x}) \cup {y}
      /\ UNCHANGED <<announced, bus_vars>>
  BY <1>1, <1>2, <1>3 DEF Update
<1>5. /\ x \in rows /\ x.kind = "resume" /\ x.user = o.user /\ x.id = o.target
      /\ x.text \in [Columns -> Texts] /\ \A z \in Get("resume", o.user, o.target) : z = x
  BY <1>4, GotResume
<1>6. /\ t \in [Columns -> Texts] /\ D \in SUBSET Columns
      /\ \A c \in Columns \ D : t[c] = x.text[c]
      /\ \A c \in Columns : x.text[c] = o.loaded[c] => t[c] = Applied(o)[c]
      /\ y = [x EXCEPT !.text = t]
  BY <1>3, <1>4, <1>5, WrittenFacts DEF EditInv
<1>7. /\ y.kind = "resume" /\ y.user = o.user /\ y.id = o.target /\ y.text = t
      /\ Name(y) = Name(x)
      /\ IsFiniteSet(rows')
      /\ rows' \subseteq [kind : Kinds, id : Nat \ {0}, user : Users, source : Nat,
                          created : Nat \ {0}, text : [Columns -> Texts] \cup {<< >>}]
      /\ \A z \in rows' : z.id <= Cardinality(OfKind(z.kind)')
      /\ {z.created : z \in rows'} = {z.created : z \in rows}
      /\ RowsTyped' /\ PathsOfOwnAssessments'
  <2>1. WorkflowsInv /\ x \in Get("resume", o.user, o.target) /\ t \in [Columns -> Texts]
        /\ y = [x EXCEPT !.text = t] /\ rows' = (rows \ {x}) \cup {y}
    BY <1>4, <1>6
  <2>2. PICK u, i : u = o.user /\ i = o.target
    OBVIOUS
  <2>3. WorkflowsInv /\ x \in Get("resume", u, i) /\ t \in [Columns -> Texts]
        /\ y = [x EXCEPT !.text = t] /\ rows' = (rows \ {x}) \cup {y}
    BY <2>1, <2>2
  <2>4. y.kind = "resume" /\ y.user = u /\ y.id = i /\ y.text = t /\ Name(y) = Name(x)
    BY ONLY <2>3, ResumeRewritten
  <2>5. IsFiniteSet(rows')
    BY ONLY <2>3, ResumeRewritten
  <2>6. \A z \in rows' : z.id <= Cardinality(OfKind(z.kind)')
    BY ONLY <2>3, ResumeRewritten
  <2>7. rows' \subseteq [kind : Kinds, id : Nat \ {0}, user : Users, source : Nat,
                          created : Nat \ {0}, text : [Columns -> Texts] \cup {<< >>}]
    BY ONLY <2>3, ResumeRewritten
  <2>8. {z.created : z \in rows'} = {z.created : z \in rows}
    BY ONLY <2>3, ResumeRewritten
  <2>9. RowsTyped' /\ PathsOfOwnAssessments'
    BY ONLY <2>3, ResumeRewritten
  <2> QED BY <2>2, <2>4, <2>5, <2>6, <2>7, <2>8, <2>9
<1>8. /\ DOMAIN job = Requests /\ DOMAIN job' = Requests /\ job'[r] = j
      /\ \A q \in Requests \ {r} :
           job'[q] = IF (job[q].stage = "update" \/ (job[q].row # {} /\ job[q].kind = "edit"))
                        /\ job[q].target = o.target
                       THEN [job[q] EXCEPT !.overtaken = @ \cup D] ELSE job[q]
  BY <1>2, <1>3 DEF WorkflowsInv, Editing, AtStage
<1>9. ASSUME NEW q \in Requests, q # r
      PROVE  /\ JobInv(job[q])'
             /\ job'[q].stage = job[q].stage
             /\ job'[q].stage = "commit" => job'[q].created = job[q].created
  <2>1. PICK old, new : old = job[q] /\ new = job'[q]
    OBVIOUS
  <2>2. JobInv(old)
    BY <2>1 DEF WorkflowsInv
  <2>3. new = IF (old.stage = "update" \/ (old.row # {} /\ old.kind = "edit"))
                 /\ old.target = o.target
                THEN [old EXCEPT !.overtaken = @ \cup D] ELSE old
    BY <1>8, <1>9, <2>1
  <2>4. JobInv(new)' /\ new.stage = old.stage /\ (new.stage = "commit" => new.created = old.created)
    BY <1>4, <1>6, <2>2, <2>3, JobSeesEdit
  <2> QED BY <2>1, <2>4
<1>10. /\ j \in Editings /\ j.stage = "reread" /\ j.row = {Name(x)} /\ j.user = o.user
       /\ j.target = o.target /\ j.changes = o.changes /\ j.loaded = o.loaded
       /\ j.overtaken = o.overtaken
  <2>1. Name(x) \in Names
    BY <1>5 DEF WorkflowsInv, TypeOK
  <2> QED BY <1>3, <1>4, <2>1 DEF Editings
<1>11. JobInv(j)'
  <2>1. o.loaded \in [Columns -> Texts]
        /\ \A c \in Columns \ o.overtaken : x.text[c] = o.loaded[c]
    BY <1>4, <1>5 DEF EditInv
  <2>2. y \in Get("resume", j.user, j.target)'
    BY <1>4, <1>7, <1>10 DEF Get, Owned, OfKind
  <2>3. Applied(j) = Applied(o)
    BY <1>10 DEF Applied
  <2>4. \A c \in Columns \ j.overtaken : y.text[c] = Applied(j)[c]
    BY <1>6, <1>7, <1>10, <2>1, <2>3
  <2>5. EditInv(j)'
    BY <1>10, <2>1, <2>2, <2>4 DEF EditInv, Applied
  <2> QED BY <1>10, <2>5 DEF JobInv, Editings
<1>12. \A q \in Requests : JobInv(job[q])'
  BY <1>8, <1>9, <1>11
<1>13. RowsInv'
  <2>1. \A q \in Requests : AtStage(q, "commit")' <=> AtStage(q, "commit")
    BY <1>3, <1>4, <1>8, <1>9, <1>10 DEF AtStage
  <2>2. \A q \in Requests : AtStage(q, "commit") => job'[q].created = job[q].created
    BY <1>3, <1>4, <1>9 DEF AtStage
  <2>3. {q \in Requests : AtStage(q, "commit")}' = {q \in Requests : AtStage(q, "commit")}
    BY <2>1
  <2>4. {job[q].created : q \in {p \in Requests : AtStage(p, "commit")}}'
          = {job[q].created : q \in {p \in Requests : AtStage(p, "commit")}}
    BY ONLY <2>2, <2>3
  <2>5. Stamps' = Stamps
    BY ONLY <1>7, <2>4 DEF Stamps
  <2> QED BY <1>7, <2>5 DEF WorkflowsInv, RowsInv
<1>14. Bus!BusInv'
  BY <1>4, BusStays DEF WorkflowsInv
<1>15. AnnouncedInv'
  <2>1. \A z \in rows : \E w \in rows' : w.user = z.user /\ Name(w) = Name(z)
    BY <1>4, <1>5, <1>7
  <2>2. ASSUME NEW u, NEW n \in NamesOf(u) PROVE n \in NamesOf(u)'
    <3>1. PICK z \in rows : z.user = u /\ n = Name(z)
      BY <2>2 DEF NamesOf
    <3>2. PICK w \in rows' : w.user = z.user /\ Name(w) = Name(z)
      BY <2>1
    <3>3. w \in {v \in rows' : v.user = u} /\ n = Name(w)
      BY <3>1, <3>2
    <3> QED BY <3>3 DEF NamesOf, Name
  <2> QED BY <1>4, <2>2 DEF WorkflowsInv, AnnouncedInv, bus_vars
<1>16. TypeOK'
  <2>1. announced' \in [Users -> Seq(Names)]
    BY <1>4 DEF WorkflowsInv, TypeOK
  <2> QED BY <1>7, <1>12, <1>14, <2>1, TypedNext
<1> QED BY <1>7, <1>8, <1>12, <1>13, <1>14, <1>15, <1>16 DEF WorkflowsInv

(* A step of the bus alone.                                                *)
LEMMA UntouchedStep ==
  ASSUME WorkflowsInv, UNCHANGED <<rows, job, announced, sequences>>, Bus!BusInv'
  PROVE  WorkflowsInv'
<1>1. \A q \in Requests : JobInv(job[q])'
  <2>1. ASSUME NEW q \in Requests PROVE JobInv(job'[q])
    BY DEF WorkflowsInv
  <2> QED BY <2>1, JobStays
<1>2. RowsInv'
  <2>1. Stamps' = Stamps
    BY DEF Stamps, AtStage
  <2>2. \A k : OfKind(k)' = OfKind(k)
    BY DEF OfKind
  <2> QED BY <2>1, <2>2 DEF WorkflowsInv, RowsInv
<1>3. AnnouncedInv'
  BY NamesStay DEF WorkflowsInv
<1>4. TypeOK'
  <2>1. RowsTyped /\ announced \in [Users -> Seq(Names)]
    BY DEF WorkflowsInv, TypeOK, RowsTyped
  <2>2. RowsTyped' /\ announced' \in [Users -> Seq(Names)]
    BY <2>1 DEF RowsTyped
  <2> QED BY <1>1, <2>2, TypedNext
<1>5. PathsOfOwnAssessments'
  BY DEF WorkflowsInv, PathsOfOwnAssessments, OfKind
<1>6. DOMAIN job' = Requests
  BY DEF WorkflowsInv
<1> QED BY <1>1, <1>2, <1>3, <1>4, <1>5, <1>6 DEF WorkflowsInv

LEMMA StreamStep ==
  ASSUME WorkflowsInv, Stream
  PROVE  WorkflowsInv'
<1>1. Bus!BusInv'
  BY BusStays DEF WorkflowsInv
<1> QED BY <1>1, StreamAside, UntouchedStep

LEMMA WorkflowsStutter ==
  ASSUME WorkflowsInv, UNCHANGED workflow_vars
  PROVE  WorkflowsInv'
<1>1. UNCHANGED <<rows, job, announced, sequences>> /\ UNCHANGED bus_vars
  BY DEF workflow_vars, bus_vars
<1>2. Bus!BusInv'
  BY <1>1, BusStays DEF WorkflowsInv
<1> QED BY <1>1, <1>2, UntouchedStep

LEMMA WorkflowsStep ==
  ASSUME WorkflowsInv, [Next]_workflow_vars
  PROVE  WorkflowsInv'
<1>1. \A k : Ids(k) \subseteq Nat
  <2>1. ASSUME NEW k PROVE Ids(k) \subseteq Nat
    <3>1. NextId(k) \in Nat
      BY KindFinite DEF WorkflowsInv
    <3> QED BY <3>1 DEF Ids
  <2> QED BY <2>1
<1>2. ASSUME NEW r \in Requests, NEW k \in Kinds, NEW u \in Users,
             NEW w \in {None} \cup Ids("assessment"), Arrive(r, k, u, w)
      PROVE  WorkflowsInv'
  <2>1. w \in Nat
    BY <1>1 DEF None
  <2> QED BY <1>2, <2>1, ArriveStep
<1>3. ASSUME NEW r \in Requests, NEW u \in Users, NEW i \in Ids("resume"), NEW e \in Edits,
             ArriveEdit(r, u, i, e)
      PROVE  WorkflowsInv'
  <2>1. i \in Nat
    BY <1>1
  <2> QED BY <1>3, <2>1, ArriveEditStep
<1>4. ASSUME NEW r \in Requests, Advance(r) PROVE WorkflowsInv'
  <2>1. CASE LookUp(r)
    BY <2>1, LookUpStep
  <2>2. CASE Engine(r)
    BY <2>2, EngineStep
  <2>3. CASE Commit(r)
    BY <2>3, CommitStep
  <2>4. CASE Announce(r)
    BY <2>4, AnnounceStep
  <2>5. CASE Fetch(r)
    BY <2>5, FetchStep
  <2>6. CASE Update(r)
    BY <2>6, UpdateStep
  <2>7. CASE Reread(r)
    BY <2>7, RereadStep
  <2> QED BY <1>4, <2>1, <2>2, <2>3, <2>4, <2>5, <2>6, <2>7 DEF Advance
<1>5. CASE Stream
  BY <1>5, StreamStep
<1>6. CASE UNCHANGED workflow_vars
  BY <1>6, WorkflowsStutter
<1> QED BY <1>2, <1>3, <1>4, <1>5, <1>6 DEF Next

-----------------------------------------------------------------------------
(***************************************************************************)
(* The initial states                                                      *)
(***************************************************************************)

(* A permutation of 1 .. n takes every value.                              *)
LEMMA OrderOnto ==
  ASSUME NEW n \in Nat, NEW at \in Orders(n)
  PROVE  {at[i] : i \in 1 .. n} = 1 .. n
<1>1. IsFiniteSet(1 .. n)
  BY FS_Interval
<1>2. at \in Injection(1 .. n, 1 .. n)
  BY DEF Orders, Injection, IsInjective
<1>3. at \in Surjection(1 .. n, 1 .. n)
  BY <1>1, <1>2, FS_Injection
<1> QED BY <1>3 DEF Surjection

(* The assessments of earlier requests.                                    *)
LEMMA OldRows ==
  ASSUME NEW n \in Nat, NEW u \in [1 .. n -> Users], NEW at \in Orders(n),
         rows = OldAssessments(u, at), job = [r \in Requests |-> Fresh]
  PROVE  RowsInv /\ RowsTyped /\ PathsOfOwnAssessments
<1> DEFINE R(i) == Row("assessment", i, u[i], None, at[i])
<1>1. rows = {R(i) : i \in 1 .. n}
  BY DEF OldAssessments
<1>2. ASSUME NEW i \in 1 .. n
      PROVE  /\ R(i).kind = "assessment" /\ R(i).id = i /\ R(i).user \in Users
             /\ R(i).source = 0 /\ R(i).created = at[i] /\ R(i).text = << >>
             /\ at[i] \in Nat \ {0} /\ i \in Nat \ {0} /\ i <= n
             /\ R(i) \in [kind : Kinds, id : Nat \ {0}, user : Users, source : Nat,
                          created : Nat \ {0}, text : [Columns -> Texts] \cup {<< >>}]
  <2>1. at[i] \in Nat \ {0} /\ i \in Nat \ {0} /\ i <= n
    BY DEF Orders
  <2> QED BY <2>1 DEF Row, None, Kinds
<1> HIDE DEF R
<1>3. IsFiniteSet(rows) /\ Cardinality(rows) = n
  <2> DEFINE f == [i \in 1 .. n |-> R(i)]
  <2>1. f \in Bijection(1 .. n, rows)
    BY <1>1, <1>2 DEF Bijection, Injection, IsInjective, Surjection
  <2>2. ExistsBijection(1 .. n, rows)
    BY <2>1 DEF ExistsBijection
  <2>3. IsFiniteSet(1 .. n) /\ Cardinality(1 .. n) = n
    BY FS_Interval
  <2> QED BY <2>2, <2>3, FS_Bijection
<1>4. \A x \in rows : \E i \in 1 .. n : x = R(i)
  BY <1>1
<1>5. \A x \in rows : x.kind = "assessment"
  BY <1>2, <1>4
<1>6. OfKind("assessment") = rows /\ OfKind("learning_path") = {}
  BY <1>5 DEF OfKind
<1>7. Stamps = 1 .. n
  <2>1. Stamps = {x.created : x \in rows}
    BY DEF Stamps, AtStage, Fresh
  <2>2. {x.created : x \in rows} = {at[i] : i \in 1 .. n}
    <3>1. ASSUME NEW i \in 1 .. n PROVE R(i) \in rows /\ R(i).created = at[i]
      BY <1>1, <1>2
    <3>2. \A x \in rows : \E i \in 1 .. n : x.created = at[i]
      BY <1>2, <1>4
    <3>3. \A i \in 1 .. n : at[i] \in {x.created : x \in rows}
      BY <3>1
    <3>4. \A x \in rows : x.created \in {at[i] : i \in 1 .. n}
      BY <3>2
    <3> QED BY ONLY <3>3, <3>4
  <2> QED BY <2>1, <2>2, OrderOnto
<1>8. IsFiniteSet(Stamps) /\ Stamps = 1 .. Cardinality(Stamps)
  BY <1>7, FS_Interval
<1>9. RowsInv
  <2>1. \A x \in rows :
          /\ x \in [kind : Kinds, id : Nat \ {0}, user : Users, source : Nat,
                    created : Nat \ {0}, text : [Columns -> Texts] \cup {<< >>}]
          /\ x.id <= n
    BY <1>2, <1>4
  <2>2. \A x \in rows : x.id <= Cardinality(OfKind(x.kind))
    BY <1>3, <1>5, <1>6, <2>1
  <2> QED BY <1>3, <1>8, <2>1, <2>2 DEF RowsInv
<1>10. RowsTyped
  <2>1. \A x \in rows :
          /\ Name(x) \in Names
          /\ x.user \in Users /\ x.source \in Nat /\ x.created \in Nat \ {0}
          /\ x.text \in IF x.kind = "resume" THEN [Columns -> Texts] ELSE {<< >>}
    <3>1. ASSUME NEW i \in 1 .. n
          PROVE  /\ Name(R(i)) \in Names
                 /\ R(i).user \in Users /\ R(i).source \in Nat /\ R(i).created \in Nat \ {0}
                 /\ R(i).text \in IF R(i).kind = "resume" THEN [Columns -> Texts] ELSE {<< >>}
      BY <1>2 DEF Name, Names, Kinds
    <3> QED BY <1>4, <3>1
  <2>2. ASSUME NEW x \in rows, NEW y \in rows, Name(x) = Name(y) PROVE x = y
    <3>1. PICK i \in 1 .. n, j \in 1 .. n : x = R(i) /\ y = R(j)
      BY <1>4
    <3>2. x.id = i /\ y.id = j
      BY <1>2, <3>1
    <3>3. x.id = y.id
      BY <2>2 DEF Name
    <3> QED BY <3>1, <3>2, <3>3
  <2> QED BY <2>1, <2>2 DEF RowsTyped
<1> QED BY <1>6, <1>9, <1>10 DEF PathsOfOwnAssessments

(* The resume of an earlier request.                                       *)
LEMMA OldResume ==
  ASSUME NEW u \in Users, rows = {Row("resume", 1, u, None, 1)},
         job = [r \in Requests |-> Fresh]
  PROVE  RowsInv /\ RowsTyped /\ PathsOfOwnAssessments
<1>1. PICK x : x = Row("resume", 1, u, None, 1)
  OBVIOUS
<1>2. /\ x.kind = "resume" /\ x.id = 1 /\ x.user \in Users /\ x.source = 0 /\ x.created = 1
      /\ x.text \in [Columns -> Texts]
      /\ x \in [kind : Kinds, id : Nat \ {0}, user : Users, source : Nat,
                created : Nat \ {0}, text : [Columns -> Texts] \cup {<< >>}]
      /\ rows = {x}
  BY <1>1, WorkflowAssumption DEF Row, None, Kinds
<1> HIDE <1>1
<1>3. IsFiniteSet(rows) /\ Cardinality(rows) = 1
  <2>1. IsFiniteSet({x}) /\ Cardinality({x}) = 1
    BY FS_Singleton
  <2>2. rows = {x}
    BY <1>2
  <2> QED BY <2>1, <2>2
<1>4. OfKind("resume") = rows /\ OfKind("learning_path") = {}
  BY <1>2 DEF OfKind
<1>5. Stamps = {1}
  BY <1>2 DEF Stamps, AtStage, Fresh
<1>6. IsFiniteSet(Stamps) /\ Stamps = 1 .. Cardinality(Stamps)
  <2>1. IsFiniteSet({1}) /\ Cardinality({1}) = 1
    BY FS_Singleton
  <2>2. 1 .. 1 = {1}
    OBVIOUS
  <2> QED BY <1>5, <2>1, <2>2
<1>7. RowsInv
  <2>1. \A z \in rows : z.id <= Cardinality(OfKind(z.kind))
    <3>1. OfKind(x.kind) = rows
      BY <1>2 DEF OfKind
    <3>2. Cardinality(OfKind(x.kind)) = 1 /\ x.id = 1
      BY ONLY <1>2, <1>3, <3>1
    <3>3. 1 <= 1
      OBVIOUS
    <3>4. \A z \in rows : z = x
      BY <1>2
    <3> QED BY ONLY <3>2, <3>3, <3>4, Zenon
  <2>2. rows \subseteq [kind : Kinds, id : Nat \ {0}, user : Users, source : Nat,
                        created : Nat \ {0}, text : [Columns -> Texts] \cup {<< >>}]
    BY <1>2
  <2> QED BY <1>3, <1>6, <2>1, <2>2 DEF RowsInv
<1>8. RowsTyped
  <2>1. Name(x) \in Names
    BY <1>2 DEF Name, Names, Kinds
  <2> QED BY <1>2, <2>1 DEF RowsTyped
<1> QED BY <1>4, <1>7, <1>8 DEF PathsOfOwnAssessments

LEMMA WorkflowsInit == Init => WorkflowsInv
<1> SUFFICES ASSUME Init PROVE WorkflowsInv
  OBVIOUS
<1>1. RowsInv /\ RowsTyped /\ PathsOfOwnAssessments
  <2>1. CASE \E n \in 0 .. MaxOld : \E u \in [1 .. n -> Users], at \in Orders(n) :
               rows = OldAssessments(u, at)
    <3>1. PICK n \in 0 .. MaxOld : \E u \in [1 .. n -> Users], at \in Orders(n) :
                 rows = OldAssessments(u, at)
      BY <2>1
    <3>2. n \in Nat
      OBVIOUS
    <3> QED BY <3>1, <3>2, OldRows DEF Init
  <2>2. CASE \E u \in Users : rows = {Row("resume", 1, u, None, 1)}
    BY <2>2, OldResume DEF Init
  <2> QED BY <2>1, <2>2 DEF Init
<1>2. DOMAIN job = Requests /\ \A r \in Requests : JobInv(job[r])
  BY DEF Init, JobInv
<1>3. Bus!BusInv
  BY BusInit DEF Init
<1>4. announced \in [Users -> Seq(Names)] /\ \A u \in Users : announced[u] = << >>
  BY DEF Init
<1>5. AnnouncedInv
  <2>1. \A u \in Users : sequences[u] = 0
    BY DEF Init, Bus!Init
  <2> QED BY <1>4, <2>1 DEF AnnouncedInv
<1>6. TypeOK
  BY <1>1, <1>2, <1>3, <1>4, Typed
<1> QED BY <1>1, <1>2, <1>3, <1>5, <1>6 DEF WorkflowsInv

LEMMA WorkflowsInvariant == Spec => []WorkflowsInv
  BY WorkflowsInit, WorkflowsStep, PTL DEF Spec

-----------------------------------------------------------------------------
(***************************************************************************)
(* The theorems                                                            *)
(***************************************************************************)

(* Every reachable state is well typed, and ids are unique in a table, also*)
(* when requests of several users insert at the same time.                 *)
THEOREM WorkflowsTyped == Spec => []TypeOK
<1>1. WorkflowsInv => TypeOK
  BY DEF WorkflowsInv
<1> QED BY <1>1, WorkflowsInvariant, PTL

(* Whatever a stream delivers, holds or dropped names a row that is        *)
(* committed and the user's own (publish comes after commit and refresh).  *)
THEOREM EventsAfterRows == Spec => []EventsNameRows
<1>1. ASSUME WorkflowsInv PROVE EventsNameRows
  <2>1. ASSUME NEW s \in Streams, NEW e \in Offered(s)
        PROVE  e.user \in owner[s] /\ announced[e.user][e.seq] \in NamesOf(e.user)
    <3>1. e.user \in owner[s] /\ e.seq \in 1 .. sequences[e.user]
      BY <1>1, <2>1 DEF WorkflowsInv, Bus!BusInv, Bus!StreamInv, Bus!PublishedAt, Offered
    <3>2. e.user \in Users
      BY <1>1, <3>1 DEF WorkflowsInv, Bus!BusInv, Bus!TypeOK
    <3> QED BY <1>1, <3>1, <3>2 DEF WorkflowsInv, AnnouncedInv
  <2> QED BY <2>1 DEF EventsNameRows
<1> QED BY <1>1, WorkflowsInvariant, PTL

(* A learning path is its owner's, like the assessment it was built from,  *)
(* whatever happens between the look-up and the commit                     *)
(* (generate_learning_path).                                               *)
THEOREM PathsStayHome == Spec => []PathsOfOwnAssessments
<1>1. WorkflowsInv => PathsOfOwnAssessments
  BY DEF WorkflowsInv
<1> QED BY <1>1, WorkflowsInvariant, PTL

(* A path whose request named no assessment comes from one as new as any   *)
(* the user had when the request arrived (list_assessments).               *)
THEOREM PathsFromNewest == Spec => []PathFromNewest
<1>1. ASSUME WorkflowsInv PROVE PathFromNewest
  <2>1. ASSUME NEW x \in OfKind("learning_path"), NEW r \in Requests,
               AtStage(r, "publish"), Name(x) \in job[r].row, job[r].wanted = None
        PROVE  \E s \in Owned("assessment", x.user) :
                 s.id = x.source /\ \A y \in job[r].known : s.created >= y.created
    <3>1. PICK j : j = job[r]
      OBVIOUS
    <3>2. j \in Working /\ WorkInv(j) /\ j.stage = "publish"
      BY <1>1, <2>1, <3>1, StageTells DEF AtStage
    <3>3. PICK z \in Owned(j.kind, j.user) : j.row = {Name(z)} /\ z.source = j.source
      BY <3>2 DEF WorkInv
    <3>4. x \in rows /\ z \in rows /\ z.kind = j.kind /\ z.user = j.user
          /\ x.kind = "learning_path"
      BY DEF OfKind, Owned
    <3>5. x = z
      <4>1. Name(x) = Name(z)
        BY <2>1, <3>1, <3>3
      <4> QED BY <1>1, <3>4, <4>1 DEF WorkflowsInv, TypeOK
    <3>6. SourceOf(j)
      BY <3>2, <3>4, <3>5 DEF WorkInv
    <3> QED BY <2>1, <3>1, <3>3, <3>4, <3>5, <3>6 DEF SourceOf
  <2> QED BY <2>1 DEF PathFromNewest
<1> QED BY <1>1, WorkflowsInvariant, PTL

(* An answered edit of a resume is kept, and shown as it is, in every      *)
(* column no other edit has named since its look-up (update_resume).       *)
THEOREM EditsKept == Spec => []ResumeEditsKept
<1>1. ASSUME WorkflowsInv PROVE ResumeEditsKept
  <2>1. ASSUME NEW r \in Requests, job[r].row # {}, job[r].kind = "edit"
        PROVE  \E x \in Get("resume", job[r].user, job[r].target) :
                 \A c \in Columns \ job[r].overtaken :
                   /\ x.text[c] = Applied(job[r])[c]
                   /\ AtStage(r, "done") => job[r].answer[c] = x.text[c]
    <3>1. PICK j : j = job[r]
      OBVIOUS
    <3>2. JobInv(j)
      BY <1>1, <3>1 DEF WorkflowsInv
    <3>3. j \in Editings /\ EditInv(j)
      BY <2>1, <3>1, <3>2 DEF JobInv, Fresh, Answered, Working, Kinds
    <3>4. j.stage # "fetch" /\ j.stage # "update"
      BY <2>1, <3>1, <3>3 DEF EditInv
    <3>5. \E x \in Get("resume", j.user, j.target) :
            \A c \in Columns \ j.overtaken :
              /\ x.text[c] = Applied(j)[c]
              /\ j.stage = "done" => j.answer[c] = x.text[c]
      BY <3>3, <3>4 DEF EditInv
    <3> QED BY <3>1, <3>5 DEF AtStage
  <2> QED BY <2>1 DEF ResumeEditsKept
<1> QED BY <1>1, WorkflowsInvariant, PTL
(* The workflows use the bus through its operations only, so the clients   *)
(* of these requests see a behaviour of EventBus (event_bus.publish after  *)
(* the commit, events.py beside it).                                       *)
THEOREM BusUsed == Spec => Bus!Spec
<1>1. ASSUME WorkflowsInv, [Next]_workflow_vars PROVE [Bus!Next]_Bus!bus_vars
  <2>1. ASSUME UNCHANGED bus_vars PROVE [Bus!Next]_Bus!bus_vars
    BY <2>1 DEF bus_vars, Bus!bus_vars
  <2>2. ASSUME NEW r \in Requests, NEW k, NEW u, NEW w, Arrive(r, k, u, w)
        PROVE  [Bus!Next]_Bus!bus_vars
    BY <2>1, <2>2 DEF Arrive
  <2>3. ASSUME NEW r \in Requests, NEW u, NEW i, NEW e, ArriveEdit(r, u, i, e)
        PROVE  [Bus!Next]_Bus!bus_vars
    BY <2>1, <2>3 DEF ArriveEdit
  <2>4. ASSUME NEW r \in Requests, Advance(r)
        PROVE  [Bus!Next]_Bus!bus_vars
    <3>1. CASE Announce(r)
      <4>1. PICK j : j = job[r]
        OBVIOUS
      <4>2. j \in Working /\ Bus!Publish(j.user)
        BY <1>1, <3>1, <4>1, StageTells DEF Announce, AtStage
      <4>3. j.user \in Users
        BY <4>2 DEF Working
      <4> QED BY <4>2, <4>3 DEF Bus!Next
    <3>2. CASE LookUp(r)
      BY <2>1, <3>2, Zenon DEF LookUp
    <3>3. CASE Engine(r)
      BY <2>1, <3>3, Zenon DEF Engine
    <3>4. CASE Commit(r)
      BY <2>1, <3>4, Zenon DEF Commit
    <3>5. CASE Fetch(r)
      BY <2>1, <3>5, Zenon DEF Fetch
    <3>6. CASE Update(r)
      BY <2>1, <3>6, Zenon DEF Update
    <3>7. CASE Reread(r)
      BY <2>1, <3>7, Zenon DEF Reread
    <3> QED BY <2>4, <3>1, <3>2, <3>3, <3>4, <3>5, <3>6, <3>7 DEF Advance
  <2>5. CASE Stream
    BY <2>5 DEF Stream, Bus!Next
  <2>6. CASE UNCHANGED workflow_vars
    BY <2>1, <2>6 DEF workflow_vars
  <2> QED BY <1>1, <2>2, <2>3, <2>4, <2>5, <2>6 DEF Next
<1>2. Init => Bus!Init
  BY DEF Init
<1> QED BY <1>1, <1>2, WorkflowsInvariant, PTL DEF Spec, Bus!Spec
=============================================================================
