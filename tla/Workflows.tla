----------------------------- MODULE Workflows -----------------------------
(***************************************************************************)
(* The AI workflows of app/services.py, run_assessment,                    *)
(* generate_learning_path and generate_resume, and the edits of            *)
(* update_resume, over the database and the event bus of EventBus.tla.     *)
(*                                                                         *)
(* A request suspends while it looks its row up, while the engine works,   *)
(* at the commit and at the re-read; the row it commits and the event it   *)
(* publishes are separate steps.  When the process stops, at any of them,  *)
(* the rows survive and requests, streams and the bus do not: a restart is *)
(* Init with the rows committed so far.                                    *)
(***************************************************************************)
EXTENDS Integers, Sequences, FiniteSets

CONSTANTS
  Users,
  Requests,
  Streams, Capacity, MaxSeq,   \* of the event bus
  MaxOld,                      \* bound: how many assessments Init starts with
  Texts, Draft, Blank,         \* of the columns of a resume: Draft is what the
                               \* engine writes, Blank is only spaces
  Edits                        \* the bodies of PATCH /resumes/{id}

Kinds == {"assessment", "learning_path", "resume"}
Columns == {"title", "content"}

ASSUME WorkflowAssumption ==
  /\ Capacity \in Nat \ {0}
  /\ MaxSeq \in [Users -> Nat]
  /\ MaxOld \in Nat
  /\ Draft \in Texts /\ Blank \notin Texts
  /\ \A e \in Edits : /\ DOMAIN e \subseteq Columns
                      /\ \A c \in DOMAIN e : e[c] \in Texts \/ (c = "title" /\ e[c] = Blank)

VARIABLES
  rows,        \* the tables assessments, learning_paths and resumes
  job,         \* job[r]: the request r, see Job
  announced,   \* history: announced[u][n], the row event n of this process names
  subscribers, sequences, queue, phase, owner, hand, received, dropped, start

Bus == INSTANCE EventBus

bus_vars == <<subscribers, sequences, queue, phase, owner, hand, received,
              dropped, start>>
workflow_vars == <<rows, job, announced, bus_vars>>

(* The columns the properties tell apart.  source: LearningPath's          *)
(* assessment_id.  created: created_at, as a rank.  Ids count per table;   *)
(* nothing is deleted.                                                     *)
Row(k, i, u, src, at) ==
  [kind |-> k, id |-> i, user |-> u, source |-> src, created |-> at,
   text |-> IF k = "resume" THEN [c \in Columns |-> Draft] ELSE << >>]

OfKind(k) == {x \in rows : x.kind = k}
Owned(k, u) == {x \in OfKind(k) : x.user = u}

(* How an event names a row.                                               *)
Name(x) == [kind |-> x.kind, id |-> x.id]

(* Wrong on purpose: the id of the newest row.                             *)
NextIdReused(k) == Cardinality(OfKind(k))

NextId(k) == Cardinality(OfKind(k)) + 1

(* No assessment: the request named none, or there is none.                *)
None == 0

Later(x, y) == x.created > y.created \/ (x.created = y.created /\ x.id >= y.id)

(* Wrong on purpose: ordered by id alone.                                  *)
NewestById(u) ==
  IF Owned("assessment", u) = {} THEN None
  ELSE CHOOSE i \in {x.id : x \in Owned("assessment", u)} :
         \A x \in Owned("assessment", u) : i >= x.id

(* list_assessments, its first element.                                    *)
Newest(u) ==
  IF Owned("assessment", u) = {} THEN None
  ELSE (CHOOSE x \in Owned("assessment", u) :
          \A y \in Owned("assessment", u) : Later(x, y)).id

(* stage: new, lookup, engine, commit, publish; fetch, update, reread;     *)
(* done.  wanted: the assessment_id of the payload.  row: the name of the  *)
(* row committed, if any.  known: history, the user's assessments when the *)
(* request arrived.                                                        *)
Fresh == [stage |-> "new", row |-> {}]
Job(k, u, w) ==
  [stage |-> IF k = "learning_path" THEN "lookup" ELSE "engine", row |-> {},
   kind |-> k, user |-> u, wanted |-> w, source |-> None, created |-> 0,
   known |-> IF k = "learning_path" THEN Owned("assessment", u) ELSE {}]

AtStage(r, s) == job[r].stage = s
Become(r, j) == job' = [job EXCEPT ![r] = j]
Fail(r) == Become(r, [stage |-> "done", row |-> {}])
Succeed(r) == Become(r, [stage |-> "done", row |-> job[r].row, kind |-> job[r].kind,
                         user |-> job[r].user])

Arrive(r, k, u, w) ==
  /\ AtStage(r, "new")
  /\ k # "learning_path" => w = None
  /\ Become(r, Job(k, u, w))
  /\ UNCHANGED <<rows, announced, bus_vars>>

(* Wrong on purpose: the owner of the row is not looked at.                *)
GetAnyones(k, u, i) == {x \in OfKind(k) : x.id = i}

(* get_assessment, get_resume: the row, or none.                           *)
Get(k, u, i) == {x \in Owned(k, u) : x.id = i}

(* The assessment named, or the newest of the user's.                      *)
Source(r) ==
  LET j == job[r]
  IN  IF j.wanted = None THEN Newest(j.user)
      ELSE IF Get("assessment", j.user, j.wanted) # {} THEN j.wanted ELSE None

(* NotFoundError is a 404.                                                 *)
LookUp(r) ==
  /\ AtStage(r, "lookup")
  /\ IF Source(r) = None
       THEN Fail(r)
       ELSE Become(r, [job[r] EXCEPT !.source = Source(r), !.stage = "engine"])
  /\ UNCHANGED <<rows, announced, bus_vars>>

(* utcnow: later than every time read before.                              *)
Stamps == {x.created : x \in rows} \cup {job[r].created : r \in {q \in Requests : AtStage(q, "commit")}}
Now == CHOOSE t \in 1 .. Cardinality(Stamps) + 1 : \A s \in Stamps : t > s

(* The engine answers, with the provider's or the rule-based result, or    *)
(* raises, and nothing is stored.  The flush reads the clock for the new   *)
(* row before it waits for the INSERT.                                     *)
Engine(r) ==
  /\ AtStage(r, "engine")
  /\ \/ Become(r, [job[r] EXCEPT !.stage = "commit", !.created = Now])
     \/ Fail(r)
  /\ UNCHANGED <<rows, announced, bus_vars>>

(* INSERT and COMMIT; refresh reads the id back.                           *)
Commit(r) ==
  /\ AtStage(r, "commit")
  /\ LET j == job[r]
         x == Row(j.kind, NextId(j.kind), j.user, j.source, j.created)
     IN  /\ rows' = rows \cup {x}
         /\ Become(r, [j EXCEPT !.row = {Name(x)}, !.stage = "publish"])
  /\ UNCHANGED <<announced, bus_vars>>

(* Wrong on purpose: announces the newest row of the table.                *)
AnnounceNewest(r) ==
  LET j == job[r]
  IN  /\ AtStage(r, "publish")
      /\ Bus!Publish(j.user)
      /\ \E x \in OfKind(j.kind) :
           /\ \A y \in OfKind(j.kind) : x.id >= y.id
           /\ announced' = [announced EXCEPT ![j.user] = Append(@, Name(x))]
      /\ Succeed(r)
      /\ UNCHANGED rows

(* Wrong on purpose: a request without a listener publishes nothing, and   *)
(* waits.                                                                  *)
AnnounceToListeners(r) ==
  LET j == job[r]
  IN  /\ AtStage(r, "publish")
      /\ subscribers[j.user] # {}
      /\ Bus!Publish(j.user)
      /\ \E x \in j.row : announced' = [announced EXCEPT ![j.user] = Append(@, x)]
      /\ Succeed(r)
      /\ UNCHANGED rows

(* The event names the row just committed.                                 *)
Announce(r) ==
  LET j == job[r]
  IN  /\ AtStage(r, "publish")
      /\ Bus!Publish(j.user)
      /\ \E x \in j.row : announced' = [announced EXCEPT ![j.user] = Append(@, x)]
      /\ Succeed(r)
      /\ UNCHANGED rows

(***************************************************************************)
(* PATCH /resumes/{id}: update_resume.  It publishes nothing.              *)
(***************************************************************************)

(* loaded: the columns as the look-up found them.  overtaken: history, the *)
(* columns other edits named since.                                        *)
EditJob(u, i, changes) ==
  [stage |-> "fetch", row |-> {}, kind |-> "edit", user |-> u, target |-> i,
   changes |-> changes, loaded |-> << >>, answer |-> << >>, overtaken |-> {}]

ArriveEdit(r, u, i, changes) ==
  /\ AtStage(r, "new")
  /\ Become(r, EditJob(u, i, changes))
  /\ UNCHANGED <<rows, announced, bus_vars>>

Fetch(r) ==
  LET j == job[r]
      found == Get("resume", j.user, j.target)
  IN  /\ AtStage(r, "fetch")
      /\ \/ found = {} /\ Fail(r)
         \/ \E x \in found : Become(r, [j EXCEPT !.loaded = x.text, !.stage = "update"])
      /\ UNCHANGED <<rows, announced, bus_vars>>

(* The object in the session: a blank title is no title.                   *)
Applied(j) ==
  [c \in Columns |-> IF c \in DOMAIN j.changes /\ j.changes[c] # Blank
                       THEN j.changes[c] ELSE j.loaded[c]]

(* Wrong on purpose: every column of the object is written.                *)
WrittenWhole(j, x) == Applied(j)

(* The UPDATE names the columns whose value is no longer the loaded one.   *)
Written(j, x) ==
  [c \in Columns |-> IF Applied(j)[c] # j.loaded[c] THEN Applied(j)[c] ELSE x.text[c]]

Editing(r) == AtStage(r, "update") \/ (job[r].row # {} /\ job[r].kind = "edit")

Update(r) ==
  LET j == job[r]
  IN  /\ AtStage(r, "update")
      /\ \E x \in Get("resume", j.user, j.target) :
           /\ rows' = (rows \ {x}) \cup {[x EXCEPT !.text = Written(j, x)]}
           /\ job' = [q \in Requests |->
                CASE q = r -> [j EXCEPT !.row = {Name(x)}, !.stage = "reread"]
                  [] q # r /\ Editing(q) /\ job[q].target = j.target ->
                       [job[q] EXCEPT !.overtaken = @ \cup DOMAIN j.changes]
                  [] OTHER -> job[q]]
      /\ UNCHANGED <<announced, bus_vars>>

(* session.refresh; the answer is the row.                                 *)
Reread(r) ==
  LET j == job[r]
  IN  /\ AtStage(r, "reread")
      /\ \E x \in Get("resume", j.user, j.target) :
           Become(r, [j EXCEPT !.answer = x.text, !.stage = "done"])
      /\ UNCHANGED <<rows, announced, bus_vars>>

(* The streams of the bus run beside the workflows.                        *)
Stream ==
  /\ \E s \in Streams :
       \/ \E u \in Users : Bus!Connect(s, u)
       \/ Bus!Step(s) \/ Bus!KeepAlive(s) \/ Bus!Disconnect(s) \/ Bus!Abandon(s)
  /\ UNCHANGED <<rows, job, announced>>

Orders(n) == {f \in [1 .. n -> 1 .. n] : \A i, j \in 1 .. n : f[i] = f[j] => i = j}

(* Of two requests, the first to read the clock may be the last to insert. *)
OldAssessments(u, at) == {Row("assessment", i, u[i], None, at[i]) : i \in DOMAIN u}

(* The rows of earlier requests, assessments or a resume: no request reads *)
(* both tables.                                                            *)
Init == /\ \/ \E n \in 0 .. MaxOld : \E u \in [1 .. n -> Users], at \in Orders(n) :
                rows = OldAssessments(u, at)
           \/ \E u \in Users : rows = {Row("resume", 1, u, None, 1)}
        /\ job = [r \in Requests |-> Fresh]
        /\ announced = [u \in Users |-> << >>]
        /\ Bus!Init

Advance(r) == \/ LookUp(r) \/ Engine(r) \/ Commit(r) \/ Announce(r)
              \/ Fetch(r) \/ Update(r) \/ Reread(r)

(* The ids a client may name: of a row, or of none yet.                    *)
Ids(k) == 1 .. NextId(k)

Next == \/ \E r \in Requests, k \in Kinds, u \in Users, w \in {None} \cup Ids("assessment") :
             Arrive(r, k, u, w)
        \/ \E r \in Requests, u \in Users, i \in Ids("resume"), e \in Edits :
             ArriveEdit(r, u, i, e)
        \/ \E r \in Requests : Advance(r)
        \/ Stream

Spec == Init /\ [][Next]_workflow_vars

(* The provider times out and the database answers, so a request that      *)
(* arrived goes on.  Nothing is assumed of the clients.                    *)
FairSpec == Spec /\ \A r \in Requests : WF_workflow_vars(Advance(r))

-----------------------------------------------------------------------------
(***************************************************************************)
(* Properties                                                              *)
(***************************************************************************)

Names == [kind : Kinds, id : Nat \ {0}]

(* Type invariant; ids are unique in a table.                              *)
TypeOK ==
  /\ \A x \in rows :
       /\ Name(x) \in Names
       /\ x.user \in Users /\ x.source \in Nat /\ x.created \in Nat \ {0}
       /\ x.text \in IF x.kind = "resume" THEN [Columns -> Texts] ELSE {<< >>}
  /\ \A x, y \in rows : Name(x) = Name(y) => x = y
  /\ \A r \in Requests : job[r].row \subseteq Names
  /\ announced \in [Users -> Seq(Names)]
  /\ Bus!TypeOK

NamesOf(u) == {Name(x) : x \in {y \in rows : y.user = u}}

(* Everything a stream has or had: delivered, on its way, or dropped.      *)
Offered(s) == Bus!Elements(Bus!Pipeline(s)) \cup dropped[s]

(* An event never runs ahead of its row, also for a client that re-fetches *)
(* over REST after a gap: whatever a stream has offered, or dropped, names *)
(* a committed row of the stream's own user.                               *)
EventsNameRows ==
  \A s \in Streams : \A e \in Offered(s) :
    /\ e.user \in owner[s]
    /\ announced[e.user][e.seq] \in NamesOf(e.user)

(* A learning path belongs to the owner of the assessment it was built     *)
(* from, across every interleaving of look-up, engine and commit.          *)
PathsOfOwnAssessments ==
  \A x \in OfKind("learning_path") :
    \E y \in OfKind("assessment") : y.id = x.source /\ y.user = x.user

(* Without an assessment_id, a path is built from an assessment created no *)
(* earlier than any that was the user's when the request arrived, although *)
(* ids need not be in the order of creation.                               *)
PathFromNewest ==
  \A x \in OfKind("learning_path"), r \in Requests :
    AtStage(r, "publish") /\ Name(x) \in job[r].row /\ job[r].wanted = None
      => \E s \in Owned("assessment", x.user) :
           s.id = x.source /\ \A y \in job[r].known : s.created >= y.created

(* Edits of one resume from two tabs: what an answered edit asked for, and *)
(* what it left alone, is what the row has and what the answer shows, in   *)
(* every column that no other edit has named since its look-up.            *)
ResumeEditsKept ==
  \A r \in Requests :
    job[r].row # {} /\ job[r].kind = "edit"
      => \E x \in Get("resume", job[r].user, job[r].target) :
           \A c \in Columns \ job[r].overtaken :
             /\ x.text[c] = Applied(job[r])[c]
             /\ AtStage(r, "done") => job[r].answer[c] = x.text[c]

(* The clock never goes back and never repeats, ids count up from one.     *)
RowsInv ==
  /\ IsFiniteSet(rows)
  /\ rows \subseteq [kind : Kinds, id : Nat \ {0}, user : Users, source : Nat,
                     created : Nat \ {0}, text : [Columns -> Texts] \cup {<< >>}]
  /\ \A x \in rows : x.id <= Cardinality(OfKind(x.kind))
  /\ IsFiniteSet(Stamps) /\ Stamps = 1 .. Cardinality(Stamps)

(* The source of a path is its user's, and if the request named none, as   *)
(* new as any assessment the user had when it arrived.                     *)
SourceOf(j) ==
  \E s \in Owned("assessment", j.user) :
    /\ s.id = j.source
    /\ j.wanted = None => \A y \in j.known : s.created >= y.created

WorkInv(j) ==
  /\ j.known \subseteq Owned("assessment", j.user)
  /\ j.kind = "learning_path" /\ j.stage # "lookup" => SourceOf(j)
  /\ IF j.stage = "publish"
       THEN \E x \in Owned(j.kind, j.user) : j.row = {Name(x)} /\ x.source = j.source
       ELSE j.row = {}

(* Outside the columns other edits named: before the commit the row is as  *)
(* it was loaded, from then on as the edit left it.                        *)
EditInv(j) ==
  /\ j.row # {} <=> j.stage \in {"reread", "done"}
  /\ j.stage # "fetch" =>
       /\ j.loaded \in [Columns -> Texts]
       /\ \E x \in Get("resume", j.user, j.target) :
            \A c \in Columns \ j.overtaken :
              /\ x.text[c] = IF j.stage = "update" THEN j.loaded[c] ELSE Applied(j)[c]
              /\ j.stage = "done" => j.answer[c] = x.text[c]

Working == [stage : {"lookup", "engine", "commit", "publish"}, row : SUBSET Names,
            kind : Kinds, user : Users, wanted : Nat, source : Nat, created : Nat,
            known : SUBSET rows]
Editings == [stage : {"fetch", "update", "reread", "done"}, row : SUBSET Names,
             kind : {"edit"}, user : Users, target : Nat, changes : Edits,
             loaded : [Columns -> Texts] \cup {<< >>},
             answer : [Columns -> Texts] \cup {<< >>}, overtaken : SUBSET Columns]
Answered == [stage : {"done"}, row : SUBSET Names, kind : Kinds, user : Users]

JobInv(j) == \/ j = Fresh \/ j = [stage |-> "done", row |-> {}] \/ j \in Answered
             \/ j \in Working /\ WorkInv(j)
             \/ j \in Editings /\ EditInv(j)

(* Every event of the process names a row that is there.                   *)
AnnouncedInv ==
  \A u \in Users :
    /\ Len(announced[u]) = sequences[u]
    /\ \A n \in 1 .. Len(announced[u]) : announced[u][n] \in NamesOf(u)

(* The inductive invariant behind the safety properties.                   *)
WorkflowsInv == /\ TypeOK /\ RowsInv /\ PathsOfOwnAssessments
                /\ DOMAIN job = Requests /\ \A r \in Requests : JobInv(job[r])
                /\ AnnouncedInv /\ Bus!BusInv

(* A committed row is announced, whether or not anybody listens.           *)
EveryRowAnnounced ==
  \A r \in Requests :
    AtStage(r, "publish")
      ~> \E x \in job[r].row :
           \E i \in 1 .. Len(announced[job[r].user]) : announced[job[r].user][i] = x
=============================================================================
