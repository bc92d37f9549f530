------------------------------ MODULE EngineProofs ------------------------------
(***************************************************************************)
(* Theorems about the rule-based engine, SkillScoring and SkillEngine, for *)
(* every text, catalogue and set of weights that satisfies their           *)
(* assumptions; and about MarketCache, the table where the engine's market *)
(* reports are kept, for every set of requests and reports, and every      *)
(* relation of the TTL to the duration of a request.  The two share no     *)
(* state: the cache knows a report of the engine only as Snapshot.         *)
(***************************************************************************)
EXTENDS MarketCache, SkillEngine, SequenceTheorems, FiniteSetTheorems,
        WellFoundedInduction, TLAPS

-----------------------------------------------------------------------------
(***************************************************************************)
(* The market report cache                                                 *)
(***************************************************************************)

(***************************************************************************)
(* Rows                                                                    *)
(***************************************************************************)

(* What an outcome makes of a row.                                         *)
LEMMA StoredFacts ==
  ASSUME NEW o \in Outcomes, NEW t \in Nat
  PROVE  /\ Stored(o, t) \in Rows /\ Stored(o, t).refreshed = t
         /\ Stored(o, t).content = o.content /\ o.content \in Contents \cup {Snapshot}
  BY DEF Outcomes, RuleBased, Rows, Stored

(* What the UPDATE leaves in the row: the stamp of the request, a content  *)
(* that is its own unless it is the one it had loaded, and its own outcome *)
(* throughout when nobody came in between.                                 *)
LEMMA WrittenFacts ==
  ASSUME NEW r \in Requests, row \in Rows, loaded[r] \in Rows, outcome[r] \in Outcomes,
         begin[r] \in Nat
  PROVE  /\ Written(r) \in Rows
         /\ Written(r).refreshed = begin[r]
         /\ Written(r).content = IF outcome[r].content = loaded[r].content
                                   THEN row.content ELSE outcome[r].content
         /\ row = loaded[r] => Written(r) = Stored(outcome[r], begin[r])
  BY DEF Outcomes, RuleBased, Rows, Stored, Written

-----------------------------------------------------------------------------
(***************************************************************************)
(* Typing                                                                  *)
(***************************************************************************)

LEMMA TypeInit == Init => TypeOK
<1> SUFFICES ASSUME Init PROVE TypeOK
  OBVIOUS
<1> QED BY DEF Init, TypeOK, Phases

LEMMA TypeStep ==
  ASSUME TypeOK, \A r \in Requests : Recent(r), [Next]_cache_vars
  PROVE  TypeOK'
<1> USE DEF TypeOK
<1>1. ASSUME NEW r \in Requests, NEW f \in BOOLEAN, Begin(r, f) PROVE TypeOK'
  BY <1>1 DEF Begin, Goto, Phases
<1>2. ASSUME NEW r \in Requests, Select(r) PROVE TypeOK'
  BY <1>2 DEF Select, Return, Goto, Usable, Phases
<1>3. ASSUME NEW r \in Requests, Generate(r) PROVE TypeOK'
  <2>1. PICK o \in Outcomes : /\ outcome' = [outcome EXCEPT ![r] = o]
                              /\ born' = [born EXCEPT ![o.content] = now]
    BY <1>3 DEF Generate
  <2>2. outcome' \in [Requests -> Outcomes \cup {NoOutcome}] /\ born' \in [Contents \cup {Snapshot} -> Nat]
    BY <2>1
  <2>3. phase' \in [Requests -> Phases]
    BY <1>3 DEF Generate, Goto, Phases
  <2> QED BY <1>3, <2>2, <2>3 DEF Generate
<1>4. ASSUME NEW r \in Requests, EngineRaises(r) PROVE TypeOK'
  BY <1>4 DEF EngineRaises, Goto, Phases
<1>5. ASSUME NEW r \in Requests, Insert(r) PROVE TypeOK'
  <2>1. Stored(outcome[r], now) \in Rows
    BY <1>5, StoredFacts DEF Insert, Recent
  <2>2. row' \in Rows \cup {NoRow} /\ phase' \in [Requests -> Phases]
    BY <1>5, <2>1 DEF Insert, Goto, Phases
  <2> QED BY <1>5, <2>2 DEF Insert
<1>6. ASSUME NEW r \in Requests, Update(r) PROVE TypeOK'
  <2>1. loaded[r] \in Rows /\ row \in Rows /\ outcome[r] \in Outcomes
    BY <1>6 DEF Update, Recent
  <2>2. row' \in Rows
    BY <1>6, <2>1, WrittenFacts DEF Update
  <2>3. overlap' \in BOOLEAN /\ phase' \in [Requests -> Phases]
    BY <1>6 DEF Update, Goto, Phases
  <2> QED BY <1>6, <2>2, <2>3 DEF Update
<1>7. ASSUME NEW r \in Requests, Reread(r) PROVE TypeOK'
  <2>1. row \in Rows /\ row.refreshed \in Nat /\ outcome[r] \in Outcomes
    BY <1>7 DEF Reread, Recent, Rows
  <2>2. Stored(outcome[r], row.refreshed) \in Rows
    BY <2>1, StoredFacts
  <2> QED BY <1>7, <2>2 DEF Reread, Return, Goto, Phases
<1>8. ASSUME NEW r \in Requests, ServeWinner(r) PROVE TypeOK'
  BY <1>8 DEF ServeWinner, Return, Goto, Phases
<1>9. CASE Tick
  BY <1>9 DEF Tick
<1>10. CASE UNCHANGED cache_vars
  BY <1>10 DEF cache_vars
<1> QED BY <1>1, <1>2, <1>3, <1>4, <1>5, <1>6, <1>7, <1>8, <1>9, <1>10 DEF Next

-----------------------------------------------------------------------------
(***************************************************************************)
(* Time                                                                    *)
(***************************************************************************)

(* Requests keep to their time, whichever step is taken.                   *)
LEMMA TimeStep ==
  ASSUME CacheInv, [Next]_cache_vars, NEW x \in Requests
  PROVE  InTime(x)'
<1> USE DEF InTime, InFlight
<1>1. now \in Nat /\ begin[x] \in Nat /\ MaxDuration \in Nat /\ InTime(x)
  BY CacheAssumption DEF CacheInv, TypeOK
<1>2. ASSUME NEW r \in Requests, NEW f \in BOOLEAN, Begin(r, f) PROVE InTime(x)'
  BY <1>1, <1>2 DEF Begin, Goto, CacheInv, TypeOK
<1>3. ASSUME NEW r \in Requests,
             \/ Select(r) \/ Generate(r) \/ EngineRaises(r) \/ Insert(r)
             \/ Update(r) \/ Reread(r) \/ ServeWinner(r)
      PROVE  InTime(x)'
  <2>1. now' = now /\ begin' = begin /\ (x # r => phase'[x] = phase[x])
        /\ phase[r] \notin {"idle", "done", "failed"}
    BY <1>3 DEF Select, Return, Generate, EngineRaises, Insert, Update, Reread, ServeWinner,
                Goto, CacheInv, TypeOK
  <2> QED BY <1>1, <2>1
<1>4. CASE Tick
  BY <1>1, <1>4 DEF Tick
<1>5. CASE UNCHANGED cache_vars
  BY <1>1, <1>5 DEF cache_vars
<1> QED BY <1>2, <1>3, <1>4, <1>5 DEF Next

-----------------------------------------------------------------------------
(***************************************************************************)
(* The actions                                                             *)
(***************************************************************************)

(* What the invariant says of the values the actions use.                  *)
LEMMA Numbers ==
  ASSUME CacheInv
  PROVE  /\ now \in Nat /\ TTL \in Nat /\ MaxDuration \in Nat
         /\ Slack \in Nat /\ TTL <= Slack /\ MaxDuration <= Slack
         /\ row # NoRow => /\ row \in Rows /\ row.refreshed \in Nat
                           /\ row.content \in Contents \cup {Snapshot}
         /\ \A x \in Requests :
              /\ begin[x] \in Nat /\ begin[x] <= now
              /\ phase[x] \in {"commit", "reread", "lost"} =>
                   /\ outcome[x] \in Outcomes
                   /\ outcome[x].content \in Contents \cup {Snapshot}
              /\ loaded[x] # NoRow => loaded[x] \in Rows
         /\ \A c \in Contents \cup {Snapshot} : born[c] \in Nat
<1>1. \A o \in Outcomes : o.content \in Contents \cup {Snapshot}
  BY DEF Outcomes, RuleBased
<1>2. Slack \in Nat /\ TTL <= Slack /\ MaxDuration <= Slack
  BY CacheAssumption DEF Slack
<1>3. row # NoRow => /\ row \in Rows /\ row.refreshed \in Nat
                     /\ row.content \in Contents \cup {Snapshot}
  BY DEF CacheInv, TypeOK, Rows
<1> QED BY <1>1, <1>2, <1>3, CacheAssumption DEF CacheInv, TypeOK, InTime, Recent

(* The parts of the invariant an action that writes nothing to the row may *)
(* disturb are those of its own request.                                   *)
LEMMA RowKept ==
  ASSUME CacheInv, NEW r \in Requests, now' = now, UNCHANGED <<row, begin, outcome, born, overlap>>,
         \A x \in Requests \ {r} : /\ phase'[x] = phase[x] /\ loaded'[x] = loaded[x]
                                   /\ answer'[x] = answer[x],
         Recent(r)', phase'[r] = "failed" => outcome[r] = NoOutcome,
         phase'[r] = "done" => /\ answer'[r] \in Rows
                               /\ answer'[r].refreshed + Slack >= begin[r]
  PROVE  /\ row' # NoRow => row'.refreshed <= now'
         /\ \A x \in Requests : Recent(x)'
         /\ EngineAnswersServed' /\ AnswerAge' /\ RefreshedHonest' /\ IntactWithoutOverlap'
<1>1. ASSUME NEW x \in Requests PROVE Recent(x)'
  BY DEF CacheInv, Recent
<1>2. EngineAnswersServed' /\ AnswerAge'
  BY DEF CacheInv, EngineAnswersServed, AnswerAge, Slack
<1>3. RefreshedHonest' /\ IntactWithoutOverlap'
  BY DEF CacheInv, RefreshedHonest, IntactWithoutOverlap
<1> QED BY <1>1, <1>2, <1>3 DEF CacheInv

Kept == /\ row # NoRow => row.refreshed <= now
        /\ \A x \in Requests : Recent(x)
        /\ EngineAnswersServed /\ AnswerAge /\ RefreshedHonest /\ IntactWithoutOverlap

LEMMA SelectStep ==
  ASSUME CacheInv, NEW r \in Requests, Select(r)
  PROVE  Kept'
<1>1. /\ phase[r] = "select" /\ loaded'[r] = row
      /\ UNCHANGED <<now, row, begin, outcome, born, overlap>>
      /\ \/ phase'[r] = "done" /\ answer'[r] = row /\ Usable(r)
         \/ phase'[r] = "generate"
      /\ \A x \in Requests \ {r} : /\ phase'[x] = phase[x] /\ loaded'[x] = loaded[x]
                                   /\ answer'[x] = answer[x]
  BY DEF Select, Return, Goto, CacheInv, TypeOK
<1>2. Recent(r)'
  BY <1>1 DEF Recent, CacheInv
<1>3. phase'[r] = "done" => answer'[r] \in Rows /\ answer'[r].refreshed + Slack >= begin[r]
  BY <1>1, Numbers DEF Usable
<1> QED BY <1>1, <1>2, <1>3, RowKept DEF Kept

(* A failed call of the engine leaves everything but its own request.      *)
LEMMA EngineRaisesStep ==
  ASSUME CacheInv, NEW r \in Requests, EngineRaises(r)
  PROVE  Kept'
<1>1. /\ phase[r] = "generate" /\ phase'[r] = "failed"
      /\ UNCHANGED <<now, row, begin, loaded, outcome, answer, born, overlap>>
      /\ \A x \in Requests \ {r} : phase'[x] = phase[x]
  BY DEF EngineRaises, Goto, CacheInv, TypeOK
<1>2. Recent(r)' /\ outcome[r] = NoOutcome
  BY <1>1 DEF Recent, CacheInv
<1> QED BY <1>1, <1>2, RowKept DEF Kept

LEMMA ReturnStep ==
  ASSUME CacheInv, NEW r \in Requests, Reread(r) \/ ServeWinner(r)
  PROVE  Kept'
<1>1. /\ phase[r] \in {"reread", "lost"} /\ phase'[r] = "done"
      /\ UNCHANGED <<now, row, begin, loaded, outcome, born, overlap>>
      /\ \A x \in Requests \ {r} : /\ phase'[x] = phase[x] /\ loaded'[x] = loaded[x]
                                   /\ answer'[x] = answer[x]
      /\ \/ answer'[r] = Stored(outcome[r], row.refreshed)
         \/ answer'[r] = row
  BY DEF Reread, ServeWinner, Return, Goto, CacheInv, TypeOK
<1>2. row # NoRow /\ row.refreshed + MaxDuration >= begin[r]
  BY <1>1 DEF CacheInv, Recent
<1>3. answer'[r].refreshed = row.refreshed /\ answer'[r] \in Rows
  BY <1>1, <1>2, Numbers, StoredFacts
<1>4. answer'[r].refreshed + Slack >= begin[r]
  BY <1>2, <1>3, Numbers
<1>5. Recent(r)'
  BY <1>1 DEF CacheInv, Recent
<1> QED BY <1>1, <1>3, <1>4, <1>5, RowKept DEF Kept

LEMMA BeginStep ==
  ASSUME CacheInv, NEW r \in Requests, NEW f \in BOOLEAN, Begin(r, f)
  PROVE  Kept'
<1>1. /\ phase[r] = "idle" /\ phase' = [phase EXCEPT ![r] = "select"]
      /\ UNCHANGED <<now, row, loaded, outcome, answer, born, overlap>>
      /\ \A x \in Requests \ {r} : begin'[x] = begin[x] /\ phase'[x] = phase[x]
      /\ phase'[r] = "select"
  BY DEF Begin, Goto, CacheInv, TypeOK
<1>2. ASSUME NEW x \in Requests PROVE Recent(x)'
  BY <1>1 DEF CacheInv, Recent
<1>3. EngineAnswersServed' /\ AnswerAge'
  BY <1>1 DEF CacheInv, EngineAnswersServed, AnswerAge, Slack
<1>4. RefreshedHonest' /\ IntactWithoutOverlap'
  BY <1>1 DEF CacheInv, RefreshedHonest, IntactWithoutOverlap
<1> QED BY <1>1, <1>2, <1>3, <1>4 DEF Kept, CacheInv

(* An engine that produces a content again makes it only younger.          *)
LEMMA GenerateStep ==
  ASSUME CacheInv, NEW r \in Requests, Generate(r)
  PROVE  Kept'
<1>1. PICK o \in Outcomes : /\ outcome' = [outcome EXCEPT ![r] = o]
                            /\ born' = [born EXCEPT ![o.content] = now]
  BY DEF Generate
<1>2. /\ phase[r] = "generate" /\ phase'[r] = "commit" /\ outcome'[r] = o
      /\ UNCHANGED <<now, row, begin, loaded, answer, overlap>>
      /\ \A x \in Requests \ {r} : phase'[x] = phase[x] /\ outcome'[x] = outcome[x]
  BY <1>1 DEF Generate, Goto, CacheInv, TypeOK
<1>3. \A c \in Contents \cup {Snapshot} :
        born'[c] = IF c = o.content THEN now ELSE born[c]
  BY <1>1 DEF CacheInv, TypeOK
<1>4. o.content \in Contents \cup {Snapshot} /\ o # NoOutcome
  BY StoredFacts, Numbers, SentinelAssumption
<1>5. ASSUME NEW x \in Requests PROVE Recent(x)'
  <2>1. phase'[x] = "commit" => born'[outcome'[x].content] >= begin[x]
    BY <1>2, <1>3, <1>4, Numbers DEF CacheInv, Recent
  <2>2. ASSUME phase'[x] \in {"generate", "commit"}, loaded[x] # NoRow
        PROVE  row.content = loaded[x].content \/ born'[row.content] + MaxDuration >= begin[x]
    <3>1. phase[x] \in {"generate", "commit"} /\ row # NoRow
      BY <1>2, <2>2 DEF CacheInv, Recent
    <3>2. row.content = loaded[x].content \/ born[row.content] + MaxDuration >= begin[x]
      BY <2>2, <3>1 DEF CacheInv, Recent
    <3> QED BY <1>3, <3>1, <3>2, Numbers
  <2> QED BY <1>2, <2>1, <2>2 DEF CacheInv, Recent
<1>6. EngineAnswersServed' /\ AnswerAge'
  BY <1>2 DEF CacheInv, EngineAnswersServed, AnswerAge, Slack
<1>7. RefreshedHonest'
  BY <1>2, <1>3, Numbers DEF CacheInv, RefreshedHonest
<1>8. IntactWithoutOverlap'
  BY <1>2 DEF CacheInv, IntactWithoutOverlap
<1> QED BY <1>2, <1>5, <1>6, <1>7, <1>8 DEF Kept, CacheInv

(* The row is written: by an INSERT that found none, or by an UPDATE.      *)
(* fresh: what the others need to know of the new row.                     *)
LEMMA RowWritten ==
  ASSUME CacheInv, NEW r \in Requests, phase[r] = "commit",
         UNCHANGED <<now, begin, loaded, outcome, answer, born>>,
         phase' = [phase EXCEPT ![r] = "reread"], row' \in Rows,
         row'.refreshed <= now, row'.refreshed + MaxDuration >= now,
         \/ row # NoRow /\ row.content = row'.content
         \/ row'.content = outcome[r].content
  PROVE  (\A x \in Requests : Recent(x)') /\ EngineAnswersServed' /\ AnswerAge'
<1>1. /\ row' # NoRow /\ phase'[r] = "reread"
      /\ \A x \in Requests \ {r} : phase'[x] = phase[x]
  BY SentinelAssumption DEF CacheInv, TypeOK
<1>2. row'.refreshed \in Nat
  BY DEF Rows
<1>3. born[outcome[r].content] >= begin[r] /\ now <= begin[r] + MaxDuration
  BY DEF CacheInv, Recent, InTime, InFlight
<1>4. born[outcome[r].content] \in Nat
  BY Numbers
<1>5. ASSUME NEW x \in Requests PROVE Recent(x)'
  <2>1. row'.refreshed + MaxDuration >= begin[x]
    BY <1>2, Numbers
  <2>2. ASSUME phase'[x] \in {"generate", "commit"}, loaded[x] # NoRow
        PROVE  row'.content = loaded[x].content \/ born[row'.content] + MaxDuration >= begin[x]
    <3>1. CASE row # NoRow /\ row.content = row'.content
      BY <1>1, <2>2, <3>1 DEF CacheInv, Recent
    <3>2. CASE row'.content = outcome[r].content
      BY <1>3, <1>4, <3>2, Numbers
    <3> QED BY <3>1, <3>2
  <2>3. phase'[x] = "commit" => born[outcome[x].content] >= begin[x]
    BY <1>1 DEF CacheInv, Recent
  <2>4. /\ phase'[x] \in {"idle", "select", "generate"} => outcome[x] = NoOutcome
        /\ phase'[x] \in {"commit", "reread", "lost"} => outcome[x] \in Outcomes
    BY <1>1 DEF CacheInv, Recent
  <2> QED BY <1>1, <2>1, <2>2, <2>3, <2>4 DEF Recent
<1>6. EngineAnswersServed' /\ AnswerAge'
  BY <1>1 DEF CacheInv, EngineAnswersServed, AnswerAge, Slack
<1> QED BY <1>5, <1>6

LEMMA InsertStep ==
  ASSUME CacheInv, NEW r \in Requests, Insert(r)
  PROVE  Kept'
<1>1. /\ phase[r] = "commit" /\ loaded[r] = NoRow
      /\ UNCHANGED <<now, begin, refresh, loaded, outcome, answer, born, overlap>>
  BY DEF Insert
<1>2. CASE row = NoRow
  <2>1. row' = Stored(outcome[r], now) /\ phase' = [phase EXCEPT ![r] = "reread"]
    BY <1>2 DEF Insert, Goto
  <2>2. /\ row' \in Rows /\ row'.refreshed = now
        /\ row'.content = outcome[r].content
    BY <1>1, <2>1, Numbers, StoredFacts
  <2>3. (\A x \in Requests : Recent(x)') /\ EngineAnswersServed' /\ AnswerAge'
    <3>1. row'.refreshed <= now /\ row'.refreshed + MaxDuration >= now
      BY <2>2, Numbers
    <3> QED BY <1>1, <2>1, <2>2, <3>1, RowWritten
  <2>4. RefreshedHonest'
    <3>1. born[outcome[r].content] >= begin[r] /\ now <= begin[r] + MaxDuration
      BY <1>1 DEF CacheInv, Recent, InTime, InFlight
    <3> QED BY <1>1, <2>2, <3>1, Numbers DEF RefreshedHonest
  <2>5. IntactWithoutOverlap'
    BY <1>1, <2>1, <2>2, Numbers DEF IntactWithoutOverlap, FromOneOutcome
  <2> QED BY <1>1, <2>2, <2>3, <2>4, <2>5, Numbers, SentinelAssumption DEF Kept
<1>3. CASE row # NoRow
  <2>1. row' = row /\ phase' = [phase EXCEPT ![r] = "lost"]
    BY <1>3 DEF Insert, Goto
  <2>2. phase'[r] = "lost" /\ \A x \in Requests \ {r} : phase'[x] = phase[x]
    BY <2>1 DEF CacheInv, TypeOK
  <2>3. Recent(r)'
    BY <1>1, <1>3, <2>1, <2>2 DEF CacheInv, Recent
  <2> QED BY <1>1, <2>1, <2>2, <2>3, RowKept DEF Kept
<1> QED BY <1>2, <1>3

(* The stamp of a slow request may set the row's back, but by no more than *)
(* the request has taken.                                                  *)
LEMMA UpdateStep ==
  ASSUME CacheInv, NEW r \in Requests, Update(r)
  PROVE  Kept'
<1>1. /\ phase[r] = "commit" /\ loaded[r] # NoRow
      /\ row' = Written(r) /\ overlap' = (overlap \/ row # loaded[r])
      /\ phase' = [phase EXCEPT ![r] = "reread"]
      /\ UNCHANGED <<now, begin, refresh, loaded, outcome, answer, born>>
  BY DEF Update, Goto
<1>2. row # NoRow /\ row \in Rows /\ loaded[r] \in Rows
  BY <1>1, Numbers DEF CacheInv, Recent
<1>3. /\ row' \in Rows /\ row'.refreshed = begin[r]
      /\ row'.content = IF outcome[r].content = loaded[r].content
                          THEN row.content ELSE outcome[r].content
      /\ row = loaded[r] => row' = Stored(outcome[r], begin[r])
  BY <1>1, <1>2, Numbers, WrittenFacts
<1>4. begin[r] <= now /\ now <= begin[r] + MaxDuration
  BY <1>1 DEF CacheInv, InTime, InFlight
<1>5. (\A x \in Requests : Recent(x)') /\ EngineAnswersServed' /\ AnswerAge'
  <2>1. row'.refreshed <= now /\ row'.refreshed + MaxDuration >= now
    BY <1>3, <1>4
  <2> QED BY <1>1, <1>2, <1>3, <2>1, RowWritten
<1>6. RefreshedHonest'
  <2>1. born[outcome[r].content] >= begin[r] /\ born[outcome[r].content] \in Nat
    BY <1>1, Numbers DEF CacheInv, Recent
  <2>2. row.content = loaded[r].content \/ born[row.content] + MaxDuration >= begin[r]
    BY <1>1 DEF CacheInv, Recent
  <2>3. born[row'.content] + MaxDuration >= begin[r]
    BY <1>2, <1>3, <2>1, <2>2, Numbers
  <2> QED BY <1>1, <1>3, <2>3 DEF RefreshedHonest
<1>7. IntactWithoutOverlap'
  <2>1. SUFFICES ASSUME ~overlap' PROVE FromOneOutcome(row')
    BY DEF IntactWithoutOverlap, FromOneOutcome
  <2>2. row = loaded[r]
    BY <1>1, <2>1
  <2>3. row' = Stored(outcome[r], row'.refreshed)
    BY <1>3, <2>2
  <2>4. outcome[r] \in Outcomes
    BY <1>1, Numbers
  <2> QED BY <2>3, <2>4 DEF FromOneOutcome
<1> QED BY <1>1, <1>3, <1>4, <1>5, <1>6, <1>7 DEF Kept

LEMMA TickStep ==
  ASSUME CacheInv, Tick
  PROVE  Kept'
<1>1. now' = now + 1 /\ UNCHANGED <<row, phase, begin, refresh, loaded, outcome, answer,
                                    born, overlap>>
  BY DEF Tick
<1>2. \A x \in Requests : Recent(x)'
  BY <1>1 DEF CacheInv, Recent
<1>3. EngineAnswersServed' /\ AnswerAge' /\ RefreshedHonest' /\ IntactWithoutOverlap'
  BY <1>1 DEF CacheInv, EngineAnswersServed, AnswerAge, RefreshedHonest, IntactWithoutOverlap, Slack
<1> QED BY <1>1, <1>2, <1>3, Numbers DEF Kept, CacheInv

-----------------------------------------------------------------------------
(***************************************************************************)
(* The theorems                                                            *)
(***************************************************************************)

LEMMA CacheInit == Init => CacheInv
<1> SUFFICES ASSUME Init PROVE CacheInv
  OBVIOUS
<1>1. /\ now = 0 /\ row = NoRow
      /\ \A x \in Requests : /\ begin[x] = 0 /\ phase[x] = "idle"
                             /\ loaded[x] = NoRow /\ outcome[x] = NoOutcome
  BY DEF Init
<1> QED BY <1>1, TypeInit DEF CacheInv, InTime, InFlight, Recent, EngineAnswersServed,
                              AnswerAge, RefreshedHonest, IntactWithoutOverlap

LEMMA CacheStep == CacheInv /\ [Next]_cache_vars => CacheInv'
<1> SUFFICES ASSUME CacheInv, [Next]_cache_vars PROVE CacheInv'
  OBVIOUS
<1>1. TypeOK'
  BY TypeStep DEF CacheInv
<1>2. Kept'
  <2>1. CASE UNCHANGED cache_vars
    BY <2>1 DEF cache_vars, Kept, CacheInv, Recent, EngineAnswersServed, AnswerAge, Slack,
                RefreshedHonest, IntactWithoutOverlap, FromOneOutcome
  <2> QED BY <2>1, BeginStep, SelectStep, GenerateStep, EngineRaisesStep, InsertStep,
             UpdateStep, ReturnStep, TickStep DEF Next
<1> QED BY <1>1, <1>2, TimeStep DEF Kept, CacheInv

LEMMA CacheInvariant == Spec => []CacheInv
  BY CacheInit, CacheStep, PTL DEF Spec

(* A request fails in the engine or not at all, whatever other requests    *)
(* insert and update meanwhile, and is answered with a report              *)
(* (get_market_insights).                                                  *)
THEOREM AnsweredUnlessEngineFails == Spec => []EngineAnswersServed
<1>1. CacheInv => EngineAnswersServed
  BY DEF CacheInv
<1> QED BY <1>1, CacheInvariant, PTL

(* No answer is older, when its request begins, than the TTL or the        *)
(* longest request (get_market_insights).                                  *)
THEOREM AnswersYoung == Spec => []AnswerAge
<1>1. CacheInv => AnswerAge
  BY DEF CacheInv
<1> QED BY <1>1, CacheInvariant, PTL

(* refreshed_at is at most a request's duration later than the production  *)
(* of the content beside it, whatever UPDATEs overlapped.                  *)
THEOREM StampsHonest == Spec => []RefreshedHonest
<1>1. CacheInv => RefreshedHonest
  BY DEF CacheInv
<1> QED BY <1>1, CacheInvariant, PTL

(* Only overlapping UPDATEs can mix two outcomes in the row.               *)
THEOREM RowsIntact == Spec => []IntactWithoutOverlap
<1>1. CacheInv => IntactWithoutOverlap
  BY DEF CacheInv
<1> QED BY <1>1, CacheInvariant, PTL
-----------------------------------------------------------------------------
(***************************************************************************)
(* Recursion and induction up to a number                                  *)
(***************************************************************************)

(* A set of numbers has a least one: the induction these proofs rest on.   *)
LEMMA LeastNumber ==
  ASSUME NEW T \in SUBSET Nat, T # {}
  PROVE  \E i \in T : \A j \in T : i <= j
<1>1. IsWellFoundedOn(OpToRel(<, Nat), Nat)
  BY NatLessThanWellFounded
<1>2. PICK i \in T : \A j \in T : <<j, i>> \notin OpToRel(<, Nat)
  BY <1>1, WFMin
<1>3. \A j \in T : ~(j < i)
  BY <1>2 DEF OpToRel
<1> QED BY <1>3

(* What holds of 0 and passes to the next number holds up to n.            *)
LEMMA UpTo ==
  ASSUME NEW n \in Nat, NEW T, 0 \in T, \A i \in 1 .. n : i - 1 \in T => i \in T
  PROVE  0 .. n \subseteq T
<1>1. SUFFICES ASSUME 0 .. n \ T # {} PROVE FALSE
  OBVIOUS
<1>2. PICK i \in 0 .. n \ T : \A j \in 0 .. n \ T : i <= j
  <2>1. 0 .. n \ T \in SUBSET Nat
    OBVIOUS
  <2> QED BY <1>1, <2>1, LeastNumber
<1>3. i \in 1 .. n
  BY <1>2
<1>4. i - 1 \in 0 .. n /\ ~(i <= i - 1)
  BY <1>3
<1>5. i - 1 \in T
  BY <1>2, <1>4
<1> QED BY <1>2, <1>3, <1>5

(* f is computed by step from first, in n steps.                           *)
Computes(f, n, first, step) ==
  f[0] = first /\ \A i \in 1 .. n : f[i] = step[<<f[i - 1], i>>]

(* What is computed step by step from first exists, as a function.         *)
LEMMA Recursion ==
  ASSUME NEW n \in Nat, NEW S, NEW first \in S, NEW step \in [S \X (1 .. n) -> S]
  PROVE  \E f \in [0 .. n -> S] : Computes(f, n, first, step)
<1> DEFINE T == {k \in 0 .. n : \E f \in [0 .. k -> S] : Computes(f, k, first, step)}
<1>1. 0 \in T
  <2>1. [i \in 0 .. 0 |-> first] \in [0 .. 0 -> S]
    OBVIOUS
  <2>2. Computes([i \in 0 .. 0 |-> first], 0, first, step)
    BY DEF Computes
  <2> QED BY <2>1, <2>2
<1>2. ASSUME NEW k \in 1 .. n, k - 1 \in T PROVE k \in T
  <2>1. PICK f \in [0 .. k - 1 -> S] : Computes(f, k - 1, first, step)
    BY <1>2
  <2>2. PICK x : x = step[<<f[k - 1], k>>]
    OBVIOUS
  <2>3. x \in S
    BY <2>1, <2>2
  <2> DEFINE g == [i \in 0 .. k |-> IF i = k THEN x ELSE f[i]]
  <2>4. g \in [0 .. k -> S]
    BY <2>1, <2>3
  <2>5. /\ g[k] = x /\ g[k - 1] = f[k - 1] /\ g[0] = f[0]
        /\ \A i \in 1 .. k - 1 : g[i] = f[i] /\ g[i - 1] = f[i - 1]
    OBVIOUS
  <2>6. Computes(g, k, first, step)
    <3>1. g[0] = first
      BY <2>1, <2>5 DEF Computes
    <3>2. ASSUME NEW i \in 1 .. k PROVE g[i] = step[<<g[i - 1], i>>]
      <4>1. CASE i = k
        BY <2>2, <2>5, <4>1
      <4>2. CASE i # k
        <5>1. i \in 1 .. k - 1
          BY <4>2
        <5>2. f[i] = step[<<f[i - 1], i>>]
          BY <2>1, <5>1 DEF Computes
        <5> QED BY ONLY <2>5, <5>1, <5>2, Zenon
      <4> QED BY <4>1, <4>2
    <3> HIDE DEF g
    <3> QED BY <3>1, <3>2 DEF Computes
  <2> HIDE DEF g
  <2> QED BY <2>4, <2>6
<1> HIDE DEF T
<1>3. n \in T
  BY <1>1, <1>2, UpTo
<1> QED BY <1>3 DEF T

(***************************************************************************)
(* Sequences                                                               *)
(***************************************************************************)

LEMMA SetOfSeq ==
  ASSUME NEW S, NEW s \in Seq(S)
  PROVE  /\ Len(s) \in Nat /\ DOMAIN s = 1 .. Len(s)
         /\ ToSet(s) = {s[i] : i \in 1 .. Len(s)}
         /\ ToSet(s) \subseteq S
<1>1. Len(s) \in Nat /\ DOMAIN s = 1 .. Len(s) /\ s \in [1 .. Len(s) -> S]
  BY LenProperties
<1>2. ToSet(s) = {s[i] : i \in 1 .. Len(s)}
  BY <1>1 DEF ToSet
<1> QED BY <1>1, <1>2

(* The smaller of two numbers.                                             *)
LEMMA MinOfTwo ==
  ASSUME NEW a \in Int, NEW b \in Int
  PROVE  /\ Min({a, b}) \in {a, b} /\ Min({a, b}) <= a /\ Min({a, b}) <= b
<1>1. \E x \in {a, b} : \A y \in {a, b} : x <= y
  <2>1. a <= b \/ b <= a
    OBVIOUS
  <2> QED BY <2>1
<1>2. Min({a, b}) \in {a, b} /\ \A y \in {a, b} : Min({a, b}) <= y
  BY <1>1 DEF Min
<1> QED BY <1>2

(* The first n elements of s.                                              *)
LEMMA TakeFacts ==
  ASSUME NEW S, NEW s \in Seq(S), NEW n \in Nat
  PROVE  /\ Take(s, n) \in Seq(S)
         /\ Len(Take(s, n)) <= n /\ Len(Take(s, n)) <= Len(s)
         /\ Len(Take(s, n)) \in {n, Len(s)}
         /\ \A i \in 1 .. Len(Take(s, n)) : Take(s, n)[i] = s[i]
<1>1. PICK k : k = Min({n, Len(s)})
  OBVIOUS
<1>2. Len(s) \in Nat /\ \A i \in 1 .. Len(s) : s[i] \in S
  BY LenProperties, ElementOfSeq
<1>3. k \in {n, Len(s)} /\ k <= n /\ k <= Len(s) /\ k \in Nat
  <2>1. n \in Int /\ Len(s) \in Int
    BY <1>2
  <2>2. k \in {n, Len(s)} /\ k <= n /\ k <= Len(s)
    BY ONLY <1>1, <2>1, MinOfTwo
  <2> QED BY <1>2, <2>2
<1>4. Take(s, n) = SubSeq(s, 1, k)
  BY <1>1 DEF Take
<1>5. \A i \in 1 .. k : s[i] \in S
  BY <1>2, <1>3
<1>6. /\ SubSeq(s, 1, k) \in Seq(S)
      /\ Len(SubSeq(s, 1, k)) = IF 1 <= k THEN k - 1 + 1 ELSE 0
      /\ \A i \in 1 .. k - 1 + 1 : SubSeq(s, 1, k)[i] = s[1 + i - 1]
  BY <1>3, <1>5, SubSeqProperties
<1>7. Len(SubSeq(s, 1, k)) = k
  BY <1>3, <1>6
<1>8. \A i \in 1 .. k : SubSeq(s, 1, k)[i] = s[i]
  BY <1>3, <1>6
<1> QED BY <1>3, <1>4, <1>6, <1>7, <1>8

-----------------------------------------------------------------------------
(***************************************************************************)
(* The learning path                                                       *)
(***************************************************************************)

LEMMA AddFacts ==
  ASSUME NEW ordered \in Seq(Templates), IsInjective(ordered), NEW name
  PROVE  /\ Add(ordered, name) \in Seq(Templates)
         /\ IsInjective(Add(ordered, name))
         /\ ToSet(Add(ordered, name)) = ToSet(ordered) \cup ({name} \cap Templates)
         /\ Len(ordered) <= Len(Add(ordered, name))
         /\ \A i \in 1 .. Len(ordered) : Add(ordered, name)[i] = ordered[i]
<1>0. /\ Len(ordered) \in Nat /\ DOMAIN ordered = 1 .. Len(ordered)
      /\ ToSet(ordered) = {ordered[i] : i \in 1 .. Len(ordered)}
  BY SetOfSeq
<1>1. CASE name \in Templates /\ name \notin ToSet(ordered)
  <2>1. PICK s : s = Append(ordered, name)
    OBVIOUS
  <2>2. /\ s \in Seq(Templates) /\ Len(s) = Len(ordered) + 1
        /\ \A i \in 1 .. Len(ordered) : s[i] = ordered[i]
        /\ s[Len(ordered) + 1] = name
    BY <1>1, <2>1, AppendProperties
  <2>3. DOMAIN s = 1 .. Len(ordered) + 1 /\ ToSet(s) = {s[i] : i \in 1 .. Len(ordered) + 1}
    BY <2>2, SetOfSeq
  <2>4. ToSet(s) = ToSet(ordered) \cup {name}
    BY <1>0, <2>2, <2>3
  <2>5. IsInjective(s)
    <3>1. ASSUME NEW i \in 1 .. Len(ordered) + 1, NEW j \in 1 .. Len(ordered) + 1, s[i] = s[j]
          PROVE  i = j
      <4>1. CASE i \in 1 .. Len(ordered) /\ j \in 1 .. Len(ordered)
        BY <1>0, <2>2, <3>1, <4>1 DEF IsInjective
      <4>2. CASE i = Len(ordered) + 1 \/ j = Len(ordered) + 1
        BY <1>0, <1>1, <2>2, <3>1, <4>2
      <4> QED BY <1>0, <4>1, <4>2
    <3> QED BY <2>3, <3>1 DEF IsInjective
  <2>6. Add(ordered, name) = s
    BY <1>1, <2>1 DEF Add
  <2> QED BY <1>0, <1>1, <2>2, <2>4, <2>5, <2>6
<1>2. CASE ~(name \in Templates /\ name \notin ToSet(ordered))
  <2>1. Add(ordered, name) = ordered
    BY <1>2 DEF Add
  <2> QED BY <1>0, <1>2, <2>1
<1> QED BY <1>1, <1>2

(* The loop has its steps.                                                 *)
LEMMA OrderedSteps ==
  ASSUME NEW names, Len(names) \in Nat
  PROVE  /\ Ordered(names)[0] = << >>
         /\ \A i \in 1 .. Len(names) : Ordered(names)[i] = Add(Ordered(names)[i - 1], names[i])
<1> DEFINE N == Len(names)
           S == {s \in Seq(Templates) : IsInjective(s)}
           step == [x \in S \X (1 .. N) |-> Add(x[1], names[x[2]])]
           E(f) == f = [n \in 0 .. N |-> IF n = 0 THEN << >> ELSE Add(f[n - 1], names[n])]
<1>1. << >> \in S
  BY DEF IsInjective
<1>2. step \in [S \X (1 .. N) -> S]
  BY AddFacts
<1>3. PICK f \in [0 .. N -> S] : Computes(f, N, << >>, step)
  <2> HIDE DEF S, step
  <2> QED BY <1>1, <1>2, Recursion
<1>4. E(f)
  <2>1. \A i \in 1 .. N : f[i] = Add(f[i - 1], names[i])
    <3>1. ASSUME NEW i \in 1 .. N PROVE f[i] = Add(f[i - 1], names[i])
      <4>1. i - 1 \in 0 .. N
        OBVIOUS
      <4>2. f[i - 1] \in S
        BY <4>1
      <4>3. step[<<f[i - 1], i>>] = Add(f[i - 1], names[i])
        BY <4>2
      <4> HIDE DEF step
      <4> QED BY <1>3, <4>3 DEF Computes
    <3> QED BY <3>1
  <2>2. f[0] = << >>
    BY <1>3 DEF Computes
  <2> QED BY <2>1, <2>2
<1>5. Ordered(names) = CHOOSE g : E(g)
  BY DEF Ordered
<1> HIDE DEF E
<1>6. E(Ordered(names))
  BY <1>4, <1>5
<1>7. \A n \in 0 .. N : Ordered(names)[n]
                          = IF n = 0 THEN << >> ELSE Add(Ordered(names)[n - 1], names[n])
  BY <1>6 DEF E
<1> QED BY <1>7

(* What the loop has after the first n names: their templates, each once,  *)
(* and what it had before at the front.                                    *)
LEMMA OrderedFacts ==
  ASSUME NEW names, Len(names) \in Nat, NEW n \in 0 .. Len(names)
  PROVE  /\ Ordered(names)[n] \in Seq(Templates)
         /\ IsInjective(Ordered(names)[n])
         /\ ToSet(Ordered(names)[n]) = Templates \cap {names[i] : i \in 1 .. n}
<1> DEFINE N == Len(names)
           o == Ordered(names)
           P(i) == /\ o[i] \in Seq(Templates) /\ IsInjective(o[i])
                   /\ ToSet(o[i]) = Templates \cap {names[j] : j \in 1 .. i}
           T == {i \in 0 .. N : P(i)}
<1>1. 0 \in T
  <2>1. o[0] = << >>
    BY OrderedSteps
  <2>2. << >> \in Seq(Templates) /\ IsInjective(<< >>) /\ ToSet(<< >>) = {}
    BY DEF IsInjective, ToSet
  <2>3. {names[j] : j \in 1 .. 0} = {}
    OBVIOUS
  <2> HIDE DEF o
  <2>4. P(0)
    BY ONLY <2>1, <2>2, <2>3
  <2> QED BY <2>4
<1>2. ASSUME NEW i \in 1 .. N, i - 1 \in T PROVE i \in T
  <2>1. PICK a : a = o[i - 1]
    OBVIOUS
  <2>2. o[i] = Add(a, names[i])
    BY <2>1, OrderedSteps
  <2>3. /\ a \in Seq(Templates) /\ IsInjective(a)
        /\ ToSet(a) = Templates \cap {names[j] : j \in 1 .. i - 1}
    BY <1>2, <2>1
  <2>4. /\ Add(a, names[i]) \in Seq(Templates) /\ IsInjective(Add(a, names[i]))
        /\ ToSet(Add(a, names[i])) = ToSet(a) \cup ({names[i]} \cap Templates)
    BY <2>3, AddFacts
  <2>5. {names[j] : j \in 1 .. i} = {names[j] : j \in 1 .. i - 1} \cup {names[i]}
    OBVIOUS
  <2>6. ToSet(Add(a, names[i])) = Templates \cap {names[j] : j \in 1 .. i}
    BY <2>3, <2>4, <2>5
  <2> HIDE DEF o
  <2>7. P(i)
    BY ONLY <2>2, <2>4, <2>6
  <2> QED BY <2>7
<1> HIDE DEF T
<1>3. n \in T
  BY <1>1, <1>2, UpTo
<1> QED BY <1>3 DEF T

(* What add has put in its place stays there.                              *)
LEMMA OrderedGrows ==
  ASSUME NEW names, Len(names) \in Nat, NEW n \in 0 .. Len(names)
  PROVE  /\ Len(Ordered(names)[n]) <= Len(Ordered(names)[Len(names)])
         /\ \A j \in 1 .. Len(Ordered(names)[n]) :
              Ordered(names)[Len(names)][j] = Ordered(names)[n][j]
<1> DEFINE N == Len(names)
           o == Ordered(names)
           P(i) == Len(o[n]) <= Len(o[i]) /\ \A j \in 1 .. Len(o[n]) : o[i][j] = o[n][j]
           T == {i \in 0 .. N : n <= i => P(i)}
<1>1. \A i \in 0 .. N : o[i] \in Seq(Templates) /\ IsInjective(o[i]) /\ Len(o[i]) \in Nat
  BY OrderedFacts, LenProperties
<1>2. ASSUME NEW i \in 0 .. N, n = i PROVE i \in T
  BY <1>1, <1>2
<1>3. 0 \in T
  BY <1>2
<1>4. ASSUME NEW i \in 1 .. N, i - 1 \in T, n # i PROVE i \in T
  <2>1. CASE n <= i - 1
    <3>1. PICK a : a = o[i - 1]
      OBVIOUS
    <3>2. i - 1 \in 0 .. N
      OBVIOUS
    <3>3. /\ a \in Seq(Templates) /\ IsInjective(a) /\ Len(a) \in Nat
          /\ Len(o[n]) <= Len(a) /\ \A j \in 1 .. Len(o[n]) : a[j] = o[n][j]
      BY <1>1, <1>4, <2>1, <3>1, <3>2
    <3>4. o[i] = Add(a, names[i])
      BY <3>1, OrderedSteps
    <3>5. Len(a) <= Len(Add(a, names[i])) /\ \A j \in 1 .. Len(a) : Add(a, names[i])[j] = a[j]
      BY <3>3, AddFacts
    <3> HIDE DEF o
    <3>6. PICK x, z : x = o[n] /\ z = o[i]
      OBVIOUS
    <3>7. Len(x) \in Nat /\ Len(z) \in Nat /\ z = Add(a, names[i])
      BY <1>1, <3>4, <3>6
    <3>8. Len(x) <= Len(a) /\ \A j \in 1 .. Len(x) : a[j] = x[j]
      BY <3>3, <3>6
    <3>9. Len(a) <= Len(z) /\ \A j \in 1 .. Len(a) : z[j] = a[j]
      BY <3>5, <3>7
    <3>10. Len(x) <= Len(z) /\ \A j \in 1 .. Len(x) : z[j] = x[j]
      BY ONLY <3>3, <3>7, <3>8, <3>9
    <3> QED BY <3>6, <3>10
  <2>2. CASE ~(n <= i - 1)
    BY <2>2, <1>4
  <2> QED BY <2>1, <2>2
<1> HIDE DEF T
<1>5. N \in T
  BY <1>2, <1>3, <1>4, UpTo
<1> QED BY <1>5 DEF T

-----------------------------------------------------------------------------
LEMMA ProfileTyped ==
  ASSUME NEW role
  PROVE  RoleProfile(role) \in Profiles
<1> DEFINE shares(i) == Cardinality(Families[i].title \cap role)
           best == {i \in DOMAIN Families :
                      shares(i) > 0 /\ \A j \in DOMAIN Families : shares(j) <= shares(i)}
<1>1. /\ DOMAIN Families \subseteq Nat /\ \A i \in DOMAIN Families : Families[i] \in Profiles
      /\ FallbackRole \in Profiles
  BY EngineAssumption, LenProperties, ElementOfSeq
<1>2. RoleProfile(role) = IF best = {} THEN FallbackRole ELSE Families[Min(best)]
  BY DEF RoleProfile
<1> HIDE DEF shares
<1>3. best \subseteq DOMAIN Families
  OBVIOUS
<1> HIDE DEF best
<1>4. ASSUME best # {} PROVE Min(best) \in best
  <2>1. \E x \in best : \A y \in best : x <= y
    BY <1>1, <1>3, <1>4, LeastNumber
  <2> QED BY <2>1 DEF Min
<1> QED BY <1>1, <1>2, <1>3, <1>4

(* What RuleBasedPath goes through.                                        *)
Names(gaps, role) == gaps \o RoleProfile(role).required \o RoleProfile(role).recommended

(* The gaps come first, and every required skill is among the names.       *)
LEMMA NamesFacts ==
  ASSUME NEW gaps \in Seq(STRING), NEW role
  PROVE  /\ Len(Names(gaps, role)) \in Nat
         /\ Len(gaps) \in 0 .. Len(Names(gaps, role))
         /\ \A i \in 1 .. Len(gaps) : Names(gaps, role)[i] = gaps[i]
         /\ ToSet(RoleProfile(role).required)
              \subseteq {Names(gaps, role)[i] : i \in 1 .. Len(Names(gaps, role))}
<1>1. PICK p : p = RoleProfile(role)
  OBVIOUS
<1>2. p.required \in Seq(STRING) /\ p.recommended \in Seq(STRING)
  BY <1>1, ProfileTyped DEF Profiles
<1>3. PICK r, s, t, u : r = p.required /\ s = p.recommended /\ t = gaps \o r /\ u = t \o s
  OBVIOUS
<1>4. r \in Seq(STRING) /\ s \in Seq(STRING) /\ Len(gaps) \in Nat /\ Len(r) \in Nat /\ Len(s) \in Nat
  BY <1>2, <1>3, LenProperties
<1>5. /\ t \in Seq(STRING) /\ Len(t) = Len(gaps) + Len(r)
      /\ \A i \in 1 .. Len(gaps) : t[i] = gaps[i]
      /\ \A i \in 1 .. Len(r) : t[Len(gaps) + i] = r[i]
  <2>1. /\ t \in Seq(STRING) /\ Len(t) = Len(gaps) + Len(r)
        /\ \A i \in 1 .. Len(gaps) + Len(r) :
             t[i] = IF i <= Len(gaps) THEN gaps[i] ELSE r[i - Len(gaps)]
    BY <1>3, <1>4, ConcatProperties
  <2>2. \A i \in 1 .. Len(gaps) : t[i] = gaps[i]
    BY <1>4, <2>1
  <2>3. ASSUME NEW i \in 1 .. Len(r) PROVE t[Len(gaps) + i] = r[i]
    <3>1. PICK j : j = Len(gaps) + i
      OBVIOUS
    <3>2. j \in 1 .. Len(gaps) + Len(r) /\ ~(j <= Len(gaps)) /\ j - Len(gaps) = i
      BY <1>4, <3>1
    <3> QED BY <2>1, <3>1, <3>2
  <2> QED BY <2>1, <2>2, <2>3
<1>6. /\ u \in Seq(STRING) /\ Len(u) = Len(t) + Len(s)
      /\ \A i \in 1 .. Len(t) : u[i] = t[i]
  <2>1. /\ u \in Seq(STRING) /\ Len(u) = Len(t) + Len(s)
        /\ \A i \in 1 .. Len(t) + Len(s) :
             u[i] = IF i <= Len(t) THEN t[i] ELSE s[i - Len(t)]
    <3>1. t \in Seq(STRING) /\ s \in Seq(STRING) /\ u = t \o s
      BY <1>3, <1>4, <1>5
    <3> QED BY ONLY <3>1, ConcatProperties
  <2> QED BY <1>4, <1>5, <2>1
<1>7. Names(gaps, role) = u
  BY <1>1, <1>3 DEF Names
<1>8. Len(u) = Len(gaps) + Len(r) + Len(s)
  BY <1>4, <1>5, <1>6
<1>9. \A i \in 1 .. Len(gaps) : u[i] = gaps[i]
  BY <1>4, <1>5, <1>6
<1>10. \A i \in 1 .. Len(r) : u[Len(gaps) + i] = r[i] /\ Len(gaps) + i \in 1 .. Len(u)
  BY <1>4, <1>5, <1>6, <1>8
<1>11. ToSet(r) \subseteq {u[i] : i \in 1 .. Len(u)}
  <2>1. ToSet(r) = {r[i] : i \in 1 .. Len(r)}
    BY <1>4, SetOfSeq
  <2> QED BY <1>10, <2>1
<1>12. Len(u) \in Nat /\ Len(gaps) \in 0 .. Len(u)
  BY <1>4, <1>8
<1>13. r = RoleProfile(role).required
  BY <1>1, <1>3
<1> QED BY ONLY <1>7, <1>9, <1>11, <1>12, <1>13

(* A path is a beginning of what the loop has at the end, unless that is   *)
(* nothing.                                                                *)
LEMMA PathFacts ==
  ASSUME NEW gaps \in Seq(STRING), NEW role
  PROVE  LET modules == RuleBasedPath(gaps, role)
             names   == Names(gaps, role)
             ordered == Ordered(names)[Len(names)]
         IN  /\ modules \in Seq(Templates) /\ IsInjective(modules)
             /\ Len(modules) \in 1 .. MaxModules
             /\ ordered # << >> =>
                  /\ Len(modules) <= Len(ordered)
                  /\ Len(modules) < MaxModules => Len(modules) = Len(ordered)
                  /\ \A i \in 1 .. Len(modules) : modules[i] = ordered[i]
<1>1. PICK n : n = Names(gaps, role)
  OBVIOUS
<1>2. PICK o, d : o = Ordered(n)[Len(n)] /\ d = IF o = << >> THEN Defaults ELSE o
  OBVIOUS
<1>3. o \in Seq(Templates) /\ IsInjective(o)
  <2>1. Len(n) \in Nat /\ Len(n) \in 0 .. Len(n)
    BY <1>1, NamesFacts
  <2> QED BY <1>2, <2>1, OrderedFacts
<1>4. d \in Seq(Templates) /\ IsInjective(d) /\ d # << >>
  BY <1>2, <1>3, EngineAssumption
<1>5. Len(d) \in Nat \ {0} /\ DOMAIN d = 1 .. Len(d)
  BY <1>4, EmptySeq, LenProperties
<1>6. MaxModules \in Nat /\ MaxModules > 1
  BY EngineAssumption
<1>7. PICK m : m = Take(d, MaxModules)
  OBVIOUS
<1>8. /\ m \in Seq(Templates) /\ Len(m) <= MaxModules /\ Len(m) <= Len(d)
      /\ Len(m) \in {MaxModules, Len(d)}
      /\ \A i \in 1 .. Len(m) : m[i] = d[i]
  BY <1>4, <1>6, <1>7, TakeFacts
<1>9. RuleBasedPath(gaps, role) = m
  BY <1>1, <1>2, <1>7 DEF RuleBasedPath, Names
<1>10. DOMAIN m = 1 .. Len(m)
  BY <1>8, LenProperties
<1>11. Len(m) \in 1 .. MaxModules
  BY <1>5, <1>6, <1>8
<1>12. IsInjective(m)
  <2>1. 1 .. Len(m) \subseteq 1 .. Len(d)
    BY <1>5, <1>8, <1>11
  <2> QED BY <1>4, <1>5, <1>8, <1>10, <2>1 DEF IsInjective
<1>13. Len(m) < MaxModules => Len(m) = Len(d)
  BY <1>6, <1>8, <1>11
<1>14. o # << >> => d = o
  BY <1>2
<1>15. /\ m \in Seq(Templates) /\ IsInjective(m)
       /\ Len(m) \in 1 .. MaxModules
       /\ o # << >> =>
            /\ Len(m) <= Len(o)
            /\ Len(m) < MaxModules => Len(m) = Len(o)
            /\ \A i \in 1 .. Len(m) : m[i] = o[i]
  BY <1>8, <1>11, <1>12, <1>13, <1>14
<1> QED BY <1>1, <1>2, <1>9, <1>15

(* What the loop had at some point stands before what it did not have yet. *)
LEMMA EarlierFirst ==
  ASSUME NEW gaps \in Seq(STRING), NEW role, NEW n \in 0 .. Len(Names(gaps, role)),
         NEW s \in ToSet(Ordered(Names(gaps, role))[n]),
         NEW t \in ToSet(RuleBasedPath(gaps, role)) \ ToSet(Ordered(Names(gaps, role))[n])
  PROVE  Precedes(RuleBasedPath(gaps, role), s, t)
<1>1. PICK names, modules, early, ordered :
        /\ names = Names(gaps, role) /\ modules = RuleBasedPath(gaps, role)
        /\ early = Ordered(names)[n] /\ ordered = Ordered(names)[Len(names)]
  OBVIOUS
<1>2. Len(names) \in Nat /\ n \in 0 .. Len(names)
  BY <1>1, NamesFacts
<1>3. early \in Seq(Templates) /\ ordered \in Seq(Templates)
  <2>1. Len(names) \in 0 .. Len(names)
    BY <1>2
  <2> QED BY <1>1, <1>2, <2>1, OrderedFacts
<1>4. /\ Len(early) \in Nat /\ ToSet(early) = {early[i] : i \in 1 .. Len(early)}
      /\ Len(ordered) \in Nat
  BY <1>3, SetOfSeq
<1>5. Len(early) <= Len(ordered) /\ \A j \in 1 .. Len(early) : ordered[j] = early[j]
  BY <1>1, <1>2, OrderedGrows
<1>6. PICK i \in 1 .. Len(early) : early[i] = s
  BY <1>1, <1>4
<1>7. ordered # << >>
  BY <1>3, <1>4, <1>5, <1>6, EmptySeq
<1>8. /\ modules \in Seq(Templates) /\ Len(modules) <= Len(ordered)
      /\ \A j \in 1 .. Len(modules) : modules[j] = ordered[j]
  BY <1>1, <1>7, PathFacts
<1>9. /\ Len(modules) \in Nat /\ DOMAIN modules = 1 .. Len(modules)
      /\ ToSet(modules) = {modules[j] : j \in 1 .. Len(modules)}
  BY <1>8, SetOfSeq
<1>10. PICK j \in 1 .. Len(modules) : modules[j] = t
  BY <1>1, <1>9
<1>11. j > Len(early)
  <2>1. SUFFICES ASSUME j \in 1 .. Len(early) PROVE FALSE
    BY <1>4, <1>9
  <2>2. early[j] = t
    BY <1>5, <1>8, <1>10, <2>1
  <2>3. t \in ToSet(early)
    BY <1>4, <2>1, <2>2
  <2> QED BY <1>1, <2>3
<1>12. i \in 1 .. Len(modules) /\ i < j
  BY <1>4, <1>9, <1>11
<1>13. modules[i] = s
  BY <1>5, <1>6, <1>8, <1>12
<1> QED BY <1>1, <1>9, <1>10, <1>12, <1>13 DEF Precedes

(* What the loop had after the gaps.                                       *)
LEMMA RuleBasedPathCovers ==
  ASSUME NEW gaps \in Seq(STRING), NEW role
  PROVE  Covers(RuleBasedPath(gaps, role), gaps, role)
<1>1. PICK names, modules, ordered, covered :
        /\ names = Names(gaps, role) /\ modules = RuleBasedPath(gaps, role)
        /\ ordered = Ordered(names)[Len(names)]
        /\ covered = ToSet(gaps) \cap Templates
  OBVIOUS
<1>2. /\ Len(names) \in Nat /\ Len(gaps) \in 0 .. Len(names)
      /\ \A i \in 1 .. Len(gaps) : names[i] = gaps[i]
      /\ ToSet(RoleProfile(role).required) \subseteq {names[i] : i \in 1 .. Len(names)}
  <2>1. /\ Len(Names(gaps, role)) \in Nat
        /\ Len(gaps) \in 0 .. Len(Names(gaps, role))
        /\ \A i \in 1 .. Len(gaps) : Names(gaps, role)[i] = gaps[i]
        /\ ToSet(RoleProfile(role).required)
             \subseteq {Names(gaps, role)[i] : i \in 1 .. Len(Names(gaps, role))}
    BY NamesFacts
  <2>2. names = Names(gaps, role)
    BY <1>1
  <2> QED BY ONLY <2>1, <2>2
<1>3. Len(gaps) \in Nat /\ \A i \in 1 .. Len(gaps) : gaps[i] \in STRING
  BY LenProperties, ElementOfSeq
<1>4. \A n \in 0 .. Len(gaps) :
        ToSet(Ordered(names)[n]) = Templates \cap {gaps[i] : i \in 1 .. n}
  <2>1. ASSUME NEW n \in 0 .. Len(gaps)
        PROVE  ToSet(Ordered(names)[n]) = Templates \cap {gaps[i] : i \in 1 .. n}
    <3>1. n \in 0 .. Len(names)
      BY <1>2, <1>3
    <3>2. ToSet(Ordered(names)[n]) = Templates \cap {names[i] : i \in 1 .. n}
      BY <1>2, <3>1, OrderedFacts
    <3>3. \A i \in 1 .. n : names[i] = gaps[i]
      BY <1>2, <1>3
    <3> QED BY <3>2, <3>3
  <2> QED BY <2>1
<1>5. modules \in Seq(Templates) /\ IsInjective(modules)
  BY <1>1, PathFacts
<1>6. ASSUME NEW s \in ToSet(modules) \ covered, NEW g \in covered
      PROVE  Precedes(modules, g, s)
  <2>1. covered = ToSet(Ordered(names)[Len(gaps)])
    <3>1. ToSet(gaps) = {gaps[i] : i \in 1 .. Len(gaps)}
      BY SetOfSeq
    <3>2. Len(gaps) \in 0 .. Len(gaps)
      BY <1>3
    <3>3. ToSet(Ordered(names)[Len(gaps)]) = Templates \cap {gaps[i] : i \in 1 .. Len(gaps)}
      BY <1>4, <3>2
    <3> QED BY <1>1, <3>1, <3>3
  <2> QED BY <1>1, <1>2, <1>6, <2>1, EarlierFirst
<1>7. ASSUME NEW i \in 1 .. Len(gaps), NEW j \in 1 .. Len(gaps), i < j, gaps[i] \in covered,
             gaps[j] \in ToSet(modules) \ ToSet(SubSeq(gaps, 1, i))
      PROVE  Precedes(modules, gaps[i], gaps[j])
  <2>1. ToSet(SubSeq(gaps, 1, i)) = {gaps[k] : k \in 1 .. i}
    <3>1. PICK z : z = SubSeq(gaps, 1, i)
      OBVIOUS
    <3>2. i \in Int /\ 1 \in Int /\ \A k \in 1 .. i : gaps[k] \in STRING
      BY <1>3
    <3>3. /\ z \in Seq(STRING)
          /\ Len(z) = IF 1 <= i THEN i - 1 + 1 ELSE 0
          /\ \A k \in 1 .. i - 1 + 1 : z[k] = gaps[1 + k - 1]
      BY ONLY <3>1, <3>2, SubSeqProperties
    <3>4. Len(z) = i /\ \A k \in 1 .. i : z[k] = gaps[k]
      BY <3>2, <3>3
    <3>5. ToSet(z) = {z[k] : k \in 1 .. i}
      BY <3>3, <3>4, SetOfSeq
    <3> QED BY <3>1, <3>4, <3>5
  <2>2. i \in 0 .. Len(gaps) /\ i \in 0 .. Len(names)
    BY <1>2, <1>3
  <2>3. ToSet(Ordered(names)[i]) = Templates \cap {gaps[k] : k \in 1 .. i}
    BY <1>4, <2>2
  <2>4. gaps[i] \in ToSet(Ordered(names)[i])
    <3>1. i \in 1 .. i
      OBVIOUS
    <3> QED BY <1>1, <1>7, <2>3, <3>1
  <2>5. gaps[j] \in ToSet(modules) \ ToSet(Ordered(names)[i])
    BY <1>7, <2>1, <2>3
  <2> QED BY <1>1, <2>2, <2>4, <2>5, EarlierFirst
<1>8. ASSUME Len(modules) < MaxModules
      PROVE  ToSet(RoleProfile(role).required) \cap Templates \subseteq ToSet(modules)
  <2>1. Len(names) \in 0 .. Len(names)
    BY <1>2
  <2>2. /\ ordered \in Seq(Templates)
        /\ ToSet(ordered) = Templates \cap {names[i] : i \in 1 .. Len(names)}
    <3>1. Len(names) \in Nat /\ ordered = Ordered(names)[Len(names)]
      BY <1>1, <1>2
    <3> QED BY ONLY <2>1, <3>1, OrderedFacts
  <2>3. CASE ordered = << >>
    <3>1. ToSet(ordered) = {}
      BY <2>3 DEF ToSet
    <3> QED BY <1>2, <2>2, <3>1
  <2>4. CASE ordered # << >>
    <3>1. Len(modules) = Len(ordered) /\ \A i \in 1 .. Len(modules) : modules[i] = ordered[i]
      BY <1>1, <1>8, <2>4, PathFacts
    <3>2. ToSet(modules) = ToSet(ordered)
      <4>1. /\ ToSet(modules) = {modules[i] : i \in 1 .. Len(modules)}
            /\ ToSet(ordered) = {ordered[i] : i \in 1 .. Len(ordered)}
        BY <1>5, <2>2, SetOfSeq
      <4> QED BY <3>1, <4>1
    <3> QED BY <1>2, <2>2, <3>2
  <2> QED BY <2>3, <2>4
<1> QED BY <1>1, <1>5, <1>6, <1>7, <1>8 DEF Covers

-----------------------------------------------------------------------------
(***************************************************************************)
(* The assessment                                                          *)
(***************************************************************************)

(* One round of the list comprehensions of missing skills.                 *)
LEMMA UnlessFacts ==
  ASSUME NEW missing \in Seq(STRING), NEW name \in STRING, NEW found
  PROVE  /\ Unless(found, missing, name) \in Seq(STRING)
         /\ Len(Unless(found, missing, name)) <= Len(missing) + 1
<1>1. Len(missing) \in Nat
  BY LenProperties
<1>2. CASE name \in found
  BY <1>1, <1>2 DEF Unless
<1>3. CASE name \notin found
  <2>1. PICK s : s = Append(missing, name)
    OBVIOUS
  <2>2. s \in Seq(STRING) /\ Len(s) = Len(missing) + 1
    BY <2>1, AppendProperties
  <2>3. Unless(found, missing, name) = s
    BY <1>3, <2>1 DEF Unless
  <2> QED BY <1>1, <2>2, <2>3
<1> QED BY <1>2, <1>3

(* No more skills are missing than were asked for.                         *)
LEMMA MissingFacts ==
  ASSUME NEW names \in Seq(STRING), NEW found
  PROVE  /\ Missing(names, found) \in Seq(STRING)
         /\ Len(Missing(names, found)) <= Len(names)
<1> DEFINE N == Len(names)
           S == Seq(STRING)
           step == [x \in S \X (1 .. N) |-> Unless(found, x[1], names[x[2]])]
           E(f) == f = [n \in 0 .. N |->
                          IF n = 0 THEN << >> ELSE Unless(found, f[n - 1], names[n])]
<1>1. N \in Nat /\ \A i \in 1 .. N : names[i] \in STRING
  BY LenProperties, ElementOfSeq
<1>2. << >> \in S /\ Len(<< >>) = 0
  BY EmptySeq
<1>3. step \in [S \X (1 .. N) -> S]
  BY <1>1, UnlessFacts
<1>4. PICK f \in [0 .. N -> S] : Computes(f, N, << >>, step)
  <2> HIDE DEF S, step
  <2> QED BY <1>1, <1>2, <1>3, Recursion
<1>5. E(f)
  <2>1. ASSUME NEW i \in 1 .. N PROVE f[i] = Unless(found, f[i - 1], names[i])
    <3>1. f[i - 1] \in S
      BY <1>1
    <3>2. step[<<f[i - 1], i>>] = Unless(found, f[i - 1], names[i])
      BY <3>1
    <3> HIDE DEF step
    <3> QED BY <1>4, <3>2 DEF Computes
  <2>2. f[0] = << >>
    BY <1>4 DEF Computes
  <2> QED BY <1>1, <2>1, <2>2
<1>6. PICK g : g = (CHOOSE h : E(h)) /\ Missing(names, found) = g[N]
  BY DEF Missing
<1>7. E(g)
  <2> HIDE DEF E
  <2> QED BY <1>5, <1>6
<1>8. g[0] = << >> /\ \A i \in 1 .. N : g[i] = Unless(found, g[i - 1], names[i])
  <2>1. \A n \in 0 .. N : g[n] = IF n = 0 THEN << >> ELSE Unless(found, g[n - 1], names[n])
    BY <1>7
  <2> QED BY <1>1, <2>1
<1> DEFINE T == {i \in 0 .. N : g[i] \in S /\ Len(g[i]) <= i}
<1> HIDE DEF E
<1>9. 0 \in T
  <2>1. g[0] \in S /\ Len(g[0]) <= 0
    BY <1>2, <1>8
  <2> QED BY <1>1, <2>1
<1>10. ASSUME NEW i \in 1 .. N, i - 1 \in T PROVE i \in T
  <2>1. g[i - 1] \in S /\ Len(g[i - 1]) <= i - 1
    BY <1>10
  <2>2. g[i] \in S /\ Len(g[i]) <= Len(g[i - 1]) + 1
    BY <1>1, <1>8, <2>1, UnlessFacts
  <2>3. Len(g[i]) \in Nat /\ Len(g[i - 1]) \in Nat
    BY <2>1, <2>2, LenProperties
  <2> QED BY <1>1, <2>1, <2>2, <2>3
<1> HIDE DEF T
<1>11. N \in T
  <2>1. 0 .. N \subseteq T
    BY ONLY <1>1, <1>9, <1>10, UpTo
  <2> QED BY <1>1, <2>1
<1> QED BY <1>6, <1>11 DEF T

LEMMA CoveredNat ==
  ASSUME NEW names \in Seq(STRING), NEW found
  PROVE  Covered(names, found) \in Nat
<1>1. Len(names) \in Nat /\ Len(Missing(names, found)) \in Nat
  BY MissingFacts, LenProperties
<1> QED BY <1>1, MissingFacts DEF Covered

(* The bonus is capped: AssessmentResult accepts what the rules compute.   *)
LEMMA ReadinessIsPercentage ==
  ASSUME NEW profile \in Profiles, NEW found
  PROVE  Readiness(profile, found) \in 0 .. 100
<1>1. profile.required \in Seq(STRING) /\ profile.recommended \in Seq(STRING)
  BY DEF Profiles
<1>2. Base(profile, found) \in Nat
  <2>1. CASE profile.required = << >>
    BY <2>1 DEF Base
  <2>2. CASE profile.required # << >>
    <3>1. PICK c, n : c = Covered(profile.required, found) /\ n = Len(profile.required)
      OBVIOUS
    <3>2. c \in Nat /\ n \in Nat \ {0}
      BY <1>1, <2>2, <3>1, CoveredNat, EmptySeq
    <3>3. (100 * c) \div n \in Nat
      BY <3>2
    <3> QED BY <2>2, <3>1, <3>3 DEF Base
  <2> QED BY <2>1, <2>2
<1>3. Bonus(profile, found) \in Nat
  <2>1. PICK c : c = Covered(profile.recommended, found)
    OBVIOUS
  <2>2. c \in Nat
    BY <1>1, <2>1, CoveredNat
  <2>3. Min({c, 2}) \in Nat
    <3>1. c \in Int /\ 2 \in Int
      BY <2>2
    <3>2. Min({c, 2}) \in {c, 2}
      BY ONLY <3>1, MinOfTwo
    <3> QED BY <2>2, <3>2
  <2>4. Bonus(profile, found) = 5 * Min({c, 2})
    BY <2>1 DEF Bonus
  <2> QED BY <2>3, <2>4
<1>4. PICK b : b = Base(profile, found) + Bonus(profile, found)
  OBVIOUS
<1>5. b \in Nat
  BY <1>2, <1>3, <1>4
<1>6. Min({100, b}) \in {100, b} /\ Min({100, b}) <= 100
  BY <1>5, MinOfTwo
<1> QED BY <1>4, <1>5, <1>6 DEF Readiness

(* What _rule_based_assessment returns is an AssessmentResult.             *)
LEMMA AssessmentTyped ==
  ASSUME NEW words, NEW role
  PROVE  RuleBasedAssessment(words, role) \in Assessments
<1>1. PICK p, f : p = RoleProfile(role) /\ f = DOMAIN Scores(words)
  OBVIOUS
<1>2. p \in Profiles
  BY <1>1, ProfileTyped
<1>3. PICK r, s : r = Missing(p.required, f) /\ s = Missing(p.recommended, f)
  OBVIOUS
<1>4. r \in Seq(STRING) /\ s \in Seq(STRING)
  BY <1>2, <1>3, MissingFacts DEF Profiles
<1>5. r \o s \in Seq(STRING)
  BY <1>4, ConcatProperties
<1>6. Take(r \o s, MaxGaps) \in Seq(STRING)
  BY <1>5, TakeFacts, EngineAssumption
<1>7. Readiness(p, f) \in 0 .. 100
  BY <1>2, ReadinessIsPercentage
<1>8. RuleBasedAssessment(words, role) = [gaps |-> Take(r \o s, MaxGaps), readiness |-> Readiness(p, f)]
  BY <1>1, <1>3 DEF RuleBasedAssessment
<1> QED BY <1>6, <1>7, <1>8 DEF Assessments

-----------------------------------------------------------------------------
(***************************************************************************)
(* The engine's state                                                      *)
(***************************************************************************)

RuleBasedFrom(p) ==
  \E a \in assessment, r \in Roles : p = [modules |-> RuleBasedPath(a.gaps, r), role |-> r]

(* There is at most one assessment, no path before it, and a path, offered *)
(* or stored, is the rules' answer to the gaps of that assessment.         *)
EngineInv ==
  /\ EngineTypeOK
  /\ assessment \subseteq Assessments /\ \A a, b \in assessment : a = b
  /\ stage \in {"writing", "assessing"} => assessment = {}
  /\ assessment = {} => path = {}
  /\ stage = "assessing" => fallback \in Assessments
  /\ stage = "planning" => RuleBasedFrom(fallback)
  /\ \A p \in path : RuleBasedFrom(p)

(* The rules answer every call with a value of its type.                   *)
LEMMA RuleBasedTyped ==
  ASSUME assessment \subseteq Assessments, NEW p, RuleBasedFrom(p)
  PROVE  Len(p.modules) \in 1 .. MaxModules
<1>1. PICK a \in assessment, r \in Roles : p = [modules |-> RuleBasedPath(a.gaps, r), role |-> r]
  BY DEF RuleBasedFrom
<1>2. a.gaps \in Seq(STRING)
  BY DEF Assessments
<1>3. Len(RuleBasedPath(a.gaps, r)) \in 1 .. MaxModules
  BY <1>2, PathFacts
<1> QED BY <1>1, <1>3

LEMMA EngineStarts == EngineInit => EngineInv
<1> SUFFICES ASSUME EngineInit PROVE EngineInv
  OBVIOUS
<1>1. << >> \in Seq(Words) /\ Len(<< >>) = 0 /\ MaxWords \in Nat
  BY EmptySeq, EngineAssumption
<1> QED BY <1>1 DEF EngineInit, EngineInv, EngineTypeOK

LEMMA WriteStep ==
  ASSUME EngineInv, NEW w \in Words, Write(w)
  PROVE  EngineInv'
<1>1. text \in Seq(Words) /\ Len(text) < MaxWords /\ text' = Append(text, w)
  BY DEF EngineInv, EngineTypeOK, Write
<1>2. Len(text) \in Nat /\ MaxWords \in Nat
  BY <1>1, LenProperties, EngineAssumption
<1>3. text' \in Seq(Words) /\ Len(text') <= MaxWords
  BY <1>1, <1>2, AppendProperties
<1>4. UNCHANGED <<stage, fallback, assessment, path>>
  BY DEF Write
<1> QED BY <1>3, <1>4 DEF EngineInv, EngineTypeOK, RuleBasedFrom

LEMMA AnalyzeSkillsStep ==
  ASSUME EngineInv, NEW r \in Roles, AnalyzeSkills(r)
  PROVE  EngineInv'
<1>1. /\ stage = "writing" /\ stage' = "assessing" /\ text' = << >>
      /\ fallback' = RuleBasedAssessment(text, r) /\ UNCHANGED <<assessment, path>>
  BY DEF AnalyzeSkills
<1>2. << >> \in Seq(Words) /\ Len(<< >>) = 0 /\ MaxWords \in Nat
  BY EmptySeq, EngineAssumption
<1>3. fallback' \in Assessments
  BY <1>1, AssessmentTyped
<1>4. assessment = {} /\ path = {}
  BY <1>1 DEF EngineInv
<1> QED BY <1>1, <1>2, <1>3, <1>4 DEF EngineInv, EngineTypeOK, RuleBasedFrom

LEMMA AnalyzedStep ==
  ASSUME EngineInv, NEW reply, Analyzed(reply)
  PROVE  EngineInv'
<1>1. /\ stage = "assessing" /\ stage' \in {"failed", "idle"} /\ path' = path /\ text' = text
      /\ \/ stage' = "failed" /\ assessment' = assessment
         \/ stage' = "idle" /\ assessment' = {fallback}
         \/ stage' = "idle" /\ \E a \in ProviderAssessments : assessment' = {a}
  BY DEF Analyzed, Fail
<1>2. assessment = {} /\ path = {} /\ fallback \in Assessments
  BY <1>1 DEF EngineInv
<1>3. assessment' \subseteq Assessments /\ \A a, b \in assessment' : a = b
  BY <1>1, <1>2, EngineAssumption
<1>4. \A a \in assessment' : a.readiness \in 0 .. 100
  BY <1>3 DEF Assessments
<1> QED BY <1>1, <1>2, <1>3, <1>4 DEF EngineInv, EngineTypeOK, RuleBasedFrom

LEMMA BuildLearningPathStep ==
  ASSUME EngineInv, NEW r \in Roles, BuildLearningPath(r)
  PROVE  EngineInv'
<1>1. /\ stage' = "planning" /\ UNCHANGED <<text, assessment, path>>
      /\ \E a \in assessment :
           fallback' = [modules |-> RuleBasedPath(a.gaps, r), role |-> r]
  BY DEF BuildLearningPath
<1>2. RuleBasedFrom(fallback)'
  BY <1>1 DEF RuleBasedFrom
<1> QED BY <1>1, <1>2 DEF EngineInv, EngineTypeOK, RuleBasedFrom

LEMMA PlannedStep ==
  ASSUME EngineInv, NEW reply, Planned(reply)
  PROVE  EngineInv'
<1>1. /\ stage = "planning" /\ stage' \in {"failed", "idle"}
      /\ UNCHANGED <<text, assessment>> /\ path' \in {path, {fallback}, {}}
  BY DEF Planned, Fail
<1>2. RuleBasedFrom(fallback) /\ assessment # {}
  BY <1>1 DEF EngineInv, RuleBasedFrom
<1>3. \A p \in path' : RuleBasedFrom(p)
  BY <1>1, <1>2 DEF EngineInv
<1>4. \A p \in path' : Len(p.modules) \in 1 .. MaxModules
  BY <1>3, RuleBasedTyped DEF EngineInv
<1>5. \A p \in path' : RuleBasedFrom(p)'
  BY <1>1, <1>3 DEF RuleBasedFrom
<1> QED BY <1>1, <1>2, <1>4, <1>5 DEF EngineInv, EngineTypeOK

(* What leaves the assessment and the paths alone.                         *)
LEMMA ElsewhereStep ==
  ASSUME EngineInv, UNCHANGED <<text, assessment, path>>,
         stage' \in {"idle", "drafting", "failed"} \/ (stage' = "writing" /\ assessment = {})
                \/ UNCHANGED <<stage, fallback>>
  PROVE  EngineInv'
BY DEF EngineInv, EngineTypeOK, RuleBasedFrom

(* Each call, reply and failure keeps the invariant.                       *)
LEMMA EngineStep ==
  ASSUME EngineInv, [EngineNext]_engine_vars
  PROVE  EngineInv'
<1>1. ASSUME NEW w \in Words, Write(w) PROVE EngineInv'
  BY <1>1, WriteStep
<1>2. ASSUME NEW r \in Roles, AnalyzeSkills(r) \/ BuildLearningPath(r) PROVE EngineInv'
  BY <1>2, AnalyzeSkillsStep, BuildLearningPathStep
<1>3. ASSUME NEW e, NEW p, GenerateResume(e, p) PROVE EngineInv'
  BY <1>3, ElsewhereStep DEF GenerateResume
<1>4. ASSUME NEW reply, Analyzed(reply) \/ Planned(reply) PROVE EngineInv'
  BY <1>4, AnalyzedStep, PlannedStep
<1>5. ASSUME NEW reply, Drafted(reply) PROVE EngineInv'
  BY <1>5, ElsewhereStep DEF Drafted, Fail
<1>6. CASE AfterFailure
  BY <1>6, ElsewhereStep DEF AfterFailure
<1>7. CASE UNCHANGED engine_vars
  BY <1>7, ElsewhereStep DEF engine_vars
<1> QED BY <1>1, <1>2, <1>3, <1>4, <1>5, <1>6, <1>7 DEF EngineNext

LEMMA EngineInvariant == EngineSpec => []EngineInv
  BY EngineStarts, EngineStep, PTL DEF EngineSpec

(* Whatever the roles, the profiles and the provider's answers, readiness  *)
(* is a percentage and a path has between one and MaxModules modules.      *)
THEOREM EngineTyped == EngineSpec => []EngineTypeOK
<1>1. EngineInv => EngineTypeOK
  BY DEF EngineInv
<1> QED BY <1>1, EngineInvariant, PTL

(* A rule-based path teaches no skill twice, the gaps first and in their   *)
(* order, and every required skill unless it is full                       *)
(* (_rule_based_learning_path).                                            *)
THEOREM PathsCover == EngineSpec => []PathCoversGaps
<1>1. ASSUME EngineInv PROVE PathCoversGaps
  <2>1. ASSUME NEW a \in assessment, NEW p \in path
        PROVE  Covers(p.modules, a.gaps, p.role)
    <3>1. PICK b \in assessment, r \in Roles :
                 p = [modules |-> RuleBasedPath(b.gaps, r), role |-> r]
      BY <1>1, <2>1 DEF EngineInv, RuleBasedFrom
    <3>2. a = b /\ a.gaps \in Seq(STRING)
      BY <1>1, <2>1, <3>1 DEF EngineInv, Assessments
    <3>3. Covers(RuleBasedPath(a.gaps, r), a.gaps, r)
      BY <3>2, RuleBasedPathCovers
    <3> QED BY <3>1, <3>2, <3>3
  <2> QED BY <2>1 DEF PathCoversGaps
<1> QED BY <1>1, EngineInvariant, PTL

-----------------------------------------------------------------------------
(***************************************************************************)
(* Mentions                                                                *)
(***************************************************************************)

LEMMA GreatestNumber ==
  ASSUME NEW S \in SUBSET Int, NEW b \in Int, S # {}, \A x \in S : x <= b
  PROVE  Max(S) \in S /\ \A x \in S : x <= Max(S)
<1> DEFINE T == {b - x : x \in S}
<1>1. T \in SUBSET Nat /\ T # {}
  <2>1. \A x \in S : b - x \in Nat
    OBVIOUS
  <2> QED BY <2>1
<1>2. PICK i \in T : \A j \in T : i <= j
  <2> HIDE DEF T
  <2> QED BY <1>1, LeastNumber
<1>3. PICK x \in S : i = b - x
  BY <1>2
<1>4. \A y \in S : x >= y
  <2>1. ASSUME NEW y \in S PROVE x >= y
    <3>1. b - x <= b - y
      BY <1>2, <1>3
    <3> QED BY <3>1
  <2> QED BY <2>1
<1>5. \E z \in S : \A y \in S : z >= y
  BY <1>4
<1>6. Max(S) \in S /\ \A y \in S : Max(S) >= y
  BY <1>5 DEF Max
<1> QED BY <1>6

LEMMA SmallestNumber ==
  ASSUME NEW S \in SUBSET Int, NEW b \in Int, S # {}, \A x \in S : b <= x
  PROVE  Min(S) \in S /\ \A x \in S : Min(S) <= x
<1> DEFINE T == {x - b : x \in S}
<1>1. T \in SUBSET Nat /\ T # {}
  <2>1. \A x \in S : x - b \in Nat
    OBVIOUS
  <2> QED BY <2>1
<1>2. PICK i \in T : \A j \in T : i <= j
  <2> HIDE DEF T
  <2> QED BY <1>1, LeastNumber
<1>3. PICK x \in S : i = x - b
  BY <1>2
<1>4. \A y \in S : x <= y
  <2>1. ASSUME NEW y \in S PROVE x <= y
    <3>1. x - b <= y - b
      BY <1>2, <1>3
    <3> QED BY <3>1
  <2> QED BY <2>1
<1>5. \E z \in S : \A y \in S : z <= y
  BY <1>4
<1>6. Min(S) \in S /\ \A y \in S : Min(S) <= y
  BY <1>5 DEF Min
<1> QED BY <1>6

(* A mention stands somewhere in a text of n words.                        *)
Located(m, n) == m.from \in 1 .. n /\ m.to \in m.from .. n

LEMMA PhraseFacts ==
  ASSUME NEW a \in DOMAIN Phrase
  PROVE  /\ Phrase[a] \in Seq(DOMAIN Width \ {Stop})
         /\ Len(Phrase[a]) \in Nat \ {0}
         /\ \A i \in 1 .. Len(Phrase[a]) : Phrase[a][i] \in DOMAIN Width \ {Stop}
<1>1. Phrase[a] \in Seq(DOMAIN Width \ {Stop}) /\ Phrase[a] # << >>
  BY ScoringAssumption
<1> QED BY <1>1, EmptySeq, ElementOfSeq

LEMMA MentionFacts ==
  ASSUME NEW a \in DOMAIN Phrase, NEW i \in Int
  PROVE  /\ Mention(a, i).alias = a /\ Mention(a, i).skill = SkillOf[a]
         /\ Mention(a, i).from = i /\ Mention(a, i).to = i + Len(Phrase[a]) - 1
         /\ Mention(a, i).to \in Int /\ i <= Mention(a, i).to
BY PhraseFacts DEF Mention

(* A candidate is an alias at a place where its words stand.               *)
LEMMA CandidateFacts ==
  ASSUME NEW line, Len(line) \in Nat, NEW m \in Candidates(line)
  PROVE  /\ m.alias \in DOMAIN Phrase /\ m = Mention(m.alias, m.from)
         /\ Located(m, Len(line))
         /\ SubSeq(line, m.from, m.to) = Phrase[m.alias]
<1>1. PICK a \in DOMAIN Phrase :
        m \in {Mention(a, i) : i \in {j \in 1 .. Len(line) - Len(Phrase[a]) + 1 :
                                        SubSeq(line, j, Mention(a, j).to) = Phrase[a]}}
  BY DEF Candidates
<1>2. PICK i \in 1 .. Len(line) - Len(Phrase[a]) + 1 :
        m = Mention(a, i) /\ SubSeq(line, i, Mention(a, i).to) = Phrase[a]
  BY <1>1
<1>3. Len(Phrase[a]) \in Nat \ {0}
  BY PhraseFacts
<1>4. m.alias = a /\ m.from = i /\ m.to = i + Len(Phrase[a]) - 1
  <2>1. a \in DOMAIN Phrase /\ i \in Int
    OBVIOUS
  <2> QED BY ONLY <1>2, <2>1, MentionFacts
<1> QED BY <1>2, <1>3, <1>4 DEF Located

LEMMA IsCandidate ==
  ASSUME NEW words, NEW a \in DOMAIN Phrase, NEW i \in 1 .. Len(words) - Len(Phrase[a]) + 1,
         SubSeq(words, i, Mention(a, i).to) = Phrase[a]
  PROVE  Mention(a, i) \in Candidates(words)
<1> DEFINE F(x) == {Mention(x, j) : j \in {k \in 1 .. Len(words) - Len(Phrase[x]) + 1 :
                                             SubSeq(words, k, Mention(x, k).to) = Phrase[x]}}
<1>1. Mention(a, i) \in F(a)
  OBVIOUS
<1>2. Candidates(words) = UNION {F(x) : x \in DOMAIN Phrase}
  BY DEF Candidates
<1> HIDE DEF F
<1> QED BY <1>1, <1>2

(* The scan from left to right has its steps.                              *)
LEMMA SpansSteps ==
  ASSUME NEW line, Len(line) \in Nat
  PROVE  /\ SpansUpTo(line)[0] = {}
         /\ \A i \in 1 .. Len(line) :
              SpansUpTo(line)[i] = AddAt(Candidates(line), SpansUpTo(line)[i - 1], i)
<1> DEFINE N == Len(line)
           C == Candidates(line)
           S == SUBSET C
           step == [x \in S \X (1 .. N) |-> AddAt(C, x[1], x[2])]
           E(f) == f = [n \in 0 .. N |-> IF n = 0 THEN {} ELSE AddAt(C, f[n - 1], n)]
<1> HIDE DEF C
<1>1. step \in [S \X (1 .. N) -> S]
  BY DEF AddAt, Longest
<1>2. {} \in S
  OBVIOUS
<1>3. PICK f \in [0 .. N -> S] : Computes(f, N, {}, step)
  <2> HIDE DEF S, step
  <2> QED BY <1>1, <1>2, Recursion
<1>4. E(f)
  <2>1. ASSUME NEW i \in 1 .. N PROVE f[i] = AddAt(C, f[i - 1], i)
    <3>1. f[i - 1] \in S
      OBVIOUS
    <3>2. step[<<f[i - 1], i>>] = AddAt(C, f[i - 1], i)
      BY <3>1
    <3> HIDE DEF step
    <3> QED BY <1>3, <3>2 DEF Computes
  <2>2. f[0] = {}
    BY <1>3 DEF Computes
  <2> QED BY <2>1, <2>2
<1>5. SpansUpTo(line) = CHOOSE g : E(g)
  BY DEF SpansUpTo, C
<1> HIDE DEF E
<1>6. E(SpansUpTo(line))
  BY <1>4, <1>5
<1>7. \A n \in 0 .. N : SpansUpTo(line)[n]
                          = IF n = 0 THEN {} ELSE AddAt(C, SpansUpTo(line)[n - 1], n)
  BY <1>6 DEF E
<1>8. SpansUpTo(line)[0] = {}
  BY <1>7
<1>9. ASSUME NEW i \in 1 .. N PROVE SpansUpTo(line)[i] = AddAt(C, SpansUpTo(line)[i - 1], i)
  <2>1. i \in 0 .. N /\ i # 0
    OBVIOUS
  <2> QED BY <1>7, <2>1
<1> QED BY <1>8, <1>9 DEF C

(* The spans of the first n words are candidates that start there.         *)
LEMMA SpansFacts ==
  ASSUME NEW line, Len(line) \in Nat, NEW n \in 0 .. Len(line)
  PROVE  /\ SpansUpTo(line)[n] \subseteq Candidates(line)
         /\ \A m \in SpansUpTo(line)[n] : m.from <= n
<1> DEFINE N == Len(line)
           T == {i \in 0 .. N : /\ SpansUpTo(line)[i] \subseteq Candidates(line)
                                /\ \A m \in SpansUpTo(line)[i] : m.from <= i}
<1>1. 0 \in T
  BY SpansSteps
<1>2. ASSUME NEW i \in 1 .. N, i - 1 \in T PROVE i \in T
  <2>1. PICK s, t, c : s = SpansUpTo(line)[i - 1] /\ t = SpansUpTo(line)[i] /\ c = Candidates(line)
    OBVIOUS
  <2>2. t = AddAt(c, s, i)
    BY <2>1, SpansSteps
  <2>3. s \subseteq c /\ \A m \in s : m.from <= i - 1
    BY <1>2, <2>1
  <2>4. \A m \in s : m.from \in Nat
    BY <2>1, <2>3, CandidateFacts DEF Located
  <2>5. t \subseteq s \cup {m \in c : m.from = i}
    BY <2>2 DEF AddAt, Longest
  <2>6. t \subseteq c /\ \A m \in t : m.from <= i
    BY <2>3, <2>4, <2>5
  <2> QED BY <2>1, <2>6
<1> HIDE DEF T
<1>3. n \in T
  BY <1>1, <1>2, UpTo
<1> QED BY <1>3 DEF T

LEMMA LoweredFacts ==
  ASSUME NEW line \in Seq(DOMAIN Width)
  PROVE  /\ Lowered(line) \in Seq(DOMAIN Width) /\ Len(Lowered(line)) = Len(line)
         /\ \A i \in 1 .. Len(line) :
              /\ Lowered(line)[i] = IF line[i] \in DOMAIN Capitals THEN Capitals[line[i]] ELSE line[i]
              /\ Lowered(line)[i] = Stop <=> line[i] = Stop
<1>1. Len(line) \in Nat /\ \A i \in 1 .. Len(line) : line[i] \in DOMAIN Width
  BY LenProperties, ElementOfSeq
<1>2. PICK l : l = Lowered(line)
  OBVIOUS
<1>3. /\ l = [i \in 1 .. Len(line) |->
                IF line[i] \in DOMAIN Capitals THEN Capitals[line[i]] ELSE line[i]]
  BY <1>2 DEF Lowered
<1>4. l \in [1 .. Len(line) -> DOMAIN Width]
  BY <1>1, <1>3, HomographAssumption
<1>5. l \in Seq(DOMAIN Width)
  BY <1>1, <1>4
<1>6. DOMAIN l = 1 .. Len(l) /\ Len(l) \in Nat
  BY <1>5, LenProperties
<1>7. Len(l) = Len(line)
  BY <1>1, <1>4, <1>6
<1>8. \A i \in 1 .. Len(line) :
        /\ l[i] = IF line[i] \in DOMAIN Capitals THEN Capitals[line[i]] ELSE line[i]
        /\ l[i] = Stop <=> line[i] = Stop
  BY <1>3, HomographAssumption
<1> QED BY <1>2, <1>5, <1>7, <1>8

LEMMA MentionSpansLocated ==
  ASSUME NEW line \in Seq(DOMAIN Width), NEW m \in MentionSpans(line)
  PROVE  Located(m, Len(line))
<1>1. Len(Lowered(line)) \in Nat /\ Len(Lowered(line)) = Len(line)
  BY LoweredFacts, LenProperties
<1>2. Spans(Lowered(line)) \subseteq Candidates(Lowered(line))
  BY <1>1, SpansFacts DEF Spans
<1>3. m \in Spans(Lowered(line))
  BY DEF MentionSpans
<1> QED BY <1>1, <1>2, <1>3, CandidateFacts

-----------------------------------------------------------------------------
(***************************************************************************)
(* The sentence and the scope of a mention                                 *)
(***************************************************************************)

(* l .. r are the words of the sentence around m.                          *)
IsSentence(line, m, l, r) ==
  /\ l \in 1 .. m.from /\ r \in m.to .. Len(line)
  /\ \A j \in 1 .. Len(line) : (l <= j /\ j < m.from) \/ (m.to < j /\ j <= r) => line[j] \notin DOMAIN BreakAt
  /\ l = 1 \/ line[l - 1] \in DOMAIN BreakAt
  /\ r = Len(line) \/ line[r + 1] \in DOMAIN BreakAt

(* SentenceBounds is the sentence around a mention: no break in it but in  *)
(* the mention, and a break or an end of the text on both sides.           *)
LEMMA SentenceFacts ==
  ASSUME NEW line, Len(line) \in Nat, NEW m, Located(m, Len(line))
  PROVE  IsSentence(line, m, SentenceBounds(line, m).left, SentenceBounds(line, m).right)
<1> DEFINE N == Len(line)
           breaks == {i \in 1 .. Len(line) : line[i] \in DOMAIN BreakAt}
           B == {0} \cup {i \in breaks : i < m.from}
           A == {Len(line) + 1} \cup {i \in breaks : i > m.to}
<1>1. N \in Nat /\ m.from \in 1 .. N /\ m.to \in m.from .. N /\ m.to \in Int
  BY DEF Located
<1>2. B \in SUBSET Int /\ B # {} /\ \A x \in B : x <= m.from - 1
  BY <1>1
<1>3. A \in SUBSET Int /\ A # {} /\ \A x \in A : m.to + 1 <= x
  BY <1>1
<1>4. PICK b, a : b = Max(B) /\ a = Min(A)
  OBVIOUS
<1>5. SentenceBounds(line, m) = [left |-> 1 + b, right |-> a - 1]
  BY <1>4 DEF SentenceBounds
<1>6. b \in B /\ \A x \in B : x <= b
  <2>1. m.from - 1 \in Int
    BY <1>1
  <2> HIDE DEF B
  <2> QED BY <1>2, <1>4, <2>1, GreatestNumber
<1>7. a \in A /\ \A x \in A : a <= x
  <2>1. m.to + 1 \in Int
    BY <1>1
  <2> HIDE DEF A
  <2> QED BY <1>3, <1>4, <2>1, SmallestNumber
<1>8. b \in 0 .. m.from - 1 /\ (b = 0 \/ line[b] \in DOMAIN BreakAt)
  BY <1>1, <1>6
<1>9. a \in m.to + 1 .. N + 1 /\ (a = N + 1 \/ line[a] \in DOMAIN BreakAt)
  BY <1>1, <1>7
<1>10. PICK l, k : l = 1 + b /\ k = a - 1
  OBVIOUS
<1>11. \A j \in 1 .. N :
         (l <= j /\ j < m.from) \/ (m.to < j /\ j <= k) => line[j] \notin DOMAIN BreakAt
  BY <1>1, <1>6, <1>7, <1>8, <1>9, <1>10
<1>12. l \in 1 .. m.from /\ k \in m.to .. N
  BY <1>1, <1>8, <1>9, <1>10
<1>13. l - 1 = b /\ k + 1 = a
  BY <1>1, <1>8, <1>9, <1>10
<1>14. l = 1 \/ line[l - 1] \in DOMAIN BreakAt
  BY <1>8, <1>10, <1>13
<1>15. k = N \/ line[k + 1] \in DOMAIN BreakAt
  BY <1>1, <1>9, <1>10, <1>13
<1>16. IsSentence(line, m, l, k)
  BY <1>11, <1>12, <1>14, <1>15 DEF IsSentence
<1> QED BY <1>5, <1>10, <1>16

(* A mention has one sentence.                                             *)
LEMMA SentenceUnique ==
  ASSUME NEW line, Len(line) \in Nat, NEW m, Located(m, Len(line)),
         NEW l, NEW r, IsSentence(line, m, l, r)
  PROVE  SentenceBounds(line, m).left = l /\ SentenceBounds(line, m).right = r
<1>1. PICK k, s : k = SentenceBounds(line, m).left /\ s = SentenceBounds(line, m).right
  OBVIOUS
<1>2. IsSentence(line, m, k, s)
  BY <1>1, SentenceFacts
<1>3. m.from \in 1 .. Len(line) /\ m.to \in m.from .. Len(line)
  BY DEF Located
<1>4. k = l
  <2>1. k \in 1 .. m.from /\ l \in 1 .. m.from
    BY <1>2 DEF IsSentence
  <2>2. k = 1 \/ ~(l <= k - 1)
    <3>1. l <= k - 1 /\ k # 1 => k - 1 \in 1 .. Len(line) /\ k - 1 < m.from
      BY <1>3, <2>1
    <3> QED BY <1>2, <3>1 DEF IsSentence
  <2>3. l = 1 \/ ~(k <= l - 1)
    <3>1. k <= l - 1 /\ l # 1 => l - 1 \in 1 .. Len(line) /\ l - 1 < m.from
      BY <1>3, <2>1
    <3> QED BY <1>2, <3>1 DEF IsSentence
  <2> QED BY <1>3, <2>1, <2>2, <2>3
<1>5. s = r
  <2>1. s \in m.to .. Len(line) /\ r \in m.to .. Len(line)
    BY <1>2 DEF IsSentence
  <2>2. s = Len(line) \/ ~(s + 1 <= r)
    <3>1. s + 1 <= r /\ s # Len(line) => s + 1 \in 1 .. Len(line) /\ m.to < s + 1
      BY <1>3, <2>1
    <3> QED BY <1>2, <3>1 DEF IsSentence
  <2>3. r = Len(line) \/ ~(r + 1 <= s)
    <3>1. r + 1 <= s /\ r # Len(line) => r + 1 \in 1 .. Len(line) /\ m.to < r + 1
      BY <1>3, <2>1
    <3> QED BY <1>2, <3>1 DEF IsSentence
  <2> QED BY <1>3, <2>1, <2>2, <2>3
<1> QED BY <1>1, <1>4, <1>5

(* p .. q is l .. r, cut at the nearest mentions of other skills.           *)
IsScope(spans, m, l, r, p, q) ==
  /\ p \in l .. m.from /\ q \in m.to .. r
  /\ \A n \in spans : n.skill # m.skill =>
       /\ n.to < m.from => n.to + 1 <= p
       /\ n.from > m.to => q <= n.from - 1
  /\ p = l \/ \E n \in spans : n.skill # m.skill /\ n.to < m.from /\ p = n.to + 1
  /\ q = r \/ \E n \in spans : n.skill # m.skill /\ n.from > m.to /\ q = n.from - 1

LEMMA ScopeFacts ==
  ASSUME NEW line, Len(line) \in Nat, NEW m, Located(m, Len(line)),
         NEW spans, \A n \in spans : Located(n, Len(line))
  PROVE  IsScope(spans, m, SentenceBounds(line, m).left, SentenceBounds(line, m).right,
                 ScopeBounds(line, spans, m).left, ScopeBounds(line, spans, m).right)
<1> DEFINE N == Len(line)
<1>1. PICK l, r : l = SentenceBounds(line, m).left /\ r = SentenceBounds(line, m).right
  OBVIOUS
<1>2. l \in 1 .. m.from /\ r \in m.to .. N
  BY <1>1, SentenceFacts DEF IsSentence
<1>3. N \in Nat /\ m.from \in 1 .. N /\ m.to \in m.from .. N /\ m.to \in Int
  BY DEF Located
<1>4. \A n \in spans : n.from \in Int /\ n.to \in Int /\ n.from <= n.to
  BY DEF Located
<1> DEFINE others == {n \in spans : n.skill # m.skill}
           B == {l} \cup {n.to + 1 : n \in {o \in others : o.to < m.from}}
           A == {r} \cup {n.from - 1 : n \in {o \in others : o.from > m.to}}
<1>5. B \in SUBSET Int /\ B # {} /\ \A x \in B : x <= m.from
  BY <1>2, <1>3, <1>4
<1>6. A \in SUBSET Int /\ A # {} /\ \A x \in A : m.to <= x
  BY <1>2, <1>3, <1>4
<1>7. PICK b, a : b = Max(B) /\ a = Min(A)
  OBVIOUS
<1>8. ScopeBounds(line, spans, m) = [left |-> b, right |-> a]
  BY <1>1, <1>7 DEF ScopeBounds
<1>9. b \in B /\ \A x \in B : x <= b
  <2>1. m.from \in Int
    BY <1>3
  <2> HIDE DEF B
  <2> QED BY <1>5, <1>7, <2>1, GreatestNumber
<1>10. a \in A /\ \A x \in A : a <= x
  <2> HIDE DEF A
  <2> QED BY <1>3, <1>6, <1>7, SmallestNumber
<1>11. b \in l .. m.from /\ a \in m.to .. r
  BY <1>2, <1>3, <1>5, <1>6, <1>9, <1>10
<1>12. \A n \in spans : n.skill # m.skill => /\ n.to < m.from => n.to + 1 <= b
                                             /\ n.from > m.to => a <= n.from - 1
  BY <1>9, <1>10
<1>13. /\ b = l \/ \E n \in spans : n.skill # m.skill /\ n.to < m.from /\ b = n.to + 1
       /\ a = r \/ \E n \in spans : n.skill # m.skill /\ n.from > m.to /\ a = n.from - 1
  BY <1>9, <1>10
<1>14. IsScope(spans, m, l, r, b, a)
  BY <1>11, <1>12, <1>13 DEF IsScope
<1> QED BY <1>1, <1>8, <1>14

(* What lies in the scope of a mention has no other skill in between.      *)
LEMMA InScope ==
  ASSUME NEW line, Len(line) \in Nat, NEW m, Located(m, Len(line)),
         NEW spans, \A n \in spans : Located(n, Len(line)),
         NEW S, NEW i \in At(line, ScopeBounds(line, spans, m), S)
  PROVE  i \in 1 .. Len(line) /\ line[i] \in S /\ Beside(line, spans, i, m)
<1>1. PICK l, r, b, a : /\ l = SentenceBounds(line, m).left /\ r = SentenceBounds(line, m).right
                        /\ b = ScopeBounds(line, spans, m).left
                        /\ a = ScopeBounds(line, spans, m).right
  OBVIOUS
<1>2. IsSentence(line, m, l, r)
  BY <1>1, SentenceFacts
<1>3. /\ b \in l .. m.from /\ a \in m.to .. r
      /\ \A n \in spans : n.skill # m.skill => /\ n.to < m.from => n.to + 1 <= b
                                               /\ n.from > m.to => a <= n.from - 1
  <2>1. IsScope(spans, m, l, r, b, a)
    BY <1>1, ScopeFacts
  <2> QED BY <2>1 DEF IsScope
<1>4. i \in b .. a /\ line[i] \in S
  BY <1>1 DEF At
<1>5. m.from \in 1 .. Len(line) /\ m.to \in m.from .. Len(line)
  BY DEF Located
<1>6. \A n \in spans : n.from \in Int /\ n.to \in Int /\ n.from <= n.to
  BY DEF Located
<1>7. i \in 1 .. Len(line)
  BY <1>2, <1>3, <1>4, <1>5 DEF IsSentence
<1>8. \A j \in 1 .. Len(line) :
        (i < j /\ j < m.from) \/ (m.to < j /\ j < i) => line[j] \notin DOMAIN BreakAt
  BY <1>2, <1>3, <1>4, <1>5, <1>7 DEF IsSentence
<1>9. ASSUME NEW n \in spans, n.skill # m.skill
      PROVE  ~(i < n.from /\ n.to < m.from) /\ ~(m.to < n.from /\ n.to < i)
  <2>1. n.from \in Int /\ n.to \in Int /\ n.from <= n.to
    BY <1>6
  <2>2. (n.to < m.from => n.to + 1 <= b) /\ (n.from > m.to => a <= n.from - 1)
    BY <1>3, <1>9
  <2> QED BY <1>3, <1>4, <1>5, <1>7, <2>1, <2>2
<1> QED BY <1>4, <1>7, <1>8, <1>9 DEF Beside

(* A shared level word governs the list that the mention is in.            *)
LEMMA SharedFacts ==
  ASSUME NEW line, Len(line) \in Nat, NEW m, Located(m, Len(line)), NEW i \in SharedLevelWord(line, m)
  PROVE  i \in 1 .. Len(line) /\ line[i] \in DOMAIN LevelRank /\ Listed(line, i, m)
<1>1. PICK l, r : l = SentenceBounds(line, m).left /\ r = SentenceBounds(line, m).right
  OBVIOUS
<1>2. IsSentence(line, m, l, r)
  BY <1>1, SentenceFacts
<1>3. /\ i \in l .. m.from - 1 /\ line[i] \in DOMAIN LevelRank
      /\ \A j \in i + 1 .. m.from - 1 : line[j] \notin ClauseMarks \cup DOMAIN Years
  BY <1>1 DEF SharedLevelWord, At
<1>4. m.from \in 1 .. Len(line)
  BY DEF Located
<1>5. i \in 1 .. Len(line) /\ i < m.from
  BY <1>2, <1>3, <1>4 DEF IsSentence
<1>6. \A j \in i + 1 .. m.from - 1 : line[j] \notin DOMAIN BreakAt
  BY <1>2, <1>3, <1>4, <1>5 DEF IsSentence
<1> QED BY <1>3, <1>5, <1>6 DEF Listed

LEMMA GreatestRank ==
  ASSUME NEW S \in SUBSET (1 .. 4), S # {}
  PROVE  Max(S) \in S /\ \A x \in S : x <= Max(S)
<1>1. S \in SUBSET Int /\ 4 \in Int /\ \A x \in S : x <= 4
  OBVIOUS
<1> QED BY <1>1, GreatestNumber

(* The level of a mention has a reason near the mention.                   *)
LEMMA RankReason ==
  ASSUME NEW line, Len(line) \in Nat, NEW m, Located(m, Len(line)),
         NEW spans, \A n \in spans : Located(n, Len(line))
  PROVE  RankOf(line, spans, m) \in 1 .. 4 /\ Reason(line, spans, m, RankOf(line, spans, m))
<1> DEFINE scope  == ScopeBounds(line, spans, m)
           figure == FigureFor(line, scope, m)
           own    == At(line, scope, DOMAIN LevelRank)
           shared == SharedLevelWord(line, m)
           years  == {YearsRank(Years[line[f]]) : f \in figure}
           owns   == {LevelRank[line[i]] : i \in own}
           shares == {LevelRank[line[i]] : i \in shared}
           count  == CountRank(Cardinality({n \in spans : n.alias = m.alias}))
<1>1. PICK rank : rank = RankOf(line, spans, m)
  OBVIOUS
<1>2. /\ figure # {} => rank = Max(years)
      /\ figure = {} /\ own # {} => rank = Max(owns)
      /\ figure = {} /\ own = {} /\ shared # {} => rank = Max(shares)
      /\ figure = {} /\ own = {} /\ shared = {} => rank = count
  BY <1>1 DEF RankOf
<1>3. CASE figure # {}
  <2>1. years \in SUBSET (1 .. 4) /\ years # {}
    BY <1>3 DEF YearsRank
  <2>2. rank \in years
    <3> HIDE DEF years
    <3> QED BY <1>2, <1>3, <2>1, GreatestRank
  <2>3. PICK f \in figure : rank = YearsRank(Years[line[f]])
    BY <2>2
  <2>4. f \in At(line, scope, DOMAIN Years) /\ IsAttributional(line, Gap(m, f))
    BY <2>3 DEF FigureFor
  <2>5. f \in 1 .. Len(line) /\ line[f] \in DOMAIN Years /\ Beside(line, spans, f, m)
    BY <2>4, InScope
  <2>6. \A j \in Gap(m, f) : line[j] \notin GapMarks
    BY <2>4 DEF IsAttributional
  <2> QED BY <1>1, <2>1, <2>2, <2>3, <2>5, <2>6 DEF Reason
<1>4. CASE figure = {} /\ own # {}
  <2>1. owns \in SUBSET (1 .. 4) /\ owns # {}
    <3>1. \A i \in own : line[i] \in DOMAIN LevelRank
      BY DEF At
    <3> QED BY <1>4, <3>1, ScoringAssumption
  <2>2. rank \in owns
    <3> HIDE DEF owns
    <3> QED BY <1>2, <1>4, <2>1, GreatestRank
  <2>3. PICK i \in own : rank = LevelRank[line[i]]
    BY <2>2
  <2>4. i \in 1 .. Len(line) /\ line[i] \in DOMAIN LevelRank /\ Beside(line, spans, i, m)
    BY InScope
  <2> QED BY <1>1, <2>1, <2>2, <2>3, <2>4 DEF Reason
<1>5. CASE figure = {} /\ own = {} /\ shared # {}
  <2>1. shares \in SUBSET (1 .. 4) /\ shares # {}
    <3>1. \A i \in shared : line[i] \in DOMAIN LevelRank
      BY SharedFacts
    <3> QED BY <1>5, <3>1, ScoringAssumption
  <2>2. rank \in shares
    <3> HIDE DEF shares
    <3> QED BY <1>2, <1>5, <2>1, GreatestRank
  <2>3. PICK i \in shared : rank = LevelRank[line[i]]
    BY <2>2
  <2>4. i \in 1 .. Len(line) /\ line[i] \in DOMAIN LevelRank /\ Listed(line, i, m)
    BY SharedFacts
  <2> QED BY <1>1, <2>1, <2>2, <2>3, <2>4 DEF Reason
<1>6. CASE figure = {} /\ own = {} /\ shared = {}
  <2>1. rank = count /\ rank \in 1 .. 4
    BY <1>2, <1>6 DEF CountRank
  <2> QED BY <1>1, <2>1 DEF Reason
<1> QED BY <1>3, <1>4, <1>5, <1>6

LEMMA ScoreFacts ==
  ASSUME NEW line \in Seq(DOMAIN Width)
  PROVE  /\ DOMAIN Scores(line) = {m.skill : m \in MentionSpans(line)}
         /\ \A s \in DOMAIN Scores(line) :
              \E m \in MentionSpans(line) :
                m.skill = s /\ Scores(line)[s] = RankOf(line, MentionSpans(line), m)
<1> DEFINE spans == MentionSpans(line)
           ranks(s) == {RankOf(line, spans, m) : m \in {n \in spans : n.skill = s}}
<1>1. Scores(line) = [s \in {m.skill : m \in spans} |-> Max(ranks(s))]
  BY DEF Scores
<1>2. Len(line) \in Nat /\ \A m \in spans : Located(m, Len(line))
  BY LenProperties, MentionSpansLocated
<1>3. \A m \in spans : RankOf(line, spans, m) \in 1 .. 4
  BY <1>2, RankReason
<1>4. ASSUME NEW s \in {m.skill : m \in spans} PROVE Max(ranks(s)) \in ranks(s)
  <2>1. ranks(s) \in SUBSET (1 .. 4) /\ ranks(s) # {}
    BY <1>3
  <2> HIDE DEF ranks
  <2> QED BY <2>1, GreatestRank
<1> HIDE DEF spans
<1> QED BY <1>1, <1>4 DEF spans

(* No level above the lowest without a reason at a mention of the skill.   *)
LEMMA WarrantedAlways ==
  ASSUME NEW line \in Seq(DOMAIN Width)
  PROVE  Warranted(line)
<1> DEFINE spans == MentionSpans(line)
<1>1. Len(line) \in Nat /\ \A m \in spans : Located(m, Len(line))
  BY LenProperties, MentionSpansLocated
<1>2. ASSUME NEW s \in DOMAIN Scores(line)
      PROVE  \E m \in spans : m.skill = s /\ Reason(line, spans, m, Scores(line)[s])
  <2>1. PICK m \in spans : m.skill = s /\ Scores(line)[s] = RankOf(line, spans, m)
    BY <1>2, ScoreFacts
  <2>2. Reason(line, spans, m, RankOf(line, spans, m))
    BY <1>1, RankReason
  <2> HIDE DEF spans
  <2> QED BY <2>1, <2>2
<1> HIDE DEF spans
<1> QED BY <1>2 DEF Warranted, spans

-----------------------------------------------------------------------------
(***************************************************************************)
(* A part of a text between two stops                                      *)
(***************************************************************************)

(* part is what line has from a + 1 to b, whole sentences of it.           *)
Part(line, a, b, part) ==
  /\ line \in Seq(DOMAIN Width) /\ part \in Seq(DOMAIN Width)
  /\ a \in Nat /\ b \in Nat /\ a <= b /\ b <= Len(line) /\ Len(part) = b - a
  /\ \A k \in 1 .. b - a : part[k] = line[a + k]
  /\ a = 0 \/ line[a] = Stop
  /\ b = Len(line) \/ line[b + 1] = Stop

(* n stands in the whole where m stands in the part.                       *)
Moved(n, m, a) ==
  /\ n.alias = m.alias /\ n.skill = m.skill
  /\ n.from = a + m.from /\ n.to = a + m.to

LEMMA PartLengths ==
  ASSUME NEW line, NEW a, NEW b, NEW part, Part(line, a, b, part)
  PROVE  /\ Len(line) \in Nat /\ Len(part) \in Nat /\ Len(part) = b - a
         /\ a \in Nat /\ b \in a .. Len(line)
         /\ \A k \in 1 .. b - a : a + k \in 1 .. Len(line) /\ line[a + k] = part[k]
BY LenProperties DEF Part

(* Lowering the letters of the whole lowers those of the part.             *)
LEMMA PartLowered ==
  ASSUME NEW line, NEW a, NEW b, NEW part, Part(line, a, b, part)
  PROVE  Part(Lowered(line), a, b, Lowered(part))
<1>1. line \in Seq(DOMAIN Width) /\ part \in Seq(DOMAIN Width)
  BY DEF Part
<1>2. PICK l, p : l = Lowered(line) /\ p = Lowered(part)
  OBVIOUS
<1>3. /\ l \in Seq(DOMAIN Width) /\ Len(l) = Len(line)
      /\ \A i \in 1 .. Len(line) :
           /\ l[i] = IF line[i] \in DOMAIN Capitals THEN Capitals[line[i]] ELSE line[i]
           /\ l[i] = Stop <=> line[i] = Stop
  BY <1>1, <1>2, LoweredFacts
<1>4. /\ p \in Seq(DOMAIN Width) /\ Len(p) = Len(part)
      /\ \A i \in 1 .. Len(part) :
           p[i] = IF part[i] \in DOMAIN Capitals THEN Capitals[part[i]] ELSE part[i]
  BY <1>1, <1>2, LoweredFacts
<1>5. \A k \in 1 .. b - a : p[k] = l[a + k]
  <2>1. ASSUME NEW k \in 1 .. b - a PROVE p[k] = l[a + k]
    <3>1. k \in 1 .. Len(part) /\ a + k \in 1 .. Len(line) /\ line[a + k] = part[k]
      BY PartLengths
    <3> QED BY <1>3, <1>4, <3>1
  <2> QED BY <2>1
<1>6. a = 0 \/ l[a] = Stop
  <2>1. a = 0 \/ (a \in 1 .. Len(line) /\ line[a] = Stop)
    BY PartLengths DEF Part
  <2> QED BY <1>3, <2>1
<1>7. b = Len(l) \/ l[b + 1] = Stop
  <2>1. b = Len(line) \/ (b + 1 \in 1 .. Len(line) /\ line[b + 1] = Stop)
    BY PartLengths DEF Part
  <2> QED BY <1>3, <2>1
<1> QED BY <1>2, <1>3, <1>4, <1>5, <1>6, <1>7 DEF Part

(* A candidate, word by word.                                              *)
Occurs(line, m) ==
  /\ m.alias \in DOMAIN Phrase /\ m = Mention(m.alias, m.from)
  /\ Located(m, Len(line))
  /\ \A k \in 1 .. Len(Phrase[m.alias]) : line[m.from + k - 1] = Phrase[m.alias][k]

LEMMA OccursFacts ==
  ASSUME NEW line, NEW m, Occurs(line, m)
  PROVE  /\ m.from \in 1 .. Len(line) /\ m.to \in m.from .. Len(line)
         /\ m.to = m.from + Len(Phrase[m.alias]) - 1
         /\ m.skill = SkillOf[m.alias]
         /\ \A i \in m.from .. m.to : line[i] # Stop
<1>1. /\ m.alias \in DOMAIN Phrase /\ m = Mention(m.alias, m.from)
      /\ \A k \in 1 .. Len(Phrase[m.alias]) : line[m.from + k - 1] = Phrase[m.alias][k]
  BY DEF Occurs
<1>2. m.from \in 1 .. Len(line) /\ m.to \in m.from .. Len(line)
  BY DEF Occurs, Located
<1>3. PICK alias, from : alias = m.alias /\ from = m.from
  OBVIOUS
<1>4. from \in Int /\ alias \in DOMAIN Phrase
  BY <1>1, <1>2, <1>3
<1>5. m.to = m.from + Len(Phrase[m.alias]) - 1 /\ m.skill = SkillOf[m.alias]
  <2>1. /\ Mention(alias, from).skill = SkillOf[alias]
        /\ Mention(alias, from).to = from + Len(Phrase[alias]) - 1
    BY ONLY <1>4, MentionFacts
  <2> QED BY <1>1, <1>3, <2>1
<1>6. ASSUME NEW i \in m.from .. m.to PROVE line[i] # Stop
  <2>1. PICK k : k = i - m.from + 1
    OBVIOUS
  <2>2. k \in 1 .. Len(Phrase[m.alias]) /\ i = m.from + k - 1
    <3>1. Len(Phrase[m.alias]) \in Nat
      BY <1>1, PhraseFacts
    <3>2. m.from \in Int /\ i \in Int /\ m.from <= i /\ i <= m.to
      BY <1>2
    <3> QED BY <1>5, <2>1, <3>1, <3>2
  <2>3. Phrase[m.alias][k] # Stop
    BY <1>1, <2>2, PhraseFacts
  <2> QED BY <1>1, <2>2, <2>3
<1> QED BY <1>2, <1>5, <1>6

(* Candidates are occurrences of an alias.                                 *)
LEMMA CandidateIff ==
  ASSUME NEW line \in Seq(DOMAIN Width), NEW m
  PROVE  m \in Candidates(line) <=> Occurs(line, m)
<1>0. Len(line) \in Nat /\ \A i \in 1 .. Len(line) : line[i] \in DOMAIN Width
  BY LenProperties, ElementOfSeq
<1>1. ASSUME m \in Candidates(line) PROVE Occurs(line, m)
  <2>1. /\ m.alias \in DOMAIN Phrase /\ m = Mention(m.alias, m.from)
        /\ Located(m, Len(line))
        /\ SubSeq(line, m.from, m.to) = Phrase[m.alias]
    BY <1>0, <1>1, CandidateFacts
  <2>2. PICK f, t, s : f = m.from /\ t = m.to /\ s = SubSeq(line, f, t)
    OBVIOUS
  <2>3. f \in 1 .. Len(line) /\ t \in f .. Len(line)
    BY <2>1, <2>2 DEF Located
  <2>4. f \in Int /\ t \in Int /\ \A i \in f .. t : line[i] \in DOMAIN Width
    BY <1>0, <2>3
  <2>5. /\ Len(SubSeq(line, f, t)) = IF f <= t THEN t - f + 1 ELSE 0
        /\ \A i \in 1 .. t - f + 1 : SubSeq(line, f, t)[i] = line[f + i - 1]
    BY ONLY <2>4, SubSeqProperties
  <2>6. Len(s) = t - f + 1 /\ \A i \in 1 .. t - f + 1 : s[i] = line[f + i - 1]
    BY <2>2, <2>3, <2>5
  <2> QED BY <2>1, <2>2, <2>6 DEF Occurs
<1>2. ASSUME Occurs(line, m) PROVE m \in Candidates(line)
  <2>1. PICK x, f, t : x = m.alias /\ f = m.from /\ t = m.to
    OBVIOUS
  <2>2. /\ x \in DOMAIN Phrase /\ m = Mention(x, f)
        /\ \A k \in 1 .. Len(Phrase[x]) : line[f + k - 1] = Phrase[x][k]
    BY <1>2, <2>1 DEF Occurs
  <2>3. f \in 1 .. Len(line) /\ t \in f .. Len(line) /\ t = f + Len(Phrase[x]) - 1
    BY <1>2, <2>1, OccursFacts
  <2>4. f \in Int /\ t \in Int /\ \A i \in f .. t : line[i] \in DOMAIN Width
    BY <1>0, <2>3
  <2>5. /\ SubSeq(line, f, t) \in Seq(DOMAIN Width)
        /\ Len(SubSeq(line, f, t)) = IF f <= t THEN t - f + 1 ELSE 0
        /\ \A i \in 1 .. t - f + 1 : SubSeq(line, f, t)[i] = line[f + i - 1]
    BY ONLY <2>4, SubSeqProperties
  <2>6. Len(Phrase[x]) \in Nat /\ Phrase[x] \in Seq(DOMAIN Width)
    BY <2>2, ScoringAssumption, LenProperties
  <2>7. t - f + 1 = Len(Phrase[x]) /\ f <= t
    BY <2>3, <2>6
  <2>8. SubSeq(line, f, t) = Phrase[x]
    <3>1. PICK z, p : z = SubSeq(line, f, t) /\ p = Phrase[x]
      OBVIOUS
    <3>2. z \in Seq(DOMAIN Width) /\ p \in Seq(DOMAIN Width) /\ Len(z) = Len(p)
      BY ONLY <2>5, <2>6, <2>7, <3>1
    <3>3. ASSUME NEW k \in 1 .. Len(z) PROVE z[k] = p[k]
      <4>1. k \in 1 .. t - f + 1 /\ k \in 1 .. Len(Phrase[x])
        BY ONLY <2>6, <2>7, <3>1, <3>2, <3>3
      <4> QED BY <2>2, <2>5, <3>1, <4>1
    <3> QED BY ONLY <3>1, <3>2, <3>3, SeqEqual
  <2>9. f \in 1 .. Len(line) - Len(Phrase[x]) + 1
    BY <1>0, <2>3, <2>6
  <2>10. Mention(x, f).to = t
    BY <2>1, <2>2
  <2> QED BY <2>2, <2>8, <2>9, <2>10, IsCandidate
<1> QED BY <1>1, <1>2

LEMMA MovedMention ==
  ASSUME NEW x \in DOMAIN Phrase, NEW i \in Int, NEW a \in Int
  PROVE  Moved(Mention(x, a + i), Mention(x, i), a)
<1>1. a + i \in Int
  OBVIOUS
<1>2. /\ Mention(x, a + i).alias = x /\ Mention(x, a + i).skill = SkillOf[x]
      /\ Mention(x, a + i).from = a + i /\ Mention(x, a + i).to = a + i + Len(Phrase[x]) - 1
  BY ONLY <1>1, x \in DOMAIN Phrase, MentionFacts
<1>3. /\ Mention(x, i).alias = x /\ Mention(x, i).skill = SkillOf[x]
      /\ Mention(x, i).from = i /\ Mention(x, i).to = i + Len(Phrase[x]) - 1
  BY ONLY i \in Int, x \in DOMAIN Phrase, MentionFacts
<1> QED BY <1>2, <1>3, PhraseFacts DEF Moved

(* What occurs in the part occurs in the whole, moved.                     *)
LEMMA OccursInWhole ==
  ASSUME NEW line, NEW a, NEW b, NEW part, Part(line, a, b, part), NEW m, Occurs(part, m)
  PROVE  LET n == Mention(m.alias, a + m.from)
         IN  /\ Occurs(line, n) /\ Moved(n, m, a)
             /\ n.from \in a + 1 .. b /\ n.to \in n.from .. b
<1>1. PICK x, f, n : x = m.alias /\ f = m.from /\ n = Mention(x, a + f)
  OBVIOUS
<1>2. /\ x \in DOMAIN Phrase /\ m = Mention(x, f)
      /\ \A k \in 1 .. Len(Phrase[x]) : part[f + k - 1] = Phrase[x][k]
  BY <1>1 DEF Occurs
<1>3. f \in 1 .. Len(part) /\ m.to \in f .. Len(part) /\ m.to = f + Len(Phrase[x]) - 1
  BY <1>1, OccursFacts
<1>4. Moved(n, m, a)
  <2>1. f \in Int /\ a \in Int
    BY <1>3, PartLengths
  <2>2. Moved(Mention(x, a + f), Mention(x, f), a)
    BY ONLY <1>2, <2>1, MovedMention
  <2> QED BY <1>1, <1>2, <2>2
<1>5. n.alias = x /\ n.from = a + f /\ n.to = a + m.to
  BY <1>1, <1>4 DEF Moved
<1>6. n.from \in a + 1 .. b /\ n.to \in n.from .. b
  <2>1. a \in Nat /\ b \in Nat /\ b - a \in Nat /\ Len(part) = b - a
    BY PartLengths
  <2> QED BY ONLY <1>3, <1>5, <2>1
<1>7. Located(n, Len(line))
  BY <1>6, PartLengths DEF Located
<1>8. ASSUME NEW k \in 1 .. Len(Phrase[x]) PROVE line[n.from + k - 1] = Phrase[x][k]
  <2>1. f + k - 1 \in 1 .. b - a /\ a + (f + k - 1) = n.from + k - 1
    <3>1. /\ a \in Nat /\ b \in Nat /\ Len(part) = b - a
          /\ Len(Phrase[x]) \in Nat /\ k \in 1 .. Len(Phrase[x])
      BY <1>2, <1>8, PartLengths, PhraseFacts
    <3> QED BY ONLY <1>3, <1>5, <3>1
  <2>2. line[a + (f + k - 1)] = part[f + k - 1]
    BY <2>1, PartLengths
  <2> QED BY <1>2, <2>1, <2>2
<1>9. Occurs(line, n)
  <2>1. n.alias \in DOMAIN Phrase /\ n = Mention(n.alias, n.from)
    BY <1>1, <1>2, <1>5
  <2>2. \A k \in 1 .. Len(Phrase[n.alias]) : line[n.from + k - 1] = Phrase[n.alias][k]
    BY <1>5, <1>8
  <2> QED BY <1>7, <2>1, <2>2 DEF Occurs
<1> QED BY <1>1, <1>4, <1>6, <1>9

(* What occurs in the whole lies before the part, in it, or after it.      *)
LEMMA OccursInPart ==
  ASSUME NEW line, NEW a, NEW b, NEW part, Part(line, a, b, part), NEW n, Occurs(line, n)
  PROVE  /\ n.from <= a => n.to < a
         /\ n.from \in a + 1 .. b =>
              LET m == Mention(n.alias, n.from - a)
              IN  Occurs(part, m) /\ Moved(n, m, a) /\ n.to <= b
<1>0. /\ n.from \in 1 .. Len(line) /\ n.to \in n.from .. Len(line)
      /\ n.to = n.from + Len(Phrase[n.alias]) - 1
      /\ \A i \in n.from .. n.to : line[i] # Stop
  BY OccursFacts
<1>1. n.from <= a => n.to < a
  <2>1. a = 0 \/ line[a] = Stop
    BY DEF Part
  <2>2. n.from <= a /\ a <= n.to => a \in n.from .. n.to
    BY <1>0, PartLengths
  <2>3. n.from <= a => ~(a <= n.to)
    BY <1>0, <2>1, <2>2
  <2> QED BY <1>0, <2>3, PartLengths
<1>2. ASSUME n.from \in a + 1 .. b
      PROVE  LET m == Mention(n.alias, n.from - a)
             IN  Occurs(part, m) /\ Moved(n, m, a) /\ n.to <= b
  <2>1. PICK x, f, m : x = n.alias /\ f = n.from - a /\ m = Mention(x, f)
    OBVIOUS
  <2>2. /\ x \in DOMAIN Phrase /\ n = Mention(x, n.from)
        /\ \A k \in 1 .. Len(Phrase[x]) : line[n.from + k - 1] = Phrase[x][k]
    BY <2>1 DEF Occurs
  <2>3. f \in 1 .. b - a /\ a + f = n.from
    BY <1>0, <1>2, <2>1, PartLengths
  <2>4. n.to <= b
    <3>1. b = Len(line) \/ line[b + 1] = Stop
      BY DEF Part
    <3>2. b + 1 <= n.to => b + 1 \in n.from .. n.to
      BY <1>0, <1>2, PartLengths
    <3>3. b = Len(line) \/ ~(b + 1 <= n.to)
      BY <1>0, <3>1, <3>2
    <3> QED BY <1>0, <3>3, PartLengths
  <2>5. Moved(n, m, a)
    <3>1. f \in Int /\ a \in Int
      BY <2>3, PartLengths
    <3>2. Moved(Mention(x, a + f), Mention(x, f), a)
      BY ONLY <2>2, <3>1, MovedMention
    <3> QED BY <2>1, <2>2, <2>3, <3>2
  <2>6. m.alias = x /\ m.from = f /\ m.to = f + Len(Phrase[x]) - 1
    <3>1. f \in Int
      BY <2>3, PartLengths
    <3>2. /\ Mention(x, f).alias = x /\ Mention(x, f).from = f
          /\ Mention(x, f).to = f + Len(Phrase[x]) - 1
      BY ONLY <2>2, <3>1, MentionFacts
    <3> QED BY <2>1, <3>2
  <2>7. Len(Phrase[x]) \in Nat \ {0}
    BY <2>2, PhraseFacts
  <2>8. n.to = a + m.to
    BY <2>5 DEF Moved
  <2>9. m.to \in f .. b - a /\ m.to = f + Len(Phrase[x]) - 1
    <3>1. a \in Nat /\ b \in Nat
      BY PartLengths
    <3> QED BY ONLY <1>0, <2>3, <2>4, <2>6, <2>7, <2>8, <3>1
  <2>10. Located(m, Len(part))
    BY <2>3, <2>6, <2>9, PartLengths DEF Located
  <2>11. ASSUME NEW k \in 1 .. Len(Phrase[x]) PROVE part[m.from + k - 1] = Phrase[x][k]
    <3>1. f + k - 1 \in 1 .. b - a /\ a + (f + k - 1) = n.from + k - 1
      <4>1. a \in Nat /\ b \in Nat /\ k \in 1 .. Len(Phrase[x])
        BY <2>2, <2>11, PartLengths
      <4> QED BY ONLY <2>3, <2>7, <2>9, <4>1
    <3>2. line[a + (f + k - 1)] = part[f + k - 1]
      BY <3>1, PartLengths
    <3> QED BY <2>2, <2>6, <3>1, <3>2
  <2>12. Occurs(part, m)
    BY <2>1, <2>2, <2>6, <2>10, <2>11 DEF Occurs
  <2> QED BY <2>1, <2>4, <2>5, <2>12
<1> QED BY <1>1, <1>2

-----------------------------------------------------------------------------
(* The scan of the part is the scan of the whole, moved.                   *)

(* Later steps of the scan add only what starts later.                     *)
LEMMA SpansSettled ==
  ASSUME NEW line, Len(line) \in Nat, NEW n \in 0 .. Len(line), NEW c
  PROVE  c \in SpansUpTo(line)[n] <=> c \in Spans(line) /\ c.from <= n
<1> DEFINE N == Len(line)
           T == {j \in 0 .. N : n <= j => (c \in SpansUpTo(line)[n] <=>
                                            c \in SpansUpTo(line)[j] /\ c.from <= n)}
<1>1. c \in SpansUpTo(line)[n] => c.from <= n
  BY SpansFacts
<1>2. 0 \in T
  BY <1>1
<1>3. ASSUME NEW i \in 1 .. N, i - 1 \in T PROVE i \in T
  <2>1. CASE n = i
    BY <1>1, <2>1
  <2>2. CASE n < i
    <3>1. PICK s, t, cs : s = SpansUpTo(line)[i - 1] /\ t = SpansUpTo(line)[i] /\ cs = Candidates(line)
      OBVIOUS
    <3>2. t = AddAt(cs, s, i)
      BY <3>1, SpansSteps
    <3>3. n <= i - 1 /\ (c \in SpansUpTo(line)[n] <=> c \in s /\ c.from <= n)
      BY <1>3, <2>2, <3>1
    <3>4. s \subseteq t /\ \A m \in t \ s : m.from = i
      BY <3>2 DEF AddAt, Longest
    <3>5. c \in s /\ c.from <= n <=> c \in t /\ c.from <= n
      BY <2>2, <3>4
    <3> QED BY <3>1, <3>3, <3>5
  <2>3. CASE i < n
    BY <2>3
  <2> QED BY <2>1, <2>2, <2>3
<1> HIDE DEF T
<1>4. N \in T
  <2>1. N \in Nat
    OBVIOUS
  <2> HIDE DEF N
  <2>2. 0 .. N \subseteq T
    BY ONLY <1>2, <1>3, <2>1, UpTo
  <2> QED BY <2>1, <2>2
<1> QED BY <1>4 DEF T, Spans

(* How far the scans agree: what they have of the part is the same.        *)
Agree(line, part, a, i) ==
  \A m \in Candidates(part) :
    m \in SpansUpTo(part)[i] <=> Mention(m.alias, a + m.from) \in SpansUpTo(line)[a + i]

(* One more word: what is free for a span in the part is so in the whole.  *)
LEMMA AgreeStep ==
  ASSUME NEW line, NEW a, NEW b, NEW part, Part(line, a, b, part), NEW i \in 1 .. b - a,
         Agree(line, part, a, i - 1)
  PROVE  Agree(line, part, a, i)
<1> DEFINE image(m) == Mention(m.alias, a + m.from)
<1>1. PICK v, w, s, t, ps, ls :
        /\ v = SpansUpTo(part)[i - 1] /\ w = SpansUpTo(part)[i] /\ ps = Candidates(part)
        /\ s = SpansUpTo(line)[a + i - 1] /\ t = SpansUpTo(line)[a + i] /\ ls = Candidates(line)
  OBVIOUS
<1>2. line \in Seq(DOMAIN Width) /\ part \in Seq(DOMAIN Width)
  BY DEF Part
<1>3. a + i \in 1 .. Len(line) /\ i \in 1 .. Len(part) /\ a \in Nat
  BY PartLengths
<1>4. w = AddAt(ps, v, i)
  BY <1>1, <1>3, PartLengths, SpansSteps
<1>5. t = AddAt(ls, s, a + i)
  <2>1. a + i - 1 = (a + i) - 1
    BY <1>3
  <2> QED BY <1>1, <1>3, <2>1, PartLengths, SpansSteps
<1>6. \A m \in ps : m \in v <=> image(m) \in s
  <2>1. a + (i - 1) = a + i - 1
    BY <1>3
  <2> QED BY <1>1, <2>1 DEF Agree
<1>7. v \subseteq ps /\ w \subseteq ps /\ s \subseteq ls /\ t \subseteq ls
  <2>1. i - 1 \in 0 .. Len(part) /\ i \in 0 .. Len(part)
    BY <1>3, PartLengths
  <2>2. a + i - 1 \in 0 .. Len(line) /\ a + i \in 0 .. Len(line)
    BY <1>3, PartLengths
  <2> QED BY <1>1, <2>1, <2>2, PartLengths, SpansFacts
<1>8. /\ \A m \in ps : Occurs(part, m)
      /\ \A n \in ls : Occurs(line, n)
  BY <1>1, <1>2, CandidateIff
<1>9. ASSUME NEW m \in ps
      PROVE  /\ image(m) \in ls /\ Moved(image(m), m, a)
             /\ m.from \in Int /\ m.to \in Int
             /\ image(m).from = a + m.from /\ image(m).to = a + m.to
             /\ image(m).from \in a + 1 .. b
  <2>1. Occurs(line, image(m)) /\ Moved(image(m), m, a) /\ image(m).from \in a + 1 .. b
    BY <1>8, OccursInWhole
  <2>2. m.from \in Int /\ m.to \in Int
    BY <1>8, OccursFacts
  <2> HIDE DEF image
  <2> QED BY <1>1, <1>2, <2>1, <2>2, CandidateIff DEF Moved
<1>10. ASSUME NEW n \in ls, n.from \in a + 1 .. b
       PROVE  \E m \in ps : n = image(m)
  <2>1. PICK m : m = Mention(n.alias, n.from - a)
    OBVIOUS
  <2>2. Occurs(part, m) /\ Moved(n, m, a)
    BY <1>8, <1>10, <2>1, OccursInPart
  <2>3. n = Mention(n.alias, n.from)
    BY <1>8 DEF Occurs
  <2>4. n.alias = m.alias /\ n.from = a + m.from
    BY <2>2 DEF Moved
  <2>5. m \in ps
    BY <1>1, <1>2, <2>2, CandidateIff
  <2> QED BY <2>3, <2>4, <2>5
<1>11. \A n \in ls : n.from <= a => n.to < a
  BY <1>8, OccursInPart
<1>12. \A n \in ls : n.from \in Nat /\ n.to \in Nat
  BY <1>8, OccursFacts
<1>13. (\E m \in v : i <= m.to) <=> \E n \in s : a + i <= n.to
  <2>1. ASSUME NEW m \in v, i <= m.to PROVE \E n \in s : a + i <= n.to
    <3>1. image(m) \in s /\ image(m).to = a + m.to /\ m.to \in Int
      BY <1>6, <1>7, <1>9
    <3> HIDE DEF image
    <3> QED BY <1>3, <2>1, <3>1
  <2>2. ASSUME NEW n \in s, a + i <= n.to PROVE \E m \in v : i <= m.to
    <3>1. n \in ls /\ n.from <= a + i - 1
      <4>1. a + i - 1 \in 0 .. Len(line)
        BY <1>3, PartLengths
      <4> QED BY <1>1, <1>7, <4>1, PartLengths, SpansFacts
    <3>2. n.from \in a + 1 .. b
      <4>1. n.from \in Nat /\ n.to \in Nat /\ (n.from <= a => n.to < a)
        BY <1>11, <1>12, <3>1
      <4>2. a \in Nat /\ b \in Nat /\ i \in 1 .. b - a
        BY PartLengths
      <4> QED BY ONLY <2>2, <3>1, <4>1, <4>2
    <3>3. PICK m \in ps : n = image(m)
      BY <1>10, <3>1, <3>2
    <3>4. m \in v /\ n.to = a + m.to /\ m.to \in Int
      BY <1>6, <1>9, <3>3
    <3> QED BY <1>3, <2>2, <3>4
  <2> QED BY <2>1, <2>2
<1>14. ASSUME NEW m \in ps PROVE m \in w <=> image(m) \in t
  <2>1. CASE \E x \in v : i <= x.to
    <3>1. w = v /\ t = s
      BY <1>4, <1>5, <1>13, <2>1 DEF AddAt
    <3> QED BY <1>6, <3>1
  <2>2. CASE ~(\E x \in v : i <= x.to)
    <3>1. w = v \cup Longest({c \in ps : c.from = i})
      BY <1>4, <2>2 DEF AddAt
    <3>2. t = s \cup Longest({c \in ls : c.from = a + i})
      BY <1>5, <1>13, <2>2 DEF AddAt
    <3>3. m \in Longest({c \in ps : c.from = i}) <=>
            m.from = i /\ \A c \in ps : c.from = i => m.to >= c.to
      BY DEF Longest
    <3>4. image(m) \in Longest({c \in ls : c.from = a + i}) <=>
            image(m).from = a + i /\ \A c \in ls : c.from = a + i => image(m).to >= c.to
      <4>1. image(m) \in ls
        BY <1>9
      <4> HIDE DEF image
      <4> QED BY <4>1 DEF Longest
    <3>5. m.from = i <=> image(m).from = a + i
      <4>1. image(m).from = a + m.from /\ m.from \in Int
        BY <1>9
      <4> HIDE DEF image
      <4> QED BY <1>3, <4>1
    <3>6. (\A c \in ps : c.from = i => m.to >= c.to) <=>
            \A c \in ls : c.from = a + i => image(m).to >= c.to
      <4>1. ASSUME \A c \in ps : c.from = i => m.to >= c.to, NEW c \in ls, c.from = a + i
            PROVE  image(m).to >= c.to
        <5>1. c.from \in a + 1 .. b
          BY <1>3, <4>1, PartLengths
        <5>2. PICK x \in ps : c = image(x)
          BY <1>10, <5>1
        <5>3. /\ c.from = a + x.from /\ c.to = a + x.to /\ x.from \in Int /\ x.to \in Int
              /\ image(m).to = a + m.to /\ m.to \in Int
          BY <1>9, <5>2
        <5> HIDE DEF image
        <5>4. x.from = i
          BY <1>3, <4>1, <5>3
        <5> QED BY <1>3, <4>1, <5>3, <5>4
      <4>2. ASSUME \A c \in ls : c.from = a + i => image(m).to >= c.to, NEW c \in ps, c.from = i
            PROVE  m.to >= c.to
        <5>1. /\ image(c) \in ls /\ image(c).from = a + c.from /\ image(c).to = a + c.to
              /\ image(m).to = a + m.to /\ m.to \in Int /\ c.to \in Int
          BY <1>9
        <5> HIDE DEF image
        <5>2. image(m).to >= image(c).to
          BY <4>2, <5>1
        <5> QED BY <1>3, <5>1, <5>2
      <4> QED BY <4>1, <4>2
    <3> HIDE DEF image
    <3> QED BY <1>6, <3>1, <3>2, <3>3, <3>4, <3>5, <3>6
  <2> QED BY <2>1, <2>2
<1> QED BY <1>1, <1>14 DEF Agree

(* The whole finds in the part what the part finds by itself.              *)
LEMMA SpansOfPart ==
  ASSUME NEW line, NEW a, NEW b, NEW part, Part(line, a, b, part)
  PROVE  /\ \A m \in Spans(part) : /\ Occurs(part, m)
                                    /\ Mention(m.alias, a + m.from) \in Spans(line)
         /\ \A n \in Spans(line) :
              n.from \in a + 1 .. b => Mention(n.alias, n.from - a) \in Spans(part)
<1> DEFINE T == {i \in 0 .. b - a : Agree(line, part, a, i)}
<1>0. /\ line \in Seq(DOMAIN Width) /\ part \in Seq(DOMAIN Width)
      /\ a \in Nat /\ b \in a .. Len(line) /\ b - a \in Nat /\ Len(part) = b - a
      /\ Len(line) \in Nat /\ Len(part) \in Nat
  BY PartLengths DEF Part
<1>1. 0 \in T
  <2>1. ASSUME NEW m \in Candidates(part)
        PROVE  m \notin SpansUpTo(part)[0] /\ Mention(m.alias, a + m.from) \notin SpansUpTo(line)[a + 0]
    <3>1. SpansUpTo(part)[0] = {}
      BY <1>0, SpansSteps
    <3>2. \A n \in SpansUpTo(line)[a] : n.from <= a
      BY <1>0, SpansFacts
    <3>3. Occurs(part, m)
      BY <1>0, CandidateIff
    <3>4. Mention(m.alias, a + m.from).from \in a + 1 .. b
      BY <3>3, OccursInWhole
    <3> QED BY <1>0, <3>1, <3>2, <3>4
  <2> QED BY <1>0, <2>1 DEF Agree
<1>2. ASSUME NEW i \in 1 .. b - a, i - 1 \in T PROVE i \in T
  BY <1>2, AgreeStep
<1>3. b - a \in T
  <2>1. PICK k : k = b - a
    OBVIOUS
  <2>2. k \in Nat /\ \A i \in 1 .. k : i - 1 \in T => i \in T
    BY <1>0, <1>2, <2>1
  <2> HIDE DEF T
  <2>3. 0 .. k \subseteq T
    BY ONLY <1>1, <2>2, UpTo
  <2> QED BY <2>1, <2>2, <2>3
<1>4. \A m \in Candidates(part) :
        m \in Spans(part) <=> Mention(m.alias, a + m.from) \in SpansUpTo(line)[b]
  <2>1. a + (b - a) = b
    BY <1>0
  <2> QED BY <1>0, <1>3, <2>1 DEF Agree, Spans
<1>5. Spans(part) \subseteq Candidates(part) /\ Spans(line) \subseteq Candidates(line)
  <2>1. Len(part) \in 0 .. Len(part) /\ Len(line) \in 0 .. Len(line)
    BY <1>0
  <2> QED BY <1>0, <2>1, SpansFacts DEF Spans
<1>6. ASSUME NEW m \in Spans(part)
      PROVE  Occurs(part, m) /\ Mention(m.alias, a + m.from) \in Spans(line)
  <2>1. m \in Candidates(part)
    BY <1>5
  <2>2. Mention(m.alias, a + m.from) \in SpansUpTo(line)[b]
    BY <1>4, <2>1
  <2>3. Mention(m.alias, a + m.from) \in Spans(line)
    BY <1>0, <2>2, SpansSettled
  <2> QED BY <1>0, <2>1, <2>3, CandidateIff
<1>7. ASSUME NEW n \in Spans(line), n.from \in a + 1 .. b
      PROVE  Mention(n.alias, n.from - a) \in Spans(part)
  <2>1. n \in Candidates(line)
    BY <1>5
  <2>2. Occurs(line, n)
    BY <1>0, <2>1, CandidateIff
  <2>3. PICK m : m = Mention(n.alias, n.from - a)
    OBVIOUS
  <2>4. Occurs(part, m) /\ Moved(n, m, a)
    BY <1>7, <2>2, <2>3, OccursInPart
  <2>5. n = Mention(m.alias, a + m.from)
    BY <2>2, <2>4 DEF Occurs, Moved
  <2>6. n \in SpansUpTo(line)[b]
    BY <1>0, <1>7, SpansSettled
  <2>7. m \in Candidates(part)
    BY <1>0, <2>4, CandidateIff
  <2> QED BY <1>4, <2>3, <2>5, <2>6, <2>7
<1> QED BY <1>6, <1>7

(* The sentence of a mention in the part is its sentence in the whole.     *)
LEMMA SentenceMoved ==
  ASSUME NEW line, NEW a, NEW b, NEW part, Part(line, a, b, part),
         NEW m, Located(m, Len(part)), NEW n, Moved(n, m, a)
  PROVE  /\ Located(n, Len(line))
         /\ IsSentence(part, m, SentenceBounds(part, m).left, SentenceBounds(part, m).right)
         /\ SentenceBounds(line, n).left = a + SentenceBounds(part, m).left
         /\ SentenceBounds(line, n).right = a + SentenceBounds(part, m).right
<1>0. /\ a \in Nat /\ b \in a .. Len(line) /\ b - a \in Nat /\ Len(part) = b - a
      /\ Len(line) \in Nat /\ Len(part) \in Nat
      /\ \A k \in 1 .. b - a : a + k \in 1 .. Len(line) /\ line[a + k] = part[k]
  BY PartLengths
<1>1. m.from \in 1 .. b - a /\ m.to \in m.from .. b - a
  BY <1>0 DEF Located
<1>2. n.from = a + m.from /\ n.to = a + m.to
  BY DEF Moved
<1>3. n.from \in 1 .. Len(line) /\ n.to \in n.from .. Len(line)
  BY <1>0, <1>1, <1>2
<1>4. Located(n, Len(line))
  BY <1>3 DEF Located
<1>5. PICK l, r : l = SentenceBounds(part, m).left /\ r = SentenceBounds(part, m).right
  OBVIOUS
<1>6. IsSentence(part, m, l, r)
  BY <1>0, <1>5, SentenceFacts
<1>7. /\ l \in 1 .. m.from /\ r \in m.to .. b - a
      /\ \A j \in 1 .. b - a : (l <= j /\ j < m.from) \/ (m.to < j /\ j <= r) => part[j] \notin DOMAIN BreakAt
      /\ l = 1 \/ part[l - 1] \in DOMAIN BreakAt
      /\ r = b - a \/ part[r + 1] \in DOMAIN BreakAt
  BY <1>0, <1>6 DEF IsSentence
<1>8. a + l \in 1 .. n.from /\ a + r \in n.to .. Len(line)
  <2>1. /\ a \in Nat /\ b \in Nat /\ Len(line) \in Nat /\ b <= Len(line)
        /\ m.from \in Int /\ m.to \in Int /\ l \in 1 .. m.from /\ r \in m.to .. b - a
    BY ONLY <1>0, <1>1, <1>7
  <2> QED BY ONLY <1>2, <2>1
<1>9. ASSUME NEW j \in 1 .. Len(line), (a + l <= j /\ j < n.from) \/ (n.to < j /\ j <= a + r)
      PROVE  line[j] \notin DOMAIN BreakAt
  <2>1. PICK k : k = j - a
    OBVIOUS
  <2>2. k \in 1 .. b - a /\ j = a + k /\ ((l <= k /\ k < m.from) \/ (m.to < k /\ k <= r))
    <3>1. /\ a \in Nat /\ b \in Nat /\ m.from \in 1 .. b - a /\ m.to \in m.from .. b - a
          /\ l \in 1 .. m.from /\ r \in m.to .. b - a
      BY ONLY <1>0, <1>1, <1>7
    <3>2. j \in Int /\ ((a + l <= j /\ j < n.from) \/ (n.to < j /\ j <= a + r))
      BY ONLY <1>9
    <3> QED BY ONLY <1>2, <2>1, <3>1, <3>2
  <2> QED BY <1>0, <1>7, <2>2
<1>10. a + l = 1 \/ line[a + l - 1] \in DOMAIN BreakAt
  <2>1. CASE l = 1
    <3>1. a = 0 \/ line[a] = Stop
      BY DEF Part
    <3>2. a + l - 1 = a
      BY <1>0, <2>1
    <3> QED BY <1>0, <2>1, <3>1, <3>2, HomographAssumption
  <2>2. CASE l # 1
    <3>1. l - 1 \in 1 .. b - a /\ a + (l - 1) = a + l - 1
      BY <1>0, <1>1, <1>7, <2>2
    <3>2. line[a + (l - 1)] = part[l - 1]
      BY <1>0, <3>1
    <3> QED BY <1>7, <2>2, <3>1, <3>2
  <2> QED BY <2>1, <2>2
<1>11. a + r = Len(line) \/ line[a + r + 1] \in DOMAIN BreakAt
  <2>1. CASE r = b - a
    <3>1. b = Len(line) \/ line[b + 1] = Stop
      BY DEF Part
    <3>2. a + r = b
      BY <1>0, <2>1
    <3> QED BY <3>1, <3>2, HomographAssumption
  <2>2. CASE r # b - a
    <3>1. r + 1 \in 1 .. b - a /\ a + (r + 1) = a + r + 1
      BY <1>0, <1>1, <1>7, <2>2
    <3>2. line[a + (r + 1)] = part[r + 1]
      BY <1>0, <3>1
    <3> QED BY <1>7, <2>2, <3>1, <3>2
  <2> QED BY <2>1, <2>2
<1>12. IsSentence(line, n, a + l, a + r)
  <2>1. \A j \in 1 .. Len(line) :
          (a + l <= j /\ j < n.from) \/ (n.to < j /\ j <= a + r) => line[j] \notin DOMAIN BreakAt
    BY <1>9
  <2>2. PICK x, y : x = a + l /\ y = a + r
    OBVIOUS
  <2>3. x = 1 \/ line[x - 1] \in DOMAIN BreakAt
    BY <1>0, <1>7, <1>10, <2>2
  <2>4. y = Len(line) \/ line[y + 1] \in DOMAIN BreakAt
    BY <1>0, <1>7, <1>11, <2>2
  <2>5. x \in 1 .. n.from /\ y \in n.to .. Len(line)
    BY <1>8, <2>2
  <2>6. \A j \in 1 .. Len(line) :
          (x <= j /\ j < n.from) \/ (n.to < j /\ j <= y) => line[j] \notin DOMAIN BreakAt
    BY <2>1, <2>2
  <2>7. IsSentence(line, n, x, y)
    BY <2>3, <2>4, <2>5, <2>6 DEF IsSentence
  <2> QED BY <2>2, <2>7
<1>13. SentenceBounds(line, n).left = a + l /\ SentenceBounds(line, n).right = a + r
  BY <1>0, <1>4, <1>12, SentenceUnique
<1> QED BY <1>4, <1>5, <1>6, <1>13

-----------------------------------------------------------------------------
(***************************************************************************)
(* Distances in characters                                                 *)
(***************************************************************************)

WordEnd(line, i) == Width[line[i]] + IF line[i] \in {Comma, Stop} THEN 0 ELSE 1

LEMMA WordEndFacts ==
  ASSUME NEW line \in Seq(DOMAIN Width), NEW i \in 1 .. Len(line)
  PROVE  /\ WordEnd(line, i) \in Nat /\ Width[line[i]] \in Nat
         /\ WordEnd(line, i) - Width[line[i]] \in 0 .. 1
<1>1. Width[line[i]] \in Nat
  BY ElementOfSeq, HomographAssumption
<1>2. PICK w : w = Width[line[i]]
  OBVIOUS
<1>3. WordEnd(line, i) = w \/ WordEnd(line, i) = w + 1
  <2>1. w + 0 = w
    BY <1>1, <1>2
  <2> QED BY <1>2, <2>1 DEF WordEnd
<1> QED BY <1>1, <1>2, <1>3

LEMMA EndCharSteps ==
  ASSUME NEW line \in Seq(DOMAIN Width)
  PROVE  /\ EndChar(line, 0) = 0
         /\ \A i \in 0 .. Len(line) : EndChar(line, i) \in Nat
         /\ \A i \in 1 .. Len(line) : EndChar(line, i) = EndChar(line, i - 1) + WordEnd(line, i)
<1> DEFINE N == Len(line)
           step == [x \in Nat \X (1 .. N) |-> x[1] + WordEnd(line, x[2])]
           E(f) == f = [n \in 0 .. N |-> IF n = 0 THEN 0
                                         ELSE f[n - 1] + Width[line[n]]
                                                + IF line[n] \in {Comma, Stop} THEN 0 ELSE 1]
<1>0. N \in Nat
  BY LenProperties
<1>1. step \in [Nat \X (1 .. N) -> Nat]
  BY WordEndFacts
<1>2. PICK f \in [0 .. N -> Nat] : Computes(f, N, 0, step)
  <2> HIDE DEF step
  <2> QED BY <1>0, <1>1, Recursion
<1>3. ASSUME NEW i \in 1 .. N
      PROVE  /\ f[i] = f[i - 1] + WordEnd(line, i)
             /\ f[i] = f[i - 1] + Width[line[i]] + IF line[i] \in {Comma, Stop} THEN 0 ELSE 1
  <2>1. f[i - 1] \in Nat
    BY <1>0
  <2>2. step[<<f[i - 1], i>>] = f[i - 1] + WordEnd(line, i)
    BY <2>1
  <2>3. f[i] = f[i - 1] + WordEnd(line, i)
    <3> HIDE DEF step
    <3> QED BY <1>2, <2>2 DEF Computes
  <2>4. PICK x, w, e : x = f[i - 1] /\ w = Width[line[i]]
                       /\ e = IF line[i] \in {Comma, Stop} THEN 0 ELSE 1
    OBVIOUS
  <2>5. x \in Nat /\ w \in Nat /\ e \in Nat
    BY <2>1, <2>4, WordEndFacts
  <2>6. WordEnd(line, i) = w + e
    BY <2>4 DEF WordEnd
  <2>7. x + (w + e) = x + w + e
    BY <2>5
  <2> QED BY <2>3, <2>4, <2>6, <2>7
<1>4. E(f)
  <2>1. f[0] = 0
    BY <1>2 DEF Computes
  <2> HIDE DEF step
  <2> QED BY <1>0, <1>2, <1>3, <2>1
<1>5. EndChars(line) = CHOOSE g : E(g)
  BY DEF EndChars
<1> HIDE DEF E
<1>6. E(EndChars(line))
  BY <1>4, <1>5
<1>7. PICK g : g = EndChars(line)
  OBVIOUS
<1>8. \A n \in 0 .. N : g[n] = IF n = 0 THEN 0
                               ELSE g[n - 1] + Width[line[n]]
                                      + IF line[n] \in {Comma, Stop} THEN 0 ELSE 1
  BY <1>6, <1>7 DEF E
<1>9. \A n \in 0 .. N : f[n] = IF n = 0 THEN 0
                               ELSE f[n - 1] + Width[line[n]]
                                      + IF line[n] \in {Comma, Stop} THEN 0 ELSE 1
  BY <1>4 DEF E
<1> DEFINE T == {i \in 0 .. N : g[i] = f[i]}
<1>10. 0 \in T
  BY <1>0, <1>8, <1>9
<1>11. ASSUME NEW i \in 1 .. N, i - 1 \in T PROVE i \in T
  <2>1. i \in 0 .. N /\ i # 0 /\ g[i - 1] = f[i - 1]
    BY <1>0, <1>11
  <2> QED BY <1>8, <1>9, <2>1
<1>12. 0 .. N \subseteq T
  <2> HIDE DEF T, N
  <2> QED BY ONLY <1>0, <1>10, <1>11, UpTo
<1>13. \A i \in 0 .. N : EndChar(line, i) = f[i]
  BY <1>7, <1>12 DEF EndChar
<1>14. ASSUME NEW i \in 1 .. N PROVE EndChar(line, i) = EndChar(line, i - 1) + WordEnd(line, i)
  <2>1. i \in 0 .. N /\ i - 1 \in 0 .. N
    BY <1>0
  <2> QED BY <1>3, <1>13, <2>1
<1>15. EndChar(line, 0) = 0
  BY <1>0, <1>9, <1>13
<1> QED BY <1>2, <1>13, <1>14, <1>15

(* A word begins where the word before it ends or later, and ends after    *)
(* it begins.                                                              *)
LEMMA CharFacts ==
  ASSUME NEW line \in Seq(DOMAIN Width), NEW i \in 1 .. Len(line)
  PROVE  /\ FirstChar(line, i) \in Nat /\ EndChar(line, i) \in Nat
         /\ EndChar(line, i - 1) \in Nat /\ Width[line[i]] \in Nat
         /\ EndChar(line, i) = FirstChar(line, i) + Width[line[i]]
         /\ EndChar(line, i - 1) <= FirstChar(line, i)
<1>1. PICK x, y, w, e : /\ x = EndChar(line, i - 1) /\ y = EndChar(line, i)
                        /\ w = Width[line[i]] /\ e = WordEnd(line, i)
  OBVIOUS
<1>2. Len(line) \in Nat /\ i - 1 \in 0 .. Len(line)
  BY LenProperties
<1>3. x \in Nat /\ y = x + e
  BY <1>1, <1>2, EndCharSteps
<1>4. w \in Nat /\ e \in Nat /\ e - w \in 0 .. 1
  BY <1>1, WordEndFacts
<1>5. FirstChar(line, i) = y - w
  BY <1>1 DEF FirstChar
<1>6. y \in Nat /\ y - w \in Nat /\ x <= y - w /\ y = (y - w) + w
  <2>1. e >= w
    BY <1>4
  <2> QED BY <1>3, <1>4, <2>1
<1> QED BY <1>1, <1>3, <1>4, <1>5, <1>6

LEMMA EndCharGrows ==
  ASSUME NEW line \in Seq(DOMAIN Width), NEW i \in 0 .. Len(line), NEW j \in i .. Len(line)
  PROVE  EndChar(line, i) <= EndChar(line, j)
<1> DEFINE N == Len(line)
           T == {k \in 0 .. N : i <= k => EndChar(line, i) <= EndChar(line, k)}
<1>0. N \in Nat /\ EndChar(line, i) \in Nat
  BY LenProperties, EndCharSteps
<1>1. 0 \in T
  BY <1>0
<1>2. ASSUME NEW k \in 1 .. N, k - 1 \in T PROVE k \in T
  <2>1. PICK x, y, z : x = EndChar(line, i) /\ y = EndChar(line, k - 1) /\ z = EndChar(line, k)
    OBVIOUS
  <2>2. x \in Nat /\ y \in Nat /\ z \in Nat /\ y <= z
    <3>1. PICK f, w : f = FirstChar(line, k) /\ w = Width[line[k]]
      OBVIOUS
    <3>2. f \in Nat /\ w \in Nat /\ y \in Nat /\ z = f + w /\ y <= f
      BY <2>1, <3>1, CharFacts
    <3> QED BY <1>0, <2>1, <3>2
  <2>3. i <= k - 1 => x <= y
    BY <1>2, <2>1
  <2>4. i <= k => x <= z
    <3>1. i = k \/ i > k \/ i <= k - 1
      BY <1>0
    <3>2. i = k => x = z
      BY <2>1
    <3> QED BY <1>0, <2>2, <2>3, <3>1, <3>2
  <2> QED BY <1>0, <2>1, <2>4
<1>3. 0 .. N \subseteq T
  <2> HIDE DEF T, N
  <2> QED BY ONLY <1>0, <1>1, <1>2, UpTo
<1> QED BY <1>0, <1>3

(* Offsets in characters: those of the part, moved by what precedes it.    *)
LEMMA CharsMoved ==
  ASSUME NEW line, NEW a, NEW b, NEW part, Part(line, a, b, part)
  PROVE  /\ EndChar(line, a) \in Nat
         /\ \A k \in 0 .. b - a : /\ EndChar(part, k) \in Nat
                                  /\ EndChar(line, a + k) = EndChar(line, a) + EndChar(part, k)
         /\ \A k \in 1 .. b - a : /\ FirstChar(part, k) \in Nat
                                  /\ FirstChar(line, a + k) = EndChar(line, a) + FirstChar(part, k)
<1>0. /\ a \in Nat /\ b \in a .. Len(line) /\ b - a \in Nat /\ Len(part) = b - a
      /\ Len(line) \in Nat /\ Len(part) \in Nat
      /\ \A k \in 1 .. b - a : a + k \in 1 .. Len(line) /\ line[a + k] = part[k]
      /\ line \in Seq(DOMAIN Width) /\ part \in Seq(DOMAIN Width)
  BY PartLengths DEF Part
<1>1. EndChar(line, a) \in Nat
  <2>1. a \in 0 .. Len(line)
    BY <1>0
  <2> QED BY <1>0, <2>1, EndCharSteps
<1>2. PICK c, L : c = EndChar(line, a) /\ L = b - a
  OBVIOUS
<1> DEFINE T == {k \in 0 .. L : EndChar(line, a + k) = c + EndChar(part, k)}
<1>3. 0 \in T
  <2>1. EndChar(part, 0) = 0 /\ a + 0 = a
    BY <1>0, EndCharSteps
  <2> QED BY <1>0, <1>1, <1>2, <2>1
<1>4. ASSUME NEW k \in 1 .. L, k - 1 \in T PROVE k \in T
  <2>1. k \in 1 .. Len(part) /\ a + k \in 1 .. Len(line) /\ line[a + k] = part[k]
        /\ a + k - 1 = a + (k - 1) /\ k - 1 \in 0 .. Len(part)
    BY <1>0, <1>2
  <2>2. PICK x, y, w : x = EndChar(line, a + (k - 1)) /\ y = EndChar(part, k - 1) /\ w = WordEnd(part, k)
    OBVIOUS
  <2>3. WordEnd(line, a + k) = w
    BY <2>1, <2>2 DEF WordEnd
  <2>4. EndChar(line, a + k) = EndChar(line, a + k - 1) + WordEnd(line, a + k)
    BY <1>0, <2>1, EndCharSteps
  <2>5. EndChar(part, k) = y + w /\ y \in Nat
    BY <1>0, <2>1, <2>2, EndCharSteps
  <2>6. w \in Nat
    BY <1>0, <2>1, <2>2, WordEndFacts
  <2>7. x = c + y
    BY <1>4, <2>2
  <2>8. EndChar(line, a + k) = c + EndChar(part, k)
    BY <1>1, <1>2, <2>1, <2>2, <2>3, <2>4, <2>5, <2>6, <2>7
  <2> QED BY <1>0, <1>2, <2>8
<1>5. 0 .. L \subseteq T
  <2>1. L \in Nat
    BY <1>0, <1>2
  <2> HIDE DEF T
  <2> QED BY ONLY <1>3, <1>4, <2>1, UpTo
<1>6. ASSUME NEW k \in 0 .. b - a
      PROVE  EndChar(part, k) \in Nat /\ EndChar(line, a + k) = EndChar(line, a) + EndChar(part, k)
  BY <1>0, <1>2, <1>5, EndCharSteps
<1>7. ASSUME NEW k \in 1 .. b - a
      PROVE  /\ FirstChar(part, k) \in Nat
             /\ FirstChar(line, a + k) = EndChar(line, a) + FirstChar(part, k)
  <2>1. k \in 0 .. b - a /\ k \in 1 .. Len(part) /\ line[a + k] = part[k]
    BY <1>0
  <2>2. PICK e, w, f : e = EndChar(part, k) /\ w = Width[part[k]] /\ f = FirstChar(part, k)
    OBVIOUS
  <2>3. e \in Nat /\ w \in Nat /\ f \in Nat /\ f = e - w
    BY <1>0, <2>1, <2>2, CharFacts DEF FirstChar
  <2>4. EndChar(line, a + k) = c + e
    BY <1>2, <1>6, <2>1, <2>2
  <2>5. FirstChar(line, a + k) = c + e - w
    <3>1. PICK i, x : i = a + k /\ x = EndChar(line, i)
      OBVIOUS
    <3>2. Width[line[i]] = w /\ x = c + e
      BY <2>1, <2>2, <2>4, <3>1
    <3>3. FirstChar(line, i) = x - w
      BY <3>1, <3>2 DEF FirstChar
    <3> QED BY <1>1, <1>2, <2>3, <3>1, <3>2, <3>3
  <2> QED BY <1>1, <1>2, <2>2, <2>3, <2>5
<1> QED BY <1>1, <1>6, <1>7

(* A word at i whose beginning, up to e, the reading P finds.              *)
Finds(line, P, left, right, e, i) ==
  /\ line[i] \in DOMAIN P /\ FirstChar(line, i) >= left
  /\ \E n \in P[line[i]] : e = FirstChar(line, i) + n
  /\ e <= right /\ (e = EndChar(line, i) \/ e = right)

LEMMA EndsIff ==
  ASSUME NEW line, NEW P, NEW left, NEW right, NEW e
  PROVE  e \in EndsOf(line, P, left, right) <=>
           \E i \in 1 .. Len(line) : Finds(line, P, left, right, e, i)
<1> DEFINE F(i) == {x \in {FirstChar(line, i) + n : n \in P[line[i]]} :
                      x <= right /\ (x = EndChar(line, i) \/ x = right)}
           I == {j \in 1 .. Len(line) : line[j] \in DOMAIN P /\ FirstChar(line, j) >= left}
<1>1. EndsOf(line, P, left, right) = UNION {F(i) : i \in I}
  BY DEF EndsOf
<1>2. \A i \in I : e \in F(i) <=> /\ \E n \in P[line[i]] : e = FirstChar(line, i) + n
                                  /\ e <= right /\ (e = EndChar(line, i) \/ e = right)
  OBVIOUS
<1>3. e \in UNION {F(i) : i \in I} <=> \E i \in I : e \in F(i)
  <2> HIDE DEF F, I
  <2> QED OBVIOUS
<1>4. \A i : i \in I <=> i \in 1 .. Len(line) /\ line[i] \in DOMAIN P /\ FirstChar(line, i) >= left
  OBVIOUS
<1> HIDE DEF F, I
<1> QED BY <1>1, <1>2, <1>3, <1>4 DEF Finds

LEMMA FindsWhere ==
  ASSUME NEW line \in Seq(DOMAIN Width), NEW P, IsReading(P), NEW left, NEW right, NEW e,
         NEW i \in 1 .. Len(line), Finds(line, P, left, right, e, i)
  PROVE  e \in Nat /\ FirstChar(line, i) < e /\ e <= EndChar(line, i)
<1>1. PICK f, y, w : f = FirstChar(line, i) /\ y = EndChar(line, i) /\ w = Width[line[i]]
  OBVIOUS
<1>2. f \in Nat /\ w \in Nat /\ y = f + w
  BY <1>1, CharFacts
<1>3. PICK n \in P[line[i]] : e = f + n
  BY <1>1 DEF Finds
<1>4. n \in 1 .. w
  BY <1>1, <1>3 DEF IsReading, Finds
<1> QED BY ONLY <1>1, <1>2, <1>3, <1>4

(* A pattern finds in the part what it finds there in the whole.           *)
LEMMA EndsMoved ==
  ASSUME NEW line, NEW a, NEW b, NEW part, Part(line, a, b, part),
         NEW P, IsReading(P), NEW left \in Nat, NEW right \in Int
  PROVE  LET c == EndChar(line, a)
         IN  /\ \A e \in EndsOf(part, P, left, right) :
                  e \in Nat /\ c + e \in EndsOf(line, P, c + left, c + right)
             /\ right <= EndChar(part, b - a) \/ b = Len(line) =>
                  \A e \in EndsOf(line, P, c + left, c + right) :
                    e \in Nat /\ e - c \in EndsOf(part, P, left, right)
<1>0. /\ a \in Nat /\ b \in a .. Len(line) /\ b - a \in Nat /\ Len(part) = b - a
      /\ Len(line) \in Nat /\ Len(part) \in Nat
      /\ \A k \in 1 .. b - a : a + k \in 1 .. Len(line) /\ line[a + k] = part[k]
      /\ line \in Seq(DOMAIN Width) /\ part \in Seq(DOMAIN Width)
  BY PartLengths DEF Part
<1>1. PICK c : c = EndChar(line, a)
  OBVIOUS
<1>2. /\ c \in Nat
      /\ \A k \in 1 .. b - a : /\ FirstChar(part, k) \in Nat
                               /\ FirstChar(line, a + k) = c + FirstChar(part, k)
      /\ \A k \in 0 .. b - a : /\ EndChar(part, k) \in Nat
                               /\ EndChar(line, a + k) = c + EndChar(part, k)
  BY <1>1, CharsMoved
<1>3. ASSUME NEW k \in 1 .. b - a, NEW e \in Int
      PROVE  Finds(part, P, left, right, e, k) <=> Finds(line, P, c + left, c + right, c + e, a + k)
  <2>1. PICK f, y, i, w : f = FirstChar(part, k) /\ y = EndChar(part, k) /\ i = a + k /\ w = part[k]
    OBVIOUS
  <2>2. f \in Nat /\ y \in Nat /\ FirstChar(line, i) = c + f /\ EndChar(line, i) = c + y /\ line[i] = w
    BY <1>0, <1>2, <2>1
  <2>3. Finds(part, P, left, right, e, k) <=>
          /\ w \in DOMAIN P /\ f >= left /\ \E n \in P[w] : e = f + n
          /\ e <= right /\ (e = y \/ e = right)
    BY <2>1 DEF Finds
  <2>4. Finds(line, P, c + left, c + right, c + e, i) <=>
          /\ w \in DOMAIN P /\ c + f >= c + left /\ \E n \in P[w] : c + e = c + f + n
          /\ c + e <= c + right /\ (c + e = c + y \/ c + e = c + right)
    BY <2>2 DEF Finds
  <2>5. w \in DOMAIN P => \A n \in P[w] : n \in Nat
    <3>1. w \in DOMAIN P => P[w] \subseteq 1 .. Width[w]
      BY DEF IsReading
    <3> QED BY <3>1
  <2>6. w \in DOMAIN P => \A n \in P[w] : e = f + n <=> c + e = c + f + n
    BY <1>2, <2>2, <2>5
  <2>7. /\ f >= left <=> c + f >= c + left
        /\ e <= right <=> c + e <= c + right
        /\ e = y <=> c + e = c + y
        /\ e = right <=> c + e = c + right
    BY <1>2, <2>2
  <2> QED BY <2>1, <2>3, <2>4, <2>6, <2>7
<1>4. ASSUME NEW e \in EndsOf(part, P, left, right)
      PROVE  e \in Nat /\ c + e \in EndsOf(line, P, c + left, c + right)
  <2>1. PICK k \in 1 .. Len(part) : Finds(part, P, left, right, e, k)
    BY EndsIff
  <2>2. e \in Nat
    BY <1>0, <2>1, FindsWhere
  <2>3. Finds(line, P, c + left, c + right, c + e, a + k) /\ a + k \in 1 .. Len(line)
    BY <1>0, <1>3, <2>1, <2>2
  <2> QED BY <2>2, <2>3, EndsIff
<1>5. ASSUME right <= EndChar(part, b - a) \/ b = Len(line),
             NEW e \in EndsOf(line, P, c + left, c + right)
      PROVE  e \in Nat /\ e - c \in EndsOf(part, P, left, right)
  <2>1. PICK i \in 1 .. Len(line) : Finds(line, P, c + left, c + right, e, i)
    BY EndsIff
  <2>2. PICK f, y : f = FirstChar(line, i) /\ y = EndChar(line, i)
    OBVIOUS
  <2>3. e \in Nat /\ f < e /\ e <= y /\ f \in Nat /\ y \in Nat
    BY <1>0, <2>1, <2>2, FindsWhere, CharFacts
  <2>4. f >= c + left /\ e <= c + right
    BY <2>1, <2>2 DEF Finds
  <2>5. a < i
    <3>1. SUFFICES ASSUME i <= a PROVE FALSE
      BY <1>0
    <3>2. i \in 0 .. Len(line) /\ a \in i .. Len(line)
      BY <1>0, <3>1
    <3>3. y <= c
      BY <1>0, <1>1, <2>2, <3>2, EndCharGrows
    <3> QED BY <1>2, <2>3, <2>4, <3>3
  <2>6. i <= b
    <3>1. SUFFICES ASSUME b < i PROVE FALSE
      BY <1>0
    <3>2. PICK x, z : x = EndChar(line, i - 1) /\ z = EndChar(part, b - a)
      OBVIOUS
    <3>3. b \in 0 .. Len(line) /\ i - 1 \in b .. Len(line)
      BY <1>0, <3>1
    <3>4. EndChar(line, b) <= x
      BY <1>0, <3>2, <3>3, EndCharGrows
    <3>5. x <= f /\ x \in Nat
      BY <1>0, <2>2, <3>2, CharFacts
    <3>6. EndChar(line, b) = c + z /\ z \in Nat
      <4>1. b - a \in 0 .. b - a /\ a + (b - a) = b
        BY <1>0
      <4> QED BY <1>2, <3>2, <4>1
    <3>7. right <= z
      BY <1>0, <1>5, <3>1, <3>2
    <3> QED BY <1>2, <2>3, <2>4, <3>4, <3>5, <3>6, <3>7
  <2>7. PICK k, x : k = i - a /\ x = e - c
    OBVIOUS
  <2>8. k \in 1 .. b - a /\ x \in Int /\ a + k = i /\ c + x = e
    BY <1>0, <1>2, <2>3, <2>5, <2>6, <2>7
  <2>9. Finds(part, P, left, right, x, k)
    BY <1>3, <2>1, <2>8
  <2> QED BY <1>0, <2>3, <2>7, <2>8, <2>9, EndsIff
<1> QED BY <1>1, <1>4, <1>5

LEMMA MaxOfTwo ==
  ASSUME NEW a \in Int, NEW b \in Int
  PROVE  /\ Max({a, b}) \in {a, b} /\ a <= Max({a, b}) /\ b <= Max({a, b})
<1>1. \E x \in {a, b} : \A y \in {a, b} : x >= y
  <2>1. a <= b \/ b <= a
    OBVIOUS
  <2> QED BY <2>1
<1>2. Max({a, b}) \in {a, b} /\ \A y \in {a, b} : Max({a, b}) >= y
  BY <1>1 DEF Max
<1> QED BY <1>2

LEMMA LimitsMoved ==
  ASSUME NEW a \in Int, NEW b \in Int, NEW c \in Int
  PROVE  /\ Max({c + a, c + b}) = c + Max({a, b})
         /\ Min({c + a, c + b}) = c + Min({a, b})
<1>1. PICK x, y : x = c + a /\ y = c + b
  OBVIOUS
<1>2. x \in Int /\ y \in Int
  BY <1>1
<1>3. PICK u, v, r, s : u = Max({a, b}) /\ v = Max({x, y}) /\ r = Min({a, b}) /\ s = Min({x, y})
  OBVIOUS
<1>4. u \in {a, b} /\ a <= u /\ b <= u /\ v \in {x, y} /\ x <= v /\ y <= v
  <2>1. u \in {a, b} /\ a <= u /\ b <= u
    BY ONLY a \in Int, b \in Int, <1>3, MaxOfTwo
  <2>2. v \in {x, y} /\ x <= v /\ y <= v
    BY ONLY <1>2, <1>3, MaxOfTwo
  <2> QED BY <2>1, <2>2
<1>5. r \in {a, b} /\ r <= a /\ r <= b /\ s \in {x, y} /\ s <= x /\ s <= y
  <2>1. r \in {a, b} /\ r <= a /\ r <= b
    BY ONLY a \in Int, b \in Int, <1>3, MinOfTwo
  <2>2. s \in {x, y} /\ s <= x /\ s <= y
    BY ONLY <1>2, <1>3, MinOfTwo
  <2> QED BY <2>1, <2>2
<1>6. v = c + u /\ s = c + r
  BY <1>1, <1>2, <1>4, <1>5
<1> QED BY <1>1, <1>3, <1>6

-----------------------------------------------------------------------------
(***************************************************************************)
(* What counts in the part counts in the whole                             *)
(***************************************************************************)

(* The spans U of the whole and V of the part are the same in the part.    *)
Same(U, V, a, b, n) ==
  /\ \A u \in U : /\ u = Mention(u.alias, u.from) /\ Located(u, n)
                  /\ u.from <= a => u.to < a
                  /\ u.from \in a + 1 .. b => u.to <= b /\ \E v \in V : Moved(u, v, a)
  /\ \A v \in V : /\ v = Mention(v.alias, v.from) /\ Located(v, b - a)
                  /\ \E u \in U : Moved(u, v, a)

LEMMA SpansOccur ==
  ASSUME NEW line \in Seq(DOMAIN Width), NEW m \in Spans(line)
  PROVE  Occurs(line, m)
<1>1. Len(line) \in Nat /\ Len(line) \in 0 .. Len(line)
  BY LenProperties
<1>2. m \in Candidates(line)
  BY <1>1, SpansFacts DEF Spans
<1> QED BY <1>2, CandidateIff

LEMMA SpansSame ==
  ASSUME NEW line, NEW a, NEW b, NEW part, Part(line, a, b, part)
  PROVE  Same(Spans(line), Spans(part), a, b, Len(line))
<1>0. line \in Seq(DOMAIN Width) /\ part \in Seq(DOMAIN Width) /\ Len(part) = b - a
  BY DEF Part
<1>1. ASSUME NEW u \in Spans(line)
      PROVE  /\ u = Mention(u.alias, u.from) /\ Located(u, Len(line))
             /\ u.from <= a => u.to < a
             /\ u.from \in a + 1 .. b => u.to <= b /\ \E v \in Spans(part) : Moved(u, v, a)
  <2>1. Occurs(line, u)
    BY <1>0, SpansOccur
  <2>2. u = Mention(u.alias, u.from) /\ Located(u, Len(line))
    BY <2>1 DEF Occurs
  <2>3. u.from <= a => u.to < a
    BY <2>1, OccursInPart
  <2>4. u.from \in a + 1 .. b => u.to <= b /\ \E v \in Spans(part) : Moved(u, v, a)
    BY <2>1, OccursInPart, SpansOfPart
  <2> QED BY <2>2, <2>3, <2>4
<1>2. ASSUME NEW v \in Spans(part)
      PROVE  /\ v = Mention(v.alias, v.from) /\ Located(v, b - a)
             /\ \E u \in Spans(line) : Moved(u, v, a)
  <2>1. Occurs(part, v) /\ Mention(v.alias, a + v.from) \in Spans(line)
    BY SpansOfPart
  <2>2. v = Mention(v.alias, v.from) /\ Located(v, b - a)
    BY <1>0, <2>1 DEF Occurs
  <2>3. Moved(Mention(v.alias, a + v.from), v, a)
    BY <2>1, OccursInWhole
  <2> QED BY <2>1, <2>2, <2>3
<1> QED BY <1>1, <1>2 DEF Same

(* The word before a mention, none when the sentence begins with it.       *)
LEMMA PrecederMoved ==
  ASSUME NEW line, NEW a, NEW b, NEW part, Part(line, a, b, part),
         NEW m, Located(m, Len(part)), NEW n, Moved(n, m, a)
  PROVE  Preceder(line, n) = Preceder(part, m)
<1>0. /\ a \in Nat /\ b \in a .. Len(line) /\ b - a \in Nat /\ Len(part) = b - a
      /\ Len(line) \in Nat /\ Len(part) \in Nat
      /\ \A k \in 1 .. b - a : a + k \in 1 .. Len(line) /\ line[a + k] = part[k]
  BY PartLengths
<1>1. PICK l : l = SentenceBounds(part, m).left
  OBVIOUS
<1>2. SentenceBounds(line, n).left = a + l /\ l \in 1 .. m.from
  BY <1>1, SentenceMoved DEF IsSentence
<1>3. n.from = a + m.from /\ m.from \in 1 .. b - a
  BY <1>0 DEF Moved, Located
<1>4. PICK i, j : i = m.from - 1 /\ j = n.from - 1
  OBVIOUS
<1>5. Preceder(part, m) = {part[k] : k \in {i} \cap (l .. Len(part))}
  BY <1>1, <1>4 DEF Preceder
<1>6. Preceder(line, n) = {line[k] : k \in {j} \cap (a + l .. Len(line))}
  BY <1>2, <1>4 DEF Preceder
<1>7. CASE l <= i
  <2>1. i \in 1 .. b - a /\ j = a + i
    <3>1. PICK f : f = m.from
      OBVIOUS
    <3>2. f \in 1 .. b - a /\ i = f - 1 /\ j = a + f - 1 /\ l \in 1 .. f
      BY <1>0, <1>2, <1>3, <1>4, <3>1
    <3> QED BY <1>0, <1>7, <3>2
  <2>2. {i} \cap (l .. Len(part)) = {i} /\ {j} \cap (a + l .. Len(line)) = {j}
    BY <1>0, <1>2, <1>7, <2>1
  <2>3. line[j] = part[i]
    BY <1>0, <2>1
  <2> QED BY <1>5, <1>6, <2>2, <2>3
<1>8. CASE ~(l <= i)
  <2>1. {i} \cap (l .. Len(part)) = {} /\ {j} \cap (a + l .. Len(line)) = {}
    BY <1>0, <1>2, <1>3, <1>4, <1>8
  <2> QED BY <1>5, <1>6, <2>1
<1> QED BY <1>7, <1>8

(* A break lies in its word.                                               *)
LEMMA BreakFacts ==
  ASSUME NEW line \in Seq(DOMAIN Width), NEW i \in 1 .. Len(line), line[i] \in DOMAIN BreakAt
  PROVE  /\ BreakAt[line[i]] \in Nat \ {0}
         /\ FirstChar(line, i) + BreakAt[line[i]] - 1 <= EndChar(line, i)
         /\ line[i] = Stop => FirstChar(line, i) + BreakAt[line[i]] = EndChar(line, i)
<1>1. PICK f, w, k : f = FirstChar(line, i) /\ w = Width[line[i]] /\ k = BreakAt[line[i]]
  OBVIOUS
<1>2. f \in Nat /\ w \in Nat /\ EndChar(line, i) = f + w
  BY <1>1, CharFacts
<1>3. k \in 1 .. w /\ (line[i] = Stop => w = 1)
  BY <1>1, HomographAssumption
<1> QED BY ONLY <1>1, <1>2, <1>3

(* The sentence and the mention, in characters.                            *)
LEMMA SentenceChars ==
  ASSUME NEW line, NEW a, NEW b, NEW part, Part(line, a, b, part),
         NEW m, Located(m, Len(part)), NEW n, Moved(n, m, a)
  PROVE  LET s == Sentence(part, m)
             t == Sentence(line, n)
             c == EndChar(line, a)
         IN  /\ s.left \in Nat /\ s.right \in Nat
             /\ EndChar(part, m.to) \in Nat /\ FirstChar(part, m.from) \in Nat
             /\ EndChar(part, b - a) \in Nat /\ s.right <= EndChar(part, b - a)
             /\ t.left = c + s.left /\ t.right = c + s.right
             /\ EndChar(line, n.to) = c + EndChar(part, m.to)
             /\ FirstChar(line, n.from) = c + FirstChar(part, m.from)
<1>0. /\ a \in Nat /\ b \in a .. Len(line) /\ b - a \in Nat /\ Len(part) = b - a
      /\ Len(line) \in Nat /\ line \in Seq(DOMAIN Width) /\ part \in Seq(DOMAIN Width)
      /\ \A k \in 1 .. b - a : a + k \in 1 .. Len(line) /\ line[a + k] = part[k]
  BY PartLengths DEF Part
<1>1. PICK l, r, c, z : /\ l = SentenceBounds(part, m).left /\ r = SentenceBounds(part, m).right
                        /\ c = EndChar(line, a) /\ z = EndChar(part, b - a)
  OBVIOUS
<1>2. /\ l \in 1 .. m.from /\ r \in m.to .. b - a
      /\ l = 1 \/ part[l - 1] \in DOMAIN BreakAt
      /\ r = b - a \/ part[r + 1] \in DOMAIN BreakAt
  BY <1>0, <1>1, SentenceMoved DEF IsSentence
<1>3. SentenceBounds(line, n).left = a + l /\ SentenceBounds(line, n).right = a + r
  BY <1>1, SentenceMoved
<1>4. n.from = a + m.from /\ n.to = a + m.to /\ m.from \in 1 .. b - a /\ m.to \in m.from .. b - a
  BY <1>0 DEF Moved, Located
<1>5. /\ \A k \in 0 .. b - a : /\ EndChar(part, k) \in Nat
                               /\ EndChar(line, a + k) = c + EndChar(part, k)
      /\ \A k \in 1 .. b - a : /\ FirstChar(part, k) \in Nat
                               /\ FirstChar(line, a + k) = c + FirstChar(part, k)
      /\ c \in Nat /\ z \in Nat
  <2>1. b - a \in 0 .. b - a
    BY <1>0
  <2> QED BY <1>1, <2>1, CharsMoved
<1>6. /\ EndChar(part, m.to) \in Nat /\ FirstChar(part, m.from) \in Nat
      /\ EndChar(line, n.to) = c + EndChar(part, m.to)
      /\ FirstChar(line, n.from) = c + FirstChar(part, m.from)
  <2>1. m.to \in 0 .. b - a
    BY <1>0, <1>4
  <2> QED BY <1>4, <1>5, <2>1
<1> DEFINE brk(w, i) == FirstChar(w, i) + BreakAt[w[i]]
           left(w, i) == IF i = 1 THEN 0 ELSE brk(w, i - 1)
           right(w, i, len) == IF i = len THEN EndChar(w, len) ELSE brk(w, i + 1) - 1
<1>7. /\ Sentence(part, m) = [left |-> left(part, l), right |-> right(part, r, b - a)]
      /\ Sentence(line, n) = [left |-> left(line, a + l), right |-> right(line, a + r, Len(line))]
  BY <1>0, <1>1, <1>3 DEF Sentence
(* a break of the part, moved *)
<1>8. ASSUME NEW i \in 1 .. b - a, part[i] \in DOMAIN BreakAt
      PROVE  /\ brk(part, i) \in Nat \ {0} /\ brk(line, a + i) = c + brk(part, i)
             /\ brk(part, i) - 1 <= z
  <2>1. PICK f, k, e : f = FirstChar(part, i) /\ k = BreakAt[part[i]] /\ e = EndChar(part, i)
    OBVIOUS
  <2>2. k \in Nat \ {0} /\ f + k - 1 <= e /\ f \in Nat /\ e \in Nat
    <3>1. i \in 1 .. Len(part) /\ i \in 0 .. b - a
      BY <1>0
    <3> QED BY <1>0, <1>5, <1>8, <2>1, <3>1, BreakFacts
  <2>3. e <= z
    <3>1. i \in 0 .. Len(part) /\ b - a \in i .. Len(part)
      BY <1>0
    <3> QED BY <1>0, <1>1, <2>1, <3>1, EndCharGrows
  <2>4. brk(line, a + i) = (c + f) + k
    <3>1. PICK j : j = a + i
      OBVIOUS
    <3>2. FirstChar(line, j) = c + f /\ line[j] = part[i]
      BY <1>0, <1>5, <2>1, <3>1
    <3>3. brk(line, j) = (c + f) + k
      BY <2>1, <3>2
    <3> HIDE DEF brk
    <3> QED BY <3>1, <3>3
  <2>5. brk(part, i) = f + k
    BY <2>1
  <2> HIDE DEF brk
  <2> QED BY ONLY <1>5, <2>2, <2>3, <2>4, <2>5
(* a stop of the whole, at which the part begins or ends *)
<1>9. ASSUME NEW j \in 1 .. Len(line), line[j] = Stop
      PROVE  brk(line, j) = EndChar(line, j) /\ brk(line, j) - 1 = EndChar(line, j - 1)
  <2>1. Stop \in DOMAIN BreakAt /\ Width[Stop] = 1
    BY HomographAssumption
  <2>2. brk(line, j) = EndChar(line, j)
    BY <1>0, <1>9, <2>1, BreakFacts
  <2>3. EndChar(line, j) = EndChar(line, j - 1) + WordEnd(line, j) /\ EndChar(line, j - 1) \in Nat
    <3>1. j - 1 \in 0 .. Len(line)
      BY <1>0
    <3> QED BY <1>0, <3>1, EndCharSteps
  <2>4. WordEnd(line, j) = 1
    BY <1>9, <2>1 DEF WordEnd
  <2> HIDE DEF brk
  <2> QED BY ONLY <2>2, <2>3, <2>4
<1>10. left(part, l) \in Nat /\ left(line, a + l) = c + left(part, l)
  <2>1. CASE l = 1
    <3>1. left(part, l) = 0
      BY <2>1
    <3>2. a + l = 1 => a = 0 /\ c = 0
      BY <1>0, <1>1, <2>1, EndCharSteps
    <3>3. a + l # 1 => brk(line, a) = c
      <4>1. a + l # 1 => a \in 1 .. Len(line) /\ line[a] = Stop
        BY <1>0, <2>1 DEF Part
      <4> QED BY <1>1, <1>9, <4>1
    <3>4. a + l # 1 => left(line, a + l) = brk(line, a)
      <4>1. PICK i, j : i = a + l /\ j = i - 1
        OBVIOUS
      <4>2. j = a
        BY <1>0, <2>1, <4>1
      <4>3. i # 1 => left(line, i) = brk(line, j)
        BY <4>1
      <4> HIDE DEF left, brk
      <4> QED BY <4>1, <4>2, <4>3
    <3>5. a + l = 1 => left(line, a + l) = 0
      OBVIOUS
    <3> HIDE DEF left, brk
    <3> QED BY <1>5, <3>1, <3>2, <3>3, <3>4, <3>5
  <2>2. CASE l # 1
    <3>1. l - 1 \in 1 .. b - a /\ part[l - 1] \in DOMAIN BreakAt
      BY <1>0, <1>2, <1>4, <2>2
    <3>2. a + (l - 1) = a + l - 1 /\ a + l # 1
      BY <1>0, <1>2, <1>4, <2>2
    <3>3. brk(part, l - 1) \in Nat /\ brk(line, a + l - 1) = c + brk(part, l - 1)
      BY <1>8, <3>1, <3>2
    <3>4. left(part, l) = brk(part, l - 1)
      BY <2>2
    <3>5. left(line, a + l) = brk(line, a + l - 1)
      <4>1. PICK i, j : i = a + l /\ j = i - 1
        OBVIOUS
      <4>2. left(line, i) = brk(line, j)
        BY <3>2, <4>1
      <4>3. a + l - 1 = j
        BY <1>0, <1>2, <1>4, <4>1
      <4> HIDE DEF left, brk
      <4> QED BY ONLY <4>1, <4>2, <4>3
    <3> HIDE DEF left, brk
    <3> QED BY <3>3, <3>4, <3>5
  <2> QED BY <2>1, <2>2
<1>11. /\ right(part, r, b - a) \in Nat /\ right(part, r, b - a) <= z
       /\ right(line, a + r, Len(line)) = c + right(part, r, b - a)
  <2>1. CASE r = b - a
    <3>1. right(part, r, b - a) = z
      BY <1>1, <2>1
    <3>2. a + r = b /\ EndChar(line, b) = c + z
      <4>1. b - a \in 0 .. b - a /\ a + (b - a) = b
        BY <1>0
      <4> QED BY <1>1, <1>5, <2>1, <4>1
    <3>3. right(line, b, Len(line)) = EndChar(line, b)
      <4>1. CASE b = Len(line)
        BY <4>1
      <4>2. CASE b # Len(line)
        <5>1. b + 1 \in 1 .. Len(line) /\ line[b + 1] = Stop /\ (b + 1) - 1 = b
          BY <1>0, <4>2 DEF Part
        <5>2. brk(line, b + 1) - 1 = EndChar(line, b)
          BY <1>9, <5>1
        <5> HIDE DEF brk
        <5> QED BY <4>2, <5>2
      <4> QED BY <4>1, <4>2
    <3> HIDE DEF right
    <3> QED BY <1>5, <3>1, <3>2, <3>3
  <2>2. CASE r # b - a
    <3>1. r + 1 \in 1 .. b - a /\ part[r + 1] \in DOMAIN BreakAt
      BY <1>0, <1>2, <1>4, <2>2
    <3>2. a + (r + 1) = a + r + 1 /\ a + r # Len(line)
      BY <1>0, <1>2, <1>4, <2>2
    <3>3. PICK x, y : x = brk(part, r + 1) /\ y = brk(line, a + r + 1)
      OBVIOUS
    <3>4. x \in Nat \ {0} /\ y = c + x /\ x - 1 <= z
      BY <1>8, <3>1, <3>2, <3>3
    <3>5. right(part, r, b - a) = x - 1 /\ right(line, a + r, Len(line)) = y - 1
      BY <2>2, <3>2, <3>3
    <3> HIDE DEF right
    <3> QED BY ONLY <1>5, <3>4, <3>5
  <2> QED BY <2>1, <2>2
<1> HIDE DEF left, right
<1> QED BY <1>1, <1>5, <1>6, <1>7, <1>10, <1>11

(* The window of 24 characters, cut at the sentence.                       *)
LEMMA WindowMoved ==
  ASSUME NEW line, NEW a, NEW b, NEW part, Part(line, a, b, part),
         NEW m, Located(m, Len(part)), NEW n, Moved(n, m, a)
  PROVE  LET v == Window(part, m)
             w == Window(line, n)
             c == EndChar(line, a)
         IN  /\ v.left \in Nat /\ v.right \in Int /\ v.right <= EndChar(part, b - a)
             /\ w.left = c + v.left /\ w.right = c + v.right
<1>1. PICK s, t, c, el, er, f, e :
        /\ s = Sentence(part, m) /\ t = Sentence(line, n) /\ c = EndChar(line, a)
        /\ el = s.left /\ er = s.right
        /\ f = FirstChar(part, m.from) /\ e = EndChar(part, m.to)
  OBVIOUS
<1>2. /\ el \in Nat /\ er \in Nat /\ f \in Nat /\ e \in Nat
      /\ EndChar(part, b - a) \in Nat /\ er <= EndChar(part, b - a)
      /\ t.left = c + el /\ t.right = c + er
      /\ EndChar(line, n.to) = c + e /\ FirstChar(line, n.from) = c + f
  BY <1>1, SentenceChars
<1>3. c \in Nat /\ ContextWindow \in Nat
  BY <1>1, CharsMoved, HomographAssumption
<1>4. PICK g, h : g = f - ContextWindow /\ h = e + ContextWindow
  OBVIOUS
<1>5. g \in Int /\ h \in Int /\ (c + f) - ContextWindow = c + g /\ (c + e) + ContextWindow = c + h
  BY <1>2, <1>3, <1>4
<1>6. Window(part, m) = [left |-> Max({el, g}), right |-> Min({er, h})]
  BY <1>1, <1>4 DEF Window
<1>7. Window(line, n) = [left |-> Max({c + el, c + g}), right |-> Min({c + er, c + h})]
  BY <1>1, <1>2, <1>5 DEF Window
<1>8. /\ Max({c + el, c + g}) = c + Max({el, g})
      /\ Min({c + er, c + h}) = c + Min({er, h})
  <2>1. el \in Int /\ er \in Int /\ g \in Int /\ h \in Int /\ c \in Int
    BY <1>2, <1>3, <1>5
  <2>2. Max({c + el, c + g}) = c + Max({el, g}) /\ Min({c + el, c + g}) = c + Min({el, g})
    BY ONLY <2>1, LimitsMoved
  <2>3. Max({c + er, c + h}) = c + Max({er, h}) /\ Min({c + er, c + h}) = c + Min({er, h})
    BY ONLY <2>1, LimitsMoved
  <2> QED BY <2>2, <2>3
<1>9. Max({el, g}) \in {el, g} /\ el <= Max({el, g})
  <2>1. el \in Int /\ g \in Int
    BY <1>2, <1>5
  <2> QED BY ONLY <2>1, MaxOfTwo
<1>10. Min({er, h}) \in {er, h} /\ Min({er, h}) <= er
  <2>1. er \in Int /\ h \in Int
    BY <1>2, <1>5
  <2> QED BY ONLY <2>1, MinOfTwo
<1>11. PICK x, y : x = Max({el, g}) /\ y = Min({er, h})
  OBVIOUS
<1>12. x \in Nat /\ y \in Int /\ y <= EndChar(part, b - a)
  BY <1>2, <1>5, <1>9, <1>10, <1>11
<1> QED BY <1>1, <1>6, <1>7, <1>8, <1>11, <1>12

(* Talk of skills around a mention is that of its own sentence.            *)
LEMMA ContextMoved ==
  ASSUME NEW line, NEW a, NEW b, NEW part, Part(line, a, b, part),
         NEW m \in Spans(part), NEW n, Moved(n, m, a), n = Mention(n.alias, n.from)
  PROVE  IsSkillContext(line, Spans(line), n) <=> IsSkillContext(part, Spans(part), m)
<1>0. /\ a \in Nat /\ b \in a .. Len(line) /\ b - a \in Nat /\ Len(part) = b - a
      /\ Len(line) \in Nat /\ Len(part) \in Nat
      /\ line \in Seq(DOMAIN Width) /\ part \in Seq(DOMAIN Width)
  BY PartLengths DEF Part
<1>1. PICK U, V, w, v, c, z : /\ U = Spans(line) /\ V = Spans(part)
                              /\ w = Window(line, n) /\ v = Window(part, m)
                              /\ c = EndChar(line, a) /\ z = EndChar(part, b - a)
  OBVIOUS
<1>2. Same(U, V, a, b, Len(line))
  BY <1>1, SpansSame
<1>3. m \in V /\ m = Mention(m.alias, m.from) /\ Located(m, Len(part))
  BY <1>0, <1>1, <1>2 DEF Same
<1>4. /\ v.left \in Nat /\ v.right \in Int /\ v.right <= z
      /\ w.left = c + v.left /\ w.right = c + v.right
  BY <1>1, <1>3, WindowMoved
<1>5. c \in Nat /\ z \in Nat /\ EndChar(line, b) = c + z
  <2>1. b - a \in 0 .. b - a /\ a + (b - a) = b
    BY <1>0
  <2> QED BY <1>1, <2>1, CharsMoved
<1>6. Preceder(line, n) = Preceder(part, m)
  BY <1>3, PrecederMoved
<1>7. EndsOf(line, Vouches, w.left, w.right) = {} <=> EndsOf(part, Vouches, v.left, v.right) = {}
  <2>1. IsReading(Vouches)
    BY HomographAssumption
  <2>2. PICK l, r : l = v.left /\ r = v.right
    OBVIOUS
  <2>3. l \in Nat /\ r \in Int /\ r <= EndChar(part, b - a)
    BY <1>1, <1>4, <2>2
  <2>4. /\ \A e \in EndsOf(part, Vouches, l, r) : c + e \in EndsOf(line, Vouches, c + l, c + r)
        /\ \A e \in EndsOf(line, Vouches, c + l, c + r) : e - c \in EndsOf(part, Vouches, l, r)
    BY <1>1, <2>1, <2>3, EndsMoved
  <2>5. w.left = c + l /\ w.right = c + r
    BY <1>4, <2>2
  <2> QED BY <2>2, <2>4, <2>5
<1>8. ASSUME NEW x \in V \ {m}, FirstChar(part, x.from) < v.right, EndChar(part, x.to) > v.left
      PROVE  \E y \in U \ {n} : FirstChar(line, y.from) < w.right /\ EndChar(line, y.to) > w.left
  <2>1. x = Mention(x.alias, x.from) /\ Located(x, b - a)
    BY <1>2 DEF Same
  <2>2. PICK y \in U : Moved(y, x, a)
    BY <1>2 DEF Same
  <2>3. y.from = a + x.from /\ y.to = a + x.to /\ y.alias = x.alias
    BY <2>2 DEF Moved
  <2>4. x.from \in 1 .. b - a /\ x.to \in 0 .. b - a /\ x.from \in Int
    BY <1>0, <2>1 DEF Located
  <2>5. y # n
    <3>1. SUFFICES ASSUME y = n PROVE FALSE
      OBVIOUS
    <3>2. n.from = a + m.from /\ n.alias = m.alias /\ m.from \in Int
      BY <1>3 DEF Moved, Located
    <3>3. x.from = m.from /\ x.alias = m.alias
      BY <1>0, <2>3, <2>4, <3>1, <3>2
    <3> QED BY <1>3, <2>1, <3>3
  <2>6. PICK f, e : f = FirstChar(part, x.from) /\ e = EndChar(part, x.to)
    OBVIOUS
  <2>7. f \in Nat /\ e \in Nat /\ FirstChar(line, y.from) = c + f /\ EndChar(line, y.to) = c + e
    BY <1>1, <2>3, <2>4, <2>6, CharsMoved
  <2>8. c + f < w.right /\ c + e > w.left
    BY <1>4, <1>5, <1>8, <2>6, <2>7
  <2> QED BY <2>5, <2>7, <2>8
<1>9. ASSUME NEW y \in U \ {n}, FirstChar(line, y.from) < w.right, EndChar(line, y.to) > w.left
      PROVE  \E x \in V \ {m} : FirstChar(part, x.from) < v.right /\ EndChar(part, x.to) > v.left
  <2>1. /\ y = Mention(y.alias, y.from)
        /\ y.from \in 1 .. Len(line) /\ y.to \in y.from .. Len(line)
        /\ y.from <= a => y.to < a
    BY <1>2 DEF Same, Located
  <2>2. a < y.from
    <3>1. SUFFICES ASSUME y.from <= a PROVE FALSE
      BY <1>0, <2>1
    <3>2. y.to \in 0 .. Len(line) /\ a \in y.to .. Len(line)
      BY <1>0, <2>1, <3>1
    <3>3. EndChar(line, y.to) <= c /\ EndChar(line, y.to) \in Nat
      BY <1>0, <1>1, <3>2, EndCharGrows, EndCharSteps
    <3> QED BY <1>4, <1>5, <1>9, <3>3
  <2>3. y.from <= b
    <3>1. SUFFICES ASSUME b < y.from PROVE FALSE
      BY <1>0, <2>1
    <3>2. b \in 0 .. Len(line) /\ y.from - 1 \in b .. Len(line)
      BY <1>0, <2>1, <3>1
    <3>3. EndChar(line, b) <= EndChar(line, y.from - 1)
      BY <1>0, <3>2, EndCharGrows
    <3>4. /\ EndChar(line, y.from - 1) <= FirstChar(line, y.from)
          /\ EndChar(line, y.from - 1) \in Nat /\ FirstChar(line, y.from) \in Nat
      BY <1>0, <2>1, CharFacts
    <3> QED BY <1>4, <1>5, <1>9, <3>3, <3>4
  <2>4. y.from \in a + 1 .. b
    BY <1>0, <2>1, <2>2, <2>3
  <2>5. PICK x \in V : Moved(y, x, a)
    BY <1>2, <2>4 DEF Same
  <2>6. x = Mention(x.alias, x.from) /\ x.from \in 1 .. b - a /\ x.to \in 0 .. b - a
    BY <1>0, <1>2 DEF Same, Located
  <2>7. y.from = a + x.from /\ y.to = a + x.to /\ y.alias = x.alias
    BY <2>5 DEF Moved
  <2>8. x # m
    <3>1. SUFFICES ASSUME x = m PROVE FALSE
      OBVIOUS
    <3>2. n.from = y.from /\ n.alias = y.alias
      BY <2>7, <3>1 DEF Moved
    <3> QED BY <2>1, <3>2
  <2>9. PICK f, e : f = FirstChar(part, x.from) /\ e = EndChar(part, x.to)
    OBVIOUS
  <2>10. f \in Nat /\ e \in Nat /\ FirstChar(line, y.from) = c + f /\ EndChar(line, y.to) = c + e
    BY <1>1, <2>6, <2>7, <2>9, CharsMoved
  <2>11. f < v.right /\ e > v.left
    BY <1>4, <1>5, <1>9, <2>10
  <2> QED BY <2>8, <2>9, <2>11
<1>10. IsSkillContext(part, V, m) <=>
         \/ Preceder(part, m) \cap (Usage \ WeakUsage) # {}
         \/ EndsOf(part, Vouches, v.left, v.right) # {}
         \/ /\ Preceder(part, m) \cap WeakUsage # {}
            /\ \E x \in V \ {m} : FirstChar(part, x.from) < v.right /\ EndChar(part, x.to) > v.left
  BY <1>1 DEF IsSkillContext
<1>11. IsSkillContext(line, U, n) <=>
         \/ Preceder(line, n) \cap (Usage \ WeakUsage) # {}
         \/ EndsOf(line, Vouches, w.left, w.right) # {}
         \/ /\ Preceder(line, n) \cap WeakUsage # {}
            /\ \E x \in U \ {n} : FirstChar(line, x.from) < w.right /\ EndChar(line, x.to) > w.left
  BY <1>1 DEF IsSkillContext
<1>12. (\E x \in V \ {m} : FirstChar(part, x.from) < v.right /\ EndChar(part, x.to) > v.left) <=>
         \E x \in U \ {n} : FirstChar(line, x.from) < w.right /\ EndChar(line, x.to) > w.left
  BY <1>8, <1>9
<1> QED BY ONLY <1>1, <1>6, <1>7, <1>10, <1>11, <1>12, Zenon

(* Vetoes and cues of an alias are read in its own sentence.               *)
LEMMA SenseMoved ==
  ASSUME NEW line, NEW a, NEW b, NEW part, Part(line, a, b, part),
         NEW m, Located(m, Len(part)), NEW n, Moved(n, m, a)
  PROVE  AliasSenseHolds(line, n) <=> AliasSenseHolds(part, m)
<1>0. /\ a \in Nat /\ b \in a .. Len(line) /\ b - a \in Nat /\ Len(part) = b - a
      /\ \A k \in 1 .. b - a : a + k \in 1 .. Len(line) /\ line[a + k] = part[k]
  BY PartLengths
<1>1. PICK s, t, c, er, e, x : /\ s = SentenceBounds(part, m) /\ t = SentenceBounds(line, n)
                               /\ c = EndChar(line, a) /\ er = Sentence(part, m).right
                               /\ e = EndChar(part, m.to) /\ x = m.alias
  OBVIOUS
<1>2. /\ er \in Nat /\ e \in Nat /\ er <= EndChar(part, b - a) /\ EndChar(part, b - a) \in Nat
      /\ Sentence(line, n).right = c + er /\ EndChar(line, n.to) = c + e
  BY <1>1, SentenceChars
<1>3. /\ s.left \in 1 .. m.from /\ s.right \in m.to .. b - a
      /\ t.left = a + s.left /\ t.right = a + s.right
  BY <1>0, <1>1, SentenceMoved DEF IsSentence
<1>4. m.from \in 1 .. b - a /\ m.to \in m.from .. b - a
  BY <1>0 DEF Located
<1>5. c \in Nat /\ VetoLookahead \in Nat
  BY <1>1, CharsMoved, HomographAssumption
<1>6. PICK h, cut, cut2 : /\ h = e + VetoLookahead /\ cut = Min({er, h})
                          /\ cut2 = Min({c + er, c + h})
  OBVIOUS
<1>7. h \in Int /\ (c + e) + VetoLookahead = c + h
  BY <1>2, <1>5, <1>6
<1>8. cut2 = c + cut /\ cut \in Int /\ cut <= EndChar(part, b - a)
  <2>1. er \in Int /\ h \in Int /\ c \in Int
    BY <1>2, <1>5, <1>7
  <2>2. Max({c + er, c + h}) = c + Max({er, h}) /\ Min({c + er, c + h}) = c + Min({er, h})
    BY ONLY <2>1, LimitsMoved
  <2>3. Min({er, h}) \in {er, h} /\ Min({er, h}) <= er
    BY ONLY <2>1, MinOfTwo
  <2> QED BY <1>2, <1>6, <1>7, <2>2, <2>3
<1>9. Preceder(line, n) = Preceder(part, m)
  BY PrecederMoved
<1>10. ASSUME x \in DOMAIN Vetoes
       PROVE  cut \in EndsOf(part, Vetoes[x], e, cut) <=> c + cut \in EndsOf(line, Vetoes[x], c + e, c + cut)
  <2>1. IsReading(Vetoes[x])
    BY <1>10, HomographAssumption
  <2>2. /\ \A y \in EndsOf(part, Vetoes[x], e, cut) : c + y \in EndsOf(line, Vetoes[x], c + e, c + cut)
        /\ \A y \in EndsOf(line, Vetoes[x], c + e, c + cut) : y - c \in EndsOf(part, Vetoes[x], e, cut)
    BY <1>1, <1>2, <1>8, <2>1, EndsMoved
  <2>3. (c + cut) - c = cut
    BY <1>5, <1>8
  <2> QED BY <2>2, <2>3
<1>11. ASSUME x \in DOMAIN Cues
       PROVE  (\E i \in s.left .. s.right : part[i] \in Cues[x]) <=>
                \E i \in t.left .. t.right : line[i] \in Cues[x]
  <2>1. PICK l, r : l = s.left /\ r = s.right
    OBVIOUS
  <2>2. l \in 1 .. b - a /\ r \in 1 .. b - a /\ t.left = a + l /\ t.right = a + r
    <3>1. /\ b - a \in Nat /\ m.from \in 1 .. b - a /\ m.to \in m.from .. b - a
          /\ l \in 1 .. m.from /\ r \in m.to .. b - a
      BY ONLY <1>0, <1>3, <1>4, <2>1
    <3> QED BY ONLY <1>3, <2>1, <3>1
  <2>3. ASSUME NEW i \in l .. r, part[i] \in Cues[x]
        PROVE  \E j \in a + l .. a + r : line[j] \in Cues[x]
    <3>1. i \in 1 .. b - a /\ a + i \in a + l .. a + r
      BY <1>0, <2>2
    <3> QED BY <1>0, <2>3, <3>1
  <2>4. ASSUME NEW j \in a + l .. a + r, line[j] \in Cues[x]
        PROVE  \E i \in l .. r : part[i] \in Cues[x]
    <3>1. j - a \in 1 .. b - a /\ j - a \in l .. r /\ a + (j - a) = j
      BY <1>0, <2>2
    <3> QED BY <1>0, <2>4, <3>1
  <2> QED BY <2>1, <2>2, <2>3, <2>4
<1>12. n.alias = x
  BY <1>1 DEF Moved
<1>13. AliasSenseHolds(part, m) <=>
         /\ x \in DOMAIN Vetoes =>
              /\ \A w \in Preceder(part, m) \cap DOMAIN Vetoes[x] : Width[w] \notin Vetoes[x][w]
              /\ cut \notin EndsOf(part, Vetoes[x], e, cut)
         /\ x \in DOMAIN Cues => \E i \in s.left .. s.right : part[i] \in Cues[x]
  BY <1>1, <1>6 DEF AliasSenseHolds
<1>14. AliasSenseHolds(line, n) <=>
         /\ x \in DOMAIN Vetoes =>
              /\ \A w \in Preceder(line, n) \cap DOMAIN Vetoes[x] : Width[w] \notin Vetoes[x][w]
              /\ cut2 \notin EndsOf(line, Vetoes[x], c + e, cut2)
         /\ x \in DOMAIN Cues => \E i \in t.left .. t.right : line[i] \in Cues[x]
  BY <1>1, <1>2, <1>6, <1>7, <1>12 DEF AliasSenseHolds
<1> QED BY ONLY <1>8, <1>9, <1>10, <1>11, <1>13, <1>14, Zenon

(* Only "to" is looked for beyond the sentence.                            *)
LEMMA CausativeMoved ==
  ASSUME NEW line, NEW a, NEW b, NEW part, Part(line, a, b, part),
         NEW m, Located(m, Len(part)), NEW n, Moved(n, m, a)
  PROVE  /\ IsCausative(part, m) => IsCausative(line, n)
         /\ b = Len(line) /\ IsCausative(line, n) => IsCausative(part, m)
<1>1. PICK c, e, x, r : /\ c = EndChar(line, a) /\ e = EndChar(part, m.to) /\ x = m.alias
                        /\ r = e + CausativeLookahead
  OBVIOUS
<1>2. e \in Nat /\ EndChar(line, n.to) = c + e
  BY <1>1, SentenceChars
<1>3. c \in Nat /\ CausativeLookahead \in Nat
  BY <1>1, CharsMoved, HomographAssumption
<1>4. r \in Int /\ (c + e) + CausativeLookahead = c + r
  BY <1>1, <1>2, <1>3
<1>5. n.alias = x
  BY <1>1 DEF Moved
<1>6. IsCausative(part, m) <=> x \in DOMAIN Causative /\ EndsOf(part, Causative[x], e, r) # {}
  BY <1>1 DEF IsCausative
<1>7. IsCausative(line, n) <=>
        x \in DOMAIN Causative /\ EndsOf(line, Causative[x], c + e, c + r) # {}
  BY <1>2, <1>4, <1>5 DEF IsCausative
<1>8. ASSUME x \in DOMAIN Causative
      PROVE  /\ \A y \in EndsOf(part, Causative[x], e, r) :
                  c + y \in EndsOf(line, Causative[x], c + e, c + r)
             /\ b = Len(line) => \A y \in EndsOf(line, Causative[x], c + e, c + r) :
                                   y - c \in EndsOf(part, Causative[x], e, r)
  <2>1. IsReading(Causative[x])
    BY <1>8, HomographAssumption
  <2> QED BY <1>1, <1>2, <1>4, <2>1, EndsMoved
<1> QED BY <1>6, <1>7, <1>8

(* A mention that counts in the whole counts in its part; one that counts  *)
(* in the part counts in the whole, but for "led" and what follows.        *)
LEMMA CountsMoved ==
  ASSUME NEW line, NEW a, NEW b, NEW part, Part(line, a, b, part),
         NEW v \in Spans(Lowered(part)), NEW u \in Spans(Lowered(line)), Moved(u, v, a)
  PROVE  /\ u \in MentionSpans(line) => v \in MentionSpans(part)
         /\ v \in MentionSpans(part) /\ (b = Len(line) \/ v.alias \notin DOMAIN Causative)
              => u \in MentionSpans(line)
<1>1. PICK l, p : l = Lowered(line) /\ p = Lowered(part)
  OBVIOUS
<1>2. Part(l, a, b, p)
  BY <1>1, PartLowered
<1>3. Len(p) = b - a /\ Len(part) = b - a /\ Len(l) = Len(line)
  <2>1. line \in Seq(DOMAIN Width) /\ Len(part) = b - a
    BY DEF Part
  <2>2. Len(l) = Len(line)
    BY <1>1, <2>1, LoweredFacts
  <2> QED BY <1>2, <2>1, <2>2 DEF Part
<1>4. Located(v, Len(p)) /\ u = Mention(u.alias, u.from)
  <2>1. Same(Spans(l), Spans(p), a, b, Len(l))
    BY <1>2, SpansSame
  <2> QED BY <1>1, <1>3, <2>1 DEF Same
<1>5. IsSkillContext(l, Spans(l), u) <=> IsSkillContext(p, Spans(p), v)
  BY <1>1, <1>2, <1>4, ContextMoved
<1>6. AliasSenseHolds(l, u) <=> AliasSenseHolds(p, v)
  BY <1>2, <1>4, SenseMoved
<1>7. ContextRequired(line, u) <=> ContextRequired(part, v)
  <2>1. v.from \in 1 .. b - a /\ u.from = a + v.from /\ u.alias = v.alias
    BY <1>3, <1>4 DEF Located, Moved
  <2>2. line[u.from] = part[v.from]
    BY <2>1, PartLengths
  <2> QED BY <2>1, <2>2 DEF ContextRequired
<1>8. /\ IsCausative(p, v) => IsCausative(l, u)
      /\ b = Len(line) /\ IsCausative(l, u) => IsCausative(p, v)
  BY <1>2, <1>3, <1>4, CausativeMoved
<1>9. v.alias \notin DOMAIN Causative => ~IsCausative(l, u)
  BY DEF IsCausative, Moved
<1>10. u \in MentionSpans(line) <=>
         /\ ~IsCausative(l, u)
         /\ ContextRequired(line, u) => IsSkillContext(l, Spans(l), u) /\ AliasSenseHolds(l, u)
  BY <1>1 DEF MentionSpans
<1>11. v \in MentionSpans(part) <=>
         /\ ~IsCausative(p, v)
         /\ ContextRequired(part, v) => IsSkillContext(p, Spans(p), v) /\ AliasSenseHolds(p, v)
  BY <1>1 DEF MentionSpans
<1> QED BY ONLY <1>5, <1>6, <1>7, <1>8, <1>9, <1>10, <1>11, Zenon

(* Unless a "to" beyond the part voids a mention, the same mentions count. *)
LEMMA MentionSpansSame ==
  ASSUME NEW line, NEW a, NEW b, NEW part, Part(line, a, b, part),
         \A v \in MentionSpans(part) :
           b = Len(line) \/ v.alias \notin DOMAIN Causative
             \/ \E u \in MentionSpans(line) : Moved(u, v, a)
  PROVE  Same(MentionSpans(line), MentionSpans(part), a, b, Len(line))
<1>1. PICK l, p : l = Lowered(line) /\ p = Lowered(part)
  OBVIOUS
<1>2. Part(l, a, b, p) /\ Len(l) = Len(line)
  <2>1. line \in Seq(DOMAIN Width)
    BY DEF Part
  <2> QED BY <1>1, <2>1, PartLowered, LoweredFacts
<1>3. Same(Spans(l), Spans(p), a, b, Len(line))
  <2>1. Same(Spans(l), Spans(p), a, b, Len(l))
    BY <1>2, SpansSame
  <2> QED BY <1>2, <2>1
<1>4. MentionSpans(line) \subseteq Spans(l) /\ MentionSpans(part) \subseteq Spans(p)
  BY <1>1 DEF MentionSpans
<1>5. ASSUME NEW u \in MentionSpans(line), u.from \in a + 1 .. b
      PROVE  u.to <= b /\ \E v \in MentionSpans(part) : Moved(u, v, a)
  <2>1. u.to <= b /\ \E v \in Spans(p) : Moved(u, v, a)
    BY <1>3, <1>4, <1>5 DEF Same
  <2>2. PICK v \in Spans(p) : Moved(u, v, a)
    BY <2>1
  <2>3. v \in MentionSpans(part)
    BY <1>1, <1>4, <2>2, CountsMoved
  <2> QED BY <2>1, <2>2, <2>3
<1>6. ASSUME NEW v \in MentionSpans(part) PROVE \E u \in MentionSpans(line) : Moved(u, v, a)
  <2>1. PICK u \in Spans(l) : Moved(u, v, a)
    BY <1>3, <1>4 DEF Same
  <2>2. b = Len(line) \/ v.alias \notin DOMAIN Causative => u \in MentionSpans(line)
    BY <1>1, <1>4, <2>1, CountsMoved
  <2> QED BY <2>1, <2>2
<1>7. ASSUME NEW u \in MentionSpans(line)
      PROVE  /\ u = Mention(u.alias, u.from) /\ Located(u, Len(line))
             /\ u.from <= a => u.to < a
  BY <1>3, <1>4 DEF Same
<1>8. ASSUME NEW v \in MentionSpans(part)
      PROVE  v = Mention(v.alias, v.from) /\ Located(v, b - a)
  BY <1>3, <1>4 DEF Same
<1> QED BY <1>5, <1>6, <1>7, <1>8 DEF Same

-----------------------------------------------------------------------------
(***************************************************************************)
(* The level of a mention is that of its part                              *)
(***************************************************************************)

(* The scope of a mention ends with its sentence at the latest.            *)
LEMMA ScopeMoved ==
  ASSUME NEW line, NEW a, NEW b, NEW part, Part(line, a, b, part),
         NEW U, NEW V, Same(U, V, a, b, Len(line)),
         NEW m \in V, NEW n, Moved(n, m, a)
  PROVE  /\ ScopeBounds(part, V, m).left \in 1 .. m.from
         /\ ScopeBounds(part, V, m).right \in m.to .. b - a
         /\ ScopeBounds(line, U, n).left = a + ScopeBounds(part, V, m).left
         /\ ScopeBounds(line, U, n).right = a + ScopeBounds(part, V, m).right
<1>0. /\ a \in Nat /\ b \in a .. Len(line) /\ b - a \in Nat /\ Len(part) = b - a
      /\ Len(line) \in Nat /\ Len(part) \in Nat
  BY PartLengths
<1>1. /\ \A u \in U : Located(u, Len(line)) /\ (u.from <= a => u.to < a)
      /\ \A u \in U : u.from \in a + 1 .. b => \E v \in V : Moved(u, v, a)
      /\ \A v \in V : Located(v, Len(part)) /\ \E u \in U : Moved(u, v, a)
  BY <1>0 DEF Same
<1>2. PICK f, t, g, h : f = m.from /\ t = m.to /\ g = n.from /\ h = n.to
  OBVIOUS
<1>3. f \in 1 .. b - a /\ t \in f .. b - a /\ g = a + f /\ h = a + t /\ n.skill = m.skill
  BY <1>0, <1>1, <1>2 DEF Located, Moved
<1>4. PICK l, r, p, q : /\ l = SentenceBounds(part, m).left /\ r = SentenceBounds(part, m).right
                        /\ p = ScopeBounds(part, V, m).left /\ q = ScopeBounds(part, V, m).right
  OBVIOUS
<1>5. PICK x, y : x = ScopeBounds(line, U, n).left /\ y = ScopeBounds(line, U, n).right
  OBVIOUS
<1>6. /\ Located(m, Len(part)) /\ Located(n, Len(line))
      /\ l \in 1 .. f /\ r \in t .. b - a
      /\ SentenceBounds(line, n).left = a + l /\ SentenceBounds(line, n).right = a + r
  BY <1>0, <1>1, <1>2, <1>4, SentenceMoved DEF IsSentence
<1>7. /\ p \in l .. f /\ q \in t .. r
      /\ \A v \in V : v.skill # m.skill => /\ v.to < f => v.to + 1 <= p
                                           /\ v.from > t => q <= v.from - 1
      /\ p = l \/ \E v \in V : v.skill # m.skill /\ v.to < f /\ p = v.to + 1
      /\ q = r \/ \E v \in V : v.skill # m.skill /\ v.from > t /\ q = v.from - 1
  <2>1. IsScope(V, m, l, r, p, q)
    BY <1>0, <1>1, <1>4, ScopeFacts
  <2> QED BY <1>2, <2>1 DEF IsScope
<1>8. /\ x \in a + l .. g /\ y \in h .. a + r
      /\ \A u \in U : u.skill # m.skill => /\ u.to < g => u.to + 1 <= x
                                           /\ u.from > h => y <= u.from - 1
      /\ x = a + l \/ \E u \in U : u.skill # m.skill /\ u.to < g /\ x = u.to + 1
      /\ y = a + r \/ \E u \in U : u.skill # m.skill /\ u.from > h /\ y = u.from - 1
  <2>1. \A u \in U : Located(u, Len(line))
    BY <1>1
  <2>2. IsScope(U, n, a + l, a + r, x, y)
    BY <1>0, <1>5, <1>6, <2>1, ScopeFacts
  <2> QED BY <1>2, <1>3, <2>2 DEF IsScope
<1>9. ASSUME NEW u \in U
      PROVE  /\ u.from \in 1 .. Len(line) /\ u.to \in u.from .. Len(line)
             /\ u.from \in Int /\ u.to \in Int
  BY <1>1 DEF Located
<1>10. ASSUME NEW v \in V, NEW u, Moved(u, v, a)
       PROVE  /\ v.from \in Int /\ v.to \in Int /\ u.skill = v.skill
              /\ u.from = a + v.from /\ u.to = a + v.to
  <2>1. v.from \in 1 .. Len(part) /\ v.to \in v.from .. Len(part)
    BY <1>1 DEF Located
  <2>2. u.skill = v.skill /\ u.from = a + v.from /\ u.to = a + v.to
    BY <1>10 DEF Moved
  <2> QED BY <2>1, <2>2
<1>11. x <= a + p
  <2>1. CASE x = a + l
    BY <1>0, <1>3, <1>6, <1>7, <2>1
  <2>2. ASSUME NEW u \in U, u.skill # m.skill, u.to < g, x = u.to + 1 PROVE x <= a + p
    <3>1. u.from \in a + 1 .. b
      <4>1. PICK i, j : i = u.from /\ j = u.to
        OBVIOUS
      <4>2. i \in 1 .. Len(line) /\ j \in i .. Len(line) /\ (i <= a => j < a)
        BY <1>1, <1>9, <4>1
      <4>3. j < g /\ x = j + 1
        BY <2>2, <4>1
      <4>4. i <= b
        BY <1>0, <1>3, <4>2, <4>3
      <4>5. ~(i <= a)
        BY <1>0, <1>3, <1>6, <1>8, <4>2, <4>3
      <4> QED BY <1>0, <4>1, <4>2, <4>4, <4>5
    <3>2. PICK v \in V : Moved(u, v, a)
      BY <1>1, <3>1
    <3>3. PICK i, j : i = v.to /\ j = u.to
      OBVIOUS
    <3>4. i \in Int /\ v.skill # m.skill /\ j = a + i
      BY <1>10, <2>2, <3>2, <3>3
    <3>5. i < f
      BY <1>0, <1>3, <2>2, <3>3, <3>4
    <3>6. i + 1 <= p
      BY <1>7, <3>3, <3>4, <3>5
    <3> QED BY <1>0, <1>3, <1>7, <2>2, <3>3, <3>4, <3>6
  <2> QED BY <1>8, <2>1, <2>2
<1>12. a + p <= x
  <2>1. CASE p = l
    BY <1>0, <1>3, <1>6, <1>8, <2>1
  <2>2. ASSUME NEW v \in V, v.skill # m.skill, v.to < f, p = v.to + 1 PROVE a + p <= x
    <3>1. PICK u \in U : Moved(u, v, a)
      BY <1>1
    <3>2. PICK i, j : i = v.to /\ j = u.to
      OBVIOUS
    <3>3. i \in Int /\ u.skill # m.skill /\ j = a + i
      BY <1>10, <2>2, <3>1, <3>2
    <3>4. j < g
      BY <1>0, <1>3, <2>2, <3>2, <3>3
    <3>5. j + 1 <= x
      BY <1>8, <3>2, <3>3, <3>4
    <3> QED BY <1>0, <1>3, <1>8, <2>2, <3>2, <3>3, <3>5
  <2> QED BY <1>7, <2>1, <2>2
<1>13. a + q <= y
  <2>1. CASE y = a + r
    BY <1>0, <1>3, <1>6, <1>7, <2>1
  <2>2. ASSUME NEW u \in U, u.skill # m.skill, u.from > h, y = u.from - 1 PROVE a + q <= y
    <3>1. CASE u.from \in a + 1 .. b
      <4>1. PICK v \in V : Moved(u, v, a)
        BY <1>1, <3>1
      <4>2. PICK i, j : i = v.from /\ j = u.from
        OBVIOUS
      <4>3. i \in Int /\ v.skill # m.skill /\ j = a + i
        BY <1>10, <2>2, <4>1, <4>2
      <4>4. t < i
        BY <1>0, <1>3, <2>2, <4>2, <4>3
      <4>5. q <= i - 1
        BY <1>3, <1>7, <4>2, <4>3, <4>4
      <4> QED BY <1>0, <1>3, <1>7, <2>2, <4>2, <4>3, <4>5
    <3>2. CASE u.from \notin a + 1 .. b
      <4>1. PICK j : j = u.from
        OBVIOUS
      <4>2. j \in Int /\ j > h /\ y = j - 1 /\ ~(a + 1 <= j /\ j <= b)
        BY <1>9, <2>2, <3>2, <4>1
      <4>3. j > b
        BY <1>0, <1>3, <4>2
      <4> QED BY <1>0, <1>3, <1>6, <1>7, <4>2, <4>3
    <3> QED BY <3>1, <3>2
  <2> QED BY <1>8, <2>1, <2>2
<1>14. y <= a + q
  <2>1. CASE q = r
    BY <1>0, <1>3, <1>6, <1>8, <2>1
  <2>2. ASSUME NEW v \in V, v.skill # m.skill, v.from > t, q = v.from - 1 PROVE y <= a + q
    <3>1. PICK u \in U : Moved(u, v, a)
      BY <1>1
    <3>2. PICK i, j : i = v.from /\ j = u.from
      OBVIOUS
    <3>3. i \in Int /\ u.skill # m.skill /\ j = a + i
      BY <1>10, <2>2, <3>1, <3>2
    <3>4. h < j
      BY <1>0, <1>3, <2>2, <3>2, <3>3
    <3>5. y <= j - 1
      BY <1>3, <1>8, <3>2, <3>3, <3>4
    <3> QED BY <1>0, <1>3, <1>8, <2>2, <3>2, <3>3, <3>5
  <2> QED BY <1>7, <2>1, <2>2
<1>15. x = a + p /\ y = a + q /\ p \in 1 .. f /\ q \in t .. b - a
  <2>1. f \in Int /\ t \in Int /\ l \in Int /\ r \in Int /\ g \in Int /\ h \in Int
    BY <1>0, <1>3, <1>6
  <2>2. p \in Int /\ q \in Int /\ x \in Int /\ y \in Int
    BY <1>0, <1>7, <1>8, <2>1
  <2>3. x = a + p /\ y = a + q
    BY <1>0, <1>11, <1>12, <1>13, <1>14, <2>2
  <2> QED BY <1>0, <1>3, <1>6, <1>7, <2>2, <2>3
<1> QED BY <1>2, <1>4, <1>5, <1>15

(* Words of a kind within moved bounds.                                    *)
LEMMA AtMoved ==
  ASSUME NEW line, NEW a, NEW b, NEW part, Part(line, a, b, part),
         NEW s, NEW t, s.left \in Int, s.right \in Int, 1 <= s.left, s.right <= b - a,
         t.left = a + s.left, t.right = a + s.right, NEW S
  PROVE  /\ At(part, s, S) \subseteq 1 .. b - a
         /\ At(line, t, S) = {a + i : i \in At(part, s, S)}
<1>0. /\ a \in Nat /\ b - a \in Nat /\ b \in Nat
      /\ \A k \in 1 .. b - a : a + k \in 1 .. Len(line) /\ line[a + k] = part[k]
  BY PartLengths DEF Part
<1>1. PICK l, r : l = s.left /\ r = s.right
  OBVIOUS
<1>2. l \in Int /\ r \in Int /\ 1 <= l /\ r <= b - a /\ t.left = a + l /\ t.right = a + r
  BY <1>1
<1>3. At(part, s, S) = {i \in l .. r : part[i] \in S}
  BY <1>1 DEF At
<1>4. At(line, t, S) = {i \in a + l .. a + r : line[i] \in S}
  BY <1>2 DEF At
<1>5. \A i \in l .. r : i \in 1 .. b - a
  BY <1>0, <1>2
<1>6. ASSUME NEW i \in l .. r, part[i] \in S
      PROVE  a + i \in a + l .. a + r /\ line[a + i] \in S
  BY <1>0, <1>2, <1>5, <1>6
<1>7. ASSUME NEW j \in a + l .. a + r, line[j] \in S
      PROVE  \E i \in l .. r : part[i] \in S /\ j = a + i
  <2>1. j - a \in l .. r /\ a + (j - a) = j
    BY <1>0, <1>2
  <2> QED BY <1>0, <1>5, <1>7, <2>1
<1>8. \A j : j \in At(line, t, S) <=> \E i \in At(part, s, S) : j = a + i
  BY <1>3, <1>4, <1>6, <1>7
<1> QED BY <1>3, <1>5, <1>8

LEMMA CardinalityMoved ==
  ASSUME NEW n \in Nat, NEW S \in SUBSET (1 .. n), NEW a \in Int
  PROVE  Cardinality({a + i : i \in S}) = Cardinality(S)
<1> DEFINE T == {a + i : i \in S}
           f == [i \in S |-> a + i]
<1>1. IsFiniteSet(S)
  <2>1. IsFiniteSet(1 .. n)
    BY FS_Interval
  <2> QED BY <2>1, FS_Subset
<1>2. f \in [S -> T] /\ \A j \in T : \E i \in S : f[i] = j
  OBVIOUS
<1>3. \A i, j \in S : f[i] = f[j] => i = j
  OBVIOUS
<1> HIDE DEF T, f
<1>4. f \in Bijection(S, T)
  BY <1>2, <1>3 DEF Bijection, Injection, IsInjective, Surjection
<1>5. ExistsBijection(S, T)
  BY <1>4 DEF ExistsBijection
<1>6. Cardinality(T) = Cardinality(S)
  BY <1>1, <1>5, FS_Bijection
<1> QED BY <1>6 DEF T

(* The words between a figure and a mention.                               *)
LEMMA GapMoved ==
  ASSUME NEW line, NEW a, NEW b, NEW part, Part(line, a, b, part),
         NEW m, Located(m, Len(part)), NEW n, Moved(n, m, a), NEW f \in 1 .. b - a
  PROVE  /\ IsAttributional(line, Gap(n, a + f)) <=> IsAttributional(part, Gap(m, f))
         /\ Tokens(line, Gap(n, a + f)) = Tokens(part, Gap(m, f))
<1>0. /\ a \in Nat /\ b - a \in Nat /\ b \in Nat /\ Len(part) = b - a
      /\ \A k \in 1 .. b - a : a + k \in 1 .. Len(line) /\ line[a + k] = part[k]
  BY PartLengths DEF Part
<1>1. PICK x : x = m.from
  OBVIOUS
<1>2. x \in 1 .. b - a /\ n.from = a + x
  BY <1>0, <1>1 DEF Located, Moved
<1>3. PICK G, H : G = Gap(m, f) /\ H = Gap(n, a + f)
  OBVIOUS
<1>4. G = (IF f < x THEN f + 1 .. x - 1 ELSE x .. f - 1)
  BY <1>1, <1>3 DEF Gap
<1>5. H = (IF a + f < a + x THEN a + f + 1 .. a + x - 1 ELSE a + x .. a + f - 1)
  <2>1. PICK y, j : y = n.from /\ j = a + f
    OBVIOUS
  <2>2. H = (IF j < y THEN j + 1 .. y - 1 ELSE y .. j - 1)
    BY <1>3, <2>1 DEF Gap
  <2> QED BY <1>0, <1>2, <2>1, <2>2
<1>6. G \subseteq 1 .. b - a
  BY <1>0, <1>2, <1>4
<1>7. \A j : j \in H <=> j \in Int /\ j - a \in G
  <2>1. a + f < a + x <=> f < x
    BY <1>0, <1>2
  <2>2. CASE f < x
    <3>1. G = f + 1 .. x - 1 /\ H = a + f + 1 .. a + x - 1
      BY <1>4, <1>5, <2>1, <2>2
    <3> QED BY <1>0, <1>2, <3>1
  <2>3. CASE ~(f < x)
    <3>1. G = x .. f - 1 /\ H = a + x .. a + f - 1
      BY <1>4, <1>5, <2>1, <2>3
    <3> QED BY <1>0, <1>2, <3>1
  <2> QED BY <2>2, <2>3
<1>8. \A i \in Int : (a + i) - a = i
  BY <1>0
<1>9. \A i \in G : i \in Int /\ a + i \in H /\ line[a + i] = part[i]
  <2>1. ASSUME NEW i \in G PROVE i \in Int /\ a + i \in H /\ line[a + i] = part[i]
    <3>1. i \in 1 .. b - a /\ i \in Int /\ a + i \in Int
      BY <1>0, <1>6
    <3>2. (a + i) - a \in G
      BY <1>8, <3>1
    <3>3. a + i \in H
      BY <1>7, <3>1, <3>2
    <3> QED BY <1>0, <3>1, <3>3
  <2> QED BY <2>1
<1>10. \A j \in H : \E i \in G : j = a + i
  <2>1. ASSUME NEW j \in H PROVE \E i \in G : j = a + i
    <3>1. j \in Int /\ j - a \in G /\ a + (j - a) = j
      BY <1>0, <1>7
    <3> QED BY <3>1
  <2> QED BY <2>1
<1>11. IsAttributional(line, H) <=> IsAttributional(part, G)
  <2>1. \A i, j \in G : a + i < a + j <=> i < j
    BY <1>0, <1>9
  <2>2. ASSUME NEW i \in G
        PROVE  (line[a + i] = Comma => \/ \A j \in H : j < a + i => line[j] = Comma
                                       \/ \A j \in H : j > a + i => line[j] = Comma) <=>
               (part[i] = Comma => \/ \A j \in G : j < i => part[j] = Comma
                                   \/ \A j \in G : j > i => part[j] = Comma)
    <3>1. (\A j \in H : j < a + i => line[j] = Comma) <=> \A j \in G : j < i => part[j] = Comma
      BY <1>9, <1>10, <2>1
    <3>2. (\A j \in H : j > a + i => line[j] = Comma) <=> \A j \in G : j > i => part[j] = Comma
      <4>1. \A j, k \in G : a + j > a + k <=> j > k
        BY <1>0, <1>9
      <4> QED BY <1>9, <1>10, <4>1
    <3> QED BY <1>9, <3>1, <3>2
  <2> DEFINE A(j) == /\ line[j] \notin GapMarks
                     /\ line[j] = Comma => \/ \A k \in H : k < j => line[k] = Comma
                                           \/ \A k \in H : k > j => line[k] = Comma
             B(i) == /\ part[i] \notin GapMarks
                     /\ part[i] = Comma => \/ \A k \in G : k < i => part[k] = Comma
                                           \/ \A k \in G : k > i => part[k] = Comma
  <2>3. ASSUME NEW i \in G PROVE A(a + i) <=> B(i)
    <3>1. line[a + i] = part[i]
      BY <1>9
    <3> QED BY <2>2, <3>1
  <2>4. IsAttributional(line, H) <=> \A j \in H : A(j)
    BY DEF IsAttributional
  <2>5. IsAttributional(part, G) <=> \A i \in G : B(i)
    BY DEF IsAttributional
  <2> HIDE DEF A, B
  <2>6. \A i \in G : a + i \in H
    BY <1>9
  <2>7. (\A j \in H : A(j)) <=> \A i \in G : A(a + i)
    BY <1>10, <2>6
  <2> QED BY <2>3, <2>4, <2>5, <2>7
<1>12. Tokens(line, H) = Tokens(part, G)
  <2> DEFINE S == {i \in G : part[i] # Comma \/ i - 1 \notin G}
             T == {i \in H : line[i] # Comma \/ i - 1 \notin H}
  <2>1. \A i \in G : i - 1 \in G <=> a + i - 1 \in H
    <3>1. \A i \in G : (a + i - 1) - a = i - 1 /\ a + i - 1 \in Int
      BY <1>0, <1>9
    <3> QED BY <1>7, <3>1
  <2>2. T = {a + i : i \in S}
    <3>1. ASSUME NEW i \in G PROVE a + i \in T <=> i \in S
      <4>1. PICK j : j = a + i
        OBVIOUS
      <4>2. j \in H /\ line[j] = part[i] /\ (j - 1 \in H <=> i - 1 \in G)
        <5>1. i \in Int /\ j = a + i /\ j - 1 = a + i - 1
          BY <1>0, <1>9, <4>1
        <5> QED BY <1>9, <2>1, <5>1
      <4> QED BY <4>1, <4>2
    <3>2. T \subseteq H /\ S \subseteq G
      OBVIOUS
    <3> HIDE DEF S, T
    <3> QED BY <1>10, <3>1, <3>2
  <2>3. S \in SUBSET (1 .. b - a)
    BY <1>6
  <2> HIDE DEF S, T
  <2>4. PICK k : k = b - a
    OBVIOUS
  <2>5. k \in Nat /\ S \in SUBSET (1 .. k) /\ a \in Int
    BY <1>0, <2>3, <2>4
  <2>6. Cardinality({a + i : i \in S}) = Cardinality(S)
    BY ONLY <2>5, CardinalityMoved
  <2>7. Tokens(line, H) = Cardinality(T) /\ Tokens(part, G) = Cardinality(S)
    BY DEF Tokens, S, T
  <2> QED BY <2>2, <2>6, <2>7
<1> QED BY <1>3, <1>11, <1>12

(* The figure of years that is attributed to a mention.                    *)
LEMMA FigureMoved ==
  ASSUME NEW line, NEW a, NEW b, NEW part, Part(line, a, b, part),
         NEW s, NEW t, s.left \in Int, s.right \in Int, 1 <= s.left, s.right <= b - a,
         t.left = a + s.left, t.right = a + s.right,
         NEW m, Located(m, Len(part)), NEW n, Moved(n, m, a)
  PROVE  /\ FigureFor(part, s, m) \subseteq 1 .. b - a
         /\ FigureFor(line, t, n) = {a + f : f \in FigureFor(part, s, m)}
<1> DEFINE A == {f \in At(part, s, DOMAIN Years) :
                   /\ IsAttributional(part, Gap(m, f)) /\ Tokens(part, Gap(m, f)) <= Proximity}
           B == {f \in At(line, t, DOMAIN Years) :
                   /\ IsAttributional(line, Gap(n, f)) /\ Tokens(line, Gap(n, f)) <= Proximity}
<1>0. a \in Nat /\ b - a \in Nat
  BY PartLengths
<1>1. /\ At(part, s, DOMAIN Years) \subseteq 1 .. b - a
      /\ At(line, t, DOMAIN Years) = {a + i : i \in At(part, s, DOMAIN Years)}
  BY AtMoved
<1>2. \A f \in 1 .. b - a : /\ IsAttributional(line, Gap(n, a + f)) <=> IsAttributional(part, Gap(m, f))
                            /\ Tokens(line, Gap(n, a + f)) = Tokens(part, Gap(m, f))
  BY GapMoved
<1>3. A \subseteq 1 .. b - a
  BY <1>1
<1>4. \A j : j \in B <=> \E f \in A : j = a + f
  <2>1. ASSUME NEW j \in B PROVE \E f \in A : j = a + f
    <3>1. PICK f \in At(part, s, DOMAIN Years) : j = a + f
      BY <1>1
    <3>2. f \in A
      BY <1>1, <1>2, <3>1
    <3> QED BY <3>1, <3>2
  <2>2. ASSUME NEW f \in A PROVE a + f \in B
    <3>1. f \in 1 .. b - a /\ a + f \in At(line, t, DOMAIN Years)
      BY <1>1
    <3> QED BY <1>2, <3>1
  <2> HIDE DEF A, B
  <2> QED BY <2>1, <2>2
<1>5. FigureFor(part, s, m) = {f \in A : \A g \in A : f <= g}
  BY DEF FigureFor
<1>6. FigureFor(line, t, n) = {f \in B : \A g \in B : f <= g}
  BY DEF FigureFor
<1> HIDE DEF A, B
<1>7. \A f, g \in A : a + f <= a + g <=> f <= g
  BY <1>0, <1>3
<1>8. \A j : j \in FigureFor(line, t, n) <=> \E f \in FigureFor(part, s, m) : j = a + f
  BY <1>4, <1>5, <1>6, <1>7
<1> QED BY <1>3, <1>5, <1>8

(* The level word of a list.                                               *)
LEMMA SharedMoved ==
  ASSUME NEW line, NEW a, NEW b, NEW part, Part(line, a, b, part),
         NEW m, Located(m, Len(part)), NEW n, Moved(n, m, a)
  PROVE  /\ SharedLevelWord(part, m) \subseteq 1 .. b - a
         /\ SharedLevelWord(line, n) = {a + i : i \in SharedLevelWord(part, m)}
<1>0. /\ a \in Nat /\ b - a \in Nat /\ Len(part) = b - a
      /\ \A k \in 1 .. b - a : a + k \in 1 .. Len(line) /\ line[a + k] = part[k]
  BY PartLengths
<1>1. PICK l, x, s, t : /\ l = SentenceBounds(part, m).left /\ x = m.from
                        /\ s = [left |-> l, right |-> x - 1]
                        /\ t = [left |-> SentenceBounds(line, n).left, right |-> n.from - 1]
  OBVIOUS
<1>2. l \in 1 .. x /\ x \in 1 .. b - a /\ n.from = a + x /\ t.left = a + l
  BY <1>0, <1>1, SentenceMoved DEF IsSentence, Located, Moved
<1>3. /\ s.left \in Int /\ s.right \in Int /\ 1 <= s.left /\ s.right <= b - a
      /\ t.left = a + s.left /\ t.right = a + s.right /\ t.right = a + x - 1
  BY <1>0, <1>1, <1>2
<1>4. PICK A, B : A = At(part, s, DOMAIN LevelRank) /\ B = At(line, t, DOMAIN LevelRank)
  OBVIOUS
<1>5. A \subseteq 1 .. b - a /\ B = {a + i : i \in A}
  BY <1>3, <1>4, AtMoved
<1>6. SharedLevelWord(part, m) =
        {i \in A : /\ \A j \in A : i >= j
                   /\ \A j \in i + 1 .. x - 1 : part[j] \notin ClauseMarks \cup DOMAIN Years}
  BY <1>1, <1>4 DEF SharedLevelWord
<1>7. SharedLevelWord(line, n) =
        {i \in B : /\ \A j \in B : i >= j
                   /\ \A j \in i + 1 .. t.right : line[j] \notin ClauseMarks \cup DOMAIN Years}
  BY <1>1, <1>4 DEF SharedLevelWord
<1>8. \A f, g \in A : a + f >= a + g <=> f >= g
  BY <1>0, <1>5
<1>9. ASSUME NEW i \in A
      PROVE  (\A j \in i + 1 .. x - 1 : part[j] \notin ClauseMarks \cup DOMAIN Years) <=>
             \A j \in a + i + 1 .. t.right : line[j] \notin ClauseMarks \cup DOMAIN Years
  <2>1. i \in 1 .. b - a
    BY <1>5
  <2>2. \A j \in i + 1 .. x - 1 : a + j \in a + i + 1 .. t.right /\ line[a + j] = part[j]
    BY <1>0, <1>2, <1>3, <2>1
  <2>3. \A j \in a + i + 1 .. t.right : j - a \in i + 1 .. x - 1 /\ a + (j - a) = j
    BY <1>0, <1>2, <1>3, <2>1
  <2>4. \A j \in a + i + 1 .. t.right : \E k \in i + 1 .. x - 1 : j = a + k
    BY <2>3
  <2> QED BY <2>2, <2>4
<1>10. \A j : j \in SharedLevelWord(line, n) <=> \E i \in SharedLevelWord(part, m) : j = a + i
  <2>1. ASSUME NEW i \in A PROVE a + i \in SharedLevelWord(line, n) <=> i \in SharedLevelWord(part, m)
    <3>1. (\A j \in B : a + i >= j) <=> \A j \in A : i >= j
      BY <1>5, <1>8
    <3>2. a + i \in B
      BY <1>5
    <3> QED BY <1>6, <1>7, <1>9, <3>1, <3>2
  <2>2. SharedLevelWord(line, n) \subseteq B /\ SharedLevelWord(part, m) \subseteq A
    BY <1>6, <1>7
  <2> QED BY <1>5, <2>1, <2>2
<1> QED BY <1>5, <1>6, <1>10

With(mentions, x) == {m \in mentions : m.alias = x}

(* The mentions of an alias that is not mentioned outside the part.        *)
LEMMA CountMoved ==
  ASSUME NEW a \in Nat, NEW b \in Nat, a <= b, NEW k, NEW U, NEW V, Same(U, V, a, b, k),
         NEW x, \A u \in U : u.alias = x => u.from \in a + 1 .. b
  PROVE  Cardinality(With(U, x)) = Cardinality(With(V, x))
<1> DEFINE S == {v \in V : v.alias = x}
           T == {u \in U : u.alias = x}
           at == [v \in S |-> v.from]
           f == [v \in S |-> Mention(v.alias, a + v.from)]
<1>1. \A v \in V : v = Mention(v.alias, v.from) /\ v.from \in 1 .. b - a
  BY DEF Same, Located
<1>2. IsFiniteSet(S)
  <2>1. at \in [S -> 1 .. b - a]
    BY <1>1
  <2>2. \A v, w \in S : at[v] = at[w] => v = w
    BY <1>1
  <2> HIDE DEF at, S
  <2>3. at \in Injection(S, 1 .. b - a)
    BY <2>1, <2>2 DEF Injection, IsInjective
  <2>4. IsFiniteSet(1 .. b - a)
    BY FS_Interval
  <2> QED BY <2>3, <2>4, FS_Injection
<1>3. ASSUME NEW u \in U, NEW v \in V, Moved(u, v, a)
      PROVE  u = Mention(v.alias, a + v.from) /\ u.alias = v.alias
  BY <1>3 DEF Same, Moved
<1>4. ASSUME NEW v \in S PROVE Mention(v.alias, a + v.from) \in T
  <2>1. PICK u \in U : Moved(u, v, a)
    BY DEF Same
  <2> QED BY <1>3, <2>1
<1>5. ASSUME NEW u \in T PROVE \E v \in S : u = Mention(v.alias, a + v.from)
  <2>1. PICK v \in V : Moved(u, v, a)
    BY DEF Same
  <2> QED BY <1>3, <2>1
<1>6. f \in [S -> T] /\ \A u \in T : \E v \in S : f[v] = u
  BY <1>4, <1>5
<1>7. \A v, w \in S : f[v] = f[w] => v = w
  <2>1. ASSUME NEW v \in S, NEW w \in S, f[v] = f[w] PROVE v = w
    <3>1. Mention(v.alias, a + v.from) = Mention(w.alias, a + w.from)
      BY <2>1
    <3>2. a + v.from = a + w.from /\ v.alias = w.alias
      BY <3>1 DEF Mention
    <3>3. v.from = w.from
      BY <1>1, <3>2
    <3> QED BY <1>1, <3>2, <3>3
  <2> QED BY <2>1
<1> HIDE DEF S, T, f
<1>8. f \in Bijection(S, T)
  BY <1>6, <1>7 DEF Bijection, Injection, IsInjective, Surjection
<1>9. ExistsBijection(S, T)
  BY <1>8 DEF ExistsBijection
<1>10. Cardinality(T) = Cardinality(S)
  BY <1>2, <1>9, FS_Bijection
<1> QED BY <1>10 DEF S, T, With

(* Years, level words and counts of a mention are those of its part.       *)
LEMMA RankMoved ==
  ASSUME NEW line, NEW a, NEW b, NEW part, Part(line, a, b, part),
         NEW U, NEW V, Same(U, V, a, b, Len(line)),
         NEW m \in V, NEW n, Moved(n, m, a),
         \A u \in U : u.alias = n.alias => u.from \in a + 1 .. b
  PROVE  RankOf(line, U, n) = RankOf(part, V, m)
<1>0. /\ a \in Nat /\ b \in Nat /\ a <= b /\ b - a \in Nat /\ Len(part) = b - a
      /\ \A k \in 1 .. b - a : a + k \in 1 .. Len(line) /\ line[a + k] = part[k]
  BY PartLengths DEF Part
<1>1. Located(m, Len(part)) /\ n.alias = m.alias
  BY <1>0 DEF Same, Moved
<1>2. PICK s, t : s = ScopeBounds(part, V, m) /\ t = ScopeBounds(line, U, n)
  OBVIOUS
<1>3. /\ s.left \in Int /\ s.right \in Int /\ 1 <= s.left /\ s.right <= b - a
      /\ t.left = a + s.left /\ t.right = a + s.right
  <2>1. s.left \in 1 .. m.from /\ s.right \in m.to .. b - a
    BY <1>2, ScopeMoved
  <2>2. m.from \in Int /\ m.to \in Int
    BY <1>0, <1>1 DEF Located
  <2> QED BY <1>0, <1>2, <2>1, <2>2, ScopeMoved
<1>4. PICK F, G, O, P, S, T, c, d :
        /\ F = FigureFor(part, s, m) /\ G = FigureFor(line, t, n)
        /\ O = At(part, s, DOMAIN LevelRank) /\ P = At(line, t, DOMAIN LevelRank)
        /\ S = SharedLevelWord(part, m) /\ T = SharedLevelWord(line, n)
        /\ c = CountRank(Cardinality({v \in V : v.alias = m.alias}))
        /\ d = CountRank(Cardinality({u \in U : u.alias = n.alias}))
  OBVIOUS
<1>5. F \subseteq 1 .. b - a /\ G = {a + f : f \in F}
  BY <1>1, <1>3, <1>4, FigureMoved
<1>6. O \subseteq 1 .. b - a /\ P = {a + i : i \in O}
  BY <1>3, <1>4, AtMoved
<1>7. S \subseteq 1 .. b - a /\ T = {a + i : i \in S}
  BY <1>1, <1>4, SharedMoved
<1>8. c = d
  <2>1. PICK x, k : x = m.alias /\ k = Len(line)
    OBVIOUS
  <2>2. Same(U, V, a, b, k) /\ \A u \in U : u.alias = x => u.from \in a + 1 .. b
    BY <1>1, <2>1
  <2>3. Cardinality(With(U, x)) = Cardinality(With(V, x))
    <3>1. a \in Nat /\ b \in Nat /\ a <= b
      BY <1>0
    <3> QED BY ONLY <2>2, <3>1, CountMoved
  <2> QED BY <1>1, <1>4, <2>1, <2>3 DEF With
<1>9. {YearsRank(Years[line[f]]) : f \in G} = {YearsRank(Years[part[f]]) : f \in F}
  <2>1. \A f \in F : YearsRank(Years[line[a + f]]) = YearsRank(Years[part[f]])
    BY <1>0, <1>5
  <2> QED BY <1>5, <2>1
<1>10. {LevelRank[line[i]] : i \in P} = {LevelRank[part[i]] : i \in O}
  <2>1. \A i \in O : LevelRank[line[a + i]] = LevelRank[part[i]]
    BY <1>0, <1>6
  <2> QED BY <1>6, <2>1
<1>11. {LevelRank[line[i]] : i \in T} = {LevelRank[part[i]] : i \in S}
  <2>1. \A i \in S : LevelRank[line[a + i]] = LevelRank[part[i]]
    BY <1>0, <1>7
  <2> QED BY <1>7, <2>1
<1>12. (F = {} <=> G = {}) /\ (O = {} <=> P = {}) /\ (S = {} <=> T = {})
  BY <1>5, <1>6, <1>7
<1>13. PICK r, q : r = RankOf(part, V, m) /\ q = RankOf(line, U, n)
  OBVIOUS
<1>14. /\ F # {} => r = Max({YearsRank(Years[part[f]]) : f \in F})
       /\ F = {} /\ O # {} => r = Max({LevelRank[part[i]] : i \in O})
       /\ F = {} /\ O = {} /\ S # {} => r = Max({LevelRank[part[i]] : i \in S})
       /\ F = {} /\ O = {} /\ S = {} => r = c
  BY <1>2, <1>4, <1>13 DEF RankOf
<1>15. /\ G # {} => q = Max({YearsRank(Years[line[f]]) : f \in G})
       /\ G = {} /\ P # {} => q = Max({LevelRank[line[i]] : i \in P})
       /\ G = {} /\ P = {} /\ T # {} => q = Max({LevelRank[line[i]] : i \in T})
       /\ G = {} /\ P = {} /\ T = {} => q = d
  BY <1>2, <1>4, <1>13 DEF RankOf
<1>16. /\ F # {} => q = r
       /\ F = {} /\ O # {} => q = r
       /\ F = {} /\ O = {} /\ S # {} => q = r
       /\ F = {} /\ O = {} /\ S = {} => q = r
  <2>1. F # {} => q = r
    BY ONLY <1>9, <1>12, <1>14, <1>15
  <2>2. F = {} /\ O # {} => q = r
    BY ONLY <1>10, <1>12, <1>14, <1>15
  <2>3. F = {} /\ O = {} /\ S # {} => q = r
    BY ONLY <1>11, <1>12, <1>14, <1>15
  <2>4. F = {} /\ O = {} /\ S = {} => q = r
    BY ONLY <1>8, <1>12, <1>14, <1>15
  <2> QED BY ONLY <2>1, <2>2, <2>3, <2>4
<1> QED BY <1>13, <1>16

-----------------------------------------------------------------------------
(***************************************************************************)
(* Sentences apart                                                         *)
(***************************************************************************)

(* A skill that is mentioned in the part and nowhere else has the level    *)
(* the part gives it.                                                      *)
LEMMA ScoreMoved ==
  ASSUME NEW line, NEW a, NEW b, NEW part, Part(line, a, b, part),
         Same(MentionSpans(line), MentionSpans(part), a, b, Len(line)),
         NEW s \in DOMAIN Scores(part),
         \A u \in MentionSpans(line) : u.skill = s => u.from \in a + 1 .. b
  PROVE  s \in DOMAIN Scores(line) /\ Scores(line)[s] = Scores(part)[s]
<1>1. PICK U, V : U = MentionSpans(line) /\ V = MentionSpans(part)
  OBVIOUS
<1>2. Same(U, V, a, b, Len(line)) /\ \A u \in U : u.skill = s => u.from \in a + 1 .. b
  BY <1>1
<1> DEFINE R == {RankOf(line, U, m) : m \in {x \in U : x.skill = s}}
           Q == {RankOf(part, V, m) : m \in {x \in V : x.skill = s}}
<1>3. Scores(line) = [x \in {m.skill : m \in U} |-> Max({RankOf(line, U, m) : m \in {n \in U : n.skill = x}})]
  BY <1>1 DEF Scores
<1>4. Scores(part) = [x \in {m.skill : m \in V} |-> Max({RankOf(part, V, m) : m \in {n \in V : n.skill = x}})]
  BY <1>1 DEF Scores
<1>5. s \in {m.skill : m \in V}
  BY <1>4
<1>6. ASSUME NEW u \in U, NEW v \in V, Moved(u, v, a)
      PROVE  u.skill = v.skill /\ (u.skill = s => RankOf(line, U, u) = RankOf(part, V, v))
  <2>1. \A x \in U : x.skill = SkillOf[x.alias]
    BY <1>2 DEF Same, Mention
  <2>2. ASSUME u.skill = s PROVE \A x \in U : x.alias = u.alias => x.from \in a + 1 .. b
    BY <1>2, <2>1, <2>2
  <2>3. u.skill = s => RankOf(line, U, u) = RankOf(part, V, v)
    BY <1>2, <1>6, <2>2, RankMoved
  <2> QED BY <1>6, <2>3 DEF Moved
<1>7. \A u \in U : u.skill = s => \E v \in V : Moved(u, v, a)
  BY <1>2 DEF Same
<1>8. \A v \in V : \E u \in U : Moved(u, v, a)
  BY <1>2 DEF Same
<1>9. s \in {m.skill : m \in U}
  BY <1>5, <1>6, <1>8
<1>10. R = Q
  <2>1. ASSUME NEW u \in U, u.skill = s
        PROVE  \E v \in V : v.skill = s /\ RankOf(line, U, u) = RankOf(part, V, v)
    BY <1>6, <1>7, <2>1
  <2>2. ASSUME NEW v \in V, v.skill = s
        PROVE  \E u \in U : u.skill = s /\ RankOf(line, U, u) = RankOf(part, V, v)
    <3>1. PICK u \in U : Moved(u, v, a)
      BY <1>8
    <3> QED BY <1>6, <2>2, <3>1
  <2> QED BY <2>1, <2>2
<1>11. Scores(line)[s] = Max(R) /\ Scores(part)[s] = Max(Q)
  BY <1>3, <1>4, <1>5, <1>9
<1> HIDE DEF R, Q
<1> QED BY <1>3, <1>9, <1>10, <1>11

(* What lies between two breaks, or an end and a break, is a part.         *)
LEMMA PartAt ==
  ASSUME NEW line \in Seq(DOMAIN Width), NEW a \in Nat, NEW b \in Nat, a <= b, b <= Len(line),
         a = 0 \/ line[a] = Stop, b = Len(line) \/ line[b + 1] = Stop
  PROVE  Part(line, a, b, SubSeq(line, a + 1, b))
<1>1. PICK i, p : i = a + 1 /\ p = SubSeq(line, i, b)
  OBVIOUS
<1>2. i \in Int /\ b \in Int /\ \A k \in i .. b : line[k] \in DOMAIN Width
  <2>1. \A k \in 1 .. Len(line) : line[k] \in DOMAIN Width
    BY ElementOfSeq
  <2> QED BY <1>1, <2>1, LenProperties
<1>3. /\ SubSeq(line, i, b) \in Seq(DOMAIN Width)
      /\ Len(SubSeq(line, i, b)) = IF i <= b THEN b - i + 1 ELSE 0
      /\ \A k \in 1 .. b - i + 1 : SubSeq(line, i, b)[k] = line[i + k - 1]
  BY ONLY <1>2, SubSeqProperties
<1>4. Len(p) = b - a
  <2>1. CASE i <= b
    BY <1>1, <1>3, <2>1
  <2>2. CASE ~(i <= b)
    BY <1>1, <1>3, <2>2
  <2> QED BY <2>1, <2>2
<1>5. \A k \in 1 .. b - a : p[k] = line[a + k]
  <2>1. b - i + 1 = b - a /\ \A k \in 1 .. b - a : i + k - 1 = a + k
    BY <1>1
  <2> QED BY <1>1, <1>3, <2>1
<1>6. Part(line, a, b, p)
  BY <1>1, <1>3, <1>4, <1>5 DEF Part
<1> QED BY <1>1, <1>6

(* Nothing but "led ... to" reaches across a stop.                         *)
LEMMA SentencesApartAlways ==
  ASSUME NEW line \in Seq(DOMAIN Width)
  PROVE  SentencesApart(line)
<1> DEFINE spans == MentionSpans(line)
           whole == Scores(line)
<1>1. SUFFICES ASSUME NEW i \in 1 .. Len(line), line[i] = Stop, ~VoidedAcross(line, spans, i)
               PROVE  LET before == Scores(SubSeq(line, 1, i - 1))
                          after  == Scores(SubSeq(line, i + 1, Len(line)))
                      IN  /\ DOMAIN whole = DOMAIN before \cup DOMAIN after
                          /\ \A s \in DOMAIN before \ DOMAIN after : whole[s] = before[s]
                          /\ \A s \in DOMAIN after \ DOMAIN before : whole[s] = after[s]
  BY DEF SentencesApart
<1>2. PICK p, q, N : p = SubSeq(line, 1, i - 1) /\ q = SubSeq(line, i + 1, Len(line)) /\ N = Len(line)
  OBVIOUS
<1>3. N \in Nat /\ i \in 1 .. N
  BY <1>2, LenProperties
<1>4. Part(line, 0, i - 1, p)
  <2>1. i - 1 \in Nat /\ i - 1 <= Len(line) /\ (i - 1) + 1 = i /\ 0 + 1 = 1
    BY <1>2, <1>3
  <2>2. PICK a, b : a = 0 /\ b = i - 1
    OBVIOUS
  <2>3. a \in Nat /\ b \in Nat /\ a <= b /\ b <= Len(line) /\ line[b + 1] = Stop /\ a = 0
    BY <1>1, <2>1, <2>2
  <2>4. Part(line, a, b, SubSeq(line, a + 1, b))
    BY <2>3, PartAt
  <2> QED BY <1>2, <2>1, <2>2, <2>4
<1>5. Part(line, i, N, q)
  <2>1. i \in Nat /\ i <= N
    BY <1>3
  <2> QED BY <1>1, <1>2, <1>3, <2>1, PartAt
<1>6. PICK U, V, W : U = MentionSpans(line) /\ V = MentionSpans(p) /\ W = MentionSpans(q)
  OBVIOUS
<1>7. Same(U, W, i, N, N)
  BY <1>2, <1>5, <1>6, MentionSpansSame
<1>8. Same(U, V, 0, i - 1, N)
  <2>1. ASSUME NEW v \in V, v.alias \in DOMAIN Causative PROVE \E u \in U : Moved(u, v, 0)
    <3>1. v \in U
      BY <1>1, <1>2, <1>6, <2>1 DEF VoidedAcross
    <3>2. Located(v, N)
      BY <1>7, <3>1 DEF Same
    <3>3. v.from \in Int /\ v.to \in Int
      BY <1>3, <3>2 DEF Located
    <3>4. Moved(v, v, 0)
      BY <3>3 DEF Moved
    <3> QED BY <3>1, <3>4
  <2> QED BY <1>2, <1>4, <1>6, <2>1, MentionSpansSame
<1>9. /\ DOMAIN whole = {m.skill : m \in U}
      /\ DOMAIN Scores(p) = {m.skill : m \in V}
      /\ DOMAIN Scores(q) = {m.skill : m \in W}
  BY <1>6 DEF Scores
<1>10. ASSUME NEW u \in U
       PROVE  /\ u.from \in 1 .. i - 1 \/ u.from \in i + 1 .. N
              /\ u.from \in 1 .. i - 1 => \E v \in V : u.skill = v.skill
              /\ u.from \in i + 1 .. N => \E w \in W : u.skill = w.skill
  <2>1. Located(u, N) /\ (u.from <= i => u.to < i)
    BY <1>7 DEF Same
  <2>2. u.from \in 1 .. N /\ u.to \in u.from .. N
    BY <2>1 DEF Located
  <2>3. u.from \in 1 .. i - 1 \/ u.from \in i + 1 .. N
    BY <1>3, <2>1, <2>2
  <2>4. u.from \in i + 1 .. N => \E w \in W : u.skill = w.skill
    BY <1>7 DEF Same, Moved
  <2>5. u.from \in 0 + 1 .. i - 1 => \E v \in V : u.skill = v.skill
    BY <1>8 DEF Same, Moved
  <2> QED BY <1>3, <2>3, <2>4, <2>5
<1>11. /\ \A v \in V : \E u \in U : u.skill = v.skill
       /\ \A w \in W : \E u \in U : u.skill = w.skill
  BY <1>7, <1>8 DEF Same, Moved
<1>12. DOMAIN whole = DOMAIN Scores(p) \cup DOMAIN Scores(q)
  BY <1>9, <1>10, <1>11
<1>13. ASSUME NEW s \in DOMAIN Scores(p) \ DOMAIN Scores(q) PROVE whole[s] = Scores(p)[s]
  <2>1. \A u \in U : u.skill = s => u.from \in 0 + 1 .. i - 1
    BY <1>3, <1>9, <1>10
  <2> QED BY <1>2, <1>4, <1>6, <1>8, <2>1, ScoreMoved
<1>14. ASSUME NEW s \in DOMAIN Scores(q) \ DOMAIN Scores(p) PROVE whole[s] = Scores(q)[s]
  <2>1. \A u \in U : u.skill = s => u.from \in i + 1 .. N
    BY <1>9, <1>10
  <2> QED BY <1>2, <1>5, <1>6, <1>7, <2>1, ScoreMoved
<1> QED BY <1>2, <1>12, <1>13, <1>14

(* For every text, vocabulary, alias and pattern, names with a dot in them *)
(* included: a level above the lowest has its reason near a mention of its *)
(* skill, with no break between, and what stands beyond a stop neither     *)
(* adds a skill nor changes its level, but for the "to" that voids a "led" *)
(* (_score_mentions and what it calls).                                    *)
THEOREM EvidenceStaysOwn == EngineSpec => []EvidenceIsOwn
<1>1. EngineInv => EvidenceIsOwn
  <2> SUFFICES ASSUME EngineInv PROVE EvidenceIsOwn
    OBVIOUS
  <2>1. text \in Seq(Words) /\ Words \subseteq DOMAIN Width
    BY EngineAssumption DEF EngineInv, EngineTypeOK
  <2>2. text \in Seq(DOMAIN Width)
    BY <2>1, LenProperties
  <2> QED BY <2>2, WarrantedAlways, SentencesApartAlways DEF EvidenceIsOwn
<1> QED BY <1>1, EngineInvariant, PTL
=============================================================================
