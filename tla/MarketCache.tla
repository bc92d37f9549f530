---------------------------- MODULE MarketCache ----------------------------
(***************************************************************************)
(* The cached market report of one role: get_market_insights of            *)
(* app/services.py and the table market_reports.  Reports of different     *)
(* roles share nothing: the normalised role selects the row.               *)
(*                                                                         *)
(* A request suspends at the SELECT, at the provider, at the commit and at *)
(* the re-read.  The UPDATE the session sends names only the columns whose *)
(* new value differs from the value it loaded; the unique constraint on    *)
(* the role makes the second of two INSERTs fail.                          *)
(***************************************************************************)
EXTENDS Integers

CONSTANTS
  Requests,     \* GET /market/insights requests for the role
  Contents,     \* reports an LLM may write
  Models,       \* names of LLM models
  Snapshot,     \* the rule-based report
  NoModel,      \* model_used of a rule-based report
  NoRow,        \* scalar_one_or_none() found nothing
  NoOutcome,    \* the engine call has not returned
  TTL,          \* Settings.market_cache_minutes
  MaxDuration,  \* bound: no request takes longer (ai_timeout_seconds limits
                \* each wait of the call, not their sum)
  MaxTime       \* bound: the clock stops here

ASSUME CacheAssumption ==
  /\ {TTL, MaxDuration, MaxTime} \subseteq Nat
  /\ Snapshot \notin Contents /\ NoModel \notin Models

(* What SkillEngine.market_insights returns: the report of the provider,   *)
(* or the rule-based one when there is no provider or its failure is an    *)
(* AIError.  After any other exception it does not return (EngineRaises).  *)
RuleBased == [content |-> Snapshot, engine |-> "rule_based", model |-> NoModel]
Outcomes == {RuleBased}
              \cup [content : Contents, engine : {"llm"}, model : Models]

Rows == [content : Contents \cup {Snapshot}, engine : {"llm", "rule_based"},
         model : Models \cup {NoModel}, refreshed : Nat]
Stored(o, t) == [content |-> o.content, engine |-> o.engine, model |-> o.model,
                 refreshed |-> t]

ASSUME SentinelAssumption == NoRow \notin Rows /\ NoOutcome \notin Outcomes

VARIABLES
  now,
  row,       \* the row of the role, or NoRow
  phase,     \* phase[r]: what request r does next, see Phases
  begin,     \* begin[r]: the local variable now
  refresh,   \* refresh[r]: the parameter
  loaded,    \* loaded[r]: the row as the SELECT found it
  outcome,   \* outcome[r], or NoOutcome
  answer,    \* answer[r]: the report, engine, model and refreshed_at returned
  born,      \* history: born[c], when an engine last produced content c
  overlap    \* history: some UPDATE met another row than it had loaded

cache_vars == <<now, row, phase, begin, refresh, loaded, outcome, answer, born,
                overlap>>

(* lost: another request's INSERT came first.  failed: an exception ended  *)
(* the request, the client gets a 500.                                     *)
Phases == {"idle", "select", "generate", "commit", "reread", "lost", "done", "failed"}

Goto(r, p) == phase' = [phase EXCEPT ![r] = p]

Return(r, a) == answer' = [answer EXCEPT ![r] = a] /\ Goto(r, "done")

Begin(r, f) ==
  /\ phase[r] = "idle"
  /\ Goto(r, "select")
  /\ begin' = [begin EXCEPT ![r] = now]
  /\ refresh' = [refresh EXCEPT ![r] = f]
  /\ UNCHANGED <<now, row, loaded, outcome, answer, born, overlap>>

(* Wrong on purpose: the age is not looked at.                             *)
UsableAnyAge(r) == row # NoRow /\ ~refresh[r]

(* The row may be served as it is.  Its age is negative when it was        *)
(* written after the request took the time.                                *)
Usable(r) == row # NoRow /\ ~refresh[r] /\ begin[r] - row.refreshed <= TTL

Select(r) ==
  /\ phase[r] = "select"
  /\ loaded' = [loaded EXCEPT ![r] = row]
  /\ \/ Usable(r) /\ Return(r, row)
     \/ ~Usable(r) /\ Goto(r, "generate") /\ UNCHANGED answer
  /\ UNCHANGED <<now, row, begin, refresh, outcome, born, overlap>>

Generate(r) ==
  /\ phase[r] = "generate"
  /\ Goto(r, "commit")
  /\ \E o \in Outcomes : /\ outcome' = [outcome EXCEPT ![r] = o]
                         /\ born' = [born EXCEPT ![o.content] = now]
  /\ UNCHANGED <<now, row, begin, refresh, loaded, answer, overlap>>

(* The exception is no AIError: a body that is not JSON, a message without *)
(* content.  The rule-based report is lost with the request; the session   *)
(* has written nothing.                                                    *)
EngineRaises(r) ==
  /\ phase[r] = "generate"
  /\ Goto(r, "failed")
  /\ UNCHANGED <<now, row, begin, refresh, loaded, outcome, answer, born, overlap>>

(* Wrong on purpose: the IntegrityError of the losing INSERT escapes.      *)
InsertUncaught(r) ==
  /\ phase[r] = "commit"
  /\ loaded[r] = NoRow
  /\ IF row = NoRow
       THEN row' = Stored(outcome[r], now) /\ Goto(r, "reread")
       ELSE Goto(r, "failed") /\ UNCHANGED row
  /\ UNCHANGED <<now, begin, refresh, loaded, outcome, answer, born, overlap>>

(* The column default stamps an INSERT with the time it is executed.  The  *)
(* loser of two INSERTs rolls back.                                        *)
Insert(r) ==
  /\ phase[r] = "commit"
  /\ loaded[r] = NoRow
  /\ IF row = NoRow
       THEN row' = Stored(outcome[r], now) /\ Goto(r, "reread")
       ELSE Goto(r, "lost") /\ UNCHANGED row
  /\ UNCHANGED <<now, begin, refresh, loaded, outcome, answer, born, overlap>>

(* Wrong on purpose: model_used is only assigned when there is a model.    *)
WrittenKeepingModel(r) ==
  LET new == Stored(outcome[r], begin[r])
  IN  [c \in DOMAIN new |->
         IF new[c] = loaded[r][c] \/ new[c] = NoModel THEN row[c] ELSE new[c]]

(* Wrong on purpose: only the stamp is renewed.                            *)
WrittenStampOnly(r) == [row EXCEPT !.refreshed = begin[r]]

(* The row after the UPDATE.  refreshed_at is always among its columns: it *)
(* is set to an aware time and was loaded as a naive one.                  *)
Written(r) ==
  LET new == Stored(outcome[r], begin[r])
  IN  [c \in DOMAIN new |->
         IF c # "refreshed" /\ new[c] = loaded[r][c] THEN row[c] ELSE new[c]]

Update(r) ==
  /\ phase[r] = "commit"
  /\ loaded[r] # NoRow
  /\ row' = Written(r)
  /\ overlap' = (overlap \/ row # loaded[r])
  /\ Goto(r, "reread")
  /\ UNCHANGED <<now, begin, refresh, loaded, outcome, answer, born>>

(* session.refresh: the stamp returned is the one in the table by now, the *)
(* report, engine and model are the request's own.                         *)
Reread(r) ==
  /\ phase[r] = "reread"
  /\ Return(r, Stored(outcome[r], row.refreshed))
  /\ UNCHANGED <<now, row, begin, refresh, loaded, outcome, born, overlap>>

ServeWinner(r) ==
  /\ phase[r] = "lost"
  /\ Return(r, row)
  /\ UNCHANGED <<now, row, begin, refresh, loaded, outcome, born, overlap>>

InFlight == {r \in Requests : phase[r] \notin {"idle", "done", "failed"}}

(* No request is in flight for longer than MaxDuration.                    *)
Tick == /\ now < MaxTime
        /\ \A r \in InFlight : now < begin[r] + MaxDuration
        /\ now' = now + 1
        /\ UNCHANGED <<row, phase, begin, refresh, loaded, outcome, answer, born,
                       overlap>>

Init == /\ now = 0
        /\ row = NoRow
        /\ phase = [r \in Requests |-> "idle"]
        /\ begin = [r \in Requests |-> 0]
        /\ refresh = [r \in Requests |-> FALSE]
        /\ loaded = [r \in Requests |-> NoRow]
        /\ outcome = [r \in Requests |-> NoOutcome]
        /\ answer = [r \in Requests |-> NoRow]
        /\ born = [c \in Contents \cup {Snapshot} |-> 0]
        /\ overlap = FALSE

Next == \/ \E r \in Requests, f \in BOOLEAN : Begin(r, f)
        \/ \E r \in Requests : \/ Select(r) \/ Generate(r) \/ EngineRaises(r) \/ Insert(r)
                               \/ Update(r) \/ Reread(r) \/ ServeWinner(r)
        \/ Tick

Spec == Init /\ [][Next]_cache_vars

-----------------------------------------------------------------------------
(***************************************************************************)
(* Properties                                                              *)
(***************************************************************************)

(* Type invariant.                                                         *)
TypeOK ==
  /\ now \in Nat
  /\ row \in Rows \cup {NoRow}
  /\ phase \in [Requests -> Phases]
  /\ begin \in [Requests -> Nat]
  /\ refresh \in [Requests -> BOOLEAN]
  /\ loaded \in [Requests -> Rows \cup {NoRow}]
  /\ outcome \in [Requests -> Outcomes \cup {NoOutcome}]
  /\ answer \in [Requests -> Rows \cup {NoRow}]
  /\ born \in [Contents \cup {Snapshot} -> Nat]
  /\ overlap \in BOOLEAN

(* Nothing but the engine fails a request: one whose engine call returned, *)
(* whatever others inserted or updated meanwhile, is answered, and every   *)
(* answer is a report.  The loser of the cold-start race finds the         *)
(* winner's row (get_market_insights).                                     *)
EngineAnswersServed ==
  \A r \in Requests : /\ phase[r] = "failed" => outcome[r] = NoOutcome
                      /\ phase[r] = "done" => answer[r] \in Rows

Slack == IF TTL > MaxDuration THEN TTL ELSE MaxDuration

(* No answer carries a refreshed_at that was already older than the TTL,   *)
(* or than the longest request, when its request began: not a cached one,  *)
(* not the winner's row served after a lost race, and not a regenerated    *)
(* one whose stamp a slower request has meanwhile set back.                *)
AnswerAge ==
  \A r \in Requests :
    phase[r] = "done" => answer[r].refreshed + Slack >= begin[r]

(* refreshed_at does not flatter the report: whatever updates overlapped,  *)
(* an engine produced the stored content no longer than the duration of a  *)
(* request before the time the row claims.                                 *)
RefreshedHonest ==
  row # NoRow => born[row.content] + MaxDuration >= row.refreshed

FromOneOutcome(x) == \E o \in Outcomes : x = Stored(o, x.refreshed)

(* Without overlapping updates, content, engine_used and model_used of the *)
(* row are those of one and the same outcome.                              *)
IntactWithoutOverlap == row # NoRow /\ ~overlap => FromOneOutcome(row)

(* A request takes the time before it waits, and no longer than            *)
(* MaxDuration.                                                            *)
InTime(r) == /\ begin[r] <= now
             /\ r \in InFlight => now <= begin[r] + MaxDuration

(* r has an outcome once its engine call returned.  What was written to    *)
(* the row while r had not committed is recent: a row that was not there   *)
(* when r looked, content other than r loaded, and what r or the winner of *)
(* its race has stored.                                                    *)
Recent(r) ==
  /\ phase[r] \in {"idle", "select", "generate"} => outcome[r] = NoOutcome
  /\ phase[r] \in {"commit", "reread", "lost"} => outcome[r] \in Outcomes
  /\ loaded[r] # NoRow => row # NoRow
  /\ phase[r] \in {"generate", "commit"} /\ loaded[r] = NoRow /\ row # NoRow
       => row.refreshed + MaxDuration >= begin[r]
  /\ phase[r] \in {"generate", "commit"} /\ loaded[r] # NoRow
       => \/ row.content = loaded[r].content
          \/ born[row.content] + MaxDuration >= begin[r]
  /\ phase[r] = "commit" => born[outcome[r].content] >= begin[r]
  /\ phase[r] \in {"reread", "lost"}
       => row # NoRow /\ row.refreshed + MaxDuration >= begin[r]

(* The inductive invariant behind the safety properties.                   *)
CacheInv ==
  /\ TypeOK
  /\ row # NoRow => row.refreshed <= now
  /\ \A r \in Requests : InTime(r) /\ Recent(r)
  /\ EngineAnswersServed /\ AnswerAge /\ RefreshedHonest /\ IntactWithoutOverlap
=============================================================================
