---------------------------- MODULE SkillEngine ----------------------------
(***************************************************************************)
(* SkillEngine of app/ai/engine.py with the providers of ai/provider.py:   *)
(* a user writes a narrative, has it assessed, and asks for learning paths *)
(* from the assessment and for a resume.                                   *)
(*                                                                         *)
(* Every call first computes the answer of the rules, then, with a         *)
(* provider, waits for its reply, and returns the one or the other.  An    *)
(* exception of the rules, or one of the provider that is no AIError,      *)
(* leaves the call without an answer.                                      *)
(***************************************************************************)
EXTENDS SkillScoring

CONSTANTS
  Families,    \* <<[title, required, recommended], ...>>   (ROLE_PROFILES)
  FallbackRole, \* the profile of any other role            (_FALLBACK_ROLE)
  Roles,       \* target roles asked for: the words of each
  Templates,   \* skills that have a module                (_MODULE_TEMPLATES)
  Defaults,    \* modules of a path with nothing to cover
  MaxGaps, MaxModules,
  Vocabularies, \* sets of words; a narrative is written in those of one
  MaxWords,    \* bound: length of a narrative
  ProviderAssessments \* bound: what a provider may answer, any names as gaps

Words == UNION Vocabularies

Profiles    == [title : SUBSET STRING, required : Seq(STRING), recommended : Seq(STRING)]
Assessments == [gaps : Seq(STRING), readiness : 0 .. 100]   \* AssessmentResult

ASSUME EngineAssumption ==
  /\ MaxGaps \in Nat /\ MaxWords \in Nat
  /\ MaxModules \in Nat \ {0, 1}
  /\ Templates \subseteq STRING
  /\ Defaults \in Seq(Templates) \ {<< >>} /\ IsInjective(Defaults)
  /\ Families \in Seq(Profiles) /\ FallbackRole \in Profiles
  /\ \A i \in DOMAIN Families : IsFiniteSet(Families[i].title)
  /\ ProviderAssessments \subseteq Assessments
  /\ Words \subseteq DOMAIN Width

VARIABLES
  text,        \* the narrative being written
  stage,       \* what the engine is doing; "failed" when the call has raised
  fallback,    \* the value the rules have computed for the call
  assessment,  \* the stored assessment, as a set
  path         \* the last learning path, as a set

engine_vars == <<text, stage, fallback, assessment, path>>

-----------------------------------------------------------------------------
(* The rules.                                                              *)

(* The family whose title shares most words with the role, the first of    *)
(* those that share as many; none shares a word of no role.                *)
RoleProfile(role) ==
  LET overlap(i) == Cardinality(Families[i].title \cap role)
      best == {i \in DOMAIN Families :
                 overlap(i) > 0 /\ \A j \in DOMAIN Families : overlap(j) <= overlap(i)}
  IN  IF best = {} THEN FallbackRole ELSE Families[Min(best)]

Take(s, n) == SubSeq(s, 1, Min({n, Len(s)}))

Unless(found, missing, name) == IF name \in found THEN missing ELSE Append(missing, name)

(* The names of skills that were not found.                                *)
Missing(names, found) ==
  LET missing[n \in 0 .. Len(names)] ==
        IF n = 0 THEN << >> ELSE Unless(found, missing[n - 1], names[n])
  IN  missing[Len(names)]

Covered(names, found) == Len(names) - Len(Missing(names, found))

Base(profile, found) ==
  IF profile.required = << >> THEN 40
  ELSE (100 * Covered(profile.required, found)) \div Len(profile.required)
Bonus(profile, found) == 5 * Min({Covered(profile.recommended, found), 2})

(* Wrong on purpose: the bonus is not capped at 100.                       *)
ReadinessUncapped(profile, found) == Base(profile, found) + Bonus(profile, found)

Readiness(profile, found) == Min({100, Base(profile, found) + Bonus(profile, found)})

(* _rule_based_assessment: the fields a path or a property looks at.       *)
RuleBasedAssessment(words, role) ==
  LET profile == RoleProfile(role)
      found   == DOMAIN Scores(words)
  IN  [gaps |-> Take(Missing(profile.required, found) \o Missing(profile.recommended, found),
                     MaxGaps),
       readiness |-> Readiness(profile, found)]

(* Wrong on purpose: a skill may have two modules.                         *)
AddAgain(ordered, name) ==
  IF name \in Templates THEN Append(ordered, name) ELSE ordered

Add(ordered, name) ==
  IF name \in Templates /\ name \notin ToSet(ordered) THEN Append(ordered, name) ELSE ordered

(* The loop: what is ordered after the first n of the names.               *)
Ordered(names) ==
  LET ordered[n \in 0 .. Len(names)] ==
        IF n = 0 THEN << >> ELSE Add(ordered[n - 1], names[n])
  IN  ordered

(* _rule_based_learning_path: the skills of its modules.                   *)
RuleBasedPath(gaps, role) ==
  LET profile == RoleProfile(role)
      names   == gaps \o profile.required \o profile.recommended
      ordered == Ordered(names)[Len(names)]
  IN  Take(IF ordered = << >> THEN Defaults ELSE ordered, MaxModules)

(* Lines of a resume's texts: "space" is white space only, "bare" bullet    *)
(* characters only.                                                        *)
Lines == {"empty", "space", "bare", "prose"}
Blank == {"empty", "space"}

(* _bullets_from takes the first word of every line that is not blank.     *)
BulletsRaise(lines) == "bare" \in ToSet(lines)

(* A paragraph of the experience gives its first line to the title, when   *)
(* anything follows; one of the projects gives all its lines.  A single    *)
(* blank line at the start is part of the paragraph that follows, one of   *)
(* white space at the end of the one before.                               *)
ResumeRaises(experience, projects) ==
  \/ BulletsRaise(projects)
  \/ \E i \in 1 .. Len(experience) :
       LET first == i = 1 \/ (i > 2 /\ experience[i - 1] \in Blank)
           last  == \/ i = Len(experience)
                    \/ experience[i + 1] = "empty"
                    \/ experience[i + 1] = "space" /\ i + 1 < Len(experience)
       IN  experience[i] = "bare" /\ (first => last)

-----------------------------------------------------------------------------
(* The provider's replies: a valid answer, what complete_json turns into   *)
(* an AIError, and what it lets through: a body that is not JSON, and a    *)
(* message without content.  Whether there is a provider is fixed when the *)
(* process starts; that each call may find one or none covers both.        *)
AIErrors == {"http error", "unexpected body", "no object", "malformed", "schema mismatch"}
Escaping == {"not JSON", "null content"}
Replies  == {"valid", "no provider"} \cup AIErrors \cup Escaping

Fallback(reply) == reply \in AIErrors \cup {"no provider"}

(* _complete: what the call in progress ends with.                         *)
Fail(reply) ==
  /\ reply \in Escaping
  /\ stage' = "failed"
  /\ UNCHANGED <<assessment, path>>

(* Words are only appended: a narrative is written before it is sent.      *)
Write(w) ==
  /\ stage = "writing"
  /\ Len(text) < MaxWords
  /\ \E v \in Vocabularies : ToSet(text) \cup {w} \subseteq v
  /\ text' = Append(text, w)
  /\ UNCHANGED <<stage, fallback, assessment, path>>

AnalyzeSkills(role) ==
  /\ stage = "writing"
  /\ stage' = "assessing"
  /\ fallback' = RuleBasedAssessment(text, role)
  /\ text' = << >>
  /\ UNCHANGED <<assessment, path>>

Analyzed(reply) ==
  /\ stage = "assessing"
  /\ fallback' = << >>
  /\ UNCHANGED text
  /\ \/ Fail(reply)
     \/ /\ Fallback(reply)
        /\ stage' = "idle"
        /\ assessment' = {fallback}
        /\ UNCHANGED path
     \/ /\ reply = "valid"
        /\ stage' = "idle"
        /\ \E a \in ProviderAssessments : assessment' = {a}
        /\ UNCHANGED path

(* From the stored assessment, for its role or another one.                *)
BuildLearningPath(role) ==
  /\ stage = "idle"
  /\ stage' = "planning"
  /\ \E a \in assessment :
       fallback' = [modules |-> RuleBasedPath(a.gaps, role), role |-> role]
  /\ UNCHANGED <<text, assessment, path>>

Planned(reply) ==
  /\ stage = "planning"
  /\ fallback' = << >>
  /\ UNCHANGED text
  /\ \/ Fail(reply)
     \/ /\ Fallback(reply)
        /\ stage' = "idle"
        /\ path' = {fallback}
        /\ UNCHANGED assessment
     \/ /\ reply = "valid"        \* modules as the provider likes
        /\ stage' = "idle"
        /\ path' = {}
        /\ UNCHANGED assessment

GenerateResume(experience, projects) ==
  /\ stage = "idle"
  /\ stage' = IF ResumeRaises(experience, projects) THEN "failed" ELSE "drafting"
  /\ UNCHANGED <<text, fallback, assessment, path>>

Drafted(reply) ==
  /\ stage = "drafting"
  /\ fallback' = << >>
  /\ UNCHANGED text
  /\ Fail(reply) \/ (reply \notin Escaping /\ stage' = "idle" /\ UNCHANGED <<assessment, path>>)

(* The request is a 500; the user goes on with what is stored.             *)
AfterFailure ==
  /\ stage = "failed"
  /\ stage' = IF assessment = {} THEN "writing" ELSE "idle"
  /\ UNCHANGED <<text, fallback, assessment, path>>

EngineInit ==
  /\ text = << >>
  /\ stage = "writing"
  /\ fallback = << >>
  /\ assessment = {}
  /\ path = {}

EngineNext ==
  \/ \E w \in Words : Write(w)
  \/ \E r \in Roles : AnalyzeSkills(r) \/ BuildLearningPath(r)
  \/ \E e, p \in BoundedSeq(Lines, 2) : GenerateResume(e, p)
  \/ \E reply \in Replies : Analyzed(reply) \/ Planned(reply) \/ Drafted(reply)
  \/ AfterFailure

EngineSpec == EngineInit /\ [][EngineNext]_engine_vars

-----------------------------------------------------------------------------
(***************************************************************************)
(* Properties                                                              *)
(***************************************************************************)

(* Type invariant, with the bounds of the fields: readiness is a           *)
(* percentage, a path has between one and MaxModules modules.              *)
EngineTypeOK ==
  /\ text \in Seq(Words) /\ Len(text) <= MaxWords
  /\ stage \in {"writing", "assessing", "idle", "planning", "drafting", "failed"}
  /\ \A a \in assessment : a.readiness \in 0 .. 100
  /\ \A p \in path : Len(p.modules) \in 1 .. MaxModules

(* "Score every skill mention using only its own clause as evidence": a    *)
(* level above the lowest has its reason near a mention of that skill, and *)
(* what stands beyond a stop changes nothing.                              *)
EvidenceIsOwn == Warranted(text) /\ SentencesApart(text)

Precedes(modules, s, t) ==
  \E i, j \in DOMAIN modules : i < j /\ modules[i] = s /\ modules[j] = t

Covers(modules, gaps, role) ==
  LET covered  == ToSet(gaps) \cap Templates
      required == ToSet(RoleProfile(role).required) \cap Templates
  IN  /\ IsInjective(modules)
      /\ \A s \in ToSet(modules) \ covered : \A g \in covered : Precedes(modules, g, s)
      /\ \A i, j \in 1 .. Len(gaps) :
           /\ i < j
           /\ gaps[i] \in covered
           /\ gaps[j] \in ToSet(modules) \ ToSet(SubSeq(gaps, 1, i))
           => Precedes(modules, gaps[i], gaps[j])
      /\ Len(modules) < MaxModules => required \subseteq ToSet(modules)

(* Of the gaps, the modules and the rest of the profile's skills that have *)
(* a template: a rule-based path never teaches a skill twice, covers the   *)
(* gaps before anything else and in their order, also when the assessment  *)
(* came from the provider or was made for another role, and leaves a       *)
(* required skill out only when it is full.                                *)
PathCoversGaps ==
  \A a \in assessment, p \in path : Covers(p.modules, a.gaps, p.role)

(* engine.py, on sharing: a level word before a comma list "belongs to     *)
(* every sibling that carries no level evidence of its own".               *)
SiblingsShareLevel == ListShares(text)
=============================================================================
