---------------------------- MODULE SkillScoring ----------------------------
(***************************************************************************)
(* How the rule-based engine of app/ai/engine.py reads skills and levels   *)
(* out of a narrative (_score_mentions and its helpers).                   *)
(*                                                                         *)
(* A text is a sequence of words and separators, the dots of abbreviations *)
(* and decimals blanked; a comma or a stop hangs on the word before it.    *)
(* Positions are those of words.  The dot in a name such as "Node.js" is a *)
(* sentence break like any other to what stands beside the name.  An alias *)
(* that is also an ordinary word ("go", "led") counts only where the text  *)
(* around it is talk of skills, and how far around is measured in          *)
(* characters.                                                             *)
(*                                                                         *)
(* Not modelled: a dot inside a word that is no alias ("a.b" reads as      *)
(* "a. b"); hyphens; vetoes of several words or that end in white space    *)
(* (of "swift" and of "node"); "led a team" as skill context.              *)
(***************************************************************************)
EXTENDS Integers, SequencesExt

CONSTANTS
  Phrase,      \* alias -> the words it consists of (_alias_pairs)
  SkillOf,     \* alias -> canonical name
  LevelRank,   \* level word -> rank of its level (_LEVEL_WORDS)
  Years,       \* experience figure -> years (_EXPERIENCE_PATTERN)
  Comma, Stop, \* "," and "."
  BreakAt,     \* words with a _SENTENCE_BREAK in them -> which character it is
  GapMarks,    \* words of _YEARS_GAP_BOUNDARY
  ClauseMarks, \* words of _CLAUSE_BOUNDARY
  Proximity    \* _YEARS_PROXIMITY_TOKENS

(* Of homographs.  A reading is a function from words to the lengths of    *)
(* those of their beginnings that a pattern finds, the whole word included *)
(* if it is one: a search that ends inside a word takes its beginning for  *)
(* a word.                                                                 *)
CONSTANTS
  Width,            \* characters of each word
  Capitals,         \* an acronym in capitals -> in lower case
  Ambiguous,        \* _AMBIGUOUS_ALIASES
  Vouches,          \* reading: _SKILL_CONTEXT_PATTERN, figures, level words
  Usage, WeakUsage, \* words of _USAGE_PRECEDER_PATTERN, _WEAK_PRECEDERS
  Vetoes,           \* alias -> reading: _SPAN_VETOES
  Cues,             \* alias -> words of _ALIAS_CUES
  Causative,        \* "led" -> reading: whatever ends in "to"
  ContextWindow, VetoLookahead, CausativeLookahead   \* in characters

IsReading(P) == \A w \in DOMAIN P : w \in DOMAIN Width /\ P[w] \subseteq 1 .. Width[w]

ASSUME HomographAssumption ==
  /\ \A w \in DOMAIN Width : Width[w] \in Nat
  /\ DOMAIN BreakAt \subseteq DOMAIN Width
  /\ \A w \in DOMAIN BreakAt : BreakAt[w] \in 1 .. Width[w]
  /\ Stop \in DOMAIN BreakAt /\ Width[Stop] = 1
  /\ {ContextWindow, VetoLookahead, CausativeLookahead} \subseteq Nat
  /\ WeakUsage \subseteq Usage
  /\ DOMAIN Causative \subseteq Ambiguous /\ Ambiguous \subseteq DOMAIN Phrase
  /\ IsReading(Vouches)
  /\ \A a \in DOMAIN Vetoes : IsReading(Vetoes[a])
  /\ \A a \in DOMAIN Causative : IsReading(Causative[a])
  /\ DOMAIN Capitals \cap DOMAIN BreakAt = {}
  /\ \A w \in DOMAIN Capitals : Capitals[w] \in DOMAIN Width \ DOMAIN BreakAt

ASSUME ScoringAssumption ==
  /\ \A a \in DOMAIN Phrase : /\ Phrase[a] \in Seq(DOMAIN Width \ {Stop}) \ {<< >>}
                              /\ a \in DOMAIN SkillOf
  /\ \A w \in DOMAIN LevelRank : LevelRank[w] \in 1 .. 4
  /\ \A w \in DOMAIN Years : Years[w] \in Nat
  /\ Proximity \in Nat

Mention(a, i) == [alias |-> a, skill |-> SkillOf[a], from |-> i, to |-> i + Len(Phrase[a]) - 1]

Candidates(text) ==
  UNION {{Mention(a, i) : i \in {j \in 1 .. Len(text) - Len(Phrase[a]) + 1 :
                                   SubSeq(text, j, Mention(a, j).to) = Phrase[a]}} :
         a \in DOMAIN Phrase}

Longest(mentions) == {m \in mentions : \A n \in mentions : m.to >= n.to}

(* From left to right, the longest alias that starts after the last span:  *)
(* the spans that start at one of the first n words.                       *)
AddAt(candidates, spans, i) ==
  IF \E m \in spans : i <= m.to THEN spans
  ELSE spans \cup Longest({m \in candidates : m.from = i})

SpansUpTo(text) ==
  LET candidates == Candidates(text)
      spans[n \in 0 .. Len(text)] ==
        IF n = 0 THEN {} ELSE AddAt(candidates, spans[n - 1], n)
  IN  spans

Spans(text) == SpansUpTo(text)[Len(text)]

(* The whole words of the sentence around m.  A break in a word of m is    *)
(* none to m itself.                                                       *)
SentenceBounds(text, m) ==
  LET breaks == {i \in 1 .. Len(text) : text[i] \in DOMAIN BreakAt}
  IN  [left  |-> 1 + Max({0} \cup {i \in breaks : i < m.from}),
       right |-> Min({Len(text) + 1} \cup {i \in breaks : i > m.to}) - 1]

-----------------------------------------------------------------------------
(* Homographs.                                                             *)

Lowered(text) ==
  [i \in 1 .. Len(text) |-> IF text[i] \in DOMAIN Capitals THEN Capitals[text[i]] ELSE text[i]]

(* Where the word at i begins and ends, in characters.                     *)
EndChars(text) ==
  LET ends[n \in 0 .. Len(text)] ==
        IF n = 0 THEN 0
        ELSE ends[n - 1] + Width[text[n]] + IF text[n] \in {Comma, Stop} THEN 0 ELSE 1
  IN  ends

EndChar(text, i)   == EndChars(text)[i]
FirstChar(text, i) == EndChar(text, i) - Width[text[i]]

(* Where the sentence around m begins and ends.                            *)
Sentence(text, m) ==
  LET words == SentenceBounds(text, m)
      break(i) == FirstChar(text, i) + BreakAt[text[i]]
  IN  [left  |-> IF words.left = 1 THEN 0 ELSE break(words.left - 1),
       right |-> IF words.right = Len(text) THEN EndChar(text, Len(text))
                                            ELSE break(words.right + 1) - 1]

(* Ends of what a reading P finds in a word that begins at or after left,  *)
(* as if the text ended at right.                                          *)
EndsOf(text, P, left, right) ==
  UNION {{e \in {FirstChar(text, i) + n : n \in P[text[i]]} :
            e <= right /\ (e = EndChar(text, i) \/ e = right)} :
         i \in {j \in 1 .. Len(text) : text[j] \in DOMAIN P /\ FirstChar(text, j) >= left}}

(* The word before m in its sentence; a set.                               *)
Preceder(text, m) ==
  {text[i] : i \in {m.from - 1} \cap (SentenceBounds(text, m).left .. Len(text))}

(* The part of the sentence around m that may vouch for it.                *)
Window(text, m) ==
  LET sentence == Sentence(text, m)
  IN  [left  |-> Max({sentence.left, FirstChar(text, m.from) - ContextWindow}),
       right |-> Min({sentence.right, EndChar(text, m.to) + ContextWindow})]

(* A verb of use before m, talk of skills in the window, or a preposition  *)
(* before m and another mention, whole or in part, in the window.          *)
IsSkillContext(text, spans, m) ==
  LET w == Window(text, m)
  IN  \/ Preceder(text, m) \cap (Usage \ WeakUsage) # {}
      \/ EndsOf(text, Vouches, w.left, w.right) # {}
      \/ /\ Preceder(text, m) \cap WeakUsage # {}
         /\ \E n \in spans \ {m} :
              FirstChar(text, n.from) < w.right /\ EndChar(text, n.to) > w.left

(* A word of the veto stands before the alias, or ends the text looked at  *)
(* after it; a cue may stand anywhere in the sentence.                     *)
AliasSenseHolds(text, m) ==
  LET sentence == SentenceBounds(text, m)
      cut == Min({Sentence(text, m).right, EndChar(text, m.to) + VetoLookahead})
  IN  /\ m.alias \in DOMAIN Vetoes =>
           /\ \A w \in Preceder(text, m) \cap DOMAIN Vetoes[m.alias] :
                Width[w] \notin Vetoes[m.alias][w]
           /\ cut \notin EndsOf(text, Vetoes[m.alias], EndChar(text, m.to), cut)
      /\ m.alias \in DOMAIN Cues =>
           \E i \in sentence.left .. sentence.right : text[i] \in Cues[m.alias]

(* "led" in lower case is taken for the verb, a claim by itself.           *)
ContextRequired(text, m) ==
  m.alias \in Ambiguous /\ (m.alias \in DOMAIN Causative => text[m.from] \in DOMAIN Capitals)

(* "led to": the search does not stop at the end of the sentence.          *)
IsCausative(text, m) ==
  m.alias \in DOMAIN Causative /\
    LET end == EndChar(text, m.to)
    IN  EndsOf(text, Causative[m.alias], end, end + CausativeLookahead) # {}

(* The mentions that count.                                                *)
MentionSpans(text) ==
  LET lowered == Lowered(text)
      spans   == Spans(lowered)
  IN  {m \in spans :
         /\ ~IsCausative(lowered, m)
         /\ ContextRequired(text, m) =>
              IsSkillContext(lowered, spans, m) /\ AliasSenseHolds(lowered, m)}

-----------------------------------------------------------------------------
(* Levels.                                                                 *)

(* Wrong on purpose: the whole sentence.                                   *)
ScopeUnclipped(text, spans, m) == SentenceBounds(text, m)

(* ... up to the nearest mention of another skill on either side.          *)
ScopeBounds(text, spans, m) ==
  LET sentence == SentenceBounds(text, m)
      others   == {n \in spans : n.skill # m.skill}
  IN  [left  |-> Max({sentence.left} \cup {n.to + 1 : n \in {o \in others : o.to < m.from}}),
       right |-> Min({sentence.right} \cup {n.from - 1 : n \in {o \in others : o.from > m.to}})]

(* Positions in the interval b of words of S.                              *)
At(text, b, S) == {i \in b.left .. b.right : text[i] \in S}

(* Between a figure and the mention; a figure that follows is measured     *)
(* from the start of the mention.                                          *)
Gap(m, f) == IF f < m.from THEN f + 1 .. m.from - 1 ELSE m.from .. f - 1

(* A marker, or a comma with a word on both sides, stands in the gap.      *)
IsAttributional(text, gap) ==
  \A i \in gap :
    /\ text[i] \notin GapMarks
    /\ text[i] = Comma => \/ \A j \in gap : j < i => text[j] = Comma
                          \/ \A j \in gap : j > i => text[j] = Comma

(* What splitting the gap on white space counts.                           *)
Tokens(text, gap) == Cardinality({i \in gap : text[i] # Comma \/ i - 1 \notin gap})

(* The first figure of the scope that is about m; at most one position.    *)
FigureFor(text, scope, m) ==
  LET about == {f \in At(text, scope, DOMAIN Years) :
                  /\ IsAttributional(text, Gap(m, f))
                  /\ Tokens(text, Gap(m, f)) <= Proximity}
  IN  {f \in about : \A g \in about : f <= g}

YearsRank(y) == CASE y >= 5 -> 4
                  [] y \in 3 .. 4 -> 3
                  [] y \in 1 .. 2 -> 2
                  [] OTHER -> 1

CountRank(hits) == CASE hits >= 3 -> 3 [] hits = 2 -> 2 [] OTHER -> 1

(* The nearest level word of the sentence before m, unless a clause marker *)
(* or a figure stands between them; a set of at most one position.         *)
SharedLevelWord(text, m) ==
  LET before == [left |-> SentenceBounds(text, m).left, right |-> m.from - 1]
      words  == At(text, before, DOMAIN LevelRank)
  IN  {i \in words : /\ \A j \in words : i >= j
                     /\ \A j \in i + 1 .. m.from - 1 :
                          text[j] \notin ClauseMarks \cup DOMAIN Years}

(* The level one mention is evidence of.  _LEVEL_WORDS is ordered by level,*)
(* so the first of them found in the scope is the highest.                 *)
RankOf(text, spans, m) ==
  LET scope  == ScopeBounds(text, spans, m)
      figure == FigureFor(text, scope, m)
      own    == At(text, scope, DOMAIN LevelRank)
      shared == SharedLevelWord(text, m)
  IN  CASE figure # {} -> Max({YearsRank(Years[text[f]]) : f \in figure})
        [] figure = {} /\ own # {} -> Max({LevelRank[text[i]] : i \in own})
        [] figure = {} /\ own = {} /\ shared # {} -> Max({LevelRank[text[i]] : i \in shared})
        [] OTHER -> CountRank(Cardinality({n \in spans : n.alias = m.alias}))

(* Each skill found, with the rank of the best of its mentions.            *)
Scores(text) ==
  LET spans == MentionSpans(text)
  IN  [s \in {m.skill : m \in spans} |->
         Max({RankOf(text, spans, m) : m \in {n \in spans : n.skill = s}})]

-----------------------------------------------------------------------------
(***************************************************************************)
(* Properties of a text                                                    *)
(***************************************************************************)

(* No mention of another skill and no break stands between i and m.        *)
Beside(text, spans, i, m) ==
  /\ \A j \in 1 .. Len(text) :
       (i < j /\ j < m.from) \/ (m.to < j /\ j < i) => text[j] \notin DOMAIN BreakAt
  /\ \A n \in spans :
       n.skill # m.skill => ~(i < n.from /\ n.to < m.from) /\ ~(m.to < n.from /\ n.to < i)

(* A list reaches from the level word at i to m.                           *)
Listed(text, i, m) ==
  /\ i < m.from
  /\ \A j \in i + 1 .. m.from - 1 : text[j] \notin DOMAIN BreakAt \cup ClauseMarks \cup DOMAIN Years

(* A figure of that level with no other skill and no turn of the sentence  *)
(* between it and m, a level word beside m or governing the list m is in,  *)
(* or repeated mentions.                                                   *)
Reason(text, spans, m, rank) ==
  \/ rank = CountRank(Cardinality({n \in spans : n.alias = m.alias}))
  \/ \E i \in 1 .. Len(text) :
       /\ text[i] \in DOMAIN LevelRank
       /\ LevelRank[text[i]] = rank
       /\ Beside(text, spans, i, m) \/ Listed(text, i, m)
  \/ \E i \in 1 .. Len(text) :
       /\ text[i] \in DOMAIN Years
       /\ YearsRank(Years[text[i]]) = rank
       /\ Beside(text, spans, i, m)
       /\ \A j \in Gap(m, i) : text[j] \notin GapMarks

(* A level above the lowest has a reason at one of the skill's mentions.   *)
Warranted(text) ==
  LET spans == MentionSpans(text)
      score == Scores(text)
  IN  \A s \in DOMAIN score :
        score[s] = 1 \/ \E m \in spans : m.skill = s /\ Reason(text, spans, m, score[s])

(* The one thing that reaches across a stop: a "to" voids "led".           *)
VoidedAcross(text, spans, i) ==
  \E m \in MentionSpans(SubSeq(text, 1, i - 1)) \ spans : m.alias \in DOMAIN Causative

(* Otherwise a skill is found in a text if it is found on one side of a    *)
(* stop, and if on one side only, it has the level that side alone would   *)
(* give it: neither a level nor talk of skills is borrowed.                *)
SentencesApart(text) ==
  LET spans == MentionSpans(text)
      whole == Scores(text)
  IN  \A i \in {j \in 1 .. Len(text) : text[j] = Stop /\ ~VoidedAcross(text, spans, j)} :
        LET before == Scores(SubSeq(text, 1, i - 1))
            after  == Scores(SubSeq(text, i + 1, Len(text)))
        IN  /\ DOMAIN whole = DOMAIN before \cup DOMAIN after
            /\ \A s \in DOMAIN before \ DOMAIN after : whole[s] = before[s]
            /\ \A s \in DOMAIN after \ DOMAIN before : whole[s] = after[s]

(* The text is a level word followed by a list of skills with commas.      *)
IsList(text) ==
  /\ Len(text) > 0
  /\ text[1] \in DOMAIN LevelRank
  /\ \A i \in 2 .. Len(text) :
       text[i] = Comma \/ \E m \in MentionSpans(text) : i \in m.from .. m.to
  /\ \A m \in MentionSpans(text) : m.from > 2 => text[m.from - 1] = Comma

(* Then the word's level is that of each of them whose own name is not a   *)
(* level word ("Machine Learning" is in a way).                            *)
ListShares(text) ==
  IsList(text) =>
    \A m \in MentionSpans(text) :
      At(text, [left |-> m.from, right |-> m.to], DOMAIN LevelRank) = {}
        => Scores(text)[m.skill] = LevelRank[text[1]]
=============================================================================
