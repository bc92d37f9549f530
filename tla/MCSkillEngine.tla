--------------------------- MODULE MCSkillEngine ---------------------------
(***************************************************************************)
(* Four vocabularies.  Levels: three skills, one of two words of which the *)
(* second is a level word, as in the taxonomy; two level words, one        *)
(* figure, one marker of both kinds.  "go": a verb of use, a preposition,  *)
(* talk of skills, another skill, the infinitive.  "led" and "lambda": the *)
(* acronym, the causative verb, a cue.  Dotted names: one with the dot     *)
(* inside, one that begins with it and is ambiguous, beside level words    *)
(* and another ambiguous name.  The windows have the code's width.         *)
(* A profile names a skill without a template, as one of the code's does;  *)
(* two titles share a word.                                                *)
(***************************************************************************)
EXTENDS SkillEngine

MCLevels == {"python", "sql", "deep", "learning", "expert", "5 years", "but", ",", "."}
MCGo     == {"python", "go", "using", "in", "to", "programming", "."}
MCLed    == {"led", "LED", "to", "lambda", "aws", "functions", "."}
MCDotted == {"node.js", ".net", "python", "go", "in", "expert", ",", "."}

MCVocabularies == {MCLevels, MCGo, MCLed, MCDotted}
MCOnlyLevels == {MCLevels}

MCPhrase == [py |-> <<"python">>, sql |-> <<"sql">>, dl |-> <<"deep", "learning">>,
             go |-> <<"go">>, led |-> <<"led">>, lambda |-> <<"lambda">>, aws |-> <<"aws">>,
             node |-> <<"node.js">>, net |-> <<".net">>]
MCSkillOf == [py |-> "Python", sql |-> "SQL", dl |-> "Deep Learning",
              go |-> "Go", led |-> "Leadership", lambda |-> "AWS", aws |-> "AWS",
              node |-> "Node.js", net |-> "C#"]
MCLevelRank == [learning |-> 1, expert |-> 4]
MCYears == [w \in {"5 years"} |-> 5]

MCWidth ==
  [w \in UNION MCVocabularies |->
     CASE w \in {",", "."} -> 1
       [] w \in {"in", "to", "go"} -> 2
       [] w \in {"sql", "but", "led", "LED", "aws"} -> 3
       [] w \in {"deep", ".net"} -> 4
       [] w \in {"using"} -> 5
       [] w \in {"python", "expert", "lambda"} -> 6
       [] w \in {"5 years", "node.js"} -> 7
       [] w \in {"learning"} -> 8
       [] w \in {"functions"} -> 9
       [] w \in {"programming"} -> 11]
MCBreakAt ==
  [w \in {".", "node.js", ".net"} |-> IF w = "node.js" THEN 5 ELSE 1]
MCCapitals == [LED |-> "led"]
MCAmbiguous == {"go", "led", "lambda", "net"}
MCVouches ==
  [w \in {"programming", "functions", "expert", "learning", "5 years"} |->
     CASE w = "5 years"   -> {6, 7}
       [] w = "functions" -> {8, 9}
       [] OTHER           -> {MCWidth[w]}]
To == [to |-> {2}]
MCVetoes == [go |-> To]
MCCausative == [led |-> To]
MCCues == [lambda |-> {"aws"}]

MCFamilies ==
  <<[title |-> {"devops", "engineer"},
     required |-> <<"Python", "SQL">>, recommended |-> <<"Terraform", "Deep Learning">>],
    [title |-> {"software", "engineer"},
     required |-> <<"Go">>, recommended |-> <<"Python", "AWS">>],
    [title |-> {"writer"},
     required |-> <<"Terraform">>, recommended |-> << >>]>>
MCFallbackRole == [title |-> {}, required |-> <<"Leadership">>, recommended |-> <<"Python">>]
MCRoles == {{}, {"engineer"}, {"software", "engineer"}, {"writer"}}
MCTemplates == {"Python", "SQL", "Deep Learning", "Go", "Excel"}
MCDefaults == <<"Excel">>
MCProviderAssessments ==
  {[gaps |-> g, readiness |-> 50] :
     g \in {<< >>, <<"SQL", "Kotlin", "SQL">>, <<"Excel", "Deep Learning", "SQL", "Python">>}}
=============================================================================
