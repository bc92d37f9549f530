CONSTANTS
  Vocabularies <- MCVocabularies
  Phrase <- MCPhrase
  SkillOf <- MCSkillOf
  LevelRank <- MCLevelRank
  Years <- MCYears
  Comma = ","
  Stop = "."
  BreakAt <- MCBreakAt
  GapMarks = {"but"}
  ClauseMarks = {"but"}
  Proximity = 2
  Width <- MCWidth
  Capitals <- MCCapitals
  Ambiguous <- MCAmbiguous
  Vouches <- MCVouches
  Usage = {"using", "in"}
  WeakUsage = {"in"}
  Vetoes <- MCVetoes
  Cues <- MCCues
  Causative <- MCCausative
  ContextWindow = 24
  VetoLookahead = 24
  CausativeLookahead = 20
  Families <- MCFamilies
  FallbackRole <- MCFallbackRole
  Roles <- MCRoles
  Templates <- MCTemplates
  Defaults <- MCDefaults
  ProviderAssessments <- MCProviderAssessments
  MaxGaps = 3
  MaxModules = 3
  MaxWords = 5

SPECIFICATION EngineSpec
INVARIANTS EngineTypeOK EvidenceIsOwn PathCoversGaps
