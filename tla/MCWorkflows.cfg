CONSTANTS
  Users <- MCUsers
  Requests = {r1, r2}
  Streams = {s1}
  Capacity = 1
  MaxSeq <- MCMaxSeq
  MaxOld = 2
  Texts <- MCTexts
  Draft = "draft"
  Blank = " "
  Edits <- MCEdits

SPECIFICATION FairSpec
INVARIANTS TypeOK EventsNameRows PathsOfOwnAssessments PathFromNewest
  ResumeEditsKept
PROPERTY EveryRowAnnounced
CHECK_DEADLOCK FALSE
