SPECIFICATION FairSpec
CONSTANTS
  Gets = {g1, g2}
  Docs = {d1, d2}
  MaxUserChanges = 1
INVARIANTS
  AssertionsHold
  WaitersHaveHope
  AnsweredOnce
PROPERTY
  GetAnswers
