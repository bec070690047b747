\* Two concurrent requests; one admin edits members.
SPECIFICATION FairSpec
CONSTANTS
  None = None
  Person = {anna}
  Team = {t1, t2}
  Handler = {h1, h2}
  Editor = {h1}
  MaxRequests = 4
  MayFail = TRUE
INVARIANTS NoHalfMember BonusBacked
PROPERTIES RisesArePaid LevelUpAwarded
