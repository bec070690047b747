\* Two requests at a time over two accounts, two sessions and one key.
SPECIFICATION FairSpec
CONSTANTS
  None = None
  anna = anna
  budi = budi
  User = {anna, budi}
  StartRole <- AdminAndCaptain
  Teammates <- OneTeam
  Token = {s1, s2}
  Opened = {s1}
  Key = {k1}
  Handler = {h1, h2}
  SessionDuration = 1
  TouchEvery = 1
  MaxTime = 2
  MaxRequests = 3
  MayFail = TRUE
INVARIANTS OldSessionsExplained LastUsedIsRecent
PROPERTIES LiveSessionsStay ExpiredSwept
