\* Streaks across the turn of a week, passes repeated on several days of it; nothing
\* fails, weak fairness of each pass.
SPECIFICATION FairSpec
CONSTANTS
  None = None
  Member = {anna}
  Team = {t1}
  Handler = {h1}
  Day <- LongWeekend
  Event = {"STREAK", "NO_EVENT"}
  Value = {1}
  MaxEntries = 4
  MaxEdits = 0
  MaxRuns = 2
  MayWithdraw = FALSE
  MayFail = FALSE
INVARIANTS PaidOnce StreakEarned
PROPERTY TeamPlayersAwarded
