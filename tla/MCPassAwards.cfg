\* One pass at a time at the turn of a week, repeated and stopping anywhere, while
\* what it has read is deleted, voided, outdone, moved or rescheduled.
SPECIFICATION Spec
CONSTANTS
  None = None
  Member = {anna, budi}
  Team = {t1}
  Handler = {h1}
  Day <- TurnOfWeek
  Event = {"ONE_TO_ONE", "HIGH_ROLLER"}
  Value = {1, 2}
  MaxEntries = 2
  MaxEdits = 1
  MaxRuns = 2
  MayWithdraw = TRUE
  MayFail = TRUE
CONSTRAINT FewSteps
SYMMETRY Symmetry
INVARIANT FullRosterEarned
PROPERTIES BookSpec PaysWhatStood
