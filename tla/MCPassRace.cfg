\* Two operators run the same pass at once.
SPECIFICATION Spec
CONSTANTS
  None = None
  Member = {anna, budi}
  Team = {t1}
  Handler = {h1, h2}
  Day = {6}
  Event = {"NO_EVENT"}
  Value = {1}
  MaxEntries = 2
  MaxEdits = 0
  MaxRuns = 2
  MayWithdraw = FALSE
  MayFail = FALSE
INVARIANT PaidOnce
