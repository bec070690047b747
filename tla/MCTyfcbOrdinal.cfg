\* Two submissions of one pair at the same time.
SPECIFICATION Spec
CONSTANTS
  None = None
  Entry = {e1, e2}
  Member = {anna, budi}
  Team = {t1}
  Handler = {h1, h2}
  Nilai = {100000}
  Event = {"NO_EVENT"}
  MaxRequests = 2
INVARIANT OrdinalsDistinct
