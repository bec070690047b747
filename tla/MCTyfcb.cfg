\* Two concurrent requests, four in all, over two entries; weak fairness of each.
SPECIFICATION FairSpec
CONSTANTS
  None = None
  Entry = {e1, e2}
  Member = {anna, budi}
  Team = {t1}
  Handler = {h1, h2}
  Nilai = {100000}
  Event = {"SPREAD_LOVE"}
  MaxRequests = 4
INVARIANTS IInv BadgeWasEarned
PROPERTIES NoLostUpdate BookSpec EveryRequestEnds
