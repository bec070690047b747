\* Two concurrent requests over one prize; one organiser issues tickets.
SPECIFICATION FairSpec
CONSTANTS
  None = None
  Prize = {p1}
  Member = {anna, budi}
  Handler = {h1, h2}
  Issuer = {h1}
  Points <- SmallPoints
  MaxRequests = 3
  MaxChanges = 1
  MayFail = TRUE
INVARIANTS AwardedHasWinner OddsNotInflated
PROPERTIES DrawIsOneWay PatronAwarded
