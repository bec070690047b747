\* A void races a moderator of the same visitor; nothing fails.
SPECIFICATION Spec
CONSTANTS
  None = None
  Contact = {v1}
  Member = {anna, budi}
  Handler = {h1, h2}
  Event = {"NO_EVENT", "FOUNDER", "NEW_BLOOD"}
  MaxRequests = 2
  MayFail = FALSE
INVARIANT VoidReversesEveryPoint
