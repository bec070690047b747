\* Two requests race over one contact that either of two members may register.
SPECIFICATION FairSpec
CONSTANTS
  None = None
  Contact = {v1}
  Member = {anna, budi}
  Handler = {h1, h2}
  Event = {"NO_EVENT", "FOUNDER", "NEW_BLOOD"}
  MaxRequests = 3
  MayFail = TRUE
INVARIANTS IInv AttendanceWithinStatus ConversionExact VoidedIsWorthNothing
PROPERTIES HostAwarded
