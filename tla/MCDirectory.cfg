\* Two requests at a time over two classifications, members, weeks and days.
SPECIFICATION Spec
CONSTANTS
  None = None
  retail = retail
  jasa = jasa
  Class <- Classes
  StartClasses <- ClassesFirst
  Sphere = {s1, s2}
  Booster = {b1, b2}
  Member = {1, 2}
  Week = {1, 2}
  Day = {1, 2}
  Handler = {h1, h2}
  MaxRequests = 3
  MayFail = TRUE
INVARIANTS NoSilentOrphan SphereIsWhatWasAsked OneEventADay BoosterStatusKept
PROPERTY NewSphereWhole
