\* Two requests at a time over two of three members and two of three teams.
SPECIFICATION Spec
CONSTANTS
  None = None
  Member = {1, 2, 3}
  Team = {1, 2, 3}
  Captain = {1}
  Handler = {h1, h2}
  StartMembers = {1, 2}
  StartTeams = {1, 2}
  StartFiled <- FiledFirst
  StartTeam <- TeamsFirst
  Lists <- ListsSeen
  Asked = {0, 3}
  DefaultPage = 1
  MaxPage = 2
  DefaultBoard = 1
  HistoryRows = 3
  FeedRows = 2
  SheetRows = 3
  MaxWrites = 2
  MaxScreens = 1
  MayFail = TRUE
SYMMETRY Symmetry
INVARIANTS BoardsBalance TeamsKeepWhatStands HistoryExplainsScore PagingMissesNothing CutsKeepTheTop ScreensAgree
PROPERTIES CaptainFilesForOwnTeam
