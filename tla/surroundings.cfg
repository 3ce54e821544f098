\* Questions to the finder, drivers over one cache, and PDF files.
SPECIFICATION AllSpec
CONSTANTS
  Parts = {"finding", "installing", "writing"}
  None = None
  Drivers = {d1, d2}
  Places = {"dist", "home"}
  First = "dist"
  Requests = {"art"}
  Tries <- TriesOf
  Suffixed <- SuffixedOf
  SearchPath <- Path
  DirectDirs <- TheDirect
  Here = "here"
  WriteDir = "out"
  Marker <- TheMarker
  MarkerName = "latex.ltx"
  Worlds <- KnownWorlds
  Installed <- Changes
  Nowhere <- TheNowhere
  Budgets <- SomeOfEach
  MaxQuestions = 2
  MaxWrites = 1
  MaxEngines = 2
  Documents <- WrittenDocuments
  Fonts <- WrittenFonts
  Fan = 2
  TreeLevels = 4
  StreamCapacity = 3
INVARIANTS AnswersRight RightDocument FileIsWhole TreesHold
PROPERTIES EveryQuestionEnds
CHECK_DEADLOCK FALSE
