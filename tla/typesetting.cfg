SPECIFICATION Spec
CONSTANTS
  Behaviours = {"calling", "reading", "setting", "breaking", "aligning"}
  Readings <- ReadDocuments
  Stored <- ReadTexts
  Lists <- ReadLists
  Fonts <- SetFonts
  Typed <- SetTexts
  Patterns <- SetPatterns
  Exceptions <- SetExceptions
  Paragraphs <- BrokenParagraphs
  Settings <- BrokenSettings
  Alignments <- SetTables
  Definitions <- CalledDefinitions
  MaxParameters = 2
INVARIANTS
  TextAsRead WordsAsTyped LinesHoldTheParagraph TableAsWritten
PROPERTIES LeastDemerits
CHECK_DEADLOCK FALSE
