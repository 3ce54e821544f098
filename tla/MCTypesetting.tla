--------------------------- MODULE MCTypesetting ----------------------------
(* From what is typed to what stands on a list: macros defined and called  *)
(* (Macros), texts read with expansion (Expansion), words set and          *)
(* hyphenated (Words), paragraphs broken (LineBreaking) and tables         *)
(* (Alignment).  The five share no state; a behaviour is of one of them,   *)
(* and the others' variables lie idle.                                     *)
EXTENDS Integers, Sequences, FiniteSets

CONSTANTS Behaviours,
          Readings, Stored, Lists,
          Fonts, Typed, Patterns, Exceptions,
          Paragraphs, Settings,
          Alignments,
          Definitions, MaxParameters

VARIABLES part,
          document, input, conds, calls, negate, out, stored, made, reported, status,
          stage, font, text, trie, exceptions, settled, dispatch, language, current, first,
          list, pending, cancelled, result, given,
          phase, set, items, pass, at, afterBox, automatic, records, active, chain, vlist,
          written, reading, preamble, rows, entry, asked,
          sheet, frames, macro, scan, args, long, obeyed, faults, state

-----------------------------------------------------------------------------
(* What each of the modules above has to offer, of which an instance takes  *)
(* its constants.                                                          *)

NoSkip == [width |-> 0, stretch |-> 0, up |-> 0, shrink |-> 0, down |-> 0]

OfReading == INSTANCE MCExpansion WITH Documents <- {}, Texts <- {}, Lists <- <<>>
OfSetting == INSTANCE MCWords WITH
  Letters <- {}, Languages <- {}, Fonts <- {}, Texts <- {}, Patterns <- {}, Exceptions <- {},
  MaxGiven <- 0, LeftMin <- 1, RightMin <- 1, phase <- stage
OfBreaking == INSTANCE MCLineBreaking WITH Paragraphs <- {}, Settings <- {}
OfAligning == INSTANCE MCAlignment WITH
  Alignments <- {},
  BaselineSkip <- NoSkip, LineSkip <- NoSkip, LineSkipLimit <- 0, SplitTopSkip <- NoSkip,
  BoxMaxDepth <- 0, SplitMaxDepth <- 0, HFuzz <- 0, VFuzz <- 0, HBadness <- 0, VBadness <- 0,
  OverfullRule <- 0, input <- written
OfCalling == INSTANCE MCMacros WITH
  Documents <- {}, document <- sheet, input <- frames, out <- obeyed, status <- state

ReadDocuments == OfReading!AllDocuments
ReadAsking == OfReading!AskingDocuments
ReadTexts == OfReading!AllTexts
ReadLists == OfReading!Registers
SetFonts == OfSetting!FontSet
SetTexts == OfSetting!Documents
SetPatterns == OfSetting!PatternSet
SetExceptions == OfSetting!ExceptionSet
BrokenParagraphs == OfBreaking!Texts
BrokenSettings == OfBreaking!Shapes
SetTables == OfAligning!MCAlignments
CalledDefinitions == OfCalling!MCDocuments

-----------------------------------------------------------------------------
(* The instances. *)

Reading == INSTANCE MCExpansion WITH Documents <- Readings, Texts <- Stored

Setting == INSTANCE MCWords WITH
  Letters <- {"a", "b", "c"}, Languages <- {"x", "y"}, Texts <- Typed,
  MaxGiven <- 2, LeftMin <- 1, RightMin <- 1, phase <- stage

Breaking == INSTANCE MCLineBreaking

Aligning == INSTANCE MCAlignment WITH
  BaselineSkip <- NoSkip, LineSkip <- NoSkip, LineSkipLimit <- 0, SplitTopSkip <- NoSkip,
  BoxMaxDepth <- 0, SplitMaxDepth <- 0, HFuzz <- 0, VFuzz <- 0, HBadness <- 0, VBadness <- 0,
  OverfullRule <- 0, input <- written

Calling == INSTANCE MCMacros WITH
  Documents <- Definitions, document <- sheet, input <- frames, out <- obeyed, status <- state

ASSUME Setting!PatternAssumption

-----------------------------------------------------------------------------
rvars == <<document, input, conds, calls, negate, out, stored, made, reported, status>>
wvars == <<stage, font, text, trie, exceptions, settled, dispatch, language, current, first,
           list, pending, cancelled, result, given>>
bvars == <<phase, set, items, pass, at, afterBox, automatic, records, active, chain, vlist>>
avars == <<written, reading, preamble, rows, entry, asked>>
mvars == <<sheet, frames, macro, scan, args, long, obeyed, faults, state>>
vars == <<part, rvars, wvars, bvars, avars, mvars>>

Idle == "idle"
ReadingIdle ==
  /\ document = Idle /\ input = Idle /\ conds = Idle /\ calls = Idle /\ negate = Idle
  /\ out = Idle /\ stored = Idle /\ made = Idle /\ reported = Idle /\ status = Idle
SettingIdle ==
  /\ stage = Idle /\ font = Idle /\ text = Idle /\ trie = Idle /\ exceptions = Idle
  /\ settled = Idle /\ dispatch = Idle /\ language = Idle /\ current = Idle /\ first = Idle
  /\ list = Idle /\ pending = Idle /\ cancelled = Idle /\ result = Idle /\ given = Idle
BreakingIdle ==
  /\ phase = Idle /\ set = Idle /\ items = Idle /\ pass = Idle /\ at = Idle /\ afterBox = Idle
  /\ automatic = Idle /\ records = Idle /\ active = Idle /\ chain = Idle /\ vlist = Idle
AligningIdle ==
  /\ written = Idle /\ reading = Idle /\ preamble = Idle /\ rows = Idle /\ entry = Idle
  /\ asked = Idle
CallingIdle ==
  /\ sheet = Idle /\ frames = Idle /\ macro = Idle /\ scan = Idle /\ args = Idle
  /\ long = Idle /\ obeyed = Idle /\ faults = Idle /\ state = Idle

Init ==
  /\ part \in Behaviours
  /\ IF part = "calling" THEN Calling!Init ELSE CallingIdle
  /\ IF part = "reading" THEN Reading!Init ELSE ReadingIdle
  /\ IF part = "setting" THEN Setting!Init ELSE SettingIdle
  /\ IF part = "breaking" THEN Breaking!Init ELSE BreakingIdle
  /\ IF part = "aligning" THEN Aligning!Init ELSE AligningIdle

Next ==
  /\ UNCHANGED part
  /\ \/ part = "calling" /\ Calling!Next /\ UNCHANGED <<rvars, wvars, bvars, avars>>
     \/ part = "reading" /\ Reading!Next /\ UNCHANGED <<wvars, bvars, avars, mvars>>
     \/ part = "setting" /\ Setting!Next /\ UNCHANGED <<rvars, bvars, avars, mvars>>
     \/ part = "breaking" /\ Breaking!Next /\ UNCHANGED <<rvars, wvars, avars, mvars>>
     \/ part = "aligning" /\ Aligning!Next /\ UNCHANGED <<rvars, wvars, bvars, mvars>>

Spec == Init /\ [][Next]_vars

-----------------------------------------------------------------------------
\* MCMacros!CallsAsWritten and RoomIsRight, of a macro that is defined and
\* called; MCExpansion!TextAsChosen and TextAsHeld, of a text that is read
\* with expansion.
TextAsRead ==
  /\ part = "calling" => Calling!CallsAsWritten /\ Calling!RoomIsRight
  /\ part = "reading" => Reading!TextAsChosen /\ Reading!TextAsHeld

\* Words!LettersKept and BreaksWhereAllowed, of words that are set.
WordsAsTyped == part = "setting" => Setting!LettersKept /\ Setting!BreaksWhereAllowed

\* LineBreaking!LinesHoldTheParagraph, of the lines of a paragraph.
LinesHoldTheParagraph == part = "breaking" => Breaking!LinesHoldTheParagraph

\* LineBreaking!LeastDemerits, of the breaks of a paragraph.
LeastDemerits == Breaking!LeastDemerits

\* Alignment!SetAsWritten and ColumnsLineUp, of a table.
TableAsWritten == part = "aligning" => Aligning!SetAsWritten /\ Aligning!ColumnsLineUp
=============================================================================
