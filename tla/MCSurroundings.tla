--------------------------- MODULE MCSurroundings ---------------------------
(* The files around a run: those it asks for (Finder), the cache of the    *)
(* driver that starts it (Installation), and the PDF file it leaves        *)
(* (PdfFile).  The three share no state; a behaviour is of one of them.    *)
EXTENDS Installation, Finder

CONSTANTS Parts, Documents, Fonts, Fan, TreeLevels, StreamCapacity

VARIABLES part, todo, list, pdf, ended

-----------------------------------------------------------------------------
(* One name, which stands for one of two files; a home tree, and a tree    *)
(* with a list and two directories.                                        *)

TriesOf(file) == IF file = "art" THEN <<"art", "art.tex">> ELSE <<file>>
SuffixedOf(file) == IF file = "art" THEN <<"art.tex", "art">> ELSE <<file>>

Path == << [kind |-> "plain", dirs |-> <<"here">>],
           [kind |-> "walked", dirs |-> <<"home">>],
           [kind |-> "listed", dirs |-> <<"dist", "extra">>] >>

\* Where the lists answer, commands change the working directory alone.
Changes(w) ==
  IF w.plain THEN { <<"here", IF w.lists \in w.image THEN "art.tex" ELSE "art">> }
  ELSE { <<"here", "art.tex">>, <<"home", "art">> }

TheMarker == <<"dist", "latex.ltx">>
TheDirect == <<"out", "here">>
TheNowhere == <<"nowhere", "none">>

\* A home copy, one in the tree, and a pair the lists may not know of.
Disks == {UNION d : d \in SUBSET { {<<"home", "art">>}, {<<"dist", "art">>},
                                   {<<"extra", "art">>, <<"dist", "art.tex">>} }}
Listings == { {}, {<<"dist", "art">>}, {<<"dist", "art">>, <<"extra", "art">>},
              {<<"dist", "art.tex">>, <<"dist", "art">>} }

WorldsWith(disks, listings) ==
  {[disk |-> d, lists |-> l, image |-> i, plain |-> p, speaks |-> s, dies |-> x] :
     d \in disks, l \in listings, i \in {{}} \cup {{k} : k \in listings},
     p \in BOOLEAN, s \in BOOLEAN, x \in BOOLEAN}

\* Without the search paths nothing of the caller's is looked at, and a name
\* is not tried with its suffix first: there home and art.tex are left out.
\* A tool that dies or is never heard meets one installation of each kind.
KnownWorlds ==
  {w \in WorldsWith(Disks, Listings) :
     /\ w.image \in {{}, {w.lists}, {{}}}
     /\ w.plain /\ w.lists \notin w.image => {<<"home", "art">>, <<"dist", "art.tex">>} \cap w.disk = {}
     /\ w.lists = {} => w.image = {}
     /\ ~w.plain => w.image = {}
     /\ ~w.speaks => ~w.dies
     /\ w.dies \/ ~w.speaks => <<"dist", "art">> \in w.disk /\ Cardinality(w.lists) = 2}

\* And one of those with a copy at home, before the tree's.
HomeWorlds ==
  {w \in WorldsWith({{<<"home", "art">>, <<"dist", "art">>}}, {{<<"dist", "art">>}}) :
     w.plain /\ w.image = {} /\ w.speaks /\ ~w.dies}

\* The worlds that are known meet what the proofs of Finder take for granted.
ASSUME WorldsAssumption == Worlds = KnownWorlds => FinderAssumption

-----------------------------------------------------------------------------
(* Two places where latex.ltx may be; a run that finds nothing wrong with  *)
(* the cache, one that keeps its preamble small, one that makes the format *)
(* again and writes its preamble itself, one that stops at errors.         *)

Asks(rebuild, halt, small, alone) ==
  [rebuild |-> rebuild, halt |-> halt, preamble |-> TRUE, small |-> small, alone |-> alone]

Plain == Asks(FALSE, FALSE, FALSE, FALSE)
Small == Asks(FALSE, FALSE, TRUE, FALSE)
Alone == Asks(TRUE, FALSE, FALSE, TRUE)
Halting == Asks(FALSE, TRUE, FALSE, FALSE)

Budget(drivers, asks, runs, passes, edits) ==
  [drivers |-> drivers, asks |-> asks, runs |-> runs, passes |-> passes, edits |-> edits]

\* Two drivers at once, with and without an edit; runs one after another, with
\* two edits, so that one may undo the other, with two passes, and of all kinds.
One == {CHOOSE d \in Drivers : TRUE}
SomeOfEach ==
  { Budget(Drivers, {Plain, Small}, 3, 1, 0), Budget(Drivers, {Plain}, 2, 1, 1),
    Budget(One, {Plain, Small}, 2, 1, 2), Budget(One, {Plain, Small, Alone, Halting}, 2, 2, 1),
    Budget(One, {Plain, Small, Alone, Halting}, 3, 1, 1) }

-----------------------------------------------------------------------------
(* Documents of every kind of object, and the fonts they set.              *)

OfWriting == INSTANCE MCPdfFile WITH
  Documents <- {}, Fonts <- {}, Fan <- 2, TreeLevels <- 1, StreamCapacity <- 1

WrittenDocuments == OfWriting!MCDocuments
WrittenFonts == OfWriting!MCFonts

Writing == INSTANCE MCPdfFile

ASSUME Writing!SizeAssumption

-----------------------------------------------------------------------------
pvars == <<todo, list, pdf, ended>>
allVars == <<part, findingVars, vars, pvars>>

Still == "idle"
FindingIdle ==
  /\ disk = Still /\ lists = Still /\ set = Still /\ db = Still /\ walked = Still
  /\ unusable = Still /\ engine = Still /\ tool = Still /\ asking = Still /\ phase = Still
  /\ answer = Still /\ count = Still
WritingIdle == todo = Still /\ list = Still /\ pdf = Still /\ ended = Still

\* The cache before the first run, and nobody to begin one.
NoDrivers == Init /\ budget = CHOOSE b \in Budgets : TRUE

AllInit ==
  /\ part \in Parts
  /\ \/ part = "finding" /\ FindingInit /\ NoDrivers /\ WritingIdle
     \/ part = "installing" /\ Init /\ FindingIdle /\ WritingIdle
     \/ part = "writing" /\ Writing!Init /\ FindingIdle /\ NoDrivers

AllNext ==
  /\ UNCHANGED part
  /\ \/ part = "finding" /\ FindingNext /\ UNCHANGED <<vars, pvars>>
     \/ part = "installing" /\ Next /\ UNCHANGED <<findingVars, pvars>>
     \/ part = "writing" /\ Writing!Next /\ UNCHANGED <<findingVars, vars>>

Finds == part = "finding" /\ (Looks \/ Talks) /\ UNCHANGED <<part, vars, pvars>>
AllSpec == AllInit /\ [][AllNext]_allVars /\ WF_allVars(Finds)

\* PdfFile!TableLeadsToObjects and NothingPointsNowhere, of a PDF file.
FileIsWhole == part = "writing" => Writing!TableLeadsToObjects /\ Writing!NothingPointsNowhere

\* PdfFile!TreesHold, of the trees of a PDF file.
TreesHold == part = "writing" => Writing!TreesHold
=============================================================================
