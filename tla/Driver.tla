------------------------------- MODULE Driver -------------------------------
(***************************************************************************)
(* The driver of a parallel build (src/src/main.c, run_parallel_document): *)
(* one run after another over an output directory that keeps the PDF, the  *)
(* state a pass leaves for the next (.aux, .toc and their kind) and the    *)
(* cache of checkpoints.  A run is warm (every chapter is taken up from    *)
(* its checkpoint and written into one PDF), incremental (the last         *)
(* checkpoint before an edit is taken up and the rest of the PDF written   *)
(* again) or cold (passes from the top until the state settles).  Sources  *)
(* are edited between two runs or during one, and a run is killed anywhere.*)
(*                                                                         *)
(* A document is its pieces 0..R: piece 0 is the preamble, and checkpoint  *)
(* c stands after piece c.  Region r of the PDF is what typesetting piece  *)
(* r wrote.                                                                *)
(***************************************************************************)
EXTENDS Integers, Functions

CONSTANTS R,          \* the last piece
          FileOf,     \* the file each piece is written in
          Labels,     \* the pieces whose text the state files depend on
          Versions,   \* what a piece may say
          Draft,      \* the text a document begins with
          Depth,      \* passes until the state of a new text stands still
          MaxPasses,  \* HSTEX_PARALLEL_MAX_PASSES
          Declined,   \* which checkpoints a pass may fail to take (sets)
          MaxEvents,  \* bound of the model: edits, lost files and kills
          None,       \* a file that is not there
          Mixed       \* state of no one pass

Pieces == 0..R

ASSUME PiecesAssumption == /\ R \in Nat \ {0}
                           /\ FileOf \in [Pieces -> Range(FileOf)]
                           /\ Labels \subseteq Pieces
ASSUME PassesAssumption == /\ Depth \in Nat \ {0}
                           /\ MaxPasses \in Nat \ {0}
                           /\ MaxEvents \in Nat
ASSUME DraftAssumption == Draft \in [Pieces -> Versions]
ASSUME DeclinedAssumption == /\ Declined \subseteq SUBSET (0..R-1)
                             /\ Declined # {}

Texts == [Pieces -> Versions]
Upto(text, r) == Restrict(text, 0..r)

\* The piece at which a file is first opened.
First(f) == CHOOSE p \in Pieces :
               /\ FileOf[p] = f
               /\ \A q \in Pieces : FileOf[q] = f => p <= q

Ages == {None} \cup [of : [Labels -> Versions], age : 0..Depth]
Reads == [text : Texts, state : Ages]
ASSUME NoneAssumption == None \notin Texts \cup Reads \cup
                                     [of : [Labels -> Versions], age : 0..Depth]

\* What a region of the PDF holds: the text that led to it, and the state it
\* was set with.
Typeset(text, with, r) == [text |-> Upto(text, r), with |-> with]
Blank == [text |-> <<>>, with |-> Mixed]

VARIABLES
    src,      \* the sources
    state,    \* the state files: whose labels, and how many passes old
    pdf,      \* what each region of the PDF holds
    manifest, \* the cache directory: the sources the cache was built from,
    sources,  \* each file as the last pass read it, the state among them,
    positions,    \* how far each checkpoint had read,
    prefix,       \* what the preamble had put in the PDF,
    checkpoints,  \* and the checkpoints
    pc, how, result,
    passes,
    began,    \* the sources when the validity hash was computed
    read,     \* what the pass that is typesetting found: text and state
    prev,     \* the state before the last pass (previous_aux)
    reuse, chunks,
    deaf,     \* this process has read HSTEX_CKPT_EVERY and found it unset
    moved,    \* history: an edit came while this run was under way
    hurt,     \* history: the cache was cleared in part or built while edited
    behind,   \* history: the PDF is not the one the manifest was written with
    onto,     \* history: this incremental run began when that was so
    events

cache == <<manifest, sources, positions, prefix, checkpoints>>
disk == <<src, state, pdf, cache>>
memory == <<began, read, prev, reuse, chunks, deaf>>
run == <<how, passes, memory>>
history == <<moved, hurt, behind, onto, events>>
vars == <<disk, pc, result, run, history>>

Empty == [c \in {} |-> None]

Init ==
    /\ src = Draft
    /\ state = None
    /\ pdf = [r \in Pieces |-> Blank]
    /\ manifest = None /\ sources = None /\ prefix = Blank
    /\ positions = Empty /\ checkpoints = Empty
    /\ pc = "idle" /\ how = "none" /\ result = "none"
    /\ passes = 0
    /\ began = None /\ read = None /\ prev = None
    /\ reuse = 0 /\ chunks = {} /\ deaf = FALSE
    /\ moved = FALSE /\ hurt = FALSE /\ behind = FALSE /\ onto = FALSE
    /\ events = 0

-----------------------------------------------------------------------------
(* What typesetting comes to. *)

\* What a pass over a text leaves, having read a state: the labels of that
\* text, and each pass nearer to where they stand still.
Left(text, found) ==
    IF Labels = {} THEN None
    ELSE LET of == Restrict(text, Labels)
         IN  [of |-> of,
              age |-> IF found # None /\ found.of = of
                      THEN (IF found.age < Depth THEN found.age + 1 ELSE Depth)
                      ELSE 1]

\* A state file cut short: its labels are not all there.
CutShort(text) ==
    IF Labels = {} THEN None ELSE [of |-> Restrict(text, Labels), age |-> 0]

\* Region r of a run that took checkpoint c up: what the checkpoint had read
\* stands, and what comes after it is read from the disk, the state files
\* among it.
Resumed(c, r) ==
    LET held == checkpoints[c]
    IN  [text |-> [p \in 0..r |-> IF p <= c THEN held.text[p] ELSE src[p]],
         with |-> IF held.with = state THEN state ELSE Mixed]

-----------------------------------------------------------------------------
(* What the cache says of the sources. *)

\* No record of the sources, and no state file is found to have moved.
StateChanged == sources # None /\ sources.state # state

Changed ==
    {f \in Range(FileOf) : \E p \in Pieces : /\ FileOf[p] = f
                                             /\ sources.text[p] # src[p]}

\* Mutant: a file that opens before the checkpoint is taken to open after it.
ReusableOneTooMany(c) ==
    \A f \in Changed :
        \/ First(f) >= c
        \/ /\ f = FileOf[c]
           /\ \A p \in 0..c : FileOf[p] = f => positions[c][p] = src[p]

\* Every changed file opens after the checkpoint, or is the one it was in the
\* middle of and has not changed before that place.
Reusable(c) ==
    \A f \in Changed :
        \/ First(f) > c
        \/ /\ f = FileOf[c]
           /\ \A p \in 0..c : FileOf[p] = f => positions[c][p] = src[p]

ReusePages ==
    IF sources = None \/ Changed = {} THEN {}
    ELSE {c \in DOMAIN positions : Reusable(c)}

Warm == /\ manifest # None
        /\ manifest = src
        /\ ~StateChanged

Incremental == /\ manifest # None
               /\ DOMAIN checkpoints # {}
               /\ ~StateChanged
               /\ ReusePages # {}

\* Mutant: a chunk for the place after the last page too.
ChunkStartsPastTheEnd == DOMAIN checkpoints \cup {-1, R}

\* Where a chunk of a warm run begins (-1: at the top), and where it stops.
ChunkStarts ==
    LET taken == DOMAIN checkpoints
    IN  IF 0 \in taken THEN taken ELSE taken \cup {-1}
ChunkRegions(c) ==
    {r \in Pieces : r > c /\ \A d \in DOMAIN checkpoints : d > c => r <= d}

-----------------------------------------------------------------------------
(* A run. *)

\* The process ends, and with it what it knew.
Ends(status) ==
    /\ pc' = "idle"
    /\ result' = status
    /\ began' = None /\ read' = None /\ prev' = None
    /\ reuse' = 0 /\ chunks' = {} /\ deaf' = FALSE

GoCold(before) ==
    /\ pc' = "clear"
    /\ how' = "cold"
    /\ prev' = before
    /\ passes' = 0

Start ==
    /\ pc = "idle"
    /\ result' = "none"
    /\ began' = src
    /\ moved' = FALSE
    /\ deaf' = FALSE
    /\ \/ /\ Warm
          /\ IF DOMAIN checkpoints = {}
             THEN pc' = "typeset" /\ how' = "fallback"
             ELSE pc' = "open" /\ how' = "warm"
          /\ onto' = FALSE
          /\ UNCHANGED <<prev, passes, reuse>>
       \/ /\ ~Warm /\ Incremental
          /\ pc' = "resume" /\ how' = "incremental"
          /\ reuse' \in ReusePages /\ \A c \in ReusePages : c <= reuse'
          /\ onto' = behind
          /\ UNCHANGED <<prev, passes>>
       \/ /\ ~Warm /\ ~Incremental
          /\ GoCold(state)
          /\ onto' = FALSE
          /\ UNCHANGED reuse
    /\ UNCHANGED <<disk, read, chunks, hurt, behind, events>>

\* run_parallel_warm: an empty PDF, and what the preamble had put in it where
\* the first chunk begins after the preamble.
OpenShared ==
    /\ pc = "open"
    /\ pdf' = [r \in Pieces |-> IF r = 0 /\ 0 \in DOMAIN checkpoints
                                THEN prefix ELSE Blank]
    /\ chunks' = ChunkStarts
    /\ behind' = TRUE
    /\ pc' = "chunks"
    /\ UNCHANGED <<src, state, cache, result, how, began, read, prev, passes,
                   reuse, deaf, moved, hurt, onto, events>>

\* What a chunk writes of the one PDF as far as a region.
Tiles(c, last) ==
    pdf' = [r \in Pieces |->
              IF r \notin ChunkRegions(c) \/ r > last THEN pdf[r]
              ELSE IF c = -1 THEN Typeset(src, state, r) ELSE Resumed(c, r)]

\* run_parallel_chunk, in a process and a directory of its own.
Chunk(c) ==
    /\ pc = "chunks" /\ c \in chunks
    /\ Tiles(c, R)
    /\ IF chunks = {c} /\ how = "warm"
       THEN Ends("ok") /\ behind' = moved
       ELSE /\ chunks' = chunks \ {c}
            /\ pc' = IF chunks' = {} THEN "typeset" ELSE pc
            /\ UNCHANGED <<result, behind, began, read, prev, reuse, deaf>>
    /\ UNCHANGED <<src, state, cache, how, passes, moved, hurt, onto, events>>

\* Mutant: whether it was the last is asked before it is taken off.
ChunkFailsUncounted(c) ==
    /\ pc = "chunks" /\ c \in chunks
    /\ chunks' = chunks \ {c}
    /\ how' = "fallback"
    /\ \E last \in c..R : Tiles(c, last)
    /\ pc' = IF chunks = {} THEN "typeset" ELSE pc
    /\ UNCHANGED <<src, state, cache, result, passes, began, read, prev, reuse,
                   deaf, history>>

\* A chunk that fails, anywhere in what it had to write, makes the run
\* sequential once they have all ended.
ChunkFails(c) ==
    /\ pc = "chunks" /\ c \in chunks
    /\ chunks' = chunks \ {c}
    /\ how' = "fallback"
    /\ \E last \in c..R : Tiles(c, last)
    /\ pc' = IF chunks' = {} THEN "typeset" ELSE pc
    /\ UNCHANGED <<src, state, cache, result, began, read, prev, passes, reuse,
                   deaf, history>>

\* run_parallel_incremental.  The .aux is not open in what was taken up, and
\* a .toc that is opened again is written from the .aux: a run that ends well
\* leaves the state as it was, and one that does not may leave it cut short.
Forward(last) ==
    pdf' = [r \in Pieces |-> IF r \in reuse + 1..last THEN Resumed(reuse, r)
                             ELSE pdf[r]]

TakeUp ==
    /\ pc = "resume"
    /\ reuse \in DOMAIN checkpoints
    /\ Forward(R)
    /\ behind' = TRUE
    /\ Ends("ok")
    /\ UNCHANGED <<src, state, cache, how, passes, moved, hurt, onto, events>>

\* The checkpoint is missing or cannot be read, or the document fails after
\* it was: the run goes cold in this same process.
TakeUpFails ==
    /\ pc = "resume"
    /\ \/ /\ GoCold(state)
          /\ UNCHANGED <<state, pdf, deaf, behind>>
       \/ /\ reuse \in DOMAIN checkpoints
          /\ \E last \in reuse..R : Forward(last)
          /\ \E left \in {state, CutShort(src)} : state' = left /\ GoCold(left)
          /\ deaf' = TRUE
          /\ behind' = TRUE
    /\ UNCHANGED <<src, cache, result, began, read, reuse, chunks,
                   moved, hurt, onto, events>>

ClearCache ==
    /\ manifest' = None /\ sources' = None /\ prefix' = Blank
    /\ positions' = Empty /\ checkpoints' = Empty

Clear ==
    /\ pc = "clear"
    /\ ClearCache
    /\ hurt' = FALSE
    /\ pc' = "typeset"
    /\ UNCHANGED <<src, state, pdf, result, run, moved, behind, onto, events>>

\* run_document_from_format: the PDF is opened anew.
Begin ==
    /\ pc = "typeset"
    /\ read' = [text |-> src, state |-> state]
    /\ pdf' = [r \in Pieces |-> Blank]
    /\ behind' = TRUE
    /\ pc' = "typesetting"
    /\ UNCHANGED <<src, state, cache, result, how, began, prev, passes, reuse,
                   chunks, deaf, moved, hurt, onto, events>>

\* A file is read whole when it is opened; those opened after piece k are
\* found as they are when the pass ends.
Found(k) == [p \in Pieces |-> IF First(FileOf[p]) <= k THEN read.text[p]
                              ELSE src[p]]

\* The checkpoints a pass drops, and beside them where the reading stood and
\* what the preamble had put in the PDF.
Drops(text, taken) ==
    /\ checkpoints' = [c \in taken |-> Typeset(text, read.state, c)]
    /\ positions' = [c \in taken |-> Upto(text, c)]
    /\ prefix' = IF 0 \in taken THEN Typeset(text, read.state, 0) ELSE Blank
    /\ UNCHANGED <<manifest, sources>>

\* Mutant: any state from a pass before will do.
SettledTooSoon(left) == left = None \/ prev # None

\* Mutant: the .aux stands still and nobody looks at the .toc.
SettledByTheAux(left) == left = None \/ (prev # None /\ left.of = prev.of)

\* parallel_hash_state_files: nothing is left, or what was there before.
Settled(left) == left = None \/ (prev # None /\ left = prev)

Finish ==
    /\ pc = "typesetting"
    /\ \E k \in Pieces :
         LET text == Found(k)
             left == Left(text, read.state)
         IN  /\ pdf' = [r \in Pieces |-> Typeset(text, read.state, r)]
             /\ state' = left
             /\ IF how = "fallback"
                THEN /\ Ends("ok")
                     /\ behind' = moved
                     /\ UNCHANGED <<cache, passes>>
                ELSE /\ \E declined \in Declined :
                          Drops(text, IF deaf THEN {} ELSE (0..R-1) \ declined)
                     /\ passes' = passes + 1
                     /\ read' = [read EXCEPT !.text = text]
                     /\ prev' = left
                     /\ pc' = IF Settled(left) \/ passes' = MaxPasses
                              THEN "record" ELSE "clear"
                     /\ UNCHANGED <<result, behind, began, reuse, chunks, deaf>>
    /\ UNCHANGED <<src, how, moved, hurt, onto, events>>

\* The document has an error: the status is not 0 and the cache is left
\* without a manifest, if it was being built.
FinishFails ==
    /\ pc = "typesetting"
    /\ state' \in {state, CutShort(read.text), Left(read.text, read.state)}
    /\ Ends("failed")
    /\ UNCHANGED <<src, pdf, cache, how, passes, history>>

\* Mutant: what the run left is recorded, and not what it read.
RecordLeft ==
    /\ pc = "record"
    /\ sources' = [text |-> read.text, state |-> state]
    /\ pc' = "manifest"
    /\ UNCHANGED <<src, state, pdf, manifest, positions, prefix, checkpoints,
                   result, run, history>>

\* parallel_record_sources: each file as it was when it was first opened.
Record ==
    /\ pc = "record"
    /\ sources' = read
    /\ pc' = "manifest"
    /\ UNCHANGED <<src, state, pdf, manifest, positions, prefix, checkpoints,
                   result, run, history>>

WriteManifest ==
    /\ pc = "manifest"
    /\ manifest' = began
    /\ hurt' = moved
    /\ behind' = FALSE
    /\ Ends("ok")
    /\ UNCHANGED <<src, state, pdf, sources, positions, prefix, checkpoints,
                   how, passes, moved, onto, events>>

-----------------------------------------------------------------------------
(* What happens to a run, and between two. *)

Happens == events < MaxEvents /\ events' = events + 1

Edit ==
    /\ Happens
    /\ \E p \in Pieces, v \in Versions : src' = [src EXCEPT ![p] = v]
    /\ src' # src
    /\ moved' = (moved \/ pc # "idle")
    /\ result' = IF pc = "idle" THEN "none" ELSE result
    /\ UNCHANGED <<state, pdf, cache, pc, run, hurt, behind, onto>>

\* The state files are removed, as \latexmk -c" does.
LoseState ==
    /\ pc = "idle" /\ state # None /\ Happens
    /\ state' = None
    /\ result' = "none"
    /\ UNCHANGED <<src, pdf, cache, pc, run, moved, hurt, behind, onto>>

Killed == /\ Happens
          /\ Ends("killed")

\* The directory is cleared in the order it is listed, which is any order; once
\* the manifest is gone nobody looks at the rest.
KillClearing ==
    /\ pc = "clear" /\ Killed
    /\ \/ ClearCache
       \/ /\ UNCHANGED manifest
          /\ sources' \in {None, sources}
          /\ positions' \in {Empty, positions}
          /\ prefix' \in {Blank, prefix}
          /\ \E held \in SUBSET DOMAIN checkpoints :
               checkpoints' = Restrict(checkpoints, held)
    /\ hurt' = TRUE
    /\ UNCHANGED <<src, state, pdf, how, passes, moved, behind, onto>>

KillTypesetting ==
    /\ pc = "typesetting" /\ Killed
    /\ state' \in {state, CutShort(read.text)}
    /\ UNCHANGED <<src, pdf, cache, how, passes, moved, hurt, behind, onto>>

KillTakingUp ==
    /\ pc = "resume" /\ Killed
    /\ reuse \in DOMAIN checkpoints
    /\ \E last \in reuse..R : Forward(last)
    /\ state' \in {state, CutShort(src)}
    /\ behind' = TRUE
    /\ UNCHANGED <<src, cache, how, passes, moved, hurt, onto>>

KillElsewhere ==
    /\ pc \in {"open", "chunks", "typeset", "record", "manifest"} /\ Killed
    /\ UNCHANGED <<disk, how, passes, moved, hurt, behind, onto>>

Kill == KillClearing \/ KillTypesetting \/ KillTakingUp \/ KillElsewhere

Step == \/ OpenShared \/ TakeUp \/ TakeUpFails \/ Clear \/ Begin \/ Finish
        \/ FinishFails \/ Record \/ WriteManifest
        \/ \E c \in -1..R-1 : Chunk(c) \/ ChunkFails(c)

Next == Start \/ Step \/ Edit \/ LoseState \/ Kill

Spec == Init /\ [][Next]_vars /\ WF_vars(Step)
-----------------------------------------------------------------------------
(* What a run comes to. *)

TextIsRight == \A r \in Pieces : pdf[r].text = Upto(src, r)
AsTypeset == \A r \in Pieces : pdf[r] = Typeset(src, state, r)

Places == {"idle", "open", "chunks", "resume", "clear", "typeset",
           "typesetting", "record", "manifest"}
Regions == {Blank} \cup [text : UNION {[0..r -> Versions] : r \in Pieces},
                         with : Ages \cup {Mixed}]

\* Every variable is of its type, and where a process is agrees with the kind
\* of run it is.
TypeOK ==
    /\ src \in Texts /\ state \in Ages /\ pdf \in [Pieces -> Regions]
    /\ manifest \in Texts \cup {None} /\ sources \in Reads \cup {None}
    /\ prefix \in Regions
    /\ DOMAIN positions \subseteq 0..R-1 /\ DOMAIN checkpoints \subseteq 0..R-1
    /\ \A c \in DOMAIN positions : positions[c] \in [0..c -> Versions]
    /\ \A c \in DOMAIN checkpoints :
         checkpoints[c] \in [text : [0..c -> Versions], with : Ages]
    /\ pc \in Places
    /\ how \in {"none", "warm", "incremental", "cold", "fallback"}
    /\ result \in {"none", "ok", "failed", "killed"}
    /\ passes \in 0..MaxPasses /\ began \in Texts \cup {None}
    /\ read \in Reads \cup {None} /\ prev \in Ages
    /\ reuse \in 0..R-1 /\ chunks \subseteq -1..R-1 /\ deaf \in BOOLEAN
    /\ moved \in BOOLEAN /\ hurt \in BOOLEAN
    /\ behind \in BOOLEAN /\ onto \in BOOLEAN
    /\ events \in 0..MaxEvents
    /\ pc = "open" => how = "warm"
    /\ pc = "chunks" => how \in {"warm", "fallback"}
    /\ pc = "resume" => how = "incremental"
    /\ pc \in {"clear", "record", "manifest"} => how = "cold"
    /\ pc \in {"typeset", "typesetting"} => how \in {"cold", "fallback"}
    /\ pc = "chunks" => chunks \subseteq DOMAIN checkpoints \cup {-1}
    /\ pc \in {"clear", "typeset", "typesetting"} /\ how = "cold" =>
         passes < MaxPasses
    /\ pc # "idle" => began # None
    /\ pc \in {"typesetting", "record", "manifest"} => read # None

\* A run from the top, cold or fallen back to, whose sources stood still
\* leaves the PDF of those sources, whatever the runs before it met; and unless
\* it gave up the PDF is set with the very state it leaves for the next run.
SequentialIsRight ==
    result = "ok" /\ how \in {"cold", "fallback"} /\ ~moved =>
        /\ TextIsRight
        /\ how = "cold" /\ passes < MaxPasses => AsTypeset

\* A document that settled is warm on its second run: nothing a cold run
\* writes makes the next one take the document for edited.
WarmOnItsSecondRun ==
    result = "ok" /\ how = "cold" /\ ~moved /\ passes < MaxPasses =>
        manifest = src /\ ~StateChanged

\* A warm run is never wrong: it leaves what a pass over the sources with the
\* state as it stands leaves, unless the cache was half cleared or was built
\* while its sources were edited.
WarmIsNeverWrong ==
    result = "ok" /\ how = "warm" /\ ~moved /\ ~hurt => AsTypeset

\* An incremental run over the PDF of the build its cache describes leaves
\* the PDF of the sources as they are now.
IncrementalIsRight ==
    result = "ok" /\ how = "incremental" /\ ~moved /\ ~hurt /\ ~onto =>
        TextIsRight

\* The same without regard to what is in the PDF when the run begins.
PrefixIsKept ==
    result = "ok" /\ how = "incremental" /\ ~moved /\ ~hurt => TextIsRight

\* A run that is started ends, however many passes and chunks it takes.
EveryRunEnds == pc # "idle" ~> pc = "idle"
=============================================================================
