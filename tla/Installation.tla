---------------------------- MODULE Installation ----------------------------
(***************************************************************************)
(* The pdflatex driver and its cache (src/pdflatex.c), with the preamble   *)
(* an engine puts by for the next run (src/engine.c, src/main.c).          *)
(*                                                                         *)
(* Several drivers run over one cache directory.  A driver takes where     *)
(* latex.ltx is from the record of an earlier run, or asks; it finds the   *)
(* format under a key of the installation, or builds it; it keys the       *)
(* preamble of its document and starts the engine, which passes over the   *)
(* document once or more.  A pass takes the preamble up or reads it, and   *)
(* puts it by before it first reads its .aux, through a child.  Anything   *)
(* may be killed anywhere, and files are edited, and edits undone, and the *)
(* installation upgraded between the steps.                                *)
(***************************************************************************)
EXTENDS Integers, Sequences, FiniteSets

CONSTANTS Drivers,
          Places,      \* directories where latex.ltx may be
          First,       \* where it is at first
          Budgets,     \* who runs how and what may happen, see Begin
          None

\* What a run is asked, and what bounds a behaviour.
Asked == [rebuild : BOOLEAN, halt : BOOLEAN, preamble : BOOLEAN, small : BOOLEAN,
          alone : BOOLEAN]
BudgetsOf(numbers) == [drivers : SUBSET Drivers, asks : SUBSET Asked, runs : numbers,
                       passes : numbers, edits : numbers]
ASSUME BudgetsAssumption == First \in Places /\ Budgets \subseteq BudgetsOf(Nat)

VARIABLES world,       \* what the disk holds besides the cache
          inode, name, \* the record's files, and what is called what
          formats,     \* the formats of the cache, under their keys
          preambles,   \* the preambles put by, under theirs
          writers,     \* the children that are writing one
          run,         \* where each driver, or its engine, is
          budget       \* the bounds, and what is left of runs and edits

vars == <<world, inode, name, formats, preambles, writers, run, budget>>

-----------------------------------------------------------------------------
(* What there is, and its keys.                                            *)

\* Where the search finds latex.ltx; the lists of the trees, which are new at
\* every upgrade; latex.ltx itself, the engine, the document as far as
\* \begin{document} and the sources beside it, in one of two versions each;
\* and whether a run has left an .aux.
FirstWorld == [where |-> First, lists |-> 0, latex |-> [p \in Places |-> 0],
               build |-> 0, text |-> 0, beside |-> 0, aux |-> FALSE]

\* The key of a format: what this build can read, where latex.ltx is, what it
\* says, and what the lists are.
FormatKey(place, build) == <<build, place, world.latex[place], world.lists>>

\* The key of a preamble: its format, the document so far, what is beside it.
PreambleKey(format) == <<format, world.text, world.beside>>

\* What a build of the format dumps now: everything it read, and its layout.
FormatOf(place) == [latex |-> <<place, world.latex[place]>>,
                    lists |-> world.lists, build |-> world.build]

\* An engine that has read a format, and one that has read the preamble too.
FromFormat(format) == [format |-> format, read |-> None, at |-> "begin"]
PreambleRead(state) ==
  [state EXCEPT !.read = <<world.text, world.beside, world.lists>>]

\* What a run that asks and reads everything now comes to at its .aux.
Afresh == PreambleRead(FromFormat(FormatOf(world.where)))

\* A thing kept with whether anything was edited while it was made.
Kept(what, calm) == [what |-> what, calm |-> calm]
Put(store, key, content) ==
  [k \in DOMAIN store \cup {key} |-> IF k = key THEN content ELSE store[k]]

-----------------------------------------------------------------------------
Idle == [pc |-> "idle", id |-> 0, asks |-> None, build |-> None,
         place |-> None, known |-> FALSE, fd |-> None, format |-> None,
         making |-> None, key |-> None, state |-> None, put |-> FALSE,
         passes |-> 0, calm |-> TRUE]

Init ==
  /\ world = FirstWorld
  /\ inode = <<>> /\ name = [tmp |-> 0, record |-> 0]
  /\ formats = [k \in {} |-> None] /\ preambles = [k \in {} |-> None]
  /\ writers = {}
  /\ run = [d \in Drivers |-> Idle]
  /\ budget \in Budgets

At(d, pc) == run[d].pc = pc
cache == <<inode, name, formats, preambles>>

\* A run: whether it makes the format again, stops at its first error, has a
\* preamble that can be put by, writes it small, and writes it itself.
Begin(d) ==
  /\ At(d, "idle") /\ d \in budget.drivers /\ budget.runs > 0
  /\ \E asks \in budget.asks :
       run' = [run EXCEPT ![d] = [Idle EXCEPT !.pc = "begun", !.asks = asks,
                                              !.id = budget.runs, !.build = world.build]]
  /\ budget' = [budget EXCEPT !.runs = @ - 1]
  /\ UNCHANGED <<world, cache, writers>>

\* A run that fails, or has come to its end.
Stops(d) == run' = [run EXCEPT ![d] = Idle]

-----------------------------------------------------------------------------
(* The record of the installation: where things are, by which lists.       *)

Recorded == IF name.record = 0 THEN None ELSE inode[name.record]

\* Mutant of Current: a record is taken whatever it was made from.
CurrentAlways(record) == record # None
Current(record) == record # None /\ record.what.lists = world.lists

LoadRecord(d) ==
  /\ At(d, "begun") /\ Current(Recorded)
  /\ run' = [run EXCEPT ![d].pc = "found", ![d].known = TRUE, ![d].place = Recorded.what.place,
                        ![d].calm = @ /\ Recorded.calm]
  /\ UNCHANGED <<world, cache, writers, budget>>

AskWhere(d) ==
  /\ At(d, "begun") /\ ~Current(Recorded)
  /\ run' = [run EXCEPT ![d].pc = "found", ![d].place = world.where]
  /\ UNCHANGED <<world, cache, writers, budget>>

\* The key is made first; what was asked is recorded once it is.
Fingerprint(d) ==
  /\ At(d, "found")
  /\ run' = [run EXCEPT ![d].format = FormatKey(run[d].place, run[d].build),
                        ![d].pc = IF run[d].known THEN "keyed" ELSE "saving"]
  /\ UNCHANGED <<world, cache, writers, budget>>

\* The record is written beside its name, under one name for all drivers, and
\* moved into place.  Who opens a file that is there empties it.
SaveOpens(d) ==
  /\ At(d, "saving")
  /\ LET fd == IF name.tmp = 0 THEN Len(inode) + 1 ELSE name.tmp
     IN  /\ inode' = IF name.tmp = 0 THEN Append(inode, None) ELSE [inode EXCEPT ![fd] = None]
         /\ name' = [name EXCEPT !.tmp = fd]
         /\ run' = [run EXCEPT ![d].pc = "opened", ![d].fd = fd]
  /\ UNCHANGED <<world, formats, preambles, writers, budget>>

SaveWrites(d) ==
  /\ At(d, "opened")
  /\ inode' = [inode EXCEPT ![run[d].fd] =
                 Kept([lists |-> world.lists, place |-> run[d].place], run[d].calm)]
  /\ run' = [run EXCEPT ![d].pc = "written"]
  /\ UNCHANGED <<world, name, formats, preambles, writers, budget>>

\* Where another driver has moved the file already there is none to move.
SaveRenames(d) ==
  /\ At(d, "written")
  /\ name' = IF name.tmp = 0 THEN name ELSE [tmp |-> 0, record |-> name.tmp]
  /\ run' = [run EXCEPT ![d].pc = "keyed"]
  /\ UNCHANGED <<world, inode, formats, preambles, writers, budget>>

-----------------------------------------------------------------------------
(* The format.                                                             *)

TakeFormat(d) ==
  /\ At(d, "keyed") /\ ~run[d].asks.rebuild /\ run[d].format \in DOMAIN formats
  /\ run' = [run EXCEPT ![d].pc = "formatted"]
  /\ UNCHANGED <<world, cache, writers, budget>>

\* An engine builds it, under a name of this driver's own.
BuildFormat(d) ==
  /\ At(d, "keyed") /\ (run[d].asks.rebuild \/ run[d].format \notin DOMAIN formats)
  /\ run' = [run EXCEPT ![d].pc = "building", ![d].making = FormatOf(run[d].place)]
  /\ UNCHANGED <<world, cache, writers, budget>>

\* A build that fails, or cannot be moved into place, ends the run.
BuildFails(d) ==
  /\ At(d, "building") /\ Stops(d)
  /\ UNCHANGED <<world, cache, writers, budget>>

PublishFormat(d) ==
  /\ At(d, "building")
  /\ formats' = Put(formats, run[d].format, Kept(run[d].making, run[d].calm))
  /\ run' = [run EXCEPT ![d].pc = "formatted", ![d].making = None]
  /\ UNCHANGED <<world, inode, name, preambles, writers, budget>>

\* No preamble is named to an engine that stops at errors, nor where the
\* document has none.
KeyPreamble(d) ==
  /\ At(d, "formatted")
  /\ run' = [run EXCEPT ![d].pc = "engine",
                        ![d].key = IF run[d].asks.halt \/ ~run[d].asks.preamble THEN None
                                   ELSE PreambleKey(run[d].format)]
  /\ UNCHANGED <<world, cache, writers, budget>>

-----------------------------------------------------------------------------
(* A pass of the engine, as far as its .aux.                               *)

IsPut(key) == key # None /\ key \in DOMAIN preambles

\* It is whole, this build wrote it, and there is the .aux it stood before.
Readable(key) == /\ IsPut(key) /\ preambles[key] # None
                 /\ preambles[key].what.format.build = world.build
                 /\ world.aux

TakePreamble(d) ==
  /\ At(d, "engine") /\ Readable(run[d].key)
  /\ run' = [run EXCEPT ![d].pc = "aux", ![d].state = preambles[run[d].key].what,
                        ![d].calm = @ /\ preambles[run[d].key].calm]
  /\ UNCHANGED <<world, cache, writers, budget>>

ReadFormat(d) ==
  /\ At(d, "engine") /\ ~Readable(run[d].key)
  /\ LET format == formats[run[d].format]
     IN  IF format.what.build = world.build
         THEN run' = [run EXCEPT ![d].pc = "reading", ![d].state = FromFormat(format.what),
                                 ![d].calm = @ /\ format.calm]
         ELSE Stops(d)
  /\ UNCHANGED <<world, cache, writers, budget>>

\* The preamble, what lies beside the document and what is in the trees, as
\* they are.  Where there is no .aux yet none is read.
ReadPreamble(d) ==
  /\ At(d, "reading")
  /\ run' = [run EXCEPT ![d].pc = IF world.aux THEN "aux" ELSE "body",
                        ![d].state = PreambleRead(@)]
  /\ world' = [world EXCEPT !.aux = TRUE]
  /\ UNCHANGED <<cache, writers, budget>>

\* What a checkpoint can hold: the end of a document reads its .aux again,
\* from inside a conditional.
Clean(state) == state.at = "begin"

\* Where a preamble is named, is not there, and was not put by in this pass.
PutsBy(d, state) ==
  run[d].key # None /\ ~run[d].put /\ ~IsPut(run[d].key) /\ Clean(state)

\* An .aux is about to be read.  A child has the memory of the run as it
\* stands, and the run goes on; a run that writes by itself waits.
PushAux(d, state, next) ==
  LET writes == PutsBy(d, state)
      alone  == run[d].asks.alone
  IN  /\ writers' = IF writes
                    THEN writers \cup {[run |-> run[d].id, key |-> run[d].key,
                                        opens |-> run[d].asks.small,
                                        state |-> Kept(state, run[d].calm)]}
                    ELSE writers
      /\ run' = [run EXCEPT ![d].pc = IF writes /\ alone THEN "putting" ELSE next,
                            ![d].put = @ \/ (writes /\ ~alone), ![d].state = state]

ReadAux(d) ==
  /\ At(d, "aux") /\ PushAux(d, run[d].state, "body")
  /\ UNCHANGED <<world, cache, budget>>

-----------------------------------------------------------------------------
(* The writing of a preamble.                                              *)

Returns(w, written) ==
  run' = [d \in Drivers |-> IF run[d].id = w.run /\ At(d, "putting")
                            THEN [run[d] EXCEPT !.pc = "body", !.put = written] ELSE run[d]]

\* A preamble kept small is written where it will lie.
WriterOpens(w) ==
  /\ w.opens
  /\ preambles' = Put(preambles, w.key, None)
  /\ writers' = (writers \ {w}) \cup {[w EXCEPT !.opens = FALSE]}
  /\ UNCHANGED <<world, inode, name, formats, run, budget>>

\* One that is not is written beside, and moved into place whole.
WriterEnds(w) ==
  /\ ~w.opens
  /\ preambles' = Put(preambles, w.key, w.state)
  /\ writers' = writers \ {w} /\ Returns(w, TRUE)
  /\ UNCHANGED <<world, inode, name, formats, budget>>

WriterFails(w) ==
  /\ writers' = writers \ {w} /\ Returns(w, FALSE)
  /\ UNCHANGED <<world, cache, budget>>

-----------------------------------------------------------------------------
(* The end of a pass, and of a run.                                        *)

EndDocument(d) ==
  /\ At(d, "body") /\ PushAux(d, [run[d].state EXCEPT !.at = "end"], "ended")
  /\ UNCHANGED <<world, cache, budget>>

\* An engine is done with once its writers are.
WritersDone(d) == \A w \in writers : w.run # run[d].id

\* A run that found its .aux changed passes over the document again.
PassEnds(d) ==
  /\ At(d, "ended") /\ WritersDone(d)
  /\ \/ Stops(d)
     \/ /\ ~run[d].asks.halt /\ run[d].passes + 1 < budget.passes
        /\ run' = [run EXCEPT ![d].pc = "engine", ![d].put = FALSE, ![d].state = None,
                              ![d].passes = @ + 1]
  /\ UNCHANGED <<world, cache, writers, budget>>

\* A run that is killed leaves its children writing.
Kill(d) ==
  /\ ~At(d, "idle") /\ Stops(d)
  /\ writers' = {w \in writers : w.run # run[d].id \/ ~At(d, "putting")}
  /\ UNCHANGED <<world, cache, budget>>

-----------------------------------------------------------------------------
(* What others do to the disk.                                             *)

Kinds == {"upgrade", "latex", "build", "text", "beside", "aux"}

\* An edit, or the undoing of one; lists are never again what they were.
Edited(kind) ==
  CASE kind = "upgrade" -> {[world EXCEPT !.where = p, !.lists = @ + 1] : p \in Places}
    [] kind = "latex"   -> {[world EXCEPT !.latex[p] = 1 - @] : p \in Places}
    [] kind = "build"   -> {[world EXCEPT !.build = 1 - @]}
    [] kind = "text"    -> {[world EXCEPT !.text = 1 - @]}
    [] kind = "beside"  -> {[world EXCEPT !.beside = 1 - @]}
    [] kind = "aux"     -> {[world EXCEPT !.aux = FALSE]}

Edit ==
  /\ budget.edits > 0
  /\ \E kind \in Kinds : world' \in Edited(kind)
  /\ run' = [d \in Drivers |-> [run[d] EXCEPT !.calm = @ /\ At(d, "idle")]]
  /\ budget' = [budget EXCEPT !.edits = @ - 1]
  /\ UNCHANGED <<cache, writers>>

-----------------------------------------------------------------------------
Driver(d) ==
  \/ Begin(d) \/ LoadRecord(d) \/ AskWhere(d) \/ Fingerprint(d)
  \/ SaveOpens(d) \/ SaveWrites(d) \/ SaveRenames(d)
  \/ TakeFormat(d) \/ BuildFormat(d) \/ BuildFails(d) \/ PublishFormat(d)
  \/ KeyPreamble(d)

Engine(d) ==
  \/ TakePreamble(d) \/ ReadFormat(d) \/ ReadPreamble(d) \/ ReadAux(d)
  \/ EndDocument(d) \/ PassEnds(d)

Writer(w) == WriterOpens(w) \/ WriterEnds(w) \/ WriterFails(w)

Next == \/ \E d \in Drivers : Driver(d) \/ Engine(d) \/ Kill(d)
        \/ \E w \in writers : Writer(w)
        \/ Edit

Spec == Init /\ [][Next]_vars

-----------------------------------------------------------------------------
(* Properties.                                                             *)

\* A run beside which nothing was edited, and which takes nothing from the
\* cache that was made while something was, sets the document it would have
\* set from nothing: whoever left the record, the format and the preamble
\* there, in whichever pass, and whatever was killed, edited, undone or
\* upgraded before it (pdflatex.c: "never a wrong answer"; main.c: "a stale
\* or unreadable file costs the preamble and never the document").
RightDocument ==
  \A d \in Drivers : At(d, "body") /\ run[d].calm => run[d].state = Afresh
=============================================================================
