------------------------------- MODULE Finder -------------------------------
(***************************************************************************)
(* Finding a file: src/filedb.c and the finder of src/engine.c.  An engine *)
(* asks where a name is.  It looks beside itself, then in what it was told *)
(* before, then in the lists of the installation (ls-R, read once for the  *)
(* process or carried by the format), and puts what is left to a search    *)
(* tool: a child kept running, asked over a pipe, with a marker after each *)
(* question because the tool says nothing of a name it cannot find.        *)
(*                                                                         *)
(* A file is a pair <<directory, name>>.  The search path is a sequence of *)
(* elements, each a kind and the directories under it in the order the     *)
(* tool prefers them.  The tool itself is external: `Find` is its answer,  *)
(* as src/filedb.c reproduces it.  Between questions the run writes files  *)
(* and runs shell commands, and a process may build one engine after       *)
(* another.                                                                *)
(***************************************************************************)
EXTENDS Integers, Sequences, FiniteSets, SequencesExt

CONSTANTS Requests,       \* what the document asks for
          Tries(_),       \* the names an \input of it tries, in order
          Suffixed(_),    \* the names the tool tries for one, in order
          SearchPath,     \* elements [kind, dirs]
          DirectDirs,     \* where an \input looks by itself, in order
          Here,           \* the working directory
          WriteDir,       \* where \openout writes
          Marker,         \* the file the marker's name is found at
          MarkerName,     \* the marker's name
          Worlds,         \* the installations a run may start in
          Installed(_),   \* what a shell command may create or remove in one
          Nowhere, MaxQuestions, MaxWrites, MaxEngines

VARIABLES disk,       \* the files there are
          lists,      \* what the ls-R of the listed trees hold
          set,        \* the installation's settings: see Worlds
          db,         \* the lists as this process holds them
          walked,     \* directories walked, as they were
          unusable,   \* hstex_finder_unusable
          engine,     \* this engine's finder, cache and generations
          tool,       \* the child
          asking,     \* the question being answered
          phase, answer, count

findingVars == <<disk, lists, set, db, walked, unusable, engine, tool, asking,
          phase, answer, count>>

-----------------------------------------------------------------------------
(* The tool's search: the first element that holds one of the names.       *)

Directories == UNION {ToSet(SearchPath[i].dirs) : i \in DOMAIN SearchPath}

\* The first answer of a sequence of possible ones.
FirstFound(answers) ==
  IF \A i \in DOMAIN answers : answers[i] = Nowhere THEN Nowhere
  ELSE answers[CHOOSE i \in DOMAIN answers :
                 answers[i] # Nowhere /\ \A j \in 1 .. i - 1 : answers[j] = Nowhere]

\* The first copy of a name an element holds, in a world of files and lists.
Copy(element, name, world) ==
  FirstFound([i \in DOMAIN element.dirs |->
    LET file == <<element.dirs[i], name>>
    IN  IF file \in world.disk /\ (element.kind = "listed" => file \in world.lists)
        THEN file ELSE Nowhere])

FindIn(element, name, world) ==
  FirstFound([i \in DOMAIN Suffixed(name) |-> Copy(element, Suffixed(name)[i], world)])

Find(name, world) ==
  IF name = MarkerName THEN Marker
  ELSE FirstFound([i \in DOMAIN SearchPath |-> FindIn(SearchPath[i], name, world)])

Now == [disk |-> disk, lists |-> lists]

-----------------------------------------------------------------------------
(* What a child remembers, and what an engine starts with.                 *)

NoTool == [state |-> "none", world |-> [disk |-> {}, lists |-> {}],
           in |-> <<>>, out |-> <<>>, generation |-> 0]

NotAsked == [path |-> Nowhere, generation |-> -1]

NewEngine == [broken |-> FALSE, generation |-> 0, external |-> 0,
              cache |-> [f \in UNION {ToSet(Tries(n)) : n \in Requests} |-> NotAsked]]

Unread == [state |-> "unread", usable |-> FALSE, held |-> {}, paths |-> FALSE]

NoQuestion == [input |-> FALSE, left |-> <<>>, all |-> <<>>, remembered |-> NewEngine.cache]

\* A format's image of the lists is taken where the stamp it carries is
\* still that of the trees, and carries the search paths with it.
Adopted(world) ==
  IF world.lists \in world.image /\ world.plain
  THEN [state |-> "ready", usable |-> TRUE, held |-> world.lists, paths |-> TRUE]
  ELSE Unread

FindingInit ==
  \E world \in Worlds :
    /\ disk = world.disk /\ lists = world.lists /\ set = world
    /\ db = Adopted(world)
    /\ walked = [d \in {} |-> {}] /\ unusable = FALSE
    /\ engine = NewEngine /\ tool = NoTool
    /\ asking = NoQuestion /\ phase = "idle" /\ answer = Nowhere
    /\ count = [questions |-> 0, writes |-> 0, engines |-> 1]

-----------------------------------------------------------------------------
(* The lists.                                                              *)

\* The lists are read at the first question, where no image was taken; the
\* tool is asked which trees have one, and may not say.
ReadLists(tells) ==
  /\ phase = "trying" /\ set.plain /\ db.state = "unread"
  /\ db' = [state |-> "ready", usable |-> tells /\ lists # {},
            held |-> IF tells THEN lists ELSE {}, paths |-> FALSE]
  /\ UNCHANGED <<disk, lists, set, walked, unusable, engine, tool, asking, phase, answer, count>>

\* Where the lists hold a name under an element.
Held(element, name) == {d \in ToSet(element.dirs) : <<d, name>> \in db.held}

Listed == UNION {ToSet(SearchPath[i].dirs) :
                   i \in {j \in DOMAIN SearchPath : SearchPath[j].kind = "listed"}}

\* A name held twice: the tool knows which is meant.
Doubt == <<Nowhere[1], "twice">>

\* Without the search paths: a name held once, wherever that is, is there.
Lookup(name) ==
  LET held == {f \in db.held : f[2] = name}
  IN  IF \E f \in disk : held = {f}
      THEN [says |-> "file", path |-> CHOOSE f \in held : TRUE]
      ELSE [says |-> "ask", path |-> Nowhere]

\* A directory searched on disk is walked once for the process.
WalkOf(element) ==
  LET d == Head(element.dirs)
  IN  IF d \in DOMAIN walked THEN walked[d] ELSE {f \in disk : f[1] \in ToSet(element.dirs)}

\* One element, one name: the file, a doubt the tool must settle, or nothing.
InElement(element, name) ==
  CASE element.kind = "listed" ->
         LET held == Held(element, name)
         IN  IF \E d, e \in held : d # e THEN Doubt
             ELSE IF \E d \in held : <<d, name>> \in disk THEN <<CHOOSE d \in held : TRUE, name>>
             ELSE Nowhere
    [] element.kind = "walked" ->
         LET held == {f \in WalkOf(element) : f[2] = name}
         IN  IF held = {} THEN Nowhere ELSE CHOOSE f \in held : TRUE
    [] OTHER -> IF <<element.dirs[1], name>> \in disk THEN <<element.dirs[1], name>> ELSE Nowhere

\* The path element by element, each with the names the tool would try.
Outcome(i, name) ==
  FirstFound([j \in DOMAIN Suffixed(name) |-> InElement(SearchPath[i], Suffixed(name)[j])])

Resolve(name) ==
  LET first == FirstFound([i \in DOMAIN SearchPath |-> Outcome(i, name)])
  IN  CASE first = Doubt -> [says |-> "ask", path |-> Nowhere]
        [] first = Nowhere -> [says |-> "nothing", path |-> Nowhere]
        [] OTHER           -> [says |-> "file", path |-> first]

ListsSay(name) ==
  IF ~(set.plain /\ db.usable) \/ name = MarkerName THEN [says |-> "ask", path |-> Nowhere]
  ELSE IF db.paths THEN Resolve(name) ELSE Lookup(name)

\* The elements a resolution reached before it was settled were walked.
WalkedBy(name) ==
  {i \in DOMAIN SearchPath :
     SearchPath[i].kind = "walked" /\ \A j \in 1 .. i - 1 : Outcome(j, name) = Nowhere}

Walk(name) ==
  LET reached == IF set.plain /\ db.usable /\ db.paths THEN WalkedBy(name) ELSE {}
  IN  [d \in DOMAIN walked \cup {Head(SearchPath[i].dirs) : i \in reached} |->
         IF d \in DOMAIN walked THEN walked[d]
         ELSE {f \in disk : \E i \in reached :
                 Head(SearchPath[i].dirs) = d /\ f[1] \in ToSet(SearchPath[i].dirs)}]

-----------------------------------------------------------------------------
(* A question.                                                             *)

\* An \input tries each name in the directories of its own first; a font or
\* a map is asked for by one name.
Ask(name, input) ==
  /\ phase \in {"idle", "told"} /\ count.questions < MaxQuestions
  /\ LET all == IF input THEN Tries(name) ELSE <<Tries(name)[1]>>
     IN  asking' = [input |-> input, left |-> all, all |-> all, remembered |-> engine.cache]
  /\ phase' = "trying" /\ answer' = Nowhere
  /\ count' = [count EXCEPT !.questions = @ + 1]
  /\ UNCHANGED <<disk, lists, set, db, walked, unusable, engine, tool>>

Direct(name) ==
  LET dirs == IF asking.input THEN DirectDirs ELSE <<Here>>
  IN  FirstFound([i \in DOMAIN dirs |->
        IF <<dirs[i], name>> \in disk THEN <<dirs[i], name>> ELSE Nowhere])

\* An answer ends the question, unless it is nothing and a name is left.
Answered(path) ==
  IF path = Nowhere /\ Len(asking.left) > 1
  THEN /\ phase' = "trying" /\ answer' = Nowhere
       /\ asking' = [asking EXCEPT !.left = Tail(@)]
  ELSE /\ phase' = "told" /\ answer' = path /\ UNCHANGED asking

\* The answer is remembered with the generation it was given in.
Remembered(e, path) ==
  [e EXCEPT !.cache[asking.left[1]] = [path |-> path, generation |-> e.generation]]

FoundDirectly ==
  /\ phase = "trying" /\ Direct(asking.left[1]) # Nowhere
  /\ phase' = "told" /\ answer' = Direct(asking.left[1])
  /\ UNCHANGED <<disk, lists, set, db, walked, unusable, engine, tool, asking, count>>

\* What was found stays found; what was not is asked after again once the
\* run has written a file.
Reusable(entry) == entry.path # Nowhere \/ entry.generation = engine.generation

FoundInCache ==
  /\ phase = "trying" /\ Direct(asking.left[1]) = Nowhere
  /\ LET entry == engine.cache[asking.left[1]]
     IN  Reusable(entry) /\ Answered(entry.path)
  /\ UNCHANGED <<disk, lists, set, db, walked, unusable, engine, tool, count>>

Unanswered ==
  /\ phase = "trying" /\ Direct(asking.left[1]) = Nowhere
  /\ ~Reusable(engine.cache[asking.left[1]])
  /\ set.plain => db.state = "ready"

SettledByLists ==
  /\ Unanswered
  /\ \E said \in {ListsSay(asking.left[1])} :
       /\ said.says # "ask"
       /\ engine' = Remembered(engine, said.path)
       /\ Answered(said.path)
  /\ walked' = Walk(asking.left[1])
  /\ UNCHANGED <<disk, lists, set, db, unusable, tool, count>>

LeftToTool ==
  /\ Unanswered /\ ListsSay(asking.left[1]).says = "ask"
  /\ walked' = Walk(asking.left[1])
  /\ phase' = "tool"
  /\ UNCHANGED <<disk, lists, set, db, unusable, engine, tool, asking, answer, count>>

-----------------------------------------------------------------------------
(* Talking to the tool.                                                    *)

\* A tool of its own for one name: it searches what there is now.
OwnChild(e) ==
  \E path \in {Find(asking.left[1], Now)} :
    engine' = Remembered(e, path) /\ Answered(path)

AskAlone ==
  /\ phase = "tool" /\ (engine.broken \/ asking.left[1] = MarkerName)
  /\ OwnChild(engine)
  /\ UNCHANGED <<disk, lists, set, db, walked, unusable, tool, count>>

CanTalk == phase = "tool" /\ ~engine.broken /\ asking.left[1] # MarkerName

\* Mutant of Outdated: the child is kept whatever has run beside it.
OutdatedNever(child) == FALSE
Outdated(child) == child.state # "none" /\ child.generation # engine.external

\* A command has run since the child started: what it remembers may be old.
StopOutdated ==
  /\ CanTalk /\ Outdated(tool)
  /\ tool' = NoTool
  /\ UNCHANGED <<disk, lists, set, db, walked, unusable, engine, asking, phase, answer, count>>

StartTool ==
  /\ CanTalk /\ tool.state = "none" /\ ~unusable
  /\ tool' = [NoTool EXCEPT !.state = "starting", !.world = Now]
  /\ phase' = "greeting"
  /\ UNCHANGED <<disk, lists, set, db, walked, unusable, engine, asking, answer, count>>

\* It was found unusable, or cannot be started: each name has its own child.
CannotStart ==
  /\ CanTalk /\ tool.state = "none"
  /\ OwnChild([engine EXCEPT !.broken = TRUE])
  /\ UNCHANGED <<disk, lists, set, db, walked, unusable, tool, count>>

\* The tool says where the marker is before it is asked anything.
Greeted ==
  /\ phase = "greeting" /\ tool.out # <<>>
  /\ tool' = [tool EXCEPT !.out = Tail(@), !.generation = engine.external]
  /\ phase' = "tool"
  /\ UNCHANGED <<disk, lists, set, db, walked, unusable, engine, asking, answer, count>>

\* Nothing within the time, or the end of what the tool says.
\* Mutant of Silence: only the end of what the tool says ends the wait.
SilenceAtTheEnd == tool.out = <<>> /\ tool.state = "dead"
Silence == tool.out = <<>>

NeverGreeted ==
  /\ phase = "greeting" /\ Silence
  /\ tool' = NoTool /\ unusable' = TRUE
  /\ OwnChild([engine EXCEPT !.broken = TRUE])
  /\ UNCHANGED <<disk, lists, set, db, walked, count>>

PutQuestion ==
  /\ CanTalk /\ tool.state = "running" /\ ~Outdated(tool)
  /\ tool' = [tool EXCEPT !.in = @ \o <<asking.left[1], MarkerName>>]
  /\ phase' = "answer"
  /\ UNCHANGED <<disk, lists, set, db, walked, unusable, engine, asking, answer, count>>

\* The child has died: the question cannot be written.
CannotPut ==
  /\ CanTalk /\ tool.state = "dead" /\ ~Outdated(tool)
  /\ tool' = NoTool
  /\ OwnChild([engine EXCEPT !.broken = TRUE])
  /\ UNCHANGED <<disk, lists, set, db, walked, unusable, count>>

\* The marker's answer first means that there was none before it.
NotFound ==
  /\ phase = "answer" /\ tool.out # <<>> /\ Head(tool.out) = Marker
  /\ tool' = [tool EXCEPT !.out = Tail(@)]
  /\ engine' = Remembered(engine, Nowhere) /\ Answered(Nowhere)
  /\ UNCHANGED <<disk, lists, set, db, walked, unusable, count>>

FirstAnswer ==
  /\ phase = "answer" /\ tool.out # <<>> /\ Head(tool.out) # Marker
  /\ answer' = Head(tool.out) /\ phase' = "second"
  /\ tool' = [tool EXCEPT !.out = Tail(@)]
  /\ UNCHANGED <<disk, lists, set, db, walked, unusable, engine, asking, count>>

NoAnswer ==
  /\ phase = "answer" /\ Silence
  /\ tool' = NoTool /\ unusable' = TRUE
  /\ OwnChild([engine EXCEPT !.broken = TRUE])
  /\ UNCHANGED <<disk, lists, set, db, walked, count>>

SecondAnswer ==
  /\ phase = "second" /\ tool.out # <<>> /\ Head(tool.out) = Marker
  /\ tool' = [tool EXCEPT !.out = Tail(@)]
  /\ engine' = Remembered(engine, answer) /\ Answered(answer)
  /\ UNCHANGED <<disk, lists, set, db, walked, unusable, count>>

\* No second answer: this engine stops talking, the process does not.
NoSecondAnswer ==
  /\ phase = "second" /\ Silence
  /\ tool' = NoTool
  /\ OwnChild([engine EXCEPT !.broken = TRUE])
  /\ UNCHANGED <<disk, lists, set, db, walked, unusable, count>>

-----------------------------------------------------------------------------
(* The tool.                                                               *)

\* It reads the lists and directories as they were when it started, or anew;
\* the working directory it always looks at.
WorldsOf(child) ==
  {Now, [disk |-> {f \in disk : f[1] = Here} \cup {f \in child.world.disk : f[1] # Here},
         lists |-> child.world.lists]}

ToolGreets ==
  /\ tool.state = "starting" /\ set.speaks
  /\ tool' = [tool EXCEPT !.state = "running", !.out = Append(@, Marker)]
  /\ UNCHANGED <<disk, lists, set, db, walked, unusable, engine, asking, phase, answer, count>>

ToolAnswers ==
  /\ tool.state = "running" /\ tool.in # <<>>
  /\ \E world \in WorldsOf(tool) : \E path \in {Find(Head(tool.in), world)} :
       tool' = [tool EXCEPT !.in = Tail(@),
                            !.out = IF path = Nowhere THEN @ ELSE Append(@, path)]
  /\ UNCHANGED <<disk, lists, set, db, walked, unusable, engine, asking, phase, answer, count>>

\* What it had said can still be read.
ToolDies ==
  /\ tool.state \in {"starting", "running"} /\ set.dies
  /\ tool' = [tool EXCEPT !.state = "dead", !.in = <<>>]
  /\ UNCHANGED <<disk, lists, set, db, walked, unusable, engine, asking, phase, answer, count>>

-----------------------------------------------------------------------------
(* Between questions.                                                      *)

Quiet == phase \in {"idle", "told"} /\ count.writes < MaxWrites

\* \openout: a file of the run's own, named with a suffix; what was not found
\* may be there now.
OpenOut(name) ==
  /\ Quiet
  /\ disk' = disk \cup {<<WriteDir, Suffixed(name)[1]>>}
  /\ engine' = [engine EXCEPT !.generation = @ + 1]
  /\ phase' = "idle" /\ count' = [count EXCEPT !.writes = @ + 1]
  /\ UNCHANGED <<lists, set, db, walked, unusable, tool, asking, answer>>

\* \write18: a command that may change any directory.
ShellCommand(file) ==
  /\ Quiet /\ file \in Installed(set)
  /\ \/ disk' = disk \cup {file}
     \/ disk' = disk \ {file}
  /\ engine' = [engine EXCEPT !.generation = @ + 1, !.external = @ + 1]
  /\ phase' = "idle" /\ count' = [count EXCEPT !.writes = @ + 1]
  /\ UNCHANGED <<lists, set, db, walked, unusable, tool, asking, answer>>

\* The next engine of the same process: the child is stopped with the first.
NextEngine ==
  /\ phase \in {"idle", "told"} /\ count.engines < MaxEngines
  /\ engine' = NewEngine /\ tool' = NoTool
  /\ phase' = "idle" /\ count' = [count EXCEPT !.engines = @ + 1]
  /\ UNCHANGED <<disk, lists, set, db, walked, unusable, asking, answer>>

Looks == \/ \E tells \in BOOLEAN : ReadLists(tells)
         \/ FoundDirectly \/ FoundInCache \/ SettledByLists \/ LeftToTool

Talks == \/ AskAlone \/ StopOutdated \/ StartTool \/ CannotStart
         \/ Greeted \/ NeverGreeted \/ PutQuestion \/ CannotPut
         \/ NotFound \/ FirstAnswer \/ NoAnswer \/ SecondAnswer \/ NoSecondAnswer

FindingNext ==
  \/ \E name \in Requests, input \in BOOLEAN : Ask(name, input)
  \/ Looks \/ Talks
  \/ ToolGreets \/ ToolAnswers \/ ToolDies
  \/ \E name \in Requests : OpenOut(name)
  \/ \E file \in Installed(set) : ShellCommand(file)
  \/ NextEngine

FindingSpec == FindingInit /\ [][FindingNext]_findingVars /\ WF_findingVars(Looks \/ Talks)

-----------------------------------------------------------------------------
(* What is known of an installation.                                       *)

NamesTried == UNION {ToSet(Tries(n)) : n \in Requests}

\* Names and elements are in sequences that are not empty, each name is one
\* of those the tool tries for it, and the marker's file answers no other.
NamesAssumption ==
  /\ \A n \in Requests : Tries(n) \in Seq(NamesTried) \ {<<>>}
  /\ \A n \in NamesTried :
       /\ Suffixed(n) \in Seq(ToSet(Suffixed(n)))
       /\ n \in ToSet(Suffixed(n))
       /\ n # MarkerName => Marker[2] \notin ToSet(Suffixed(n))
  /\ Marker # Nowhere /\ Doubt # Nowhere
  /\ Nowhere[1] \notin Directories \cup ToSet(DirectDirs)

IsWalked(i) == SearchPath[i].kind = "walked"

\* An element that is searched on disk and not walked is one directory, and
\* the directory an element is named by says which are under it. Inputs are
\* looked for in the working directory, and a run's own files are there or
\* where nobody looks but itself.
PathAssumption ==
  /\ SearchPath \in Seq(ToSet(SearchPath))
  /\ DirectDirs \in Seq(ToSet(DirectDirs)) /\ Here \in ToSet(DirectDirs)
  /\ WriteDir \notin Directories \ {Here}
  /\ \A i \in DOMAIN SearchPath :
       /\ SearchPath[i].dirs \in Seq(ToSet(SearchPath[i].dirs)) \ {<<>>}
       /\ SearchPath[i].kind \notin {"listed", "walked"} => Len(SearchPath[i].dirs) = 1
       /\ IsWalked(i) =>
            /\ WriteDir \notin ToSet(SearchPath[i].dirs)
            /\ \A j \in DOMAIN SearchPath :
                 IsWalked(j) /\ Head(SearchPath[j].dirs) = Head(SearchPath[i].dirs) =>
                   ToSet(SearchPath[j].dirs) = ToSet(SearchPath[i].dirs)

\* Every file a run that starts in a world may meet.
MayStand(w) == w.disk \cup Installed(w) \cup {<<WriteDir, Suffixed(n)[1]>> : n \in Requests}

\* Lists hold what is in their trees, and where they are believed nobody
\* installs into a directory that is walked, which holds no name twice.
\* Where they are believed without the search paths, the names the tool
\* would try stand in listed directories or beside the run, and under no
\* other suffix.
WorldAssumption(w) ==
  /\ \A f \in w.lists : f = <<f[1], f[2]>> /\ f[1] \in Listed
  /\ \A f \in MayStand(w) : f = <<f[1], f[2]>>
  /\ w.plain => \A i \in DOMAIN SearchPath : IsWalked(i) =>
       /\ \A f \in Installed(w) : f[1] \notin ToSet(SearchPath[i].dirs)
       /\ \A f, g \in MayStand(w) : {f[1], g[1]} \subseteq ToSet(SearchPath[i].dirs) /\ f[2] = g[2]
                                    => f = g
  /\ w.plain /\ w.lists \notin w.image =>
       \A n \in NamesTried, f \in MayStand(w), i \in DOMAIN SearchPath :
         f[1] \in ToSet(SearchPath[i].dirs) /\ f[2] \in ToSet(Suffixed(n)) =>
           f[2] = n /\ (SearchPath[i].kind = "listed" \/ f[1] = Here)

FinderAssumption ==
  NamesAssumption /\ PathAssumption /\ \A w \in Worlds : WorldAssumption(w)

-----------------------------------------------------------------------------
(* Properties.                                                             *)

\* The answer the tool, asked now, would lead to: the first name tried that
\* is in a directory looked in directly, was found before, or is found.
Of(name) == FirstFound(<<Direct(name), asking.remembered[name].path, Find(name, Now)>>)
Expected == FirstFound([i \in DOMAIN asking.all |-> Of(asking.all[i])])

\* Whoever answers -- the lists, the running child, one of its own, after a
\* silence, a death or a command -- the answer is the one the tool would give
\* if it were asked afresh, save that what was found once stays found
\* (engine.c: resolve_file, "a name it did not find is asked after again").
AnswersRight == phase = "told" => answer = Expected

\* Every question is answered, whatever the tool does or does not say.
EveryQuestionEnds == phase = "trying" ~> phase = "told"
=============================================================================
