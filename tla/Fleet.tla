------------------------------- MODULE Fleet -------------------------------
(***************************************************************************)
(* The parked fleet of src/engine.c, over many runs.                       *)
(*                                                                         *)
(* Run 0 parks the fleet: at page boundaries it forks copies of itself.    *)
(* When it ends each copy moves to a named pipe and sleeps there.  Every   *)
(* later run is served by the fleet: it unlinks what the run before left   *)
(* in the directory, rouses each sleeper through its pipe, and takes part  *)
(* in the relay.  A roused sleeper first forks its successor, which goes   *)
(* back to the pipe, and then works: it is the chunk of its page in that   *)
(* round.                                                                  *)
(*                                                                         *)
(* Module Relay looks into one round and at what the engines compute.      *)
(* Here every process and every file carries the round it belongs to, and  *)
(* what an engine computes is left open: two states may agree or not.      *)
(***************************************************************************)
EXTENDS Integers, FiniteSets, Sequences

CONSTANTS
    N,        \* how many page boundaries the parking run comes to
    Rounds,   \* bound: how many runs the fleet serves
    Faults    \* the mishaps that may happen

AllFaults ==
    { "unforked",  \* pipe or fork fails at a boundary
      "abandon",   \* a serving run fails or is killed before it assembles
      "linger",    \* a run begins before the chunks of the last have left
      "away",      \* a run begins before a sleeper is back on its pipe
      "die",       \* a chunk's patch fails
      "late",      \* a region is typeset before the next chunk has begun
      "race" }     \* two processes both find the fleet file missing

ASSUME NAssumption == N \in Nat
ASSUME RoundsAssumption == Rounds \in Nat
ASSUME FaultsAssumption == Faults \subseteq AllFaults

Boundaries == 1 .. N
End    == N + 1
Turns  == 1 .. Rounds
Procs  == (0 .. N) \X (0 .. Rounds)   \* <<0, t>> is run t, <<k, t>> a chunk
Chunks == Boundaries \X Turns
Run(t) == <<0, t>>
Absent == 0                           \* no file; else the round it is from

VARIABLES
    round,    \* the run that is under way or was the last
    parked,   \* parallel_pages, and the lines of pages.txt
    sleeper,  \* where the parked process of each page is
    pipe,     \* what has been written down its pipe and not been read
    todo,     \* the pages the run has still to release
    pc, at,   \* each process: where it is, the page it is at
    matched,  \* spec_chunk_stop's local
    entry, marker, valid, stale,   \* for each page: the file's round
    endDone,
    handedOff,\* the run's spec_finished
    there,    \* the fleet file exists under its name
    disk,     \* the regions of this round that stand in it
    published,\* history: the rounds whose files have been renamed
    mishaps   \* history: what has gone wrong

files  == <<entry, marker, valid, stale, endDone>>
output == <<there, disk, published>>
fleet  == <<parked, sleeper, pipe>>
vars   == <<round, fleet, todo, pc, at, matched, files, handedOff, output,
            mishaps>>

PC == { "none",
        "park",       \* run 0, typesetting and parking
        "gates",      \* run 0, waiting for every copy to report
        "release",    \* a serving run in spec_release_fleet
        "patching",   \* a chunk between its fork and its entry file
        "open",       \* about to open the fleet file that is there
        "create",     \* found none: about to create it
        "write", "marking", "waiting", "await", "carry", "finalize", "gone" }

Sleeping == { "none",
              "gate",        \* on the anonymous pipe of the parking run
              "away",        \* not, or not yet again, a reader of go-<P>
              "listening" }  \* a reader of go-<P>

Stamps == 0 .. Rounds

TypeOK ==
    /\ round \in 0 .. Rounds
    /\ parked \in SUBSET Boundaries
    /\ sleeper \in [Boundaries -> Sleeping]
    /\ pipe \in [Boundaries -> Seq(Turns)]
    /\ todo \in SUBSET parked
    /\ pc \in [Procs -> PC] /\ at \in [Procs -> 0 .. End]
    /\ matched \in [Chunks -> BOOLEAN]
    /\ entry \in [Boundaries -> Stamps] /\ marker \in [Boundaries -> Stamps]
    /\ valid \in [Boundaries -> Stamps] /\ stale \in [Boundaries -> Stamps]
    /\ endDone \in Stamps
    /\ handedOff \in BOOLEAN /\ there \in BOOLEAN
    /\ disk \in SUBSET (0 .. N)
    /\ published \in SUBSET Turns
    /\ mishaps \in SUBSET AllFaults

Init ==
    /\ round = 0
    /\ parked = {} /\ todo = {}
    /\ sleeper = [k \in Boundaries |-> "none"]
    /\ pipe = [k \in Boundaries |-> <<>>]
    /\ pc = [p \in Procs |-> IF p = Run(0) THEN "park" ELSE "none"]
    /\ at = [p \in Procs |-> p[1]]
    /\ matched = [c \in Chunks |-> FALSE]
    /\ entry = [k \in Boundaries |-> Absent] /\ marker = entry
    /\ valid = entry /\ stale = entry /\ endDone = Absent
    /\ handedOff = FALSE
    /\ there = FALSE /\ disk = {} /\ published = {}
    /\ mishaps = {}

-----------------------------------------------------------------------------
(* Helpers. *)

Least(S) == CHOOSE k \in S : \A j \in S : k <= j

\* Where a process that is at page k comes to next: a parked page or the end.
NextStop(k) == Least({q \in parked \cup {End} : q > k})

Exists(file, q) == q \in parked /\ file[q] # Absent

Moves(p, to) == pc' = [pc EXCEPT ![p] = to]

\* A chunk of an earlier round that has not left yet.
Lingering ==
    \/ \E c \in Chunks : pc[c] \notin {"none", "gone"}
    \/ \E k \in parked : pipe[k] # <<>>

-----------------------------------------------------------------------------
(* Run 0 parks the fleet. *)

\* park_a_chunk at a page boundary: fork a copy, or go on without one.
Park ==
    /\ pc[Run(0)] = "park" /\ at[Run(0)] < N
    /\ at' = [at EXCEPT ![Run(0)] = @ + 1]
    /\ LET k == at[Run(0)] + 1 IN
       \/ /\ parked' = parked \cup {k}
          /\ sleeper' = [sleeper EXCEPT ![k] = "gate"]
          /\ UNCHANGED mishaps
       \/ /\ "unforked" \in Faults
          /\ mishaps' = mishaps \cup {"unforked"}
          /\ UNCHANGED <<parked, sleeper>>
    /\ UNCHANGED <<round, pipe, todo, pc, matched, files, handedOff, output>>

\* hstex_engine_release_chunks: lay out the fleet file, write pages.txt and
\* open the gates; with nothing parked there is nothing to do.
OpenTheGates ==
    /\ pc[Run(0)] = "park" /\ at[Run(0)] = N
    /\ there' = (parked # {})
    /\ Moves(Run(0), IF parked = {} THEN "gone" ELSE "gates")
    /\ UNCHANGED <<round, fleet, todo, at, matched, files, handedOff, disk,
                   published, mishaps>>

\* A parked copy, its gate open: it reports and goes to its named pipe.
ReportIn(k) ==
    /\ pc[Run(0)] = "gates" /\ sleeper[k] = "gate"
    /\ sleeper' = [sleeper EXCEPT ![k] = "away"]
    /\ UNCHANGED <<round, parked, pipe, todo, pc, at, matched, files,
                   handedOff, output, mishaps>>

\* release_them_once has counted as many reports as there are copies.
AllReported ==
    /\ pc[Run(0)] = "gates"
    /\ \A k \in parked : sleeper[k] # "gate"
    /\ Moves(Run(0), "gone")
    /\ UNCHANGED <<round, fleet, todo, at, matched, files, handedOff, output,
                   mishaps>>

\* open(go-<P>, O_RDONLY): from here on the pipe has a reader.
Listen(k) ==
    /\ sleeper[k] = "away"
    /\ sleeper' = [sleeper EXCEPT ![k] = "listening"]
    /\ UNCHANGED <<round, parked, pipe, todo, pc, at, matched, files,
                   handedOff, output, mishaps>>

-----------------------------------------------------------------------------
(* A run that is served. *)

Unlinked(file) == [k \in Boundaries |-> IF k \in parked THEN Absent
                                                        ELSE file[k]]

\* Mutant of BeginRound: the markers of the round before are left.
BeginRoundOverMarkers ==
    /\ round < Rounds /\ parked # {}
    /\ pc[Run(round)] = "gone"
    /\ Lingering => "linger" \in Faults
    /\ round' = round + 1
    /\ todo' = parked
    /\ entry' = Unlinked(entry)
    /\ valid' = Unlinked(valid) /\ stale' = Unlinked(stale)
    /\ endDone' = Absent
    /\ handedOff' = FALSE
    /\ disk' = {}
    /\ Moves(Run(round + 1), "release")
    /\ mishaps' = mishaps \cup IF Lingering THEN {"linger"} ELSE {}
    /\ UNCHANGED <<fleet, at, matched, marker, there, published>>

\* hstex_engine_run, verifying: what the last round said is unlinked.
BeginRound ==
    /\ round < Rounds /\ parked # {}
    /\ pc[Run(round)] = "gone"
    /\ Lingering => "linger" \in Faults
    /\ round' = round + 1
    /\ todo' = parked
    /\ entry' = Unlinked(entry) /\ marker' = Unlinked(marker)
    /\ valid' = Unlinked(valid) /\ stale' = Unlinked(stale)
    /\ endDone' = Absent
    /\ handedOff' = FALSE
    /\ disk' = {}
    /\ Moves(Run(round + 1), "release")
    /\ mishaps' = mishaps \cup IF Lingering THEN {"linger"} ELSE {}
    /\ UNCHANGED <<fleet, at, matched, there, published>>

\* spec_release_fleet, page by page: down a pipe that has a reader goes the
\* patch; a pipe without one is passed over.
Release ==
    /\ pc[Run(round)] = "release" /\ todo # {}
    /\ LET k == Least(todo) IN
       /\ todo' = todo \ {k}
       /\ \/ /\ sleeper[k] = "listening"
             /\ pipe' = [pipe EXCEPT ![k] = Append(@, round)]
             /\ UNCHANGED mishaps
          \/ /\ sleeper[k] # "listening"
             /\ sleeper[k] = "away" => "away" \in Faults
             /\ mishaps' = mishaps \cup ({sleeper[k]} \cap {"away"})
             /\ UNCHANGED pipe
    /\ UNCHANGED <<round, parked, sleeper, pc, at, matched, files, handedOff,
                   output>>

\* All released: the run goes on to its first page, and opens its output.
AllReleased ==
    /\ pc[Run(round)] = "release" /\ todo = {}
    /\ Moves(Run(round), "open")
    /\ UNCHANGED <<round, fleet, todo, at, matched, files, handedOff, output,
                   mishaps>>

-----------------------------------------------------------------------------
(* A sleeper is roused, and its chunk begins. *)

\* Mutant of Rouse: no copy stays parked.
RouseForGood(k) ==
    /\ sleeper[k] = "listening" /\ pipe[k] # <<>>
    /\ Moves(<<k, Head(pipe[k])>>, "patching")
    /\ sleeper' = [sleeper EXCEPT ![k] = "none"]
    /\ pipe' = [pipe EXCEPT ![k] = <<>>]
    /\ UNCHANGED <<round, parked, todo, at, matched, files, handedOff,
                   output, mishaps>>

\* It reads one patch, closes the pipe and forks its successor before it
\* touches anything.  A second patch in the pipe is lost with the last
\* descriptor, or found by the successor.
Rouse(k) ==
    /\ sleeper[k] = "listening" /\ pipe[k] # <<>>
    /\ Moves(<<k, Head(pipe[k])>>, "patching")
    /\ sleeper' = [sleeper EXCEPT ![k] = "away"]
    /\ \E rest \in {<<>>, Tail(pipe[k])} : pipe' = [pipe EXCEPT ![k] = rest]
    /\ UNCHANGED <<round, parked, todo, at, matched, files, handedOff,
                   output, mishaps>>

\* apply_state_patch failed: the chunk exits.
PatchFails(c) ==
    /\ "die" \in Faults /\ pc[c] = "patching"
    /\ Moves(c, "gone")
    /\ mishaps' = mishaps \cup {"die"}
    /\ UNCHANGED <<round, fleet, todo, at, matched, files, handedOff, output>>

\* The chunk writes the state it begins in.
Enter(c) ==
    /\ pc[c] = "patching"
    /\ entry' = [entry EXCEPT ![c[1]] = c[2]]
    /\ Moves(c, "open")
    /\ UNCHANGED <<round, fleet, todo, at, matched, marker, valid, stale,
                   endDone, handedOff, output, mishaps>>

\* What a process does once it has its file: a chunk writes its region on a
\* guess, the run writes the first one as the truth.
Begun(p) == IF p[1] = 0 THEN "carry" ELSE "write"

\* redirect_to_the_fleet_file and the run's opening of its PDF: fopen "r+b".
OpenThere(p) ==
    /\ pc[p] = "open" /\ there
    /\ Moves(p, Begun(p))
    /\ UNCHANGED <<round, fleet, todo, at, matched, files, handedOff, output,
                   mishaps>>

FindNone(p) ==
    /\ pc[p] = "open" /\ ~there
    /\ "race" \notin Faults => \A q \in Procs : pc[q] # "create"
    /\ Moves(p, "create")
    /\ UNCHANGED <<round, fleet, todo, at, matched, files, handedOff, output,
                   mishaps>>

\* fopen "w+b": the file is made, or emptied if another made it meanwhile.
Create(p) ==
    /\ pc[p] = "create"
    /\ there' = TRUE /\ disk' = {}
    /\ mishaps' = mishaps \cup IF there THEN {"race"} ELSE {}
    /\ Moves(p, Begun(p))
    /\ UNCHANGED <<round, fleet, todo, at, matched, files, handedOff,
                   published>>

-----------------------------------------------------------------------------
(* A chunk reaches the page the next one began at. *)

\* The chunk of page q will begin in this round and has not yet.
Late(c, q) == q \in parked /\ pc[<<q, c[2]>>] \in {"none", "patching"}

\* spec_chunk_stop: flush, and compare with the next chunk's beginning.
ReachStop(c) ==
    /\ pc[c] = "write"
    /\ disk' = disk \cup {c[1]}
    /\ LET q == NextStop(c[1]) IN
       /\ "late" \notin Faults => ~Late(c, q)
       /\ mishaps' = mishaps \cup IF Late(c, q) THEN {"late"} ELSE {}
       /\ at' = [at EXCEPT ![c] = q]
       /\ \E m \in IF Exists(entry, q) THEN BOOLEAN ELSE {FALSE} :
             matched' = [matched EXCEPT ![c] = m]
    /\ Moves(c, "marking")
    /\ UNCHANGED <<round, fleet, todo, files, handedOff, there, published>>

WriteMarker(c) ==
    /\ pc[c] = "marking"
    /\ marker' = [marker EXCEPT ![c[1]] = c[2]]
    /\ Moves(c, "waiting")
    /\ UNCHANGED <<round, fleet, todo, at, matched, entry, valid, stale,
                   endDone, handedOff, output, mishaps>>

\* Told it is valid, by whatever file is there, and it matched: it passes the
\* baton on.  (matched implies that at[c] is a parked page.)
PassOn(c) ==
    /\ pc[c] = "waiting" /\ Exists(valid, c[1]) /\ matched[c]
    /\ valid' = [valid EXCEPT ![at[c]] = c[2]]
    /\ Moves(c, "gone")
    /\ UNCHANGED <<round, fleet, todo, at, matched, entry, marker, stale,
                   endDone, handedOff, output, mishaps>>

\* Valid, and the next chunk began elsewhere.
Disown(c) ==
    /\ pc[c] = "waiting" /\ Exists(valid, c[1]) /\ ~matched[c]
    /\ Exists(entry, at[c])
    /\ stale' = [stale EXCEPT ![at[c]] = c[2]]
    /\ Moves(c, "await")
    /\ UNCHANGED <<round, fleet, todo, at, matched, entry, marker, valid,
                   endDone, handedOff, output, mishaps>>

\* Valid, and no chunk has begun there; at the document's end it is done.
TakeBaton(c) ==
    /\ pc[c] = "waiting" /\ Exists(valid, c[1]) /\ ~matched[c]
    /\ ~Exists(entry, at[c])
    /\ IF at[c] = End
       THEN endDone' = c[2] /\ Moves(c, "gone")
       ELSE endDone' = endDone /\ Moves(c, "carry")
    /\ UNCHANGED <<round, fleet, todo, at, matched, entry, marker, valid,
                   stale, handedOff, output, mishaps>>

\* Stale: it leaves.
Retire(c) ==
    /\ pc[c] = "waiting"
    /\ Exists(stale, c[1]) /\ ~Exists(valid, c[1])
    /\ Moves(c, "gone")
    /\ UNCHANGED <<round, fleet, todo, at, matched, files, handedOff, output,
                   mishaps>>

-----------------------------------------------------------------------------
(* The carrier: the run itself, or a chunk that has the baton. *)

\* Mutant of Rewrite: the disowned chunk is not waited for.
RewriteAtOnce(p) ==
    /\ pc[p] = "await"
    /\ Moves(p, "carry")
    /\ UNCHANGED <<round, fleet, todo, at, matched, files, handedOff, output,
                   mishaps>>

Rewrite(p) ==
    /\ pc[p] = "await" /\ Exists(marker, at[p])
    /\ Moves(p, "carry")
    /\ UNCHANGED <<round, fleet, todo, at, matched, files, handedOff, output,
                   mishaps>>

\* Mutant of Confer: the carrier goes on carrying.
ConferAndStay(p) ==
    /\ pc[p] = "carry"
    /\ LET q == NextStop(at[p]) IN
       /\ Exists(entry, q)
       /\ disk' = disk \cup {at[p]}
       /\ valid' = [valid EXCEPT ![q] = p[2]]
       /\ at' = [at EXCEPT ![p] = q]
    /\ UNCHANGED <<round, fleet, todo, pc, matched, entry, marker, stale,
                   endDone, handedOff, there, published, mishaps>>

\* spec_carrier_boundary, equal.
Confer(p) ==
    /\ pc[p] = "carry"
    /\ LET q == NextStop(at[p]) IN
       /\ Exists(entry, q)
       /\ disk' = disk \cup {at[p]}
       /\ valid' = [valid EXCEPT ![q] = p[2]]
       /\ at' = [at EXCEPT ![p] = q]
    /\ IF p[1] = 0 THEN handedOff' = TRUE /\ Moves(p, "finalize")
                   ELSE handedOff' = handedOff /\ Moves(p, "gone")
    /\ UNCHANGED <<round, fleet, todo, matched, entry, marker, stale,
                   endDone, there, published, mishaps>>

\* spec_carrier_boundary, not equal (tainted and missing entries included).
Overrule(p) ==
    /\ pc[p] = "carry"
    /\ LET q == NextStop(at[p]) IN
       /\ q \in parked
       /\ disk' = disk \cup {at[p]}
       /\ stale' = [stale EXCEPT ![q] = p[2]]
       /\ at' = [at EXCEPT ![p] = q]
    /\ Moves(p, "await")
    /\ UNCHANGED <<round, fleet, todo, matched, entry, marker, valid,
                   endDone, handedOff, there, published, mishaps>>

\* hstex_engine_run: the carrier has come to the document's end.
RunOut(p) ==
    /\ pc[p] = "carry" /\ NextStop(at[p]) = End
    /\ disk' = disk \cup {at[p]}
    /\ at' = [at EXCEPT ![p] = End]
    /\ IF p[1] = 0 THEN endDone' = endDone /\ Moves(p, "finalize")
                   ELSE endDone' = p[2] /\ Moves(p, "gone")
    /\ UNCHANGED <<round, fleet, todo, matched, entry, marker, valid, stale,
                   handedOff, there, published, mishaps>>

\* Mutant of Finalize: no waiting behind a stale tail.
FinalizeEarly ==
    /\ pc[Run(round)] = "finalize"
    /\ \A k \in parked : /\ Exists(valid, k) \/ Exists(stale, k)
                         /\ Exists(marker, k)
    /\ there' = FALSE
    /\ published' = published \cup {round}
    /\ Moves(Run(round), "gone")
    /\ UNCHANGED <<round, fleet, todo, at, matched, files, handedOff, disk,
                   mishaps>>

\* spec_finalize: every verdict, every marker, and behind a stale tail the
\* end; then the fleet copies are renamed and the run is over.
Finalize ==
    /\ pc[Run(round)] = "finalize"
    /\ \A k \in parked : /\ Exists(valid, k) \/ Exists(stale, k)
                         /\ Exists(marker, k)
    /\ (handedOff /\ \E k \in parked : NextStop(k) = End /\ Exists(stale, k))
          => endDone # Absent
    /\ there' = FALSE
    /\ published' = published \cup {round}
    /\ Moves(Run(round), "gone")
    /\ UNCHANGED <<round, fleet, todo, at, matched, files, handedOff, disk,
                   mishaps>>

\* An error ends the run (hstex_engine_run returns -1), or it is killed.
Abandon ==
    /\ "abandon" \in Faults
    /\ pc[Run(round)] \in {"release", "open", "create", "carry", "await",
                           "finalize"}
    /\ Moves(Run(round), "gone")
    /\ todo' = {}
    /\ mishaps' = mishaps \cup {"abandon"}
    /\ UNCHANGED <<round, fleet, at, matched, files, handedOff, output>>

-----------------------------------------------------------------------------
RunStep ==
    \/ Park \/ OpenTheGates \/ AllReported
    \/ Release \/ AllReleased \/ Finalize

SleeperStep(k) == ReportIn(k) \/ Listen(k) \/ Rouse(k)

ChunkStep(c) ==
    \/ Enter(c) \/ ReachStop(c) \/ WriteMarker(c)
    \/ PassOn(c) \/ Disown(c) \/ TakeBaton(c) \/ Retire(c)

WriterStep(p) ==
    \/ OpenThere(p) \/ FindNone(p) \/ Create(p)
    \/ Rewrite(p) \/ Confer(p) \/ Overrule(p) \/ RunOut(p)

Next ==
    \/ RunStep \/ BeginRound \/ Abandon
    \/ \E k \in Boundaries : SleeperStep(k)
    \/ \E c \in Chunks : ChunkStep(c) \/ PatchFails(c)
    \/ \E p \in Procs : WriterStep(p)

Spec == Init /\ [][Next]_vars

(* Processes of the operating system go on whenever they can.  Nobody owes  *)
(* the fleet another run, and no mishap is ever owed.                       *)
Fairness ==
    /\ WF_vars(RunStep)
    /\ \A k \in Boundaries : WF_vars(SleeperStep(k))
    /\ \A c \in Chunks : WF_vars(ChunkStep(c))
    /\ \A p \in Procs : WF_vars(WriterStep(p))

FairSpec == Spec /\ Fairness

-----------------------------------------------------------------------------
(* What the fleet promises. *)

\* Who carries the truth: "there is exactly one carrier at any moment" (the
\* comment above spec_path).
Carriers == {p \in Procs : \/ pc[p] \in {"carry", "await"}
                           \/ pc[p] \in {"open", "create"} /\ p[1] = 0}

OneCarrier == Cardinality(Carriers) <= 1

\* What a process reads in the directory was said in this round: nothing a
\* round left is taken for an answer in the next.
ThisRoundsFiles ==
    \A k \in parked : {entry[k], marker[k], valid[k], stale[k], endDone}
                          \subseteq {Absent, round}

\* A chunk's marker means what it says: what the chunk wrote is in the fleet
\* file and stays there, whoever else opens or makes that file.
MarkedIsKept ==
    "race" \notin mishaps =>
       \A k \in parked : Exists(marker, k) => k \in disk

\* Whatever stands in the directory is true, and of this round (park_a_chunk,
\* fleet_round_begin, pdf_open).
DirectorySpeaksTrue == ThisRoundsFiles /\ MarkedIsKept

\* When a round has been published nobody of it is writing: the file that was
\* renamed is complete.
NobodyWritesAfterIt ==
    \A t \in published : \A k \in Boundaries :
       pc[<<k, t>>] \in {"none", "waiting", "gone"}

\* The fleet serves run after run: a run that begins comes to its end, as
\* long as no chunk dies, is late or is passed over.
EveryRoundEnds ==
    \A t \in Turns :
       (pc[Run(t)] = "release")
          ~> (pc[Run(t)] = "gone" \/ mishaps \cap {"die", "away", "late"} # {})

=============================================================================
